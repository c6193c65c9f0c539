------------------------------- MODULE Sandbox -------------------------------
(***************************************************************************)
(* The sandbox pool and the validation gate on top of it: threads of one   *)
(* or more processes that share the two snapshot files in the home         *)
(* directory, a snapshot and a cached machine per process, and the         *)
(* hypervisor, which allows a process one machine.  A snapshot is two      *)
(* files, written one after the other and in place; a machine takes its    *)
(* registers from the first, as the pool read it once, and its memory from *)
(* a private mapping of the second, page by page as it runs.               *)
(*                                                                         *)
(* The hypervisor takes calls about a machine from the thread that made it *)
(* and may refuse any other's; what it does then is outside the code, so   *)
(* either is possible.                                                     *)
(***************************************************************************)
EXTENDS Integers, FiniteSets, SequencesExt

CONSTANTS
  Procs, Threads,
  Home,        \* the process of a thread
  Releasers,   \* threads that use the crate directly: release(), invalidate_cache()
  MaxSaves,    \* bound: boots that get to writing a snapshot
  MaxMishaps   \* bound: processes killed and calls of invalidate_cache()

ASSUME SandboxAssumption ==
  /\ Home \in [Threads -> Procs]
  /\ Releasers \subseteq Threads
  /\ {MaxSaves, MaxMishaps} \subseteq Nat
  /\ Threads \cap {"POOL", "nobody", "LOST"} = {}

None == 0          \* no file, no snapshot, no process of the hypervisor
Torn == -1         \* content that was cut off or is being written
Old  == -2         \* metadata of an earlier version, without file system state
Builds == 1 .. MaxSaves
Inodes == 1 .. 2 * MaxSaves + 2
Meta == "snapshot.meta"
Mem  == "snapshot.mem"
Nobody == "nobody"

VARIABLES
  name,     \* the directory: Meta and Mem to an inode, or None
  content,  \* inode -> the boot it comes from, or Torn, or Old
  shared,   \* inodes that two writers had open at once
  saves,    \* boots that got to writing
  pool,     \* process -> [snap, cached, holder]: OnceLock, cached_vm and its mutex
  hv,       \* process -> the thread that owns its one machine, POOL, Nobody if there
            \* is none, LOST if there is one that nobody owns
  pc, my,   \* thread -> where it is, what its locals hold
  mishaps,
  trouble   \* history: a snapshot was written under somebody's feet or left torn

disk == <<name, content, shared, saves>>
vars == <<disk, pool, hv, pc, my, mishaps, trouble>>

Pool == "POOL"
Lost == "LOST"
NoMachine == [regs |-> None, inode |-> None, users |-> {}, maker |-> Nobody]
Fresh == [build |-> None, fd |-> None, snap |-> None, inode |-> None, vm |-> NoMachine]
EmptyPool == [snap |-> None, cached |-> NoMachine, holder |-> Nobody]

p(t) == Home[t]
Goto(t, l) == pc' = [pc EXCEPT ![t] = l]
At(t, l) == pc[t] = l

Saving(t) == pc[t] \in {"metaOpen", "saveMem", "memOpen"}
Busy(t)   == pc[t] # "idle"
Overlap == \E t, u \in Threads : t # u /\ Saving(t) /\ (Busy(u) \/ (p(u) # p(t) /\ pool[p(u)].snap # None))
LeftHalf ==
  /\ name[Meta] # None /\ name[Mem] # None
  /\ content[name[Meta]] \in Builds /\ content[name[Mem]] # content[name[Meta]]
  /\ ~\E t \in Threads : Saving(t)

-----------------------------------------------------------------------------
(* Files.                                                                  *)

\* A file is a new inode when its name has none; the boot that creates it tells them apart.
NewInode(build, f) == IF f = Meta THEN 2 * build + 1 ELSE 2 * build + 2

\* std::fs::write(): opens and truncates the file of that name, then fills it.
Truncate(t, f, build) ==
  LET i == IF name[f] = None THEN NewInode(build, f) ELSE name[f] IN
    /\ name' = [name EXCEPT ![f] = i]
    /\ content' = [content EXCEPT ![i] = Torn]
    /\ shared' = IF \E u \in Threads \ {t} : my[u].fd = i THEN shared \cup {i} ELSE shared \ {i}

\* Small files are written at once; two writers of a large one may leave a mixture.
Fill(t, f) ==
  LET i == my[t].fd IN
    \E c \in {my[t].build} \cup (IF f = Mem /\ i \in shared THEN {Torn} ELSE {}) :
      content' = [content EXCEPT ![i] = c]

Unlink(f) == name' = [name EXCEPT ![f] = None]

-----------------------------------------------------------------------------
(* A validation.  Leave(t): every way out, with a verdict or an error,      *)
(* drops what the thread owns.                                             *)

Unowned(t) == IF hv[p(t)] = t THEN [hv EXCEPT ![p(t)] = Nobody] ELSE hv

\* Mutant of Dropped: the fields of a machine in the other order, its vCPU last, with
\* which the machine cannot be destroyed.
DroppedVmFirst(t, vm) == IF vm.maker = Nobody THEN {Nobody} ELSE {Lost}

\* Drop of a machine ignores that its vCPU, and with it the machine, cannot be
\* destroyed: on a thread that did not make it, it may stay.
Dropped(t, vm) == IF vm.maker \in {t, Nobody} THEN {Nobody} ELSE {Nobody, Lost}

Leave(t) ==
  /\ Goto(t, "idle")
  /\ my' = [my EXCEPT ![t] = Fresh]
  /\ IF hv[p(t)] = t THEN \E left \in Dropped(t, my[t].vm) : hv' = [hv EXCEPT ![p(t)] = left]
     ELSE hv' = hv

Rest == UNCHANGED mishaps

\* run_sandbox_validation() of a directory with a project, and acquire().
Start(t) ==
  /\ At(t, "idle")
  /\ Goto(t, IF pool[p(t)].snap = None THEN "look" ELSE "lock")
  /\ UNCHANGED <<disk, pool, hv, my>> /\ Rest

\* Mutant of Look: metadata that exists is as good as metadata that loads.
LookCareless(t) ==
  /\ At(t, "look")
  /\ IF name[Meta] # None /\ name[Mem] # None
     THEN Goto(t, "share") /\ my' = [my EXCEPT ![t].snap = content[name[Meta]]]
     ELSE Goto(t, "boot") /\ UNCHANGED my
  /\ UNCHANGED <<disk, pool, hv>> /\ Rest

\* ensure_snapshot(): the pair on disk is taken if both files exist and the first loads.
Look(t) ==
  /\ At(t, "look")
  /\ IF name[Meta] # None /\ name[Mem] # None
     THEN IF content[name[Meta]] \in Builds
          THEN Goto(t, "share") /\ my' = [my EXCEPT ![t].snap = content[name[Meta]]]
          ELSE Goto(t, "dropMeta") /\ UNCHANGED my
     ELSE Goto(t, "boot") /\ UNCHANGED my
  /\ UNCHANGED <<disk, pool, hv>> /\ Rest

DropStale(t) ==
  /\ \/ At(t, "dropMeta") /\ Unlink(Meta) /\ Goto(t, "dropMem")
     \/ At(t, "dropMem") /\ Unlink(Mem) /\ Goto(t, "boot")
  /\ UNCHANGED <<content, shared, saves, pool, hv, my>> /\ Rest

\* boot(): a second machine in the process is an error.
Boot(t) ==
  /\ At(t, "boot")
  /\ IF hv[p(t)] # Nobody THEN Leave(t)
     ELSE hv' = [hv EXCEPT ![p(t)] = t] /\ Goto(t, "booting") /\ UNCHANGED my
  /\ UNCHANGED <<disk, pool>> /\ Rest

\* The marker within 30 seconds, and the metadata file is opened; or not.
Marker(t) ==
  /\ At(t, "booting")
  /\ \/ /\ saves < MaxSaves
        /\ saves' = saves + 1
        /\ Truncate(t, Meta, saves + 1)
        /\ my' = [my EXCEPT ![t].build = saves + 1, ![t].fd = name'[Meta]]
        /\ Goto(t, "metaOpen")
        /\ UNCHANGED hv
     \/ Leave(t) /\ UNCHANGED disk
  /\ UNCHANGED pool /\ Rest

SaveMeta(t) ==
  /\ At(t, "metaOpen")
  /\ Fill(t, Meta)
  /\ my' = [my EXCEPT ![t].fd = None]
  /\ Goto(t, "saveMem")
  /\ UNCHANGED <<name, shared, saves, pool, hv>> /\ Rest

OpenMem(t) ==
  /\ At(t, "saveMem")
  /\ Truncate(t, Mem, my[t].build)
  /\ my' = [my EXCEPT ![t].fd = name'[Mem]]
  /\ Goto(t, "memOpen")
  /\ UNCHANGED <<saves, pool, hv>> /\ Rest

\* Mutant of SaveMem: the machine that booted is kept.
SaveMemKeeping(t) ==
  /\ At(t, "memOpen")
  /\ Fill(t, Mem)
  /\ my' = [my EXCEPT ![t].fd = None, ![t].build = None, ![t].snap = my[t].build]
  /\ Goto(t, "share")
  /\ UNCHANGED <<name, shared, saves, pool, hv>> /\ Rest

\* The machine that booted is dropped once its memory is on disk.
SaveMem(t) ==
  /\ At(t, "memOpen")
  /\ Fill(t, Mem)
  /\ my' = [my EXCEPT ![t].fd = None, ![t].build = None, ![t].snap = my[t].build]
  /\ hv' = Unowned(t)
  /\ Goto(t, "share")
  /\ UNCHANGED <<name, shared, saves, pool>> /\ Rest

\* A full disk, at any of the writes.
SaveFails(t) ==
  /\ pc[t] \in {"metaOpen", "saveMem", "memOpen"}
  /\ Leave(t)
  /\ UNCHANGED <<disk, pool>> /\ Rest

\* get_or_init(): the first thread's snapshot stays.
Share(t) ==
  /\ At(t, "share")
  /\ pool' = [pool EXCEPT ![p(t)].snap = IF @ = None THEN my[t].snap ELSE @]
  /\ my' = [my EXCEPT ![t].snap = None]
  /\ Goto(t, "lock")
  /\ UNCHANGED <<disk, hv>> /\ Rest

Lock(t) ==
  /\ At(t, "lock")
  /\ pool[p(t)].holder = Nobody
  /\ pool' = [pool EXCEPT ![p(t)].holder = t]
  /\ Goto(t, "take")
  /\ UNCHANGED <<disk, hv, my>> /\ Rest

Unlock(t) == pool' = [pool EXCEPT ![p(t)].holder = Nobody]

\* A machine that starts from the pool's registers and the mapped inode, made by u.
Machine(t, i, u) == [regs |-> pool[p(t)].snap, inode |-> i, users |-> {}, maker |-> u]

\* Mutant of Take: the cached machine is handed out as it is.
TakeUsed(t) ==
  /\ At(t, "take")
  /\ IF pool[p(t)].cached # NoMachine
     THEN /\ pool' = [pool EXCEPT ![p(t)].cached = NoMachine, ![p(t)].holder = Nobody]
          /\ hv' = [hv EXCEPT ![p(t)] = t]
          /\ Goto(t, "mount") /\ my' = [my EXCEPT ![t].vm = pool[p(t)].cached]
     ELSE IF name[Mem] = None THEN Unlock(t) /\ Leave(t)
     ELSE my' = [my EXCEPT ![t].inode = name[Mem]] /\ Goto(t, "create") /\ UNCHANGED <<pool, hv>>
  /\ UNCHANGED disk /\ Rest

\* Mutant of Take: the mutex stays locked when the memory file is gone.
TakeLocked(t) ==
  /\ At(t, "take")
  /\ IF name[Mem] = None THEN pool' = [pool EXCEPT ![p(t)].cached = NoMachine] /\ Leave(t)
     ELSE my' = [my EXCEPT ![t].inode = name[Mem]] /\ Goto(t, "create") /\ UNCHANGED <<pool, hv>>
  /\ UNCHANGED disk /\ Rest

\* Under the mutex: the cached machine is reset, and dropped if that fails; the vCPU
\* stays the one it was.  Without one the memory file is mapped for a new machine.
Take(t) ==
  /\ At(t, "take")
  /\ IF pool[p(t)].cached # NoMachine
     THEN /\ pool' = [pool EXCEPT ![p(t)].cached = NoMachine, ![p(t)].holder = Nobody]
          /\ \/ /\ name[Mem] # None
                /\ hv' = [hv EXCEPT ![p(t)] = t]
                /\ Goto(t, "mount")
                /\ my' = [my EXCEPT ![t].vm = Machine(t, name[Mem], pool[p(t)].cached.maker)]
             \/ /\ Goto(t, "idle") /\ my' = [my EXCEPT ![t] = Fresh]
                /\ \E left \in Dropped(t, pool[p(t)].cached) : hv' = [hv EXCEPT ![p(t)] = left]
     ELSE IF name[Mem] = None THEN Unlock(t) /\ Leave(t)
     ELSE my' = [my EXCEPT ![t].inode = name[Mem]] /\ Goto(t, "create") /\ UNCHANGED <<pool, hv>>
  /\ UNCHANGED disk /\ Rest

\* fork_from() after its mapping.
Create(t) ==
  /\ At(t, "create")
  /\ Unlock(t)
  /\ IF hv[p(t)] # Nobody THEN Leave(t)
     ELSE /\ hv' = [hv EXCEPT ![p(t)] = t]
          /\ my' = [my EXCEPT ![t].inode = None, ![t].vm = Machine(t, my[t].inode, t)]
          /\ Goto(t, "mount")
  /\ UNCHANGED disk /\ Rest

\* start_session(): set_root() and mount_workspace.
Mount(t) ==
  /\ At(t, "mount")
  /\ t \notin Releasers
  /\ \/ /\ my' = [my EXCEPT ![t].vm.users = @ \cup {t}]
        /\ \E first \in {"check", "test"} : Goto(t, first)
        /\ UNCHANGED hv
     \/ Leave(t)
  /\ UNCHANGED <<disk, pool>> /\ Rest

\* cargo check before cargo test, npm test alone; a failure, an error and a timeout
\* end the session like a success of the last command.
Command(t) ==
  /\ pc[t] \in {"check", "test"}
  /\ \/ At(t, "check") /\ Goto(t, "test") /\ UNCHANGED <<my, hv>>
     \/ Leave(t)
  /\ UNCHANGED <<disk, pool>> /\ Rest

\* A direct user of the pool runs what it likes and gives the machine back.
Release(t) ==
  /\ At(t, "mount")
  /\ t \in Releasers
  /\ pool[p(t)].holder = Nobody
  /\ pool' = [pool EXCEPT ![p(t)].cached = [my[t].vm EXCEPT !.users = @ \cup {t}]]
  /\ hv' = [hv EXCEPT ![p(t)] = Pool]
  /\ Goto(t, "idle")
  /\ my' = [my EXCEPT ![t] = Fresh]
  /\ UNCHANGED disk /\ Rest

\* invalidate_cache(): metadata first.
Invalidate(t) ==
  /\ At(t, "idle")
  /\ t \in Releasers
  /\ mishaps < MaxMishaps
  /\ mishaps' = mishaps + 1
  /\ Unlink(Meta)
  /\ Goto(t, "invalidate")
  /\ UNCHANGED <<content, shared, saves, pool, hv, my>>

InvalidateMem(t) ==
  /\ At(t, "invalidate")
  /\ Unlink(Mem)
  /\ Goto(t, "idle")
  /\ UNCHANGED <<content, shared, saves, pool, hv, my>> /\ Rest

\* A process is killed; what it was writing stays as far as it got.
Crash(q) ==
  LET dead == {t \in Threads : p(t) = q} IN
    /\ mishaps < MaxMishaps
    /\ mishaps' = mishaps + 1
    /\ pool' = [pool EXCEPT ![q] = EmptyPool]
    /\ hv' = [hv EXCEPT ![q] = Nobody]
    /\ pc' = [t \in Threads |-> IF t \in dead THEN "idle" ELSE pc[t]]
    /\ my' = [t \in Threads |-> IF t \in dead THEN Fresh ELSE my[t]]
    /\ UNCHANGED disk

-----------------------------------------------------------------------------

Disks == {"nothing", "old", "memory alone"}

Init ==
  /\ \E d \in Disks :
       /\ name = [f \in {Meta, Mem} |->
                    CASE d = "nothing" -> None
                      [] d = "old" -> IF f = Meta THEN 1 ELSE 2
                      [] d = "memory alone" -> IF f = Meta THEN None ELSE 2]
       /\ content = [i \in Inodes |-> IF i \in {name[Meta], name[Mem]} THEN Old ELSE None]
  /\ shared = {}
  /\ saves = 0
  /\ pool = [q \in Procs |-> EmptyPool]
  /\ hv = [q \in Procs |-> Nobody]
  /\ pc = [t \in Threads |-> "idle"]
  /\ my = [t \in Threads |-> Fresh]
  /\ mishaps = 0
  /\ trouble = FALSE

Step(t) ==
  \/ Look(t) \/ DropStale(t) \/ Boot(t) \/ Marker(t) \/ SaveMeta(t) \/ OpenMem(t) \/ SaveMem(t)
  \/ SaveFails(t) \/ Share(t) \/ Lock(t) \/ Take(t) \/ Create(t) \/ Mount(t) \/ Command(t) \/ Release(t)
  \/ InvalidateMem(t)

Observe == trouble' = (trouble \/ Overlap' \/ LeftHalf' \/ \E t \in Threads : pc'[t] = "invalidate")

Next ==
  /\ \/ \E t \in Threads : Start(t) \/ Step(t) \/ Invalidate(t)
     \/ \E q \in Procs : Crash(q)
  /\ Observe

Spec == Init /\ [][Next]_vars

\* Every thread gets on: a boot and every command end by their timeout, and a
\* mutex that is free again and again is taken at last.
Fairness == \A t \in Threads : SF_vars(Step(t) /\ Observe)

FairSpec == Spec /\ Fairness

-----------------------------------------------------------------------------
(* Properties.                                                             *)

Machines == [regs : 0 .. MaxSaves, inode : {None} \cup Inodes, users : SUBSET Threads,
             maker : Threads \cup {Nobody}]
Locals == [build : 0 .. MaxSaves, fd : {None} \cup Inodes,
           snap : 0 .. MaxSaves, inode : {None} \cup Inodes, vm : Machines]
Places == {"idle", "look", "dropMeta", "dropMem", "boot", "booting", "metaOpen", "saveMem", "memOpen",
           "share", "lock", "take", "create", "mount", "check", "test", "invalidate"}

\* The variables range over what the code can put in them.
TypeOK ==
  /\ name \in [{Meta, Mem} -> {None} \cup Inodes]
  /\ content \in [Inodes -> {None, Torn, Old} \cup Builds]
  /\ shared \subseteq Inodes
  /\ saves \in 0 .. MaxSaves
  /\ pool \in [Procs -> [snap : 0 .. MaxSaves, cached : Machines, holder : Threads \cup {Nobody}]]
  /\ hv \in [Procs -> Threads \cup {Pool, Nobody, Lost}]
  /\ pc \in [Threads -> Places]
  /\ my \in [Threads -> Locals]
  /\ mishaps \in 0 .. MaxMishaps
  /\ trouble \in BOOLEAN

Runs(t) == my[t].vm # NoMachine

\* The registers a machine started from and the memory it runs on are of one boot.
MachineWhole == \A t \in Threads : Runs(t) => content[my[t].vm.inode] = my[t].vm.regs

\* That can only fail after a snapshot was written while another thread was using
\* or looking for one, a writer stopped between its two files, or the cache was
\* invalidated: in every other history each machine is whole.
WholeUnlessTrouble == ~trouble => MachineWhole

\* A validation runs on a machine that nobody used since its last reset, whoever
\* returned it to the pool before: no overlay, no process of an earlier session.
SessionsAreSeparate ==
  \A t \in Threads :
    /\ At(t, "mount") => my[t].vm.users = {}
    /\ pc[t] \in {"check", "test"} => my[t].vm.users = {t}

\* The one machine a process may have belongs to a thread that still needs it or to
\* the pool: no way out, by error or timeout, leaves the process without sandboxes,
\* unless one thread gives its machines back and another takes them.
MachineOwned ==
  \A q \in Procs :
    /\ hv[q] \in Threads =>
         Runs(hv[q]) \/ pc[hv[q]] \in {"booting", "metaOpen", "saveMem", "memOpen"}
    /\ (hv[q] = Pool) = (pool[q].cached # NoMachine)
    /\ \A t \in Threads : Runs(t) /\ p(t) = q => hv[q] = t
    /\ hv[q] = Lost => \E t \in Releasers, u \in Threads : t # u /\ p(t) = q /\ p(u) = q

\* "The pool contract ensures: acquire() caller uses the VM exclusively on one thread,
\* then returns it via release(). reset() destroys/recreates vCPU state in-place"
\* (hvf.rs:259): a machine given back by one thread can be taken, and dropped, by
\* another.  reset() keeps the vCPU of the thread that made it; refuted by a run.
NoMachineLost == \A q \in Procs : hv[q] # Lost

\* Every validation ends, with a verdict or an error, through waits for the pool's
\* mutex, failing boots and lost machines.
ValidationEnds == \A t \in Threads : Busy(t) ~> ~Busy(t)
=============================================================================
