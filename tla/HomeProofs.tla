----------------------------- MODULE HomeProofs -----------------------------
(***************************************************************************)
(* What processes of one user share: the snapshot of the sandbox pool.     *)
(***************************************************************************)
EXTENDS Sandbox, TLAPS

Booting(t) == pc[t] \in {"booting", "metaOpen", "saveMem", "memOpen"}
Running(t) == pc[t] \in {"mount", "check", "test"}

\* The two files never share an inode; only a writer has a file open, and a writer has
\* a number of its own; a snapshot is loaded by somebody.
FilesInv ==
  /\ \A f \in {Meta, Mem} : name[f] # None => \E b \in 0 .. MaxSaves : name[f] = NewInode(b, f)
  /\ \A t \in Threads :
       /\ my[t].fd # None => pc[t] \in {"metaOpen", "memOpen"}
       /\ my[t].snap # None => pc[t] = "share"
       /\ Saving(t) => my[t].build \in Builds
  /\ \A q \in Procs : pool[q].snap # None => \E t \in Threads : p(t) = q

\* A machine is booted or run by the thread that owns the one of its process.
OwnInv ==
  /\ \A t \in Threads :
       /\ Running(t) <=> Runs(t)
       /\ Booting(t) \/ Running(t) => hv[p(t)] = t
       /\ pc[t] = "create" => my[t].inode # None
       /\ pc[t] = "mount" => my[t].vm.users = {}
       /\ pc[t] \in {"check", "test"} => my[t].vm.users = {t}
  /\ \A q \in Procs :
       /\ hv[q] \in Threads => p(hv[q]) = q /\ (Booting(hv[q]) \/ Running(hv[q]))
       /\ hv[q] = Pool <=> pool[q].cached # NoMachine

LEMMA Constants ==
  /\ None = 0 /\ Torn = -1 /\ Old = -2
  /\ Builds \subseteq 0 .. MaxSaves /\ None \notin Builds /\ Torn \notin Builds /\ Old \notin Builds
  /\ Nobody \notin Threads /\ Pool \notin Threads /\ Lost \notin Threads
  /\ Nobody # Pool /\ Lost # Pool /\ Lost # Nobody
  /\ \A t \in Threads : p(t) \in Procs
  /\ NoMachine \in Machines /\ Fresh \in Locals
  /\ EmptyPool \in [snap : 0 .. MaxSaves, cached : Machines, holder : Threads \cup {Nobody}]
  /\ MaxSaves \in Nat /\ MaxMishaps \in Nat
  /\ Meta # Mem
BY SandboxAssumption DEF None, Torn, Old, Builds, Nobody, Pool, Lost, p, NoMachine, Machines, Fresh, Locals,
   EmptyPool, Meta, Mem

LEMMA Inode ==
  ASSUME NEW b \in 0 .. MaxSaves, NEW f \in {Meta, Mem}
  PROVE  NewInode(b, f) \in Inodes /\ NewInode(b, f) # None
BY SandboxAssumption DEF NewInode, Inodes, None

LEMMA TypeInit == Init => TypeOK /\ FilesInv /\ OwnInv
<1> SUFFICES ASSUME Init PROVE TypeOK /\ FilesInv /\ OwnInv
  OBVIOUS
<1>1. PICK d \in Disks :
       /\ name = [f \in {Meta, Mem} |->
                    CASE d = "nothing" -> None
                      [] d = "old" -> IF f = Meta THEN 1 ELSE 2
                      [] d = "memory alone" -> IF f = Meta THEN None ELSE 2]
       /\ content = [i \in Inodes |-> IF i \in {name[Meta], name[Mem]} THEN Old ELSE None]
  BY DEF Init
<1>2. 1 \in Inodes /\ 2 \in Inodes /\ 0 \in 0 .. MaxSaves
  BY Constants DEF Inodes
<1>3. /\ name \in [{Meta, Mem} -> {None} \cup Inodes]
      /\ name[Meta] \in {None, 1} /\ name[Mem] \in {None, 2}
  BY <1>1, <1>2, Constants DEF Disks
<1>4. content \in [Inodes -> {None, Torn, Old} \cup Builds]
  BY <1>1
<1>5. TypeOK
  <2>1. /\ pool \in [Procs -> [snap : 0 .. MaxSaves, cached : Machines, holder : Threads \cup {Nobody}]]
        /\ hv \in [Procs -> Threads \cup {Pool, Nobody, Lost}]
        /\ my \in [Threads -> Locals]
    BY Constants DEF Init
  <2>2. pc \in [Threads -> Places]
    BY DEF Init, Places
  <2>3. saves \in 0 .. MaxSaves /\ mishaps \in 0 .. MaxMishaps
    <3>1. saves = 0 /\ mishaps = 0
      BY DEF Init
    <3> QED
      BY <3>1, Constants
  <2>5. shared \subseteq Inodes
    BY DEF Init
  <2>4. trouble \in BOOLEAN
    BY DEF Init
  <2> QED
    BY <1>3, <1>4, <2>1, <2>2, <2>3, <2>4, <2>5 DEF TypeOK
<1>6. FilesInv
  <2>1. NewInode(0, Meta) = 1 /\ NewInode(0, Mem) = 2
    BY Constants DEF NewInode
  <2> QED
    BY <1>2, <1>3, <2>1, Constants DEF Init, FilesInv, Fresh, EmptyPool, Saving
<1>7. OwnInv
  <2>1. \A t \in Threads : pc[t] = "idle" /\ my[t] = Fresh
    BY DEF Init
  <2>2. \A q \in Procs : hv[q] = Nobody /\ pool[q] = EmptyPool
    BY DEF Init
  <2> QED
    BY <2>1, <2>2, Constants DEF OwnInv, Running, Booting, Runs, Fresh, EmptyPool
<1> QED
  BY <1>5, <1>6, <1>7

\* Cutting off and filling a file.
LEMMA FileTypes ==
  ASSUME TypeOK, NEW t \in Threads, NEW f \in {Meta, Mem}, NEW b \in 0 .. MaxSaves
  PROVE  /\ Truncate(t, f, b) => /\ name' \in [{Meta, Mem} -> {None} \cup Inodes]
                                 /\ name'[f] \in Inodes
                                 /\ content' \in [Inodes -> {None, Torn, Old} \cup Builds]
                                 /\ shared' \subseteq Inodes
         /\ my[t].build \in Builds /\ Fill(t, f) =>
              content' \in [Inodes -> {None, Torn, Old} \cup Builds]
         /\ Unlink(f) => name' \in [{Meta, Mem} -> {None} \cup Inodes]
<1>1. ASSUME Truncate(t, f, b)
      PROVE  /\ name' \in [{Meta, Mem} -> {None} \cup Inodes] /\ name'[f] \in Inodes
             /\ content' \in [Inodes -> {None, Torn, Old} \cup Builds] /\ shared' \subseteq Inodes
  <2> DEFINE i == IF name[f] = None THEN NewInode(b, f) ELSE name[f]
  <2>1. i \in Inodes
    BY Inode DEF TypeOK
  <2>2. /\ name' = [name EXCEPT ![f] = i]
        /\ content' = [content EXCEPT ![i] = Torn]
        /\ shared' \subseteq shared \cup {i}
    BY <1>1 DEF Truncate
  <2> HIDE DEF i
  <2> QED
    BY <2>1, <2>2 DEF TypeOK
<1>2. ASSUME my[t].build \in Builds, Fill(t, f)
      PROVE  content' \in [Inodes -> {None, Torn, Old} \cup Builds]
  BY <1>2 DEF Fill, TypeOK
<1>3. ASSUME Unlink(f) PROVE name' \in [{Meta, Mem} -> {None} \cup Inodes]
  BY <1>3 DEF Unlink, TypeOK
<1> QED
  BY <1>1, <1>2, <1>3

Pools == [snap : 0 .. MaxSaves, cached : Machines, holder : Threads \cup {Nobody}]

\* Leaving a validation.
LEMMA LeaveTypes ==
  ASSUME TypeOK, NEW t \in Threads, Leave(t)
  PROVE  pc' \in [Threads -> Places] /\ my' \in [Threads -> Locals]
         /\ hv' \in [Procs -> Threads \cup {Pool, Nobody, Lost}]
BY Constants DEF Leave, Goto, Dropped, TypeOK, Places

\* Types of everything but the history.
LEMMA TypeStep ==
  ASSUME TypeOK, FilesInv, NEW t \in Threads, Start(t) \/ Step(t) \/ Invalidate(t)
  PROVE  /\ name' \in [{Meta, Mem} -> {None} \cup Inodes]
         /\ content' \in [Inodes -> {None, Torn, Old} \cup Builds]
         /\ shared' \subseteq Inodes
         /\ saves' \in 0 .. MaxSaves
         /\ pool' \in [Procs -> Pools]
         /\ hv' \in [Procs -> Threads \cup {Pool, Nobody, Lost}]
         /\ pc' \in [Threads -> Places]
         /\ my' \in [Threads -> Locals]
         /\ mishaps' \in 0 .. MaxMishaps
<1> DEFINE Goal ==
         /\ name' \in [{Meta, Mem} -> {None} \cup Inodes]
         /\ content' \in [Inodes -> {None, Torn, Old} \cup Builds]
         /\ shared' \subseteq Inodes
         /\ saves' \in 0 .. MaxSaves
         /\ pool' \in [Procs -> Pools]
         /\ hv' \in [Procs -> Threads \cup {Pool, Nobody, Lost}]
         /\ pc' \in [Threads -> Places]
         /\ my' \in [Threads -> Locals]
         /\ mishaps' \in 0 .. MaxMishaps
<1> USE Constants DEF TypeOK, Pools, disk, Rest, Goto, At
<1>1. CASE Start(t)
  BY <1>1 DEF Start, Places
<1>2. CASE Look(t)
  <2>1. CASE pc' = [pc EXCEPT ![t] = "share"]
    <3>1. /\ my' = [my EXCEPT ![t].snap = content[name[Meta]]] /\ content[name[Meta]] \in 0 .. MaxSaves
      BY <1>2, <2>1 DEF Look
    <3>2. my' \in [Threads -> Locals]
      BY <3>1, ZenonT(60) DEF Locals
    <3> QED
      BY <1>2, <2>1, <3>2 DEF Look, Places
  <2>2. CASE pc' # [pc EXCEPT ![t] = "share"]
    <3>1. /\ pc' = [pc EXCEPT ![t] = "dropMeta"] \/ pc' = [pc EXCEPT ![t] = "boot"]
          /\ UNCHANGED <<name, content, shared, saves, pool, hv, my, mishaps>>
      BY <1>2, <2>2 DEF Look
    <3> QED
      BY <3>1 DEF Places
  <2> QED
    BY <2>1, <2>2
<1>3. CASE DropStale(t)
  <2>1. Unlink(Meta) \/ Unlink(Mem)
    BY <1>3 DEF DropStale
  <2>2. name' \in [{Meta, Mem} -> {None} \cup Inodes]
    BY <2>1, FileTypes
  <2> QED
    BY <1>3, <2>2 DEF DropStale, Places
<1>4. CASE Boot(t)
  <2>1. CASE Leave(t)
    BY <1>4, <2>1, LeaveTypes DEF Boot
  <2>2. CASE ~Leave(t)
    <3>1. /\ hv' = [hv EXCEPT ![p(t)] = t] /\ pc' = [pc EXCEPT ![t] = "booting"]
          /\ UNCHANGED <<my, name, content, shared, saves, pool, mishaps>>
      BY <1>4, <2>2 DEF Boot
    <3> QED
      BY <3>1 DEF Places
  <2> QED
    BY <2>1, <2>2
<1>5. CASE Marker(t)
  <2>1. CASE Leave(t) /\ UNCHANGED disk
    BY <1>5, <2>1, LeaveTypes DEF Marker
  <2>2. CASE ~(Leave(t) /\ UNCHANGED disk)
    <3>1. /\ saves < MaxSaves /\ saves' = saves + 1 /\ Truncate(t, Meta, saves + 1)
          /\ my' = [my EXCEPT ![t].build = saves + 1, ![t].fd = name'[Meta]]
          /\ Goto(t, "metaOpen") /\ UNCHANGED <<hv, pool, mishaps>>
      BY <1>5, <2>2 DEF Marker
    <3>2. saves + 1 \in 0 .. MaxSaves
      BY <3>1
    <3>3. /\ name' \in [{Meta, Mem} -> {None} \cup Inodes] /\ name'[Meta] \in Inodes
          /\ content' \in [Inodes -> {None, Torn, Old} \cup Builds] /\ shared' \subseteq Inodes
      BY <3>1, <3>2, FileTypes
    <3>4. my' \in [Threads -> Locals]
      BY <3>1, <3>2, <3>3, ZenonT(60) DEF Locals
    <3> QED
      BY <3>1, <3>2, <3>3, <3>4 DEF Places
  <2> QED
    BY <2>1, <2>2
<1>6. CASE SaveMeta(t)
  <2>1. my[t].build \in Builds
    BY <1>6 DEF SaveMeta, FilesInv, Saving
  <2>2. content' \in [Inodes -> {None, Torn, Old} \cup Builds]
    BY <1>6, <2>1, FileTypes DEF SaveMeta
  <2> QED
    BY <1>6, <2>2, SMTT(30) DEF SaveMeta, Places, Locals
<1>7. CASE OpenMem(t)
  <2>1. my[t].build \in 0 .. MaxSaves
    BY <1>7 DEF Locals
  <2>2. /\ name' \in [{Meta, Mem} -> {None} \cup Inodes] /\ name'[Mem] \in Inodes
        /\ content' \in [Inodes -> {None, Torn, Old} \cup Builds] /\ shared' \subseteq Inodes
    BY <1>7, <2>1, FileTypes DEF OpenMem
  <2> QED
    BY <1>7, <2>2, ZenonT(60) DEF OpenMem, Places, Locals
<1>8. CASE SaveMem(t)
  <2>1. my[t].build \in Builds
    BY <1>8 DEF SaveMem, FilesInv, Saving
  <2>2. content' \in [Inodes -> {None, Torn, Old} \cup Builds]
    BY <1>8, <2>1, FileTypes DEF SaveMem
  <2>3. my' \in [Threads -> Locals]
    BY <1>8, <2>1 DEF SaveMem, Locals
  <2>4. hv' \in [Procs -> Threads \cup {Pool, Nobody, Lost}]
    BY <1>8 DEF SaveMem, Unowned
  <2> QED
    BY <1>8, <2>2, <2>3, <2>4 DEF SaveMem, Places
<1>9. CASE SaveFails(t)
  BY <1>9, LeaveTypes DEF SaveFails
<1>10. CASE Share(t)
  <2>1. my[t].snap \in 0 .. MaxSaves /\ pool[p(t)].snap \in 0 .. MaxSaves
    BY DEF Locals
  <2>2. pool' \in [Procs -> Pools]
    BY <1>10, <2>1 DEF Share
  <2>3. my' \in [Threads -> Locals]
    <3>1. None \in 0 .. MaxSaves /\ my' = [my EXCEPT ![t].snap = None]
      BY <1>10 DEF Share
    <3> QED
      BY <3>1, ZenonT(60) DEF Locals
  <2> QED
    BY <1>10, <2>2, <2>3 DEF Share, Places
<1>11. CASE Lock(t)
  BY <1>11 DEF Lock, Places
<1>12. CASE Take(t)
  <2>1. CASE pool[p(t)].cached # NoMachine
    <3>1. pool' \in [Procs -> Pools]
      BY <1>12, <2>1 DEF Take
    <3>2. ASSUME name[Mem] # None PROVE Machine(t, name[Mem], pool[p(t)].cached.maker) \in Machines
      BY <3>2 DEF Machine, Machines
    <3>3. my' \in [Threads -> Locals]
      <4>1. CASE /\ name[Mem] # None
                 /\ my' = [my EXCEPT ![t].vm = Machine(t, name[Mem], pool[p(t)].cached.maker)]
        BY <3>2, <4>1, ZenonT(60) DEF Locals
      <4>2. CASE my' = [my EXCEPT ![t] = Fresh]
        BY <4>2
      <4> QED
        BY <1>12, <2>1, <4>1, <4>2 DEF Take
    <3>4. hv' \in [Procs -> Threads \cup {Pool, Nobody, Lost}]
      BY <1>12, <2>1 DEF Take, Dropped
    <3> QED
      BY <1>12, <2>1, <3>1, <3>3, <3>4 DEF Take, Places
  <2>2. CASE pool[p(t)].cached = NoMachine /\ name[Mem] = None
    <3>1. Unlock(t) /\ Leave(t) /\ UNCHANGED <<name, content, shared, saves, mishaps>>
      BY <1>12, <2>2 DEF Take
    <3>2. pool' \in [Procs -> Pools]
      BY <3>1 DEF Unlock
    <3> QED
      BY <3>1, <3>2, LeaveTypes
  <2>3. CASE pool[p(t)].cached = NoMachine /\ name[Mem] # None
    <3>1. /\ my' = [my EXCEPT ![t].inode = name[Mem]] /\ pc' = [pc EXCEPT ![t] = "create"]
          /\ UNCHANGED <<name, content, shared, saves, pool, hv, mishaps>>
      BY <1>12, <2>3 DEF Take
    <3>2. my' \in [Threads -> Locals]
      BY <3>1, ZenonT(60) DEF Locals
    <3> QED
      BY <3>1, <3>2 DEF Places
  <2> QED
    BY <2>1, <2>2, <2>3
<1>13. CASE Create(t)
  <2>1. pool' \in [Procs -> Pools]
    BY <1>13 DEF Create, Unlock
  <2>2. CASE Leave(t)
    BY <1>13, <2>1, <2>2, LeaveTypes DEF Create
  <2>3. CASE ~Leave(t)
    <3>1. Machine(t, my[t].inode, t) \in Machines
      BY DEF Machine, Machines, Locals
    <3>2. /\ hv' = [hv EXCEPT ![p(t)] = t]
          /\ my' = [my EXCEPT ![t].inode = None, ![t].vm = Machine(t, my[t].inode, t)]
          /\ pc' = [pc EXCEPT ![t] = "mount"]
          /\ UNCHANGED <<name, content, shared, saves, mishaps>>
      BY <1>13, <2>3 DEF Create
    <3>3. my' \in [Threads -> Locals]
      BY <3>1, <3>2, ZenonT(60) DEF Locals
    <3> QED
      BY <2>1, <3>2, <3>3 DEF Places
  <2> QED
    BY <2>2, <2>3
<1>14. CASE Mount(t)
  <2>1. CASE Leave(t)
    BY <1>14, <2>1, LeaveTypes DEF Mount
  <2>2. CASE ~Leave(t)
    <3>1. /\ my' = [my EXCEPT ![t].vm.users = @ \cup {t}] /\ UNCHANGED hv
          /\ pc' = [pc EXCEPT ![t] = "check"] \/ pc' = [pc EXCEPT ![t] = "test"]
      BY <1>14, <2>2 DEF Mount
    <3>2. [my[t].vm EXCEPT !.users = @ \cup {t}] \in Machines
      BY DEF Machines, Locals
    <3>3. my' = [my EXCEPT ![t].vm = [my[t].vm EXCEPT !.users = @ \cup {t}]]
      BY <3>1
    <3>4. my' \in [Threads -> Locals]
      BY <3>2, <3>3, ZenonT(60) DEF Locals
    <3> QED
      BY <1>14, <3>1, <3>4 DEF Mount, Places
  <2> QED
    BY <2>1, <2>2
<1>15. CASE Command(t)
  <2>1. CASE Leave(t)
    BY <1>15, <2>1, LeaveTypes DEF Command
  <2>2. CASE ~Leave(t)
    BY <1>15, <2>2 DEF Command, Places
  <2> QED
    BY <2>1, <2>2
<1>16. CASE Release(t)
  <2>1. [my[t].vm EXCEPT !.users = @ \cup {t}] \in Machines
    BY DEF Locals, Machines
  <2> QED
    BY <1>16, <2>1 DEF Release, Places
<1>17. CASE InvalidateMem(t)
  <2>1. name' \in [{Meta, Mem} -> {None} \cup Inodes]
    BY <1>17, FileTypes DEF InvalidateMem
  <2> QED
    BY <1>17, <2>1 DEF InvalidateMem, Places
<1>18. CASE Invalidate(t)
  <2>1. name' \in [{Meta, Mem} -> {None} \cup Inodes]
    BY <1>18, FileTypes DEF Invalidate
  <2> QED
    BY <1>18, <2>1 DEF Invalidate, Places
<1> QED
  BY <1>1, <1>2, <1>3, <1>4, <1>5, <1>6, <1>7, <1>8, <1>9, <1>10, <1>11, <1>12, <1>13, <1>14, <1>15,
     <1>16, <1>17, <1>18 DEF Step

\* Thread t moves to l with locals m; its process' machine belongs to h, and c is cached.
OwnMove(t, l, m, h, c) ==
  /\ pc' = [pc EXCEPT ![t] = l] /\ my' = [my EXCEPT ![t] = m] /\ hv' = [hv EXCEPT ![p(t)] = h]
  /\ \A q \in Procs : pool'[q].cached = IF q = p(t) THEN c ELSE pool[q].cached
  /\ h \in {t, Pool, Nobody, Lost} \/ h = hv[p(t)]
  /\ hv[p(t)] \in {t, Pool, Nobody} \/ h = hv[p(t)]
  /\ l \in {"mount", "check", "test"} <=> m.vm # NoMachine
  /\ l \in {"mount", "check", "test", "booting", "metaOpen", "saveMem", "memOpen"} <=> h = t
  /\ l = "create" => m.inode # None
  /\ l = "mount" => m.vm.users = {}
  /\ l \in {"check", "test"} => m.vm.users = {t}
  /\ h = Pool <=> c # NoMachine

LEMMA OwnFrame ==
  ASSUME TypeOK, OwnInv, NEW t \in Threads, NEW l, NEW m, NEW h, NEW c, OwnMove(t, l, m, h, c)
  PROVE  OwnInv'
<1> USE Constants DEF TypeOK, OwnMove
<1>1. /\ pc'[t] = l /\ my'[t] = m /\ hv'[p(t)] = h
      /\ \A u \in Threads \ {t} : pc'[u] = pc[u] /\ my'[u] = my[u]
      /\ \A q \in Procs \ {p(t)} : hv'[q] = hv[q] /\ pool'[q].cached = pool[q].cached
      /\ pool'[p(t)].cached = c
  OBVIOUS
<1>2. \A u \in Threads : (Booting(u) \/ Running(u))' => hv'[p(u)] = u
  BY <1>1 DEF OwnInv, Booting, Running
<1>3. \A u \in Threads :
        /\ Running(u)' <=> Runs(u)'
        /\ pc'[u] = "create" => my'[u].inode # None
        /\ pc'[u] = "mount" => my'[u].vm.users = {}
        /\ pc'[u] \in {"check", "test"} => my'[u].vm.users = {u}
  BY <1>1 DEF OwnInv, Running, Runs
<1>4. \A q \in Procs : hv'[q] \in Threads =>
        p(hv'[q]) = q /\ pc'[hv'[q]] \in {"mount", "check", "test", "booting", "metaOpen", "saveMem", "memOpen"}
  <2> SUFFICES ASSUME NEW q \in Procs, hv'[q] \in Threads
               PROVE  /\ p(hv'[q]) = q
                      /\ pc'[hv'[q]] \in {"mount", "check", "test", "booting", "metaOpen", "saveMem", "memOpen"}
    OBVIOUS
  <2>1. CASE hv'[q] = t
    <3>1. q = p(t)
      BY <1>1, <2>1 DEF OwnInv
    <3> QED
      BY <1>1, <2>1, <3>1
  <2>2. CASE hv'[q] # t
    <3>1. hv'[q] = hv[q]
      BY <1>1, <2>2
    <3> QED
      BY <1>1, <2>2, <3>1 DEF OwnInv, Booting, Running
  <2> QED
    BY <2>1, <2>2
<1>5. \A q \in Procs : hv'[q] = Pool <=> pool'[q].cached # NoMachine
  BY <1>1 DEF OwnInv
<1> QED
  BY <1>2, <1>3, <1>4, <1>5 DEF OwnInv, Booting, Running

\* Whoever leaves drops the machine it owns.
LEMMA OwnLeave ==
  ASSUME TypeOK, OwnInv, NEW t \in Threads, Leave(t),
         \A q \in Procs : pool'[q].cached = pool[q].cached
  PROVE  OwnInv'
<1> DEFINE h == hv'[p(t)]
           c == pool[p(t)].cached
<1>1. /\ pc' = [pc EXCEPT ![t] = "idle"] /\ my' = [my EXCEPT ![t] = Fresh]
      /\ hv' = [hv EXCEPT ![p(t)] = h]
      /\ IF hv[p(t)] = t THEN h \in {Nobody, Lost} ELSE h = hv[p(t)]
  BY Constants DEF Leave, Goto, Dropped, TypeOK
<1>2. h \in {hv[p(t)], Nobody, Lost} /\ h # t /\ (h = hv[p(t)] \/ hv[p(t)] = t)
  BY <1>1, Constants
<1>3. h = Pool <=> c # NoMachine
  BY <1>1, Constants DEF OwnInv
<1>4. "idle" \in Places /\ c \in Machines /\ Fresh.vm = NoMachine
  BY Constants DEF Places, TypeOK, Fresh
<1> HIDE DEF h, c
<1>5. \A q \in Procs : pool'[q].cached = IF q = p(t) THEN c ELSE pool[q].cached
  BY DEF c
<1> QED
  <2>1. OwnMove(t, "idle", Fresh, h, c)
    BY <1>1, <1>2, <1>3, <1>4, <1>5, Constants DEF OwnMove
  <2> QED
    BY <2>1, OwnFrame

LEMMA OwnStep ==
  ASSUME TypeOK, OwnInv, NEW t \in Threads, Start(t) \/ Step(t) \/ Invalidate(t)
  PROVE  OwnInv'
<1> USE Constants DEF TypeOK, disk, Rest, Goto, At, Runs, Running, Booting
<1>1. CASE Start(t)
  BY <1>1 DEF Start, OwnInv
<1>2. CASE Look(t)
  <2>1. pc[t] = "look" /\ UNCHANGED <<hv, pool>>
    BY <1>2 DEF Look
  <2>2. PICK l \in {"share", "dropMeta", "boot"} : pc' = [pc EXCEPT ![t] = l]
    BY <1>2 DEF Look
  <2>3. CASE my' = my
    BY <2>1, <2>2, <2>3 DEF OwnInv
  <2>4. CASE my' = [my EXCEPT ![t].snap = content[name[Meta]]]
    BY <2>1, <2>2, <2>4 DEF OwnInv
  <2> QED
    BY <1>2, <2>3, <2>4 DEF Look
<1>3. CASE DropStale(t)
  BY <1>3 DEF DropStale, OwnInv
<1>4. CASE Boot(t)
  <2>1. CASE Leave(t)
    BY <1>4, <2>1, OwnLeave DEF Boot
  <2>2. CASE ~Leave(t)
    <3>1. /\ hv[p(t)] = Nobody /\ hv' = [hv EXCEPT ![p(t)] = t] /\ pc[t] = "boot"
          /\ pc' = [pc EXCEPT ![t] = "booting"] /\ UNCHANGED <<pool, my>>
      BY <1>4, <2>2 DEF Boot
    <3> QED
      BY <3>1 DEF OwnInv
  <2> QED
    BY <2>1, <2>2
<1>5. CASE Marker(t)
  <2>1. CASE Leave(t)
    BY <1>5, <2>1, OwnLeave DEF Marker
  <2>2. CASE ~Leave(t)
    <3>1. /\ pc[t] = "booting" /\ pc' = [pc EXCEPT ![t] = "metaOpen"] /\ UNCHANGED <<pool, hv>>
          /\ my' = [my EXCEPT ![t].build = saves + 1, ![t].fd = name'[Meta]]
      BY <1>5, <2>2 DEF Marker
    <3> QED
      BY <3>1 DEF OwnInv
  <2> QED
    BY <2>1, <2>2
<1>6. CASE SaveMeta(t)
  BY <1>6 DEF SaveMeta, OwnInv
<1>7. CASE OpenMem(t)
  BY <1>7 DEF OpenMem, OwnInv
<1>8. CASE SaveMem(t)
  BY <1>8 DEF SaveMem, Unowned, OwnInv
<1>9. CASE SaveFails(t)
  BY <1>9, OwnLeave DEF SaveFails
<1>10. CASE Share(t)
  BY <1>10 DEF Share, OwnInv
<1>11. CASE Lock(t)
  BY <1>11 DEF Lock, OwnInv
<1>12. CASE Take(t)
  <2>1. CASE pool[p(t)].cached # NoMachine
    <3>1. /\ \A q \in Procs : pool'[q].cached = IF q = p(t) THEN NoMachine ELSE pool[q].cached
          /\ hv[p(t)] = Pool
      BY <1>12, <2>1 DEF Take, OwnInv
    <3>2. CASE /\ name[Mem] # None /\ hv' = [hv EXCEPT ![p(t)] = t]
               /\ pc' = [pc EXCEPT ![t] = "mount"] /\ my' = [my EXCEPT ![t].vm = Machine(t, name[Mem], pool[p(t)].cached.maker)]
      <4> DEFINE m == [my[t] EXCEPT !.vm = Machine(t, name[Mem], pool[p(t)].cached.maker)]
      <4>1. Machine(t, name[Mem], pool[p(t)].cached.maker) \in Machines
        BY <3>2 DEF Machine, Machines
      <4>2. m \in Locals /\ m.vm = Machine(t, name[Mem], pool[p(t)].cached.maker)
        BY <4>1 DEF Locals
      <4>3. my' = [my EXCEPT ![t] = m]
        BY <3>2
      <4>4. Machine(t, name[Mem], pool[p(t)].cached.maker).users = {} /\ Machine(t, name[Mem], pool[p(t)].cached.maker) # NoMachine
        BY <3>2 DEF Machine, NoMachine
      <4>5. "mount" \in Places
        BY DEF Places
      <4> HIDE DEF m
      <4>6. OwnMove(t, "mount", m, t, NoMachine)
        BY <3>1, <3>2, <4>2, <4>3, <4>4 DEF OwnMove
      <4> QED
        BY <4>6, OwnFrame
    <3>3. CASE /\ \E left \in {Nobody, Lost} : hv' = [hv EXCEPT ![p(t)] = left]
               /\ pc' = [pc EXCEPT ![t] = "idle"] /\ my' = [my EXCEPT ![t] = Fresh]
      <4>1. "idle" \in Places /\ Fresh.vm = NoMachine
        BY DEF Places, Fresh
      <4> QED
        BY <3>1, <3>3, <4>1, OwnFrame DEF OwnMove
    <3> QED
      BY <1>12, <2>1, <3>2, <3>3 DEF Take, Dropped
  <2>2. CASE pool[p(t)].cached = NoMachine /\ name[Mem] = None
    BY <1>12, <2>2, OwnLeave DEF Take, Unlock
  <2>3. CASE pool[p(t)].cached = NoMachine /\ name[Mem] # None
    <3>1. /\ my' = [my EXCEPT ![t].inode = name[Mem]] /\ pc[t] = "take"
          /\ pc' = [pc EXCEPT ![t] = "create"] /\ UNCHANGED <<pool, hv>>
      BY <1>12, <2>3 DEF Take
    <3> QED
      BY <2>3, <3>1 DEF OwnInv
  <2> QED
    BY <2>1, <2>2, <2>3
<1>13. CASE Create(t)
  <2>1. \A q \in Procs : pool'[q].cached = pool[q].cached
    BY <1>13 DEF Create, Unlock
  <2>2. CASE Leave(t)
    BY <2>1, <2>2, OwnLeave
  <2>3. CASE ~Leave(t)
    <3>1. /\ pc[t] = "create" /\ hv[p(t)] = Nobody /\ hv' = [hv EXCEPT ![p(t)] = t]
          /\ my' = [my EXCEPT ![t].inode = None, ![t].vm = Machine(t, my[t].inode, t)]
          /\ pc' = [pc EXCEPT ![t] = "mount"]
      BY <1>13, <2>3 DEF Create
    <3> DEFINE m == [my[t] EXCEPT !.inode = None, !.vm = Machine(t, my[t].inode, t)]
    <3>2. Machine(t, my[t].inode, t) \in Machines
      BY DEF Machine, Machines, Locals
    <3>3. m \in Locals /\ m.vm = Machine(t, my[t].inode, t)
      BY <3>2 DEF Locals
    <3>4. my' = [my EXCEPT ![t] = m]
      BY <3>1
    <3>5. Machine(t, my[t].inode, t).users = {} /\ Machine(t, my[t].inode, t) # NoMachine
      BY <3>1 DEF Machine, NoMachine, OwnInv
    <3>6. "mount" \in Places /\ pool[p(t)].cached = NoMachine
      BY <3>1 DEF Places, OwnInv
    <3> HIDE DEF m
    <3>7. OwnMove(t, "mount", m, t, NoMachine)
      BY <2>1, <3>1, <3>3, <3>4, <3>5, <3>6 DEF OwnMove
    <3> QED
      BY <3>7, OwnFrame
  <2> QED
    BY <2>2, <2>3
<1>14. CASE Mount(t)
  <2>1. CASE Leave(t)
    BY <1>14, <2>1, OwnLeave DEF Mount
  <2>2. CASE ~Leave(t)
    <3>1. PICK l \in {"check", "test"} :
            /\ pc[t] = "mount" /\ pc' = [pc EXCEPT ![t] = l] /\ UNCHANGED <<hv, pool>>
            /\ my' = [my EXCEPT ![t].vm.users = @ \cup {t}]
      BY <1>14, <2>2 DEF Mount
    <3> DEFINE vm == [my[t].vm EXCEPT !.users = @ \cup {t}]
               m == [my[t] EXCEPT !.vm = vm]
    <3>2. vm \in Machines /\ vm.users = {t} /\ vm # NoMachine
      <4>1. my[t].vm \in Machines /\ my[t].vm.users = {}
        BY <3>1 DEF Locals, OwnInv
      <4> QED
        BY <4>1 DEF Machines, NoMachine
    <3>3. my' = [my EXCEPT ![t] = m]
      BY <3>1
    <3> HIDE DEF vm
    <3>4. m \in Locals /\ m.vm = vm
      BY <3>2 DEF Locals
    <3>5. l \in Places /\ hv[p(t)] = t /\ hv' = [hv EXCEPT ![p(t)] = t]
          /\ pool[p(t)].cached = NoMachine
      BY <3>1 DEF Places, OwnInv
    <3> HIDE DEF m
    <3>6. OwnMove(t, l, m, t, NoMachine)
      BY <3>1, <3>2, <3>3, <3>4, <3>5 DEF OwnMove
    <3> QED
      BY <3>6, OwnFrame
  <2> QED
    BY <2>1, <2>2
<1>15. CASE Command(t)
  <2>1. CASE Leave(t)
    BY <1>15, <2>1, OwnLeave DEF Command
  <2>2. CASE ~Leave(t)
    <3>1. /\ pc[t] = "check" /\ pc' = [pc EXCEPT ![t] = "test"] /\ UNCHANGED <<hv, pool, my>>
      BY <1>15, <2>2 DEF Command
    <3> QED
      BY <3>1 DEF OwnInv
  <2> QED
    BY <2>1, <2>2
<1>16. CASE Release(t)
  <2> DEFINE vm == [my[t].vm EXCEPT !.users = @ \cup {t}]
  <2>1. pc[t] = "mount" /\ hv[p(t)] = t /\ my[t].vm \in Machines
    BY <1>16 DEF Release, OwnInv, Locals
  <2>2. vm \in Machines /\ vm # NoMachine
    BY <2>1 DEF Machines, NoMachine
  <2>3. /\ hv' = [hv EXCEPT ![p(t)] = Pool] /\ my' = [my EXCEPT ![t] = Fresh]
        /\ pc' = [pc EXCEPT ![t] = "idle"] /\ pool' = [pool EXCEPT ![p(t)].cached = vm]
    BY <1>16 DEF Release
  <2> HIDE DEF vm
  <2>4. \A q \in Procs : pool'[q].cached = IF q = p(t) THEN vm ELSE pool[q].cached
    BY <2>3
  <2>5. "idle" \in Places /\ Fresh.vm = NoMachine /\ Pool # t
    BY DEF Places, Fresh
  <2>6. OwnMove(t, "idle", Fresh, Pool, vm)
    BY <2>1, <2>2, <2>3, <2>4, <2>5 DEF OwnMove
  <2> QED
    BY <2>6, OwnFrame
<1>17. CASE Invalidate(t)
  BY <1>17 DEF Invalidate, OwnInv
<1>18. CASE InvalidateMem(t)
  BY <1>18 DEF InvalidateMem, OwnInv
<1> QED
  BY <1>1, <1>2, <1>3, <1>4, <1>5, <1>6, <1>7, <1>8, <1>9, <1>10, <1>11, <1>12, <1>13, <1>14, <1>15,
     <1>16, <1>17, <1>18 DEF Step

\* A killed process has nothing left; the others keep what they have.
LEMMA CrashStep ==
  ASSUME TypeOK, FilesInv, OwnInv, NEW q \in Procs, Crash(q)
  PROVE  /\ pool' \in [Procs -> Pools]
         /\ hv' \in [Procs -> Threads \cup {Pool, Nobody, Lost}]
         /\ pc' \in [Threads -> Places]
         /\ my' \in [Threads -> Locals]
         /\ mishaps' \in 0 .. MaxMishaps
         /\ UNCHANGED disk
         /\ FilesInv' /\ OwnInv'
<1> USE Constants DEF TypeOK
<1>1. /\ pool' = [pool EXCEPT ![q] = EmptyPool] /\ hv' = [hv EXCEPT ![q] = Nobody]
      /\ pc' = [t \in Threads |-> IF p(t) = q THEN "idle" ELSE pc[t]]
      /\ my' = [t \in Threads |-> IF p(t) = q THEN Fresh ELSE my[t]]
      /\ mishaps < MaxMishaps /\ mishaps' = mishaps + 1
      /\ UNCHANGED disk
  BY DEF Crash
<1>2. /\ pool' \in [Procs -> Pools] /\ hv' \in [Procs -> Threads \cup {Pool, Nobody, Lost}]
      /\ pc' \in [Threads -> Places] /\ my' \in [Threads -> Locals] /\ mishaps' \in 0 .. MaxMishaps
  BY <1>1 DEF Pools, Places
<1>3. /\ \A t \in Threads : IF p(t) = q THEN pc'[t] = "idle" /\ my'[t] = Fresh
                                         ELSE pc'[t] = pc[t] /\ my'[t] = my[t]
      /\ \A r \in Procs : IF r = q THEN hv'[r] = Nobody /\ pool'[r] = EmptyPool
                                     ELSE hv'[r] = hv[r] /\ pool'[r] = pool[r]
  BY <1>1
<1>4. Fresh.vm = NoMachine /\ Fresh.fd = None /\ Fresh.snap = None
      /\ EmptyPool.cached = NoMachine /\ EmptyPool.snap = None
  BY DEF Fresh, EmptyPool
<1>5. FilesInv'
  BY <1>1, <1>3, <1>4 DEF FilesInv, Saving, disk
<1>6. OwnInv'
  BY <1>3, <1>4 DEF OwnInv, Running, Booting, Runs
<1> QED
  BY <1>1, <1>2, <1>5, <1>6

-----------------------------------------------------------------------------
(* Machines that may stay undestroyed.                                     *)

\* Threads of process q that give machines back.
Givers(q) == {u \in Releasers : p(u) = q}

\* A machine is handled by the thread that made it, or was given back by that one;
\* one that was lost was taken by another thread.
MakerInv ==
  /\ \A t \in Threads : my[t].vm.maker \in {Nobody, t} \cup Givers(p(t))
  /\ \A q \in Procs : pool[q].cached.maker \in {Nobody} \cup Givers(q)
  /\ \A q \in Procs : hv[q] = Lost => \E t \in Givers(q), u \in Threads : t # u /\ p(u) = q

\* Only thread t gets or drops a machine, and no machine is lost.
LEMMA MakerFrame ==
  ASSUME MakerInv, NEW t \in Threads, TypeOK,
         \A u \in Threads \ {t} : my'[u].vm = my[u].vm,
         my'[t].vm.maker \in {my[t].vm.maker, Nobody, t} \cup Givers(p(t)),
         \A q \in Procs : pool'[q].cached.maker \in {pool[q].cached.maker, Nobody} \cup Givers(q),
         \A q \in Procs : hv'[q] = Lost => hv[q] = Lost
  PROVE  MakerInv'
<1> SUFFICES /\ \A u \in Threads : my'[u].vm.maker \in {Nobody, u} \cup Givers(p(u))
             /\ \A q \in Procs : pool'[q].cached.maker \in {Nobody} \cup Givers(q)
             /\ \A q \in Procs : hv'[q] = Lost => \E w \in Givers(q), u \in Threads : w # u /\ p(u) = q
  BY DEF MakerInv, Givers, p
<1>1. ASSUME NEW u \in Threads PROVE my'[u].vm.maker \in {Nobody, u} \cup Givers(p(u))
  <2>1. CASE u = t
    BY <2>1 DEF MakerInv
  <2>2. CASE u # t
    BY <2>2 DEF MakerInv
  <2> QED
    BY <2>1, <2>2
<1>2. \A q \in Procs : pool'[q].cached.maker \in {Nobody} \cup Givers(q)
  BY DEF MakerInv
<1> QED
  BY <1>1, <1>2 DEF MakerInv

\* A drop that fails is of a machine that another thread made and gave back.
LEMMA MakerDrop ==
  ASSUME MakerInv, NEW t \in Threads, TypeOK, NEW left \in {Nobody, Lost},
         NEW vm \in Machines, left \in Dropped(t, vm), vm.maker \in {Nobody, t} \cup Givers(p(t)),
         my' = [my EXCEPT ![t] = Fresh], hv' = [hv EXCEPT ![p(t)] = left],
         \A q \in Procs : pool'[q].cached.maker \in {pool[q].cached.maker, Nobody}
  PROVE  MakerInv'
<1>1. /\ my'[t].vm.maker = Nobody
      /\ \A u \in Threads \ {t} : my'[u].vm = my[u].vm
      /\ \A q \in Procs : IF q = p(t) THEN hv'[q] = left ELSE hv'[q] = hv[q]
  BY Constants DEF TypeOK, Fresh, NoMachine
<1>2. CASE left = Nobody
  <2>1. \A q \in Procs : hv'[q] = Lost => hv[q] = Lost
    BY <1>1, <1>2, Constants
  <2> QED
    BY <1>1, <2>1, MakerFrame
<1>3. CASE left = Lost
  <2>1. vm.maker \in Givers(p(t)) /\ vm.maker # t
    BY <1>3, Constants DEF Dropped
  <2>2. \A q \in Procs : hv'[q] = Lost => \E w \in Givers(q), u \in Threads : w # u /\ p(u) = q
    BY <1>1, <2>1 DEF MakerInv
  <2>3. \A u \in Threads : my'[u].vm.maker \in {Nobody, u} \cup Givers(p(u))
    BY <1>1 DEF MakerInv
  <2>4. \A q \in Procs : pool'[q].cached.maker \in {Nobody} \cup Givers(q)
    BY DEF MakerInv
  <2> QED
    BY <2>2, <2>3, <2>4 DEF MakerInv, Givers, p
<1> QED
  BY <1>2, <1>3

LEMMA MakerLeave ==
  ASSUME MakerInv, NEW t \in Threads, TypeOK, Leave(t), \A q \in Procs : pool'[q].cached = pool[q].cached
  PROVE  MakerInv'
<1>1. my' = [my EXCEPT ![t] = Fresh]
  BY DEF Leave
<1>2. CASE hv[p(t)] = t
  <2>1. PICK left \in Dropped(t, my[t].vm) : hv' = [hv EXCEPT ![p(t)] = left]
    BY <1>2 DEF Leave
  <2>2. /\ left \in {Nobody, Lost} /\ my[t].vm.maker \in {Nobody, t} \cup Givers(p(t))
        /\ my[t].vm \in Machines
    BY DEF Dropped, MakerInv, TypeOK, Locals
  <2> QED
    BY <1>1, <2>1, <2>2, MakerDrop
<1>3. CASE hv[p(t)] # t
  <2>1. hv' = hv
    BY <1>3 DEF Leave
  <2>2. my'[t].vm.maker = Nobody /\ \A u \in Threads \ {t} : my'[u].vm = my[u].vm
    BY <1>1 DEF TypeOK, Fresh, NoMachine
  <2> QED
    BY <2>1, <2>2, MakerFrame
<1> QED
  BY <1>2, <1>3

\* A machine of the pool that is dropped because it could not be reset.
LEMMA MakerRefused ==
  ASSUME MakerInv, NEW t \in Threads, TypeOK, my' = [my EXCEPT ![t] = Fresh],
         \E left \in Dropped(t, pool[p(t)].cached) : hv' = [hv EXCEPT ![p(t)] = left],
         \A q \in Procs : pool'[q].cached.maker \in {pool[q].cached.maker, Nobody}
  PROVE  MakerInv'
<1>1. PICK left \in Dropped(t, pool[p(t)].cached) : hv' = [hv EXCEPT ![p(t)] = left]
  OBVIOUS
<1>2. /\ left \in {Nobody, Lost} /\ pool[p(t)].cached.maker \in {Nobody, t} \cup Givers(p(t))
      /\ pool[p(t)].cached \in Machines
  BY Constants DEF Dropped, MakerInv, TypeOK
<1> QED
  BY <1>1, <1>2, MakerDrop

LEMMA MakerStep ==
  ASSUME TypeOK, MakerInv, NEW t \in Threads, Start(t) \/ Step(t) \/ Invalidate(t)
  PROVE  MakerInv'
<1> DEFINE Still == /\ \A u \in Threads : my'[u].vm = my[u].vm
                    /\ \A q \in Procs : pool'[q].cached = pool[q].cached
                    /\ \A q \in Procs : hv'[q] = Lost => hv[q] = Lost
<1> USE Constants DEF TypeOK
<1>0. Still => MakerInv'
  BY MakerFrame
<1>1. CASE Start(t) \/ DropStale(t) \/ Invalidate(t) \/ InvalidateMem(t)
  BY <1>0, <1>1 DEF Start, DropStale, Invalidate, InvalidateMem
<1>2. CASE Look(t)
  <2>1. UNCHANGED <<pool, hv>> /\ (my' = my \/ my' = [my EXCEPT ![t].snap = content[name[Meta]]])
    BY <1>2 DEF Look
  <2> QED
    BY <1>0, <2>1 DEF Locals
<1>3. CASE Boot(t) \/ Marker(t) \/ SaveFails(t) \/ Create(t) \/ Mount(t) \/ Command(t)
  <2>1. \A q \in Procs : pool'[q].cached = pool[q].cached
    BY <1>3 DEF Boot, Marker, SaveFails, Create, Mount, Command, Unlock
  <2>2. CASE Leave(t)
    BY <2>1, <2>2, MakerLeave
  <2>3. CASE ~Leave(t)
    <3>1. hv' = hv \/ hv' = [hv EXCEPT ![p(t)] = t]
      BY <1>3, <2>3 DEF Boot, Marker, SaveFails, Create, Mount, Command
    <3>2. \A q \in Procs : hv'[q] = Lost => hv[q] = Lost
      BY <3>1
    <3>3. \/ my' = my
          \/ my' = [my EXCEPT ![t].build = saves + 1, ![t].fd = name'[Meta]]
          \/ my' = [my EXCEPT ![t].inode = None, ![t].vm = Machine(t, my[t].inode, t)]
          \/ my' = [my EXCEPT ![t].vm.users = @ \cup {t}]
      BY <1>3, <2>3 DEF Boot, Marker, SaveFails, Create, Mount, Command
    <3>4. my'[t].vm.maker \in {my[t].vm.maker, t} /\ \A u \in Threads \ {t} : my'[u].vm = my[u].vm
      <4>1. my[t].vm \in Machines
        BY DEF Locals
      <4>2. CASE my' = my
        BY <4>2
      <4>3. CASE my' = [my EXCEPT ![t].build = saves + 1, ![t].fd = name'[Meta]]
        BY <4>3 DEF Locals
      <4>4. CASE my' = [my EXCEPT ![t].inode = None, ![t].vm = Machine(t, my[t].inode, t)]
        <5>1. my'[t].vm = Machine(t, my[t].inode, t)
          BY <4>4 DEF Locals
        <5>2. my'[t].vm.maker = t
          BY <5>1 DEF Machine
        <5> QED
          BY <4>4, <5>2
      <4>5. CASE my' = [my EXCEPT ![t].vm.users = @ \cup {t}]
        <5>1. my'[t].vm = [my[t].vm EXCEPT !.users = @ \cup {t}]
          BY <4>5 DEF Locals
        <5>2. my'[t].vm.maker = my[t].vm.maker
          BY <4>1, <5>1 DEF Machines
        <5> QED
          BY <4>5, <5>2
      <4> QED
        BY <3>3, <4>2, <4>3, <4>4, <4>5
    <3> QED
      BY <2>1, <3>2, <3>4, MakerFrame
  <2> QED
    BY <2>2, <2>3
<1>4. CASE SaveMeta(t) \/ OpenMem(t) \/ Lock(t)
  <2>1. /\ \A q \in Procs : pool'[q].cached = pool[q].cached
        /\ hv' = hv
        /\ my' = my \/ my' = [my EXCEPT ![t].fd = None] \/ my' = [my EXCEPT ![t].fd = name'[Mem]]
    <3>1. CASE SaveMeta(t)
      BY <3>1 DEF SaveMeta
    <3>2. CASE OpenMem(t)
      BY <3>2 DEF OpenMem
    <3>3. CASE Lock(t)
      BY <3>3 DEF Lock
    <3> QED
      BY <1>4, <3>1, <3>2, <3>3
  <2>2. \A u \in Threads : my'[u].vm = my[u].vm
    <3>1. CASE my' = my
      BY <3>1
    <3>2. CASE my' = [my EXCEPT ![t].fd = None]
      BY <3>2 DEF Locals
    <3>3. CASE my' = [my EXCEPT ![t].fd = name'[Mem]]
      BY <3>3 DEF Locals
    <3> QED
      BY <2>1, <3>1, <3>2, <3>3
  <2> QED
    BY <1>0, <2>1, <2>2
<1>5. CASE SaveMem(t)
  <2>1. /\ pool' = pool /\ (hv' = hv \/ hv' = [hv EXCEPT ![p(t)] = Nobody])
        /\ my' = [my EXCEPT ![t].fd = None, ![t].build = None, ![t].snap = my[t].build]
    BY <1>5 DEF SaveMem, Unowned
  <2> QED
    BY <1>0, <2>1 DEF Locals
<1>6. CASE Share(t)
  <2>1. /\ my' = [my EXCEPT ![t].snap = None] /\ hv' = hv
        /\ \A q \in Procs : pool'[q].cached = pool[q].cached
    BY <1>6 DEF Share
  <2> QED
    BY <1>0, <2>1 DEF Locals
<1>7. CASE Take(t)
  <2>1. CASE pool[p(t)].cached # NoMachine
    <3>1. \A q \in Procs : pool'[q].cached.maker \in {pool[q].cached.maker, Nobody}
      BY <1>7, <2>1 DEF Take, NoMachine
    <3>2. pool[p(t)].cached.maker \in {Nobody} \cup Givers(p(t))
      BY DEF MakerInv
    <3>3. CASE /\ hv' = [hv EXCEPT ![p(t)] = t]
               /\ my' = [my EXCEPT ![t].vm = Machine(t, name[Mem], pool[p(t)].cached.maker)]
      <4>1. my'[t].vm.maker = pool[p(t)].cached.maker /\ \A u \in Threads \ {t} : my'[u].vm = my[u].vm
        BY <3>3 DEF Machine, Locals
      <4>2. \A q \in Procs : hv'[q] = Lost => hv[q] = Lost
        BY <3>3
      <4> QED
        BY <3>1, <3>2, <4>1, <4>2, MakerFrame
    <3>4. CASE /\ my' = [my EXCEPT ![t] = Fresh]
               /\ \E left \in Dropped(t, pool[p(t)].cached) : hv' = [hv EXCEPT ![p(t)] = left]
      BY <3>1, <3>4, MakerRefused
    <3> QED
      BY <1>7, <2>1, <3>3, <3>4 DEF Take
  <2>2. CASE pool[p(t)].cached = NoMachine /\ name[Mem] = None
    <3>1. Unlock(t) /\ Leave(t)
      BY <1>7, <2>2 DEF Take
    <3>2. \A q \in Procs : pool'[q].cached = pool[q].cached
      BY <3>1 DEF Unlock
    <3> QED
      BY <3>1, <3>2, MakerLeave
  <2>3. CASE pool[p(t)].cached = NoMachine /\ name[Mem] # None
    <3>1. my' = [my EXCEPT ![t].inode = name[Mem]] /\ UNCHANGED <<pool, hv>>
      BY <1>7, <2>3 DEF Take
    <3> QED
      BY <1>0, <3>1 DEF Locals
  <2> QED
    BY <2>1, <2>2, <2>3
<1>8. CASE Release(t)
  <2>1. /\ my' = [my EXCEPT ![t] = Fresh] /\ hv' = [hv EXCEPT ![p(t)] = Pool] /\ t \in Givers(p(t))
        /\ pool' = [pool EXCEPT ![p(t)].cached = [my[t].vm EXCEPT !.users = @ \cup {t}]]
    BY <1>8 DEF Release, Givers
  <2>2. [my[t].vm EXCEPT !.users = @ \cup {t}].maker = my[t].vm.maker
    BY DEF Locals, Machines
  <2>3. \A q \in Procs : pool'[q].cached.maker \in {pool[q].cached.maker, Nobody} \cup Givers(q)
    BY <2>1, <2>2 DEF MakerInv
  <2>4. my'[t].vm.maker = Nobody /\ \A u \in Threads \ {t} : my'[u].vm = my[u].vm
    BY <2>1 DEF Fresh, NoMachine
  <2>5. \A q \in Procs : hv'[q] = Lost => hv[q] = Lost
    BY <2>1
  <2> QED
    BY <2>3, <2>4, <2>5, MakerFrame
<1> QED
  BY <1>1, <1>2, <1>3, <1>4, <1>5, <1>6, <1>7, <1>8 DEF Step

LEMMA MakerCrash ==
  ASSUME MakerInv, NEW q \in Procs, TypeOK, Crash(q)
  PROVE  MakerInv'
<1>1. /\ \A t \in Threads : my'[t].vm \in {my[t].vm, NoMachine}
      /\ \A r \in Procs : pool'[r].cached \in {pool[r].cached, NoMachine}
      /\ \A r \in Procs : hv'[r] = Lost => hv[r] = Lost
  BY Constants DEF Crash, TypeOK, Fresh, EmptyPool
<1>2. NoMachine.maker = Nobody
  BY DEF NoMachine
<1>3. \A t \in Threads : my'[t].vm.maker \in {Nobody, t} \cup Givers(p(t))
  BY <1>1, <1>2 DEF MakerInv
<1>4. \A r \in Procs : pool'[r].cached.maker \in {Nobody} \cup Givers(r)
  BY <1>1, <1>2 DEF MakerInv
<1>5. \A r \in Procs : hv'[r] = Lost => \E t \in Givers(r), u \in Threads : t # u /\ p(u) = r
  BY <1>1 DEF MakerInv
<1> QED
  BY <1>3, <1>4, <1>5 DEF MakerInv, Givers, p

\* A thread that has no file open and no snapshot in hand changes nothing of these.
LEMMA FilesFrame ==
  ASSUME TypeOK, FilesInv, NEW t \in Threads, NEW l, NEW m, UNCHANGED name,
         pc' = [pc EXCEPT ![t] = l], my' = [my EXCEPT ![t] = m],
         l \notin {"metaOpen", "saveMem", "memOpen"}, m.fd = None, m.snap = None,
         \A q \in Procs : pool'[q].snap = pool[q].snap
  PROVE  FilesInv'
<1>1. /\ pc'[t] = l /\ my'[t] = m
      /\ \A u \in Threads \ {t} : pc'[u] = pc[u] /\ my'[u] = my[u]
  BY DEF TypeOK
<1> QED
  BY <1>1 DEF FilesInv, Saving

\* Which files there are, and who has them open.
LEMMA FilesStep ==
  ASSUME TypeOK, FilesInv, NEW t \in Threads, Start(t) \/ Step(t) \/ Invalidate(t)
  PROVE  FilesInv'
<1> USE Constants DEF TypeOK, disk, Rest, Goto, At, Saving
<1>0. Fresh.fd = None /\ Fresh.snap = None
  BY DEF Fresh
<1>1. CASE Start(t)
  BY <1>1 DEF Start, FilesInv
<1>2. CASE Look(t)
  <2>1. pc[t] = "look" /\ UNCHANGED <<name, pool>>
    BY <1>2 DEF Look
  <2>2. PICK l \in {"share", "dropMeta", "boot"} : pc' = [pc EXCEPT ![t] = l]
    BY <1>2 DEF Look
  <2>3. CASE my' = my
    BY <2>1, <2>2, <2>3 DEF FilesInv
  <2>4. CASE my' = [my EXCEPT ![t].snap = content[name[Meta]]] /\ l = "share"
    BY <2>1, <2>2, <2>4 DEF FilesInv
  <2>5. pc'[t] = l
    BY <2>2
  <2> QED
    BY <1>2, <2>3, <2>4, <2>5 DEF Look
<1>3. CASE DropStale(t)
  BY <1>3 DEF DropStale, Unlink, FilesInv
<1>4. CASE Boot(t)
  <2>1. CASE Leave(t)
    BY <1>4, <2>1, <1>0, FilesFrame DEF Boot, Leave
  <2>2. CASE ~Leave(t)
    BY <1>4, <2>2 DEF Boot, FilesInv
  <2> QED
    BY <2>1, <2>2
<1>5. CASE Marker(t)
  <2>1. CASE Leave(t) /\ UNCHANGED disk
    BY <1>5, <2>1, <1>0, FilesFrame DEF Marker, Leave
  <2>2. CASE ~(Leave(t) /\ UNCHANGED disk)
    <3>1. /\ pc[t] = "booting" /\ pc' = [pc EXCEPT ![t] = "metaOpen"] /\ UNCHANGED pool
          /\ saves < MaxSaves /\ Truncate(t, Meta, saves + 1)
          /\ my' = [my EXCEPT ![t].build = saves + 1, ![t].fd = name'[Meta]]
      BY <1>5, <2>2 DEF Marker
    <3>2. name' = [name EXCEPT ![Meta] = IF name[Meta] = None THEN NewInode(saves + 1, Meta) ELSE name[Meta]]
      BY <3>1 DEF Truncate
    <3>3. saves + 1 \in Builds /\ saves + 1 \in 0 .. MaxSaves
      BY <3>1 DEF Builds
    <3>4. \A f \in {Meta, Mem} : name'[f] # None => \E b \in 0 .. MaxSaves : name'[f] = NewInode(b, f)
      BY <3>2, <3>3 DEF FilesInv
    <3>5. /\ pc'[t] = "metaOpen" /\ my'[t].build = saves + 1 /\ my'[t].snap = my[t].snap
          /\ \A u \in Threads \ {t} : pc'[u] = pc[u] /\ my'[u] = my[u]
      BY <3>1 DEF Locals
    <3> QED
      BY <3>1, <3>3, <3>4, <3>5 DEF FilesInv
  <2> QED
    BY <2>1, <2>2
<1>6. CASE SaveMeta(t)
  BY <1>6 DEF SaveMeta, FilesInv
<1>7. CASE OpenMem(t)
  BY <1>7 DEF OpenMem, Truncate, FilesInv
<1>8. CASE SaveMem(t)
  BY <1>8 DEF SaveMem, FilesInv
<1>9. CASE SaveFails(t)
  BY <1>9 DEF SaveFails, Leave, Fresh, FilesInv
<1>10. CASE Share(t)
  BY <1>10 DEF Share, FilesInv
<1>11. CASE Lock(t)
  BY <1>11 DEF Lock, FilesInv
<1>12. CASE Take(t)
  <2>1. /\ pc[t] = "take" /\ UNCHANGED name /\ \A q \in Procs : pool'[q].snap = pool[q].snap
        /\ my[t].fd = None /\ my[t].snap = None
    <3>1. pc[t] = "take" /\ UNCHANGED name
      BY <1>12 DEF Take
    <3>2. \/ pool' = [pool EXCEPT ![p(t)].cached = NoMachine, ![p(t)].holder = Nobody]
          \/ pool' = [pool EXCEPT ![p(t)].holder = Nobody]
          \/ pool' = pool
      BY <1>12 DEF Take, Unlock
    <3>3. \A q \in Procs : pool'[q].snap = pool[q].snap
      BY <3>2
    <3> QED
      BY <3>1, <3>3 DEF FilesInv
  <2>2. CASE \E l \in {"idle", "mount", "create"}, m \in {Fresh, [my[t] EXCEPT !.vm = Machine(t, name[Mem], pool[p(t)].cached.maker)],
                                                        [my[t] EXCEPT !.inode = name[Mem]]} :
               pc' = [pc EXCEPT ![t] = l] /\ my' = [my EXCEPT ![t] = m]
    <3>1. /\ [my[t] EXCEPT !.vm = Machine(t, name[Mem], pool[p(t)].cached.maker)].fd = None
          /\ [my[t] EXCEPT !.vm = Machine(t, name[Mem], pool[p(t)].cached.maker)].snap = None
          /\ [my[t] EXCEPT !.inode = name[Mem]].fd = None /\ [my[t] EXCEPT !.inode = name[Mem]].snap = None
      BY <2>1 DEF Locals
    <3>2. PICK l \in {"idle", "mount", "create"}, m \in {Fresh, [my[t] EXCEPT !.vm = Machine(t, name[Mem], pool[p(t)].cached.maker)],
                                                        [my[t] EXCEPT !.inode = name[Mem]]} :
            pc' = [pc EXCEPT ![t] = l] /\ my' = [my EXCEPT ![t] = m]
      BY <2>2
    <3>3. m.fd = None /\ m.snap = None
      BY <3>1, <1>0
    <3> QED
      BY <2>1, <3>2, <3>3, FilesFrame
  <2> QED
    BY <1>12, <2>2 DEF Take, Leave
<1>13. CASE Create(t)
  <2>1. /\ pc[t] = "create" /\ UNCHANGED name /\ \A q \in Procs : pool'[q].snap = pool[q].snap
        /\ my[t].fd = None /\ my[t].snap = None
    BY <1>13 DEF Create, Unlock, FilesInv
  <2>2. CASE Leave(t)
    BY <2>1, <2>2, <1>0, FilesFrame DEF Leave
  <2>3. CASE ~Leave(t)
    <3> DEFINE m == [my[t] EXCEPT !.inode = None, !.vm = Machine(t, my[t].inode, t)]
    <3>1. pc' = [pc EXCEPT ![t] = "mount"] /\ my' = [my EXCEPT ![t] = m]
      BY <1>13, <2>3 DEF Create
    <3>2. m.fd = None /\ m.snap = None
      BY <2>1 DEF Locals
    <3> HIDE DEF m
    <3> QED
      BY <2>1, <3>1, <3>2, FilesFrame
  <2> QED
    BY <2>2, <2>3
<1>14. CASE Mount(t)
  <2>1. CASE Leave(t)
    BY <1>14, <2>1, <1>0, FilesFrame DEF Mount, Leave
  <2>2. CASE ~Leave(t)
    <3>1. PICK l \in {"check", "test"} :
            /\ pc[t] = "mount" /\ pc' = [pc EXCEPT ![t] = l] /\ UNCHANGED <<name, pool>>
            /\ my' = [my EXCEPT ![t].vm.users = @ \cup {t}]
      BY <1>14, <2>2 DEF Mount
    <3> DEFINE m == [my[t] EXCEPT !.vm.users = @ \cup {t}]
    <3>2. my' = [my EXCEPT ![t] = m] /\ m.fd = None /\ m.snap = None
      BY <3>1 DEF Locals, FilesInv
    <3> HIDE DEF m
    <3> QED
      BY <3>1, <3>2, FilesFrame
  <2> QED
    BY <2>1, <2>2
<1>15. CASE Command(t)
  <2>1. CASE Leave(t)
    BY <1>15, <2>1, <1>0, FilesFrame DEF Command, Leave
  <2>2. CASE ~Leave(t)
    <3>1. pc[t] = "check" /\ pc' = [pc EXCEPT ![t] = "test"] /\ UNCHANGED <<my, name, pool>>
      BY <1>15, <2>2 DEF Command
    <3> QED
      BY <3>1 DEF FilesInv
  <2> QED
    BY <2>1, <2>2
<1>16. CASE Release(t)
  BY <1>16 DEF Release, Fresh, FilesInv
<1>17. CASE Invalidate(t)
  BY <1>17 DEF Invalidate, Unlink, FilesInv
<1>18. CASE InvalidateMem(t)
  BY <1>18 DEF InvalidateMem, Unlink, FilesInv
<1> QED
  BY <1>1, <1>2, <1>3, <1>4, <1>5, <1>6, <1>7, <1>8, <1>9, <1>10, <1>11, <1>12, <1>13, <1>14, <1>15,
     <1>16, <1>17, <1>18 DEF Step

-----------------------------------------------------------------------------
(* While there is no trouble.                                              *)

\* Both files exist and the first loads.
Pair == name[Meta] # None /\ name[Mem] # None /\ content[name[Meta]] \in Builds

Loaded == (\E q \in Procs : pool[q].snap # None) \/ (\E t \in Threads : my[t].snap # None)

\* What is loaded is the pair on disk.
LoadedInv ==
  Loaded =>
    /\ Pair
    /\ \A t \in Threads : ~Saving(t)
    /\ \A q \in Procs : pool[q].snap \in {None, content[name[Meta]]}
    /\ \A t \in Threads : my[t].snap \in {None, content[name[Meta]]}

\* Who boots a machine has no pair to take; the files of who writes are its own; who
\* goes on to run a machine has the snapshot of the pool.
StageInv ==
  \A t \in Threads :
    /\ pc[t] \in {"dropMeta", "dropMem", "boot", "booting"} => ~Pair
    /\ pc[t] = "metaOpen" => my[t].fd = name[Meta] /\ name[Meta] # None
    /\ pc[t] \in {"saveMem", "memOpen"} => name[Meta] # None /\ content[name[Meta]] = my[t].build
    /\ pc[t] = "memOpen" => my[t].fd = name[Mem] /\ name[Mem] # None /\ name[Mem] \notin shared
    /\ pc[t] = "share" => my[t].snap # None
    /\ pc[t] \in {"lock", "take", "create", "mount", "check", "test"} => pool[p(t)].snap # None
    /\ pc[t] = "create" => my[t].inode = name[Mem]
    /\ Running(t) => my[t].vm.regs = pool[p(t)].snap /\ my[t].vm.inode = name[Mem]

Calm == ~Overlap /\ ~LeftHalf /\ \A t \in Threads : pc[t] # "invalidate"

QuietInv == Calm /\ LoadedInv /\ StageInv

\* A busy thread is alone with the files, and a writer alone altogether.
LEMMA Alone ==
  ASSUME ~Overlap, NEW t \in Threads, NEW u \in Threads, t # u
  PROVE  /\ Saving(t) => pc[u] = "idle"
         /\ pc[t] # "idle" => ~Saving(u)
BY DEF Overlap, Busy

\* Steps of a thread that leave files and snapshots alone.
LEMMA QuietFrame ==
  ASSUME TypeOK, FilesInv, QuietInv, Calm', NEW t \in Threads, NEW l, NEW m,
         UNCHANGED <<name, content, shared>>,
         \A q \in Procs : pool'[q].snap = pool[q].snap,
         pc' = [pc EXCEPT ![t] = l], my' = [my EXCEPT ![t] = m],
         l \notin {"metaOpen", "saveMem", "memOpen"},
         m.snap = None \/ (pc[t] # "idle" /\ Pair /\ m.snap = content[name[Meta]]),
         l \in {"dropMeta", "dropMem", "boot", "booting"} => ~Pair,
         l = "share" => m.snap # None,
         l \in {"lock", "take", "create", "mount", "check", "test"} => pool[p(t)].snap # None,
         l = "create" => m.inode = name[Mem],
         l \in {"mount", "check", "test"} => m.vm.regs = pool[p(t)].snap /\ m.vm.inode = name[Mem]
  PROVE  QuietInv'
<1>1. /\ pc'[t] = l /\ my'[t] = m
      /\ \A u \in Threads \ {t} : pc'[u] = pc[u] /\ my'[u] = my[u]
  BY DEF TypeOK
<1>2. Pair' <=> Pair
  BY DEF Pair
<1>3. LoadedInv'
  <2> SUFFICES ASSUME Loaded'
               PROVE  /\ Pair' /\ \A u \in Threads : ~Saving(u)'
                      /\ \A q \in Procs : pool'[q].snap \in {None, content[name[Meta]]}
                      /\ \A u \in Threads : my'[u].snap \in {None, content[name[Meta]]}
    BY DEF LoadedInv
  <2>1. CASE Loaded
    BY <1>1, <1>2, <2>1 DEF QuietInv, LoadedInv, Saving
  <2>2. CASE ~Loaded
    <3>1. \A q \in Procs : pool'[q].snap = None
      BY <2>2 DEF Loaded
    <3>2. \A u \in Threads \ {t} : my'[u].snap = None
      BY <1>1, <2>2 DEF Loaded
    <3>3. m.snap # None
      BY <1>1, <3>1, <3>2 DEF Loaded
    <3>4. \A u \in Threads \ {t} : ~Saving(u)
      BY <3>3, Alone DEF QuietInv, Calm
    <3> QED
      BY <1>1, <1>2, <3>1, <3>2, <3>3, <3>4 DEF Saving
  <2> QED
    BY <2>1, <2>2
<1>4. StageInv'
  BY <1>1, <1>2, Constants DEF QuietInv, StageInv, Running, TypeOK
<1> QED
  BY <1>3, <1>4 DEF QuietInv

\* Whoever leaves has nothing.
LEMMA QuietLeave ==
  ASSUME TypeOK, FilesInv, QuietInv, Calm', NEW t \in Threads, Leave(t),
         UNCHANGED <<name, content, shared>>,
         \A q \in Procs : pool'[q].snap = pool[q].snap
  PROVE  QuietInv'
<1>1. pc' = [pc EXCEPT ![t] = "idle"] /\ my' = [my EXCEPT ![t] = Fresh]
  BY DEF Leave, Goto
<1>2. Fresh.snap = None
  BY DEF Fresh
<1> QED
  BY <1>1, <1>2, QuietFrame

\* A writer's step from one file to the next, with no snapshot loaded.
WriterMove(t, l, m) ==
  /\ ~Loaded /\ UNCHANGED pool
  /\ pc' = [pc EXCEPT ![t] = l] /\ my' = [my EXCEPT ![t] = m]
  /\ l \in {"metaOpen", "saveMem", "memOpen"}
  /\ m.snap = None /\ name'[Meta] # None
  /\ l = "metaOpen" => m.fd = name'[Meta]
  /\ l # "metaOpen" => content'[name'[Meta]] = m.build
  /\ l = "memOpen" => m.fd = name'[Mem] /\ name'[Mem] # None /\ name'[Mem] \notin shared'

\* It leaves t the only thread that is not idle.
LEMMA QuietAlone ==
  ASSUME TypeOK, QuietInv, Calm', NEW t \in Threads, NEW l, NEW m, WriterMove(t, l, m)
  PROVE  QuietInv'
<1>1. /\ pc'[t] = l /\ my'[t] = m
      /\ \A u \in Threads \ {t} : pc'[u] = pc[u] /\ my'[u] = my[u]
  BY DEF TypeOK, WriterMove
<1>2. \A u \in Threads \ {t} : pc'[u] = "idle"
  BY <1>1 DEF Calm, Overlap, Saving, Busy, WriterMove
<1>3. ~Loaded'
  BY <1>1 DEF Loaded, WriterMove
<1> QED
  BY <1>1, <1>2, <1>3 DEF QuietInv, LoadedInv, StageInv, Running, WriterMove

\* No step of a thread breaks it, but into trouble.
LEMMA QuietStep ==
  ASSUME TypeOK, FilesInv, OwnInv, QuietInv, Calm', FilesInv',
         NEW t \in Threads, Start(t) \/ Step(t) \/ Invalidate(t)
  PROVE  QuietInv'
<1> USE Constants DEF TypeOK, disk, Rest, Goto, At
<1>0. /\ pc[t] # "invalidate"
      /\ my[t].snap # None => pc[t] = "share"
      /\ Pair => content[name[Meta]] \in Builds
  BY DEF QuietInv, Calm, FilesInv, Pair
<1>1. CASE Start(t)
  <2>1. PICK l \in {"look", "lock"} :
          /\ pc[t] = "idle" /\ pc' = [pc EXCEPT ![t] = l] /\ UNCHANGED <<name, content, shared, pool, my>>
          /\ l = "lock" => pool[p(t)].snap # None
    BY <1>1 DEF Start
  <2>2. my' = [my EXCEPT ![t] = my[t]] /\ my[t].snap = None
    BY <1>0, <2>1
  <2> QED
    BY <2>1, <2>2, QuietFrame
<1>2. CASE Look(t)
  <2>1. pc[t] = "look" /\ UNCHANGED <<name, content, shared, pool>> /\ my[t].snap = None
    BY <1>0, <1>2 DEF Look
  <2>2. CASE Pair
    <3> DEFINE m == [my[t] EXCEPT !.snap = content[name[Meta]]]
    <3>1. pc' = [pc EXCEPT ![t] = "share"] /\ my' = [my EXCEPT ![t] = m]
      BY <1>2, <2>2 DEF Look, Pair
    <3>2. m.snap = content[name[Meta]] /\ m.snap # None
      BY <2>2 DEF Locals, Pair
    <3> HIDE DEF m
    <3> QED
      BY <2>1, <2>2, <3>1, <3>2, QuietFrame
  <2>3. CASE ~Pair
    <3>1. PICK l \in {"dropMeta", "boot"} : pc' = [pc EXCEPT ![t] = l] /\ my' = [my EXCEPT ![t] = my[t]]
      BY <1>2, <2>3 DEF Look, Pair
    <3> QED
      BY <2>1, <2>3, <3>1, QuietFrame
  <2> QED
    BY <2>2, <2>3
<1>3. CASE DropStale(t)
  <2>1. ~Pair /\ ~Loaded
    BY <1>3 DEF DropStale, QuietInv, StageInv, LoadedInv
  <2>2. /\ name' = [name EXCEPT ![Meta] = None] \/ name' = [name EXCEPT ![Mem] = None]
        /\ UNCHANGED <<content, shared, pool, my>>
    BY <1>3 DEF DropStale, Unlink
  <2>3. ~Pair'
    BY <2>1, <2>2 DEF Pair
  <2>4. ~Loaded'
    BY <2>1, <2>2 DEF Loaded
  <2>5. PICK l \in {"dropMem", "boot"} : pc' = [pc EXCEPT ![t] = l]
    BY <1>3 DEF DropStale
  <2>6. \A u \in Threads : ~Saving(u)'
    BY <1>3, <2>5, Alone DEF DropStale, QuietInv, Calm, Saving
  <2>7. \A u \in Threads : pc'[u] \notin {"share", "lock", "take", "create", "mount", "check", "test"}
    BY <1>3, <2>1, <2>5 DEF DropStale, QuietInv, StageInv, Loaded
  <2> QED
    BY <2>3, <2>4, <2>6, <2>7 DEF QuietInv, LoadedInv, StageInv, Saving, Running
<1>4. CASE Boot(t)
  <2>1. CASE Leave(t)
    BY <1>4, <2>1, QuietLeave DEF Boot
  <2>2. CASE ~Leave(t)
    <3>1. /\ pc[t] = "boot" /\ pc' = [pc EXCEPT ![t] = "booting"] /\ my' = [my EXCEPT ![t] = my[t]]
          /\ UNCHANGED <<name, content, shared, pool>>
      BY <1>4, <2>2 DEF Boot
    <3>2. ~Pair /\ my[t].snap = None
      BY <1>0, <3>1 DEF QuietInv, StageInv
    <3> QED
      BY <3>1, <3>2, QuietFrame
  <2> QED
    BY <2>1, <2>2
<1>5. CASE Marker(t)
  <2>1. CASE Leave(t) /\ UNCHANGED disk
    BY <1>5, <2>1, QuietLeave DEF Marker
  <2>2. CASE ~(Leave(t) /\ UNCHANGED disk)
    <3>1. /\ pc[t] = "booting" /\ pc' = [pc EXCEPT ![t] = "metaOpen"] /\ UNCHANGED pool
          /\ saves < MaxSaves /\ Truncate(t, Meta, saves + 1)
          /\ my' = [my EXCEPT ![t].build = saves + 1, ![t].fd = name'[Meta]]
      BY <1>5, <2>2 DEF Marker
    <3> DEFINE m == [my[t] EXCEPT !.build = saves + 1, !.fd = name'[Meta]]
    <3>2. my' = [my EXCEPT ![t] = m] /\ m.fd = name'[Meta] /\ m.snap = my[t].snap
      BY <3>1 DEF Locals
    <3>3. saves + 1 \in 0 .. MaxSaves
      BY <3>1
    <3>4. name'[Meta] # None
      BY <3>1, <3>3, Inode DEF Truncate
    <3>5. ~Loaded /\ my[t].snap = None
      BY <3>1 DEF QuietInv, StageInv, LoadedInv, Loaded
    <3> HIDE DEF m
    <3>6. WriterMove(t, "metaOpen", m)
      BY <3>1, <3>2, <3>4, <3>5 DEF WriterMove
    <3> QED
      BY <3>6, QuietAlone
  <2> QED
    BY <2>1, <2>2
<1>6. CASE SaveMeta(t)
  <2>1. /\ pc[t] = "metaOpen" /\ pc' = [pc EXCEPT ![t] = "saveMem"] /\ UNCHANGED <<pool, name>>
        /\ Fill(t, Meta) /\ my' = [my EXCEPT ![t].fd = None]
    BY <1>6 DEF SaveMeta
  <2> DEFINE m == [my[t] EXCEPT !.fd = None]
  <2>2. my' = [my EXCEPT ![t] = m] /\ m.build = my[t].build /\ m.snap = my[t].snap
    BY <2>1 DEF Locals
  <2>3. ~Loaded /\ my[t].snap = None /\ my[t].fd = name[Meta] /\ name[Meta] # None
    BY <2>1 DEF QuietInv, StageInv, LoadedInv, Loaded, Saving
  <2>4. name[Meta] \in Inodes /\ content' = [content EXCEPT ![name[Meta]] = my[t].build]
    BY <2>1, <2>3 DEF Fill
  <2> HIDE DEF m
  <2>5. name'[Meta] = name[Meta] /\ content'[name[Meta]] = my[t].build
    BY <2>1, <2>4
  <2>6. WriterMove(t, "saveMem", m)
    BY <2>1, <2>2, <2>3, <2>5 DEF WriterMove
  <2> QED
    BY <2>6, QuietAlone
<1>7. CASE OpenMem(t)
  <2>1. /\ pc[t] = "saveMem" /\ pc' = [pc EXCEPT ![t] = "memOpen"] /\ UNCHANGED pool
        /\ Truncate(t, Mem, my[t].build) /\ my' = [my EXCEPT ![t].fd = name'[Mem]]
    BY <1>7 DEF OpenMem
  <2> DEFINE m == [my[t] EXCEPT !.fd = name'[Mem]]
             i == IF name[Mem] = None THEN NewInode(my[t].build, Mem) ELSE name[Mem]
  <2>2. my' = [my EXCEPT ![t] = m] /\ m.fd = name'[Mem] /\ m.build = my[t].build /\ m.snap = my[t].snap
    BY <2>1 DEF Locals
  <2>3. ~Loaded /\ my[t].snap = None /\ name[Meta] # None /\ content[name[Meta]] = my[t].build
    BY <2>1 DEF QuietInv, StageInv, LoadedInv, Loaded, Saving
  <2>4. my[t].build \in 0 .. MaxSaves
    BY DEF Locals
  <2>5. i \in Inodes /\ i # None
    BY <2>4, Inode
  <2>6. name' = [name EXCEPT ![Mem] = i] /\ content' = [content EXCEPT ![i] = Torn]
    BY <2>1 DEF Truncate
  <2> HIDE DEF m, i
  <2>7. name'[Mem] = i /\ name'[Meta] = name[Meta]
    BY <2>6
  <2>8. i # name[Meta]
    <3>1. PICK b \in 0 .. MaxSaves, c \in 0 .. MaxSaves : i = NewInode(b, Mem) /\ name[Meta] = NewInode(c, Meta)
      BY <2>3, <2>5, <2>7 DEF FilesInv
    <3>2. NewInode(b, Mem) = 2 * b + 2 /\ NewInode(c, Meta) = 2 * c + 1
      BY DEF NewInode, Mem, Meta
    <3>3. \A x, y \in Int : 2 * x + 2 # 2 * y + 1
      OBVIOUS
    <3>4. b \in Int /\ c \in Int
      OBVIOUS
    <3> QED
      BY <3>1, <3>2, <3>3, <3>4
  <2>9. content'[name'[Meta]] = my[t].build
    BY <2>3, <2>6, <2>7, <2>8
  <2>10. i \notin shared'
    <3>1. \A u \in Threads \ {t} : my[u].fd = None
      BY <2>1, Alone DEF QuietInv, Calm, FilesInv, Saving
    <3> QED
      BY <2>1, <2>5, <3>1 DEF Truncate, i
  <2>11. WriterMove(t, "memOpen", m)
    BY <2>1, <2>2, <2>3, <2>5, <2>7, <2>9, <2>10 DEF WriterMove
  <2> QED
    BY <2>11, QuietAlone
<1>8. CASE SaveMem(t)
  <2>1. /\ pc[t] = "memOpen" /\ pc' = [pc EXCEPT ![t] = "share"] /\ UNCHANGED <<pool, name, shared>>
        /\ Fill(t, Mem) /\ my' = [my EXCEPT ![t].fd = None, ![t].build = None, ![t].snap = my[t].build]
    BY <1>8 DEF SaveMem
  <2>2. my'[t].snap = my[t].build /\ pc'[t] = "share"
        /\ \A u \in Threads \ {t} : pc'[u] = pc[u] /\ my'[u] = my[u]
    BY <2>1 DEF Locals
  <2>3. ~Loaded /\ my[t].fd = name[Mem] /\ name[Mem] # None /\ name[Mem] \notin shared
        /\ name[Meta] # None /\ content[name[Meta]] = my[t].build
    BY <2>1 DEF QuietInv, StageInv, LoadedInv, Saving
  <2>4. my[t].build \in Builds
    BY <2>1 DEF FilesInv, Saving
  <2>5. name[Mem] \in Inodes /\ content' = [content EXCEPT ![name[Mem]] = my[t].build]
    BY <2>1, <2>3 DEF Fill
  <2>6. content'[name[Meta]] = my[t].build
    BY <2>3, <2>5
  <2>7. Pair'
    BY <2>1, <2>3, <2>4, <2>6 DEF Pair
  <2>8. \A u \in Threads \ {t} : pc'[u] = "idle" /\ my'[u].snap = None
    BY <2>1, <2>2, <2>3, Alone DEF QuietInv, Calm, Saving, Loaded
  <2>9. \A q \in Procs : pool'[q].snap = None
    BY <2>1, <2>3 DEF Loaded
  <2>10. LoadedInv'
    BY <2>1, <2>2, <2>6, <2>7, <2>8, <2>9 DEF LoadedInv, Saving
  <2>11. StageInv'
    BY <2>2, <2>4, <2>8 DEF StageInv, Running
  <2> QED
    BY <2>10, <2>11 DEF QuietInv
<1>9. CASE SaveFails(t)
  BY <1>9, QuietLeave DEF SaveFails
<1>10. CASE Share(t)
  <2>1. /\ pc[t] = "share" /\ pc' = [pc EXCEPT ![t] = "lock"] /\ UNCHANGED <<name, content, shared>>
        /\ my' = [my EXCEPT ![t].snap = None]
        /\ pool' = [pool EXCEPT ![p(t)].snap = IF @ = None THEN my[t].snap ELSE @]
    BY <1>10 DEF Share
  <2>2. my[t].snap # None /\ Loaded
    BY <2>1 DEF QuietInv, StageInv, Loaded
  <2>3. /\ Pair /\ \A u \in Threads : ~Saving(u)
        /\ \A q \in Procs : pool[q].snap \in {None, content[name[Meta]]}
        /\ \A u \in Threads : my[u].snap \in {None, content[name[Meta]]}
    BY <2>2 DEF QuietInv, LoadedInv
  <2>4. /\ pc'[t] = "lock" /\ my'[t].snap = None
        /\ \A u \in Threads \ {t} : pc'[u] = pc[u] /\ my'[u] = my[u]
    BY <2>1 DEF Locals
  <2>5. /\ pool'[p(t)].snap = content[name[Meta]] /\ pool'[p(t)].snap # None
        /\ \A q \in Procs : pool[q].snap # None => pool'[q].snap = pool[q].snap
        /\ \A q \in Procs \ {p(t)} : pool'[q] = pool[q]
    BY <2>1, <2>2, <2>3
  <2>6. Pair'
    BY <2>1, <2>3 DEF Pair
  <2>7. LoadedInv'
    BY <2>1, <2>3, <2>4, <2>5, <2>6 DEF LoadedInv, Saving
  <2>8. StageInv'
    BY <2>1, <2>3, <2>4, <2>5, <2>6 DEF QuietInv, StageInv, Running
  <2> QED
    BY <2>7, <2>8 DEF QuietInv
<1>11. CASE Lock(t)
  <2>1. /\ pc[t] = "lock" /\ pc' = [pc EXCEPT ![t] = "take"] /\ my' = [my EXCEPT ![t] = my[t]]
        /\ UNCHANGED <<name, content, shared>> /\ \A q \in Procs : pool'[q].snap = pool[q].snap
    BY <1>11 DEF Lock
  <2>2. pool[p(t)].snap # None /\ my[t].snap = None
    BY <1>0, <2>1 DEF QuietInv, StageInv
  <2> QED
    BY <2>1, <2>2, QuietFrame
<1>12. CASE Take(t)
  <2>0. \/ pool' = [pool EXCEPT ![p(t)].cached = NoMachine, ![p(t)].holder = Nobody]
        \/ pool' = [pool EXCEPT ![p(t)].holder = Nobody]
        \/ pool' = pool
    BY <1>12 DEF Take, Unlock
  <2>1. /\ pc[t] = "take" /\ UNCHANGED <<name, content, shared>>
        /\ \A q \in Procs : pool'[q].snap = pool[q].snap
    <3>1. pc[t] = "take" /\ UNCHANGED <<name, content, shared>>
      BY <1>12 DEF Take
    <3>2. \A q \in Procs : pool'[q].snap = pool[q].snap
      <4>1. CASE pool' = [pool EXCEPT ![p(t)].cached = NoMachine, ![p(t)].holder = Nobody]
        BY <4>1
      <4>2. CASE pool' = [pool EXCEPT ![p(t)].holder = Nobody]
        BY <4>2
      <4> QED
        BY <2>0, <4>1, <4>2
    <3> QED
      BY <3>1, <3>2
  <2>2. pool[p(t)].snap # None /\ my[t].snap = None
    BY <1>0, <2>1 DEF QuietInv, StageInv
  <2>3. CASE pc' = [pc EXCEPT ![t] = "mount"] /\ my' = [my EXCEPT ![t].vm = Machine(t, name[Mem], pool[p(t)].cached.maker)]
    <3> DEFINE m == [my[t] EXCEPT !.vm = Machine(t, name[Mem], pool[p(t)].cached.maker)]
    <3>1. my' = [my EXCEPT ![t] = m] /\ m.snap = None /\ m.vm = Machine(t, name[Mem], pool[p(t)].cached.maker)
      BY <2>2, <2>3 DEF Locals
    <3>2. m.vm.regs = pool[p(t)].snap /\ m.vm.inode = name[Mem]
      BY <3>1 DEF Machine
    <3> HIDE DEF m
    <3> QED
      BY <2>1, <2>2, <2>3, <3>1, <3>2, QuietFrame, ZenonT(60)
  <2>4. CASE pc' = [pc EXCEPT ![t] = "create"] /\ my' = [my EXCEPT ![t].inode = name[Mem]]
    <3> DEFINE m == [my[t] EXCEPT !.inode = name[Mem]]
    <3>1. my' = [my EXCEPT ![t] = m] /\ m.snap = None /\ m.inode = name[Mem]
      BY <2>2, <2>4 DEF Locals
    <3> HIDE DEF m
    <3> QED
      BY <2>1, <2>2, <2>4, <3>1, QuietFrame, ZenonT(60)
  <2>5. CASE pc' = [pc EXCEPT ![t] = "idle"] /\ my' = [my EXCEPT ![t] = Fresh]
    <3>1. Fresh.snap = None
      BY DEF Fresh
    <3> QED
      BY <2>1, <2>5, <3>1, QuietFrame
  <2> QED
    BY <1>12, <2>3, <2>4, <2>5 DEF Take, Leave
<1>13. CASE Create(t)
  <2>1. /\ pc[t] = "create" /\ UNCHANGED <<name, content, shared>>
        /\ \A q \in Procs : pool'[q].snap = pool[q].snap
    BY <1>13 DEF Create, Unlock
  <2>2. CASE Leave(t)
    BY <2>1, <2>2, QuietLeave
  <2>3. CASE ~Leave(t)
    <3> DEFINE m == [my[t] EXCEPT !.inode = None, !.vm = Machine(t, my[t].inode, t)]
    <3>1. pc' = [pc EXCEPT ![t] = "mount"] /\ my' = [my EXCEPT ![t] = m]
      BY <1>13, <2>3 DEF Create
    <3>2. pool[p(t)].snap # None /\ my[t].snap = None /\ my[t].inode = name[Mem]
      BY <1>0, <2>1 DEF QuietInv, StageInv
    <3>3. m.snap = None /\ m.vm = Machine(t, my[t].inode, t)
      BY <3>2 DEF Locals
    <3>4. m.vm.regs = pool[p(t)].snap /\ m.vm.inode = name[Mem]
      BY <3>2, <3>3 DEF Machine
    <3> HIDE DEF m
    <3> QED
      BY <2>1, <3>1, <3>2, <3>3, <3>4, QuietFrame
  <2> QED
    BY <2>2, <2>3
<1>14. CASE Mount(t)
  <2>1. CASE Leave(t)
    BY <1>14, <2>1, QuietLeave DEF Mount
  <2>2. CASE ~Leave(t)
    <3>1. PICK l \in {"check", "test"} :
            /\ pc[t] = "mount" /\ pc' = [pc EXCEPT ![t] = l] /\ UNCHANGED <<name, content, shared, pool>>
            /\ my' = [my EXCEPT ![t].vm.users = @ \cup {t}]
      BY <1>14, <2>2 DEF Mount
    <3> DEFINE m == [my[t] EXCEPT !.vm.users = @ \cup {t}]
    <3>2. pool[p(t)].snap # None /\ my[t].snap = None
          /\ my[t].vm.regs = pool[p(t)].snap /\ my[t].vm.inode = name[Mem]
      BY <1>0, <3>1 DEF QuietInv, StageInv, Running
    <3>3. my' = [my EXCEPT ![t] = m] /\ m.snap = None
          /\ m.vm.regs = my[t].vm.regs /\ m.vm.inode = my[t].vm.inode
      BY <3>1, <3>2 DEF Locals, Machines
    <3> HIDE DEF m
    <3>4. m.vm.regs = pool[p(t)].snap /\ m.vm.inode = name[Mem] /\ m.snap = None
      BY <3>2, <3>3
    <3>5. l \notin {"metaOpen", "saveMem", "memOpen", "dropMeta", "dropMem", "boot", "booting", "share", "create"}
      OBVIOUS
    <3> QED
      BY <3>1, <3>2, <3>3, <3>4, <3>5, QuietFrame, ZenonT(60)
  <2> QED
    BY <2>1, <2>2
<1>15. CASE Command(t)
  <2>1. CASE Leave(t)
    BY <1>15, <2>1, QuietLeave DEF Command
  <2>2. CASE ~Leave(t)
    <3>1. /\ pc[t] = "check" /\ pc' = [pc EXCEPT ![t] = "test"] /\ my' = [my EXCEPT ![t] = my[t]]
          /\ UNCHANGED <<name, content, shared, pool>>
      BY <1>15, <2>2 DEF Command
    <3>2. pool[p(t)].snap # None /\ my[t].snap = None
          /\ my[t].vm.regs = pool[p(t)].snap /\ my[t].vm.inode = name[Mem]
      BY <1>0, <3>1 DEF QuietInv, StageInv, Running
    <3> QED
      BY <3>1, <3>2, QuietFrame
  <2> QED
    BY <2>1, <2>2
<1>16. CASE Release(t)
  <2>1. /\ pc' = [pc EXCEPT ![t] = "idle"] /\ my' = [my EXCEPT ![t] = Fresh]
        /\ UNCHANGED <<name, content, shared>> /\ \A q \in Procs : pool'[q].snap = pool[q].snap
    BY <1>16 DEF Release
  <2>2. Fresh.snap = None
    BY DEF Fresh
  <2> QED
    BY <2>1, <2>2, QuietFrame
<1>17. CASE Invalidate(t)
  <2>1. pc'[t] = "invalidate"
    BY <1>17 DEF Invalidate
  <2> QED
    BY <2>1 DEF Calm
<1>18. CASE InvalidateMem(t)
  BY <1>0, <1>18 DEF InvalidateMem
<1> QED
  BY <1>1, <1>2, <1>3, <1>4, <1>5, <1>6, <1>7, <1>8, <1>9, <1>10, <1>11, <1>12, <1>13, <1>14, <1>15,
     <1>16, <1>17, <1>18 DEF Step

\* A process that is killed takes what it had loaded with it.
LEMMA QuietCrash ==
  ASSUME TypeOK, QuietInv, Calm', NEW q \in Procs, Crash(q)
  PROVE  QuietInv'
<1>1. /\ \A t \in Threads : \/ pc'[t] = pc[t] /\ my'[t] = my[t] /\ p(t) # q
                            \/ pc'[t] = "idle" /\ my'[t] = Fresh
      /\ pool'[q] = EmptyPool /\ \A r \in Procs \ {q} : pool'[r] = pool[r]
      /\ UNCHANGED <<name, content, shared>>
  BY DEF Crash, TypeOK, disk
<1>2. Fresh.snap = None /\ EmptyPool.snap = None
  BY DEF Fresh, EmptyPool
<1>3. Pair' <=> Pair
  BY <1>1 DEF Pair
<1>4. LoadedInv'
  BY <1>1, <1>2, <1>3 DEF QuietInv, LoadedInv, Loaded, Saving
<1>5. StageInv'
  <2> SUFFICES ASSUME NEW t \in Threads, pc'[t] = pc[t] /\ my'[t] = my[t] /\ p(t) # q
               PROVE  /\ pc'[t] \in {"dropMeta", "dropMem", "boot", "booting"} => ~Pair'
                      /\ pc'[t] = "metaOpen" => my'[t].fd = name'[Meta] /\ name'[Meta] # None
                      /\ pc'[t] \in {"saveMem", "memOpen"} =>
                           name'[Meta] # None /\ content'[name'[Meta]] = my'[t].build
                      /\ pc'[t] = "memOpen" =>
                           my'[t].fd = name'[Mem] /\ name'[Mem] # None /\ name'[Mem] \notin shared'
                      /\ pc'[t] = "share" => my'[t].snap # None
                      /\ pc'[t] \in {"lock", "take", "create", "mount", "check", "test"} =>
                           pool'[p(t)].snap # None
                      /\ pc'[t] = "create" => my'[t].inode = name'[Mem]
                      /\ Running(t)' => my'[t].vm.regs = pool'[p(t)].snap /\ my'[t].vm.inode = name'[Mem]
    BY <1>1 DEF StageInv, Running
  <2> QED
    BY <1>1, <1>3, Constants DEF QuietInv, StageInv, Running
<1> QED
  BY <1>4, <1>5 DEF QuietInv

-----------------------------------------------------------------------------
(* All together.                                                           *)

SandboxInv == TypeOK /\ OwnInv /\ FilesInv /\ MakerInv /\ (~trouble => QuietInv)

LEMMA InitSandbox == Init => SandboxInv
<1> SUFFICES ASSUME Init PROVE SandboxInv
  OBVIOUS
<1>1. TypeOK /\ OwnInv /\ FilesInv
  BY TypeInit
<1>2. /\ \A t \in Threads : pc[t] = "idle" /\ my[t] = Fresh
      /\ \A q \in Procs : pool[q] = EmptyPool
  BY DEF Init
<1>5. QuietInv
  <2>1. ~Loaded
    BY <1>2 DEF Loaded, Fresh, EmptyPool
  <2>2. ~Overlap
    BY <1>2 DEF Overlap, Saving
  <2>3. ~LeftHalf
    BY <1>1 DEF LeftHalf, Init, TypeOK, Builds, Old, None
  <2> QED
    BY <1>2, <2>1, <2>2, <2>3 DEF QuietInv, Calm, LoadedInv, StageInv, Running
<1>6. MakerInv
  BY <1>2, Constants DEF MakerInv, Init, Fresh, EmptyPool, NoMachine
<1> QED
  BY <1>1, <1>5, <1>6 DEF SandboxInv

LEMMA NextSandbox == SandboxInv /\ [Next]_vars => SandboxInv'
<1> SUFFICES ASSUME SandboxInv, [Next]_vars PROVE SandboxInv'
  OBVIOUS
<1>0. TypeOK /\ OwnInv /\ FilesInv /\ MakerInv /\ (~trouble => QuietInv)
  BY DEF SandboxInv
<1>1. CASE UNCHANGED vars
  <2>1. /\ UNCHANGED <<name, content, shared, saves>>
        /\ UNCHANGED <<pool, hv, pc, my, mishaps, trouble>>
    BY <1>1 DEF vars, disk
  <2>2. TypeOK' /\ OwnInv' /\ FilesInv' /\ MakerInv'
    <3>1. TypeOK'
      BY <1>0, <2>1 DEF TypeOK
    <3>2. OwnInv'
      BY <1>0, <2>1 DEF OwnInv, Runs, Running, Booting
    <3>3. FilesInv'
      BY <1>0, <2>1 DEF FilesInv, Saving
    <3>4. MakerInv'
      BY <1>0, <2>1 DEF MakerInv, Givers, p
    <3> QED
      BY <3>1, <3>2, <3>3, <3>4
  <2>3. QuietInv => QuietInv'
    BY <2>1 DEF QuietInv, Calm, Overlap, LeftHalf, LoadedInv, StageInv, Loaded, Pair, Saving, Busy, Running
  <2> QED
    BY <1>0, <2>1, <2>2, <2>3 DEF SandboxInv
<1>2. CASE Next
  <2>1. trouble' \in BOOLEAN /\ (~trouble' => ~trouble /\ Calm')
    BY <1>0, <1>2 DEF Next, Observe, Calm, TypeOK
  <2>2. CASE \E q \in Procs : Crash(q)
    <3> PICK q \in Procs : Crash(q)
      BY <2>2
    <3>1. TypeOK' /\ OwnInv' /\ FilesInv'
      <4>1. /\ pool' \in [Procs -> Pools] /\ hv' \in [Procs -> Threads \cup {Pool, Nobody, Lost}]
            /\ pc' \in [Threads -> Places] /\ my' \in [Threads -> Locals] /\ mishaps' \in 0 .. MaxMishaps
            /\ UNCHANGED <<name, content, shared, saves>>
            /\ FilesInv' /\ OwnInv'
        BY <1>0, CrashStep DEF disk
      <4>2. TypeOK'
        BY <1>0, <2>1, <4>1 DEF TypeOK, Pools
      <4> QED
        BY <4>1, <4>2
    <3>2. ~trouble' => QuietInv'
      BY <1>0, <2>1, QuietCrash
    <3>3. MakerInv'
      BY <1>0, MakerCrash
    <3> QED
      BY <3>1, <3>2, <3>3 DEF SandboxInv
  <2>3. CASE \E t \in Threads : Start(t) \/ Step(t) \/ Invalidate(t)
    <3> PICK t \in Threads : Start(t) \/ Step(t) \/ Invalidate(t)
      BY <2>3
    <3>1. TypeOK'
      BY <1>0, <2>1, TypeStep DEF TypeOK, Pools
    <3>2. OwnInv' /\ FilesInv'
      BY <1>0, OwnStep, FilesStep
    <3>3. ~trouble' => QuietInv'
      BY <1>0, <2>1, <3>2, QuietStep
    <3>4. MakerInv'
      BY <1>0, MakerStep
    <3> QED
      BY <3>1, <3>2, <3>3, <3>4 DEF SandboxInv
  <2> QED
    BY <1>2, <2>2, <2>3 DEF Next
<1> QED
  BY <1>1, <1>2

\* In every state the invariant of the pool, its files and its machines holds.
THEOREM SandboxInvariant == Spec => []SandboxInv
BY InitSandbox, NextSandbox, PTL DEF Spec

\* The variables range over what the code can put in them, whatever the number of
\* processes and threads, boots and mishaps.
THEOREM SandboxTypes == Spec => []TypeOK
<1>1. SandboxInv => TypeOK
  BY DEF SandboxInv
<1> QED
  BY <1>1, SandboxInvariant, PTL

\* The one machine a process may have belongs to a thread that still needs it, or to
\* the pool: acquire(), boot() and run_sandbox_validation() leak it on no way out, but
\* for one that was given back by one thread and dropped by another.
THEOREM MachinesOwned == Spec => []MachineOwned
<1>1. SandboxInv => MachineOwned
  <2> SUFFICES ASSUME SandboxInv, NEW q \in Procs
               PROVE  /\ hv[q] \in Threads =>
                           Runs(hv[q]) \/ pc[hv[q]] \in {"booting", "metaOpen", "saveMem", "memOpen"}
                      /\ (hv[q] = Pool) = (pool[q].cached # NoMachine)
                      /\ \A t \in Threads : Runs(t) /\ p(t) = q => hv[q] = t
                      /\ hv[q] = Lost =>
                           \E t \in Releasers, u \in Threads : t # u /\ p(t) = q /\ p(u) = q
    BY DEF MachineOwned
  <2>1. hv[q] = Lost => \E t \in Releasers, u \in Threads : t # u /\ p(t) = q /\ p(u) = q
    BY DEF SandboxInv, MakerInv, Givers
  <2> QED
    BY <2>1, Constants DEF SandboxInv, TypeOK, OwnInv, Running, Booting
<1> QED
  BY <1>1, SandboxInvariant, PTL

\* A validation runs on a machine that nobody used since its last reset.
THEOREM SessionsApart == Spec => []SessionsAreSeparate
<1>1. SandboxInv => SessionsAreSeparate
  BY DEF SandboxInv, OwnInv, SessionsAreSeparate, At
<1> QED
  BY <1>1, SandboxInvariant, PTL

\* But for the histories that trouble names, a machine runs on registers and memory of
\* one boot: ensure_snapshot() and get_or_init() hand out what is on disk, whole.
THEOREM WholeMachines == Spec => []WholeUnlessTrouble
<1>1. SandboxInv => WholeUnlessTrouble
  <2> SUFFICES ASSUME SandboxInv, ~trouble, NEW t \in Threads, Runs(t)
               PROVE  content[my[t].vm.inode] = my[t].vm.regs
    BY DEF WholeUnlessTrouble, MachineWhole
  <2>1. QuietInv /\ Running(t)
    BY DEF SandboxInv, OwnInv
  <2>2. /\ my[t].vm.regs = pool[p(t)].snap /\ my[t].vm.inode = name[Mem]
        /\ pool[p(t)].snap # None /\ p(t) \in Procs
    BY <2>1, Constants DEF QuietInv, StageInv, Running
  <2>3. Loaded
    BY <2>2 DEF Loaded
  <2>4. /\ Pair /\ pool[p(t)].snap = content[name[Meta]]
        /\ \A u \in Threads : ~Saving(u)
    BY <2>1, <2>2, <2>3 DEF QuietInv, LoadedInv
  <2>5. content[name[Mem]] = content[name[Meta]]
    BY <2>1, <2>4 DEF QuietInv, Calm, LeftHalf, Pair
  <2> QED
    BY <2>2, <2>4, <2>5
<1> QED
  BY <1>1, SandboxInvariant, PTL

=============================================================================
