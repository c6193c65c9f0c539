---------------------------- MODULE PullLoopProofs ----------------------------
(***************************************************************************)
(* Theorems about the workers, for any number of items, rigs, tasks and    *)
(* callers, any number of retries and any set of ids that are spawned      *)
(* twice.  They rest on two facts: any other rig id names one task; and    *)
(* what such a task has read is still so when it uses it, because only the *)
(* task itself gives back an item of its rig.                              *)
(***************************************************************************)
EXTENDS PullLoop, TLAPS

\* A task that has been spawned and has not ended.
InUse(t) == worker[t].pc \notin {"unused", "ended"}

\* What a worker is started with: a rig, and `back` set on the way into the loop.
Placed ==
  /\ \A t \in Tasks : InUse(t) => worker[t].rig \in Rigs
  /\ \A t \in Tasks : worker[t].pc = "sweep" => worker[t].back = "sweep"
  /\ \A t \in Tasks : worker[t].pc \in {"listen", "scan", "claim", "asleep"} => worker[t].back = "listen"
  /\ \A t \in Tasks :
       worker[t].pc \in {"acquire", "prepare", "execute", "validate", "cleanup", "unbranch"}
         => worker[t].item \in Items
  /\ \A a \in announcing : a \in Tasks \cup Callers

Inv == TypeOK /\ Placed

\* A rig id that is not spawned twice names one task.
OneTask ==
  \A t, u \in Tasks : InUse(t) /\ InUse(u) /\ Alone(t) /\ worker[t].rig = worker[u].rig => t = u

-----------------------------------------------------------------------------
(* Types                                                                   *)

\* The rows keep their types in each step of the board.
LEMMA RowsTyped ==
  ASSUME TypeOK, NEW i \in Items
  PROVE  /\ \A r \in Rigs : Rows!Take(i, r) =>
              status' \in [Items -> Statuses \cup {"Absent"}] /\ owner' \in [Items -> Rigs \cup {NoRig}]
         /\ Rows!Create(i) \/ Rows!Complete(i) \/ Rows!Release(i) \/ Rows!Stall(i) \/ Rows!GiveUp(i) =>
              status' \in [Items -> Statuses \cup {"Absent"}] /\ owner' \in [Items -> Rigs \cup {NoRig}]
BY DEF TypeOK, Statuses, Rows!Take, Rows!Create, Rows!Complete, Rows!Release, Rows!Stall,
       Rows!GiveUp, Rows!MoveTo

\* A worker that is replaced by one that is well placed.
LEMMA WorkerStep ==
  ASSUME Inv, NEW t \in Tasks, NEW w \in Workers, Go(t, w),
         w.pc \notin {"unused", "ended"} => w.rig \in Rigs,
         w.pc = "sweep" => w.back = "sweep",
         w.pc \in {"listen", "scan", "claim", "asleep"} => w.back = "listen",
         w.pc \in {"acquire", "prepare", "execute", "validate", "cleanup", "unbranch"} => w.item \in Items,
         announcing' \subseteq announcing \cup {t}
  PROVE  worker' \in [Tasks -> Workers] /\ Placed'
<1>1. worker' = [worker EXCEPT ![t] = w] /\ worker \in [Tasks -> Workers]
  BY DEF Inv, TypeOK, Go
<1>2. \A u \in Tasks : worker'[u] = IF u = t THEN w ELSE worker[u]
  BY <1>1
<1>3. announcing \subseteq Tasks \cup Callers
  BY DEF Inv, TypeOK
<1> QED
  BY <1>1, <1>2, <1>3 DEF Inv, Placed, InUse

LEMMA TypeInit == Init => Inv
<1> SUFFICES ASSUME Init PROVE Inv
  OBVIOUS
<1>1. Unused \in Workers
  BY PullLoopAssumption DEF Unused, Workers, Phases
<1>2. TypeOK
  BY <1>1 DEF Init, Rows!Init, TypeOK, Trees
<1>3. \A t \in Tasks : worker[t].pc = "unused"
  BY DEF Init, Unused
<1> QED
  BY <1>2, <1>3 DEF Inv, Placed, InUse, Init

\* The steps of a worker that leave board, worktrees and pool alone.
LEMMA TypeQuiet ==
  ASSUME Inv, NEW t \in Tasks, UNCHANGED <<rows, tree, pool, cancelled, announcing>>,
         listening' \subseteq listening \cup {t},
         \/ LoadStale(t) \/ ResumeEnds(t) \/ Listen(t) \/ Scan(t) \/ Wake(t) \/ EndCancelled(t)
         \/ CreateFails(t) \/ Prepare(t) \/ Execute(t) \/ TryAgain(t) \/ Refused(t)
         \/ \E i \in Items : \/ SweepKeep(t, i) \/ SweepOrphan(t, i) \/ ResumeItem(t, i)
                             \/ SkipClaimed(t, i) \/ ClaimFails(t, i)
  PROVE  Inv'
<1> USE PullLoopAssumption
<1>1. worker[t] \in Workers /\ listening' \subseteq Tasks /\ worker[t].item \in Items \cup {NoItem}
  BY DEF Inv, TypeOK, Workers
<1>2. worker' \in [Tasks -> Workers] /\ Placed'
  <2> DEFINE w == worker[t]
  <2> USE <1>1
  <2>1. CASE LoadStale(t) \/ ResumeEnds(t) \/ Listen(t) \/ Scan(t) \/ Wake(t)
    <3>1. CASE LoadStale(t)
      <4> DEFINE n == [w EXCEPT !.pc = "resume", !.todo = HeldBy(w.rig)]
      <4>1. n \in Workers /\ n.pc = "resume" /\ n.rig = w.rig /\ n.item = w.item /\ n.back = w.back
        BY DEF Workers, Phases, HeldBy
      <4>2. w.rig \in Rigs
        BY <3>1 DEF LoadStale, At, Inv, Placed, InUse
      <4> QED
        BY <3>1, <4>1, <4>2, WorkerStep DEF LoadStale
    <3>2. CASE ResumeEnds(t)
      <4> DEFINE n == [w EXCEPT !.pc = "listen", !.back = "listen", !.todo = {}]
      <4>1. n \in Workers /\ n.pc = "listen" /\ n.rig = w.rig /\ n.item = w.item /\ n.back = "listen"
        BY DEF Workers, Phases
      <4>2. w.rig \in Rigs
        BY <3>2 DEF ResumeEnds, At, Inv, Placed, InUse
      <4> QED
        BY <3>2, <4>1, <4>2, WorkerStep DEF ResumeEnds
    <3>3. CASE Listen(t)
      <4> DEFINE n == [w EXCEPT !.pc = "scan"]
      <4>1. n \in Workers /\ n.pc = "scan" /\ n.rig = w.rig /\ n.item = w.item /\ n.back = w.back
        BY DEF Workers, Phases
      <4>2. w.rig \in Rigs /\ w.back = "listen"
        BY <3>3 DEF Listen, At, Inv, Placed, InUse
      <4> QED
        BY <3>3, <4>1, <4>2, WorkerStep DEF Listen, GoTo
    <3>4. CASE Scan(t)
      <4> DEFINE n == [w EXCEPT !.pc = IF OpenItems = {} THEN "asleep" ELSE "claim",
                                !.todo = OpenItems]
      <4>1. n \in Workers /\ n.pc \in {"asleep", "claim"} /\ n.rig = w.rig /\ n.item = w.item /\ n.back = w.back
        BY DEF Workers, Phases, OpenItems
      <4>2. w.rig \in Rigs /\ w.back = "listen"
        BY <3>4 DEF Scan, At, Inv, Placed, InUse
      <4> QED
        BY <3>4, <4>1, <4>2, WorkerStep DEF Scan
    <3>5. CASE Wake(t)
      <4> DEFINE n == [w EXCEPT !.pc = "listen", !.todo = {}]
      <4>1. n \in Workers /\ n.pc = "listen" /\ n.rig = w.rig /\ n.item = w.item /\ n.back = w.back
        BY DEF Workers, Phases
      <4>2. w.rig \in Rigs /\ w.back = "listen"
        BY <3>5 DEF Wake, At, Inv, Placed, InUse
      <4> QED
        BY <3>5, <4>1, <4>2, WorkerStep DEF Wake
    <3> QED
      BY <2>1, <3>1, <3>2, <3>3, <3>4, <3>5
  <2>2. CASE EndCancelled(t) \/ CreateFails(t)
    <3> DEFINE n == [w EXCEPT !.pc = "ended"]
    <3>1. n \in Workers /\ n.pc = "ended"
      BY DEF Workers, Phases
    <3>2. Go(t, n)
      BY <2>2 DEF EndCancelled, CreateFails, GoTo
    <3> QED
      BY <3>1, <3>2, WorkerStep
  <2>3. CASE Prepare(t) \/ Execute(t) \/ TryAgain(t)
    <3>1. w.rig \in Rigs /\ w.item \in Items /\ w.attempt \in 0..MaxRetries
      BY <2>3 DEF Prepare, Execute, TryAgain, At, Inv, Placed, InUse, Workers
    <3>2. \E n \in Workers : /\ Go(t, n) /\ n.pc \in {"execute", "validate"}
                             /\ n.rig = w.rig /\ n.item = w.item
      <4>1. CASE Prepare(t)
        BY <4>1 DEF Prepare, GoTo, Workers, Phases
      <4>2. CASE Execute(t)
        BY <4>2 DEF Execute, GoTo, Workers, Phases
      <4>3. CASE TryAgain(t)
        <5> DEFINE n == [w EXCEPT !.pc = "execute", !.attempt = @ + 1]
        <5>1. w.attempt + 1 \in 0..MaxRetries
          BY <3>1, <4>3 DEF TryAgain
        <5>2. n \in Workers /\ n.pc = "execute" /\ n.rig = w.rig /\ n.item = w.item
          BY <5>1 DEF Workers, Phases
        <5> QED
          BY <4>3, <5>2 DEF TryAgain
      <4> QED
        BY <2>3, <4>1, <4>2, <4>3
    <3> QED
      BY <3>1, <3>2, WorkerStep
  <2>4. ASSUME NEW i \in Items,
               \/ SweepKeep(t, i) \/ SweepOrphan(t, i) \/ ResumeItem(t, i)
               \/ SkipClaimed(t, i) \/ ClaimFails(t, i)
        PROVE  worker' \in [Tasks -> Workers] /\ Placed'
    <3>1. w.rig \in Rigs
      BY <2>4 DEF SweepKeep, SweepOrphan, ResumeItem, SkipClaimed, ClaimFails, At, Inv, Placed, InUse
    <3>2. CASE SweepKeep(t, i)
      <4> DEFINE n == [w EXCEPT !.todo = @ \ {i}]
      <4>1. n \in Workers /\ n.pc = "sweep" /\ n.rig = w.rig /\ n.back = "sweep"
        BY <3>2 DEF Workers, SweepKeep, At, Inv, Placed
      <4> QED
        BY <3>1, <3>2, <4>1, WorkerStep DEF SweepKeep
    <3>3. CASE SweepOrphan(t, i)
      <4> DEFINE n == [w EXCEPT !.pc = "cleanup", !.todo = @ \ {i}, !.item = i]
      <4>1. n \in Workers /\ n.pc = "cleanup" /\ n.rig = w.rig /\ n.item = i
        BY DEF Workers, Phases
      <4> QED
        BY <3>1, <3>3, <4>1, WorkerStep DEF SweepOrphan
    <3>4. CASE ResumeItem(t, i)
      <4> DEFINE n == [w EXCEPT !.pc = "acquire", !.back = "resume", !.todo = @ \ {i}, !.item = i]
      <4>1. n \in Workers /\ n.pc = "acquire" /\ n.rig = w.rig /\ n.item = i
        BY DEF Workers, Phases
      <4> QED
        BY <3>1, <3>4, <4>1, WorkerStep DEF ResumeItem
    <3>5. CASE SkipClaimed(t, i) \/ ClaimFails(t, i)
      <4>1. w.back = "listen"
        BY <3>5 DEF SkipClaimed, ClaimFails, At, Inv, Placed
      <4>2. \E n \in Workers : Go(t, n) /\ n.pc \in {"listen", "claim", "asleep"} /\ n.rig = w.rig
                                 /\ n.back = w.back
        <5>1. CASE SkipClaimed(t, i)
          <6> DEFINE n == [w EXCEPT !.todo = @ \ {i}, !.pc = IF w.todo = {i} THEN "listen" ELSE "claim"]
          <6>1. n \in Workers /\ n.pc \in {"listen", "claim"} /\ n.rig = w.rig /\ n.back = w.back
            BY DEF Workers, Phases
          <6> QED
            BY <5>1, <6>1 DEF SkipClaimed
        <5>2. CASE ClaimFails(t, i)
          <6> DEFINE n == [w EXCEPT !.pc = "asleep", !.todo = @ \ {i}]
          <6>1. n \in Workers /\ n.pc = "asleep" /\ n.rig = w.rig /\ n.back = w.back
            BY DEF Workers, Phases
          <6> QED
            BY <5>2, <6>1 DEF ClaimFails
        <5> QED
          BY <3>5, <5>1, <5>2
      <4> QED
        BY <3>1, <4>1, <4>2, WorkerStep
    <3> QED
      BY <2>4, <3>2, <3>3, <3>4, <3>5
  <2>5. CASE Refused(t)
    <3>1. w.rig \in Rigs /\ w.pc \notin {"unused", "ended"}
      BY <2>5 DEF Refused, At, Working, Inv, Placed, InUse
    <3>2. ASSUME NEW i \in Items, At(t, "sweep"), Go(t, [w EXCEPT !.todo = @ \ {i}])
          PROVE  worker' \in [Tasks -> Workers] /\ Placed'
      <4> DEFINE n == [w EXCEPT !.todo = @ \ {i}]
      <4>1. n \in Workers /\ n.pc = "sweep" /\ n.rig = w.rig /\ n.back = "sweep"
        BY <3>2 DEF Workers, At, Inv, Placed
      <4> QED
        BY <3>1, <3>2, <4>1, WorkerStep
    <3>3. CASE Go(t, [w EXCEPT !.pc = "resume", !.left = HeldBy(w.rig)])
      <4> DEFINE n == [w EXCEPT !.pc = "resume", !.left = HeldBy(w.rig)]
      <4>1. n \in Workers /\ n.pc = "resume" /\ n.rig = w.rig
        BY DEF Workers, Phases, HeldBy
      <4> QED
        BY <3>1, <3>3, <4>1, WorkerStep
    <3>4. CASE At(t, "scan") /\ Go(t, [w EXCEPT !.pc = "asleep", !.todo = OpenItems])
      <4> DEFINE n == [w EXCEPT !.pc = "asleep", !.todo = OpenItems]
      <4>1. n \in Workers /\ n.pc = "asleep" /\ n.rig = w.rig /\ n.back = "listen"
        BY <3>4 DEF Workers, Phases, OpenItems, At, Inv, Placed
      <4> QED
        BY <3>1, <3>4, <4>1, WorkerStep
    <3>5. CASE At(t, "claim") /\ GoTo(t, "asleep")
      <4> DEFINE n == [w EXCEPT !.pc = "asleep"]
      <4>1. n \in Workers /\ n.pc = "asleep" /\ n.rig = w.rig /\ n.back = "listen"
        BY <3>5 DEF Workers, Phases, At, Inv, Placed
      <4> QED
        BY <3>1, <3>5, <4>1, WorkerStep DEF GoTo
    <3>6. CASE /\ At(t, "acquire")
               /\ Go(t, [w EXCEPT !.pc = w.back, !.item = NoItem, !.attempt = 0, !.left = @ \cup {w.item}])
      <4> DEFINE n == [w EXCEPT !.pc = w.back, !.item = NoItem, !.attempt = 0, !.left = @ \cup {w.item}]
      <4>1. w.item \in Items
        BY <3>6 DEF At, Inv, Placed
      <4>2. n \in Workers /\ n.pc = w.back /\ n.rig = w.rig /\ n.back = w.back
        <5>1. w.back \in Phases /\ w.left \cup {w.item} \subseteq Items /\ 0 \in 0..MaxRetries
          BY <4>1 DEF Workers, Phases
        <5> QED
          BY <5>1, ZenonT(60) DEF Workers
      <4>3. n.back \in {"sweep", "resume", "listen"}
        BY <4>2 DEF Workers
      <4> QED
        BY <3>1, <3>6, <4>2, <4>3, WorkerStep
    <3>7. CASE Working(t) /\ Go(t, [w EXCEPT !.pc = "cleanup", !.left = @ \cup {w.item}])
      <4> DEFINE n == [w EXCEPT !.pc = "cleanup", !.left = @ \cup {w.item}]
      <4>1. w.item \in Items
        BY <3>7 DEF Working, Inv, Placed
      <4>2. n \in Workers /\ n.pc = "cleanup" /\ n.rig = w.rig /\ n.item = w.item
        BY <4>1 DEF Workers, Phases
      <4> QED
        BY <3>1, <3>7, <4>1, <4>2, WorkerStep
    <3> QED
      <4>1. w.todo \subseteq Items
        BY DEF Workers
      <4> QED
        BY <2>5, <3>2, <3>3, <3>4, <3>5, <3>6, <3>7, <4>1 DEF Refused
  <2> QED
    BY <2>1, <2>2, <2>3, <2>4, <2>5
<1>3. TypeOK'
  BY <1>1, <1>2 DEF Inv, TypeOK, rows
<1> QED
  BY <1>2, <1>3 DEF Inv

\* Replacing the record of a task, as the steps on an item do.
LEMMA WorkersMade ==
  ASSUME NEW w \in Workers
  PROVE  /\ \A pc \in Phases : /\ [w EXCEPT !.pc = pc] \in Workers
                              /\ [w EXCEPT !.pc = pc].pc = pc
                              /\ [w EXCEPT !.pc = pc].rig = w.rig
                              /\ [w EXCEPT !.pc = pc].back = w.back
                              /\ [w EXCEPT !.pc = pc].todo = w.todo
                              /\ [w EXCEPT !.pc = pc].item = w.item
                              /\ [w EXCEPT !.pc = pc].left = w.left
         /\ \A pc \in Phases, r \in Rigs \cup {NoRig} :
              LET n == [w EXCEPT !.pc = pc, !.rig = r]
              IN  n \in Workers /\ n.pc = pc /\ n.rig = r
         /\ LET n == [w EXCEPT !.pc = w.back, !.item = NoItem, !.attempt = 0]
            IN  n \in Workers /\ n.pc = w.back /\ n.rig = w.rig /\ n.back = w.back
                /\ n.todo = w.todo /\ n.item = NoItem /\ n.left = w.left
<1>1. 0 \in 0..MaxRetries
  BY PullLoopAssumption
<1> QED
  BY <1>1, ZenonT(60) DEF Workers, Phases

\* GoTo() and Done() leave the task well placed.
LEMMA GoToStep ==
  ASSUME Inv, NEW t \in Tasks, InUse(t), announcing' \subseteq announcing \cup {t},
         \/ GoTo(t, "ended")
         \/ Done(t)
         \/ \E pc \in {"prepare", "execute", "validate", "cleanup", "unbranch"} :
              worker[t].item \in Items /\ GoTo(t, pc)
  PROVE  worker' \in [Tasks -> Workers] /\ Placed'
<1> DEFINE w == worker[t]
<1>1. w \in Workers /\ w.rig \in Rigs /\ w.back \in {"sweep", "resume", "listen"}
  BY DEF Inv, TypeOK, Workers, Placed, InUse
<1>2. CASE GoTo(t, "ended")
  <2> DEFINE n == [w EXCEPT !.pc = "ended"]
  <2>1. "ended" \in Phases
    BY DEF Phases
  <2>2. n \in Workers /\ n.pc = "ended"
    BY <1>1, <2>1, WorkersMade
  <2> QED
    BY <1>2, <2>2, WorkerStep DEF GoTo
<1>3. CASE Done(t)
  <2> DEFINE n == [w EXCEPT !.pc = w.back, !.item = NoItem, !.attempt = 0]
  <2>1. n \in Workers /\ n.pc = w.back /\ n.rig = w.rig /\ n.back = w.back
    BY <1>1, WorkersMade
  <2> QED
    BY <1>1, <1>3, <2>1, WorkerStep DEF Done
<1>4. ASSUME NEW pc \in {"prepare", "execute", "validate", "cleanup", "unbranch"}, w.item \in Items, GoTo(t, pc)
      PROVE  worker' \in [Tasks -> Workers] /\ Placed'
  <2> DEFINE n == [w EXCEPT !.pc = pc]
  <2>1. pc \in Phases
    BY DEF Phases
  <2>2. n \in Workers /\ n.pc = pc /\ n.rig = w.rig /\ n.item = w.item
    BY <1>1, <2>1, WorkersMade
  <2> QED
    BY <1>1, <1>4, <2>2, WorkerStep DEF GoTo
<1> QED
  BY <1>2, <1>3, <1>4

\* The steps of a worker on an item, and its launch.
LEMMA TypeItem ==
  ASSUME Inv, NEW t \in Tasks,
         \/ Launch(t) \/ Acquire(t) \/ AcquireFails(t) \/ Fail(t) \/ Submit(t) \/ GiveUpStuck(t)
         \/ RemoveTree(t) \/ RemoveBranch(t) \/ \E i \in Items : ClaimItem(t, i)
  PROVE  Inv'
<1> USE PullLoopAssumption
<1> DEFINE w == worker[t]
           rowsTyped == status' \in [Items -> Statuses \cup {"Absent"}] /\ owner' \in [Items -> Rigs \cup {NoRig}]
<1>1. w \in Workers /\ UNCHANGED <<cancelled, listening>>
  BY DEF Inv, TypeOK, Launch, Acquire, AcquireFails, Fail, Submit, GiveUpStuck, RemoveTree,
         RemoveBranch, ClaimItem
<1>2. InUse(t) /\ w.rig \in Rigs
  BY DEF Launch, Acquire, AcquireFails, Fail, Submit, GiveUpStuck, RemoveTree, RemoveBranch,
         ClaimItem, At, InUse, Inv, Placed
<1>3. CASE Launch(t)
  <2> DEFINE n == [w EXCEPT !.pc = "sweep", !.back = "sweep",
                            !.todo = {i \in Items : tree[w.rig][i] = "tree"}]
  <2>1. n \in Workers /\ n.pc = "sweep" /\ n.back = "sweep" /\ n.rig = w.rig
    BY <1>1 DEF Workers, Phases
  <2>2. worker' \in [Tasks -> Workers] /\ Placed'
    BY <1>2, <1>3, <2>1, WorkerStep DEF Launch
  <2> QED
    BY <1>1, <1>3, <2>2 DEF Launch, Inv, TypeOK, rows
<1>4. ASSUME NEW i \in Items, ClaimItem(t, i) PROVE Inv'
  <2> DEFINE n == [w EXCEPT !.pc = "acquire", !.back = "listen", !.todo = {}, !.item = i,
                            !.left = @ \ {i}]
  <2>1. n \in Workers /\ n.pc = "acquire" /\ n.rig = w.rig /\ n.item = i
    BY <1>1 DEF Workers, Phases
  <2>2. worker' \in [Tasks -> Workers] /\ Placed'
    BY <1>2, <1>4, <2>1, WorkerStep DEF ClaimItem
  <2>3. rowsTyped
    BY <1>2, <1>4, RowsTyped DEF ClaimItem, Inv
  <2> QED
    BY <1>1, <1>4, <2>2, <2>3 DEF ClaimItem, Inv, TypeOK
<1>5. CASE \/ Acquire(t) \/ AcquireFails(t) \/ Fail(t) \/ Submit(t) \/ GiveUpStuck(t)
           \/ RemoveTree(t) \/ RemoveBranch(t)
  <2>1. w.item \in Items
    BY <1>5 DEF Acquire, AcquireFails, Fail, Submit, GiveUpStuck, RemoveTree, RemoveBranch, At, Inv, Placed
  <2>2. announcing' \subseteq announcing \cup {t} /\ pool' = pool
    BY <1>5 DEF Acquire, AcquireFails, Fail, Submit, GiveUpStuck, RemoveTree, RemoveBranch, GiveBack
  <2>3. worker' \in [Tasks -> Workers] /\ Placed'
    <3>1. \/ Done(t)
          \/ GoTo(t, "prepare") \/ GoTo(t, "cleanup") \/ GoTo(t, "unbranch")
      BY <1>5 DEF Acquire, AcquireFails, Fail, Submit, GiveUpStuck, RemoveTree, RemoveBranch
    <3> QED
      BY <1>2, <2>1, <2>2, <3>1, GoToStep
  <2>4. rowsTyped
    <3>1. \/ UNCHANGED rows
          \/ Rows!Release(w.item) \/ Rows!Complete(w.item) \/ Rows!Stall(w.item)
      BY <1>5 DEF Acquire, AcquireFails, Fail, Submit, GiveUpStuck, RemoveTree, RemoveBranch, GiveBack, rows
    <3> QED
      BY <2>1, <3>1, RowsTyped DEF Inv, TypeOK, rows
  <2>5. tree' \in [Rigs -> [Items -> Trees]]
    <3>1. tree \in [Rigs -> [Items -> Trees]]
      BY DEF Inv, TypeOK
    <3>2. CASE Acquire(t)
      BY <1>2, <2>1, <3>1, <3>2 DEF Acquire, Trees
    <3>3. CASE RemoveTree(t)
      BY <1>2, <2>1, <3>1, <3>3 DEF RemoveTree, Trees
    <3>4. CASE RemoveBranch(t)
      BY <1>2, <2>1, <3>1, <3>4 DEF RemoveBranch, Trees
    <3> QED
      BY <1>5, <3>1, <3>2, <3>3, <3>4 DEF AcquireFails, Fail, Submit, GiveUpStuck
  <2> QED
    BY <1>1, <2>2, <2>3, <2>4, <2>5 DEF Inv, TypeOK
<1> QED
  BY <1>3, <1>4, <1>5

\* The pool, the board's other callers, notifications and a crash.
LEMMA TypeOthers ==
  ASSUME Inv,
         \/ \E t \in Tasks, r \in Rigs : Spawn(t, r)
         \/ \E r \in Rigs : Remove(r)
         \/ \E a \in Tasks \cup Callers : Announce(a)
         \/ \E c \in Callers : Outside(c)
         \/ Crash
  PROVE  Inv'
<1> USE PullLoopAssumption
<1>1. Unused \in Workers
  BY DEF Unused, Workers, Phases
<1>2. ASSUME NEW t \in Tasks, NEW r \in Rigs, Spawn(t, r) PROVE Inv'
  <2> DEFINE n == [Unused EXCEPT !.pc = "creating", !.rig = r]
  <2>1. n \in Workers /\ n.pc = "creating" /\ n.rig = r
    <3>1. \A w \in Workers :
            LET m == [w EXCEPT !.pc = "creating", !.rig = r]
            IN  m \in Workers /\ m.pc = "creating" /\ m.rig = r
      BY DEF Workers, Phases
    <3> QED
      BY <1>1, <3>1
  <2>2. worker' \in [Tasks -> Workers] /\ Placed'
    BY <1>2, <2>1, WorkerStep DEF Spawn
  <2> QED
    BY <1>2, <2>2 DEF Spawn, Inv, TypeOK, rows
<1>3. ASSUME NEW r \in Rigs, Remove(r) PROVE Inv'
  BY <1>3 DEF Remove, Inv, TypeOK, rows, Placed, InUse
<1>4. ASSUME NEW a \in Tasks \cup Callers, Announce(a) PROVE Inv'
  BY <1>4 DEF Announce, Inv, TypeOK, rows, Placed, InUse
<1>5. ASSUME NEW c \in Callers, Outside(c) PROVE Inv'
  <2>1. status' \in [Items -> Statuses \cup {"Absent"}] /\ owner' \in [Items -> Rigs \cup {NoRig}]
    BY <1>5, RowsTyped DEF Outside, Inv
  <2>2. announcing' \subseteq Tasks \cup Callers
    BY <1>5 DEF Outside, Inv, TypeOK
  <2> QED
    BY <1>5, <2>1, <2>2 DEF Outside, Inv, TypeOK, Placed, InUse
<1>6. CASE Crash
  <2>1. \A t \in Tasks : [Unused EXCEPT !.pc = "ended", !.rig = worker[t].rig] \in Workers
    <3>1. \A t \in Tasks : worker[t].rig \in Rigs \cup {NoRig}
      BY DEF Inv, TypeOK, Workers
    <3> QED
      <4>1. "ended" \in Phases
        BY DEF Phases
      <4> QED
        BY <1>1, <3>1, <4>1, WorkersMade
  <2>2. worker' \in [Tasks -> Workers]
    BY <1>1, <1>6, <2>1 DEF Crash
  <2>3. \A t \in Tasks : worker'[t].pc \in {"unused", "ended"}
    BY <1>6 DEF Crash, Unused
  <2> QED
    BY <1>6, <2>2, <2>3 DEF Crash, Inv, TypeOK, rows, Placed, InUse
<1> QED
  BY <1>2, <1>3, <1>4, <1>5, <1>6

\* Every step is one of those.
LEMMA TypeNext == Inv /\ [Next]_vars => Inv'
<1> SUFFICES ASSUME Inv, [Next]_vars PROVE Inv'
  OBVIOUS
<1>1. ASSUME NEW t \in Tasks, Proceed(t) PROVE Inv'
  <2>1. CASE \/ LoadStale(t) \/ ResumeEnds(t) \/ Listen(t) \/ Scan(t) \/ Wake(t) \/ EndCancelled(t)
             \/ CreateFails(t) \/ Prepare(t) \/ Execute(t) \/ TryAgain(t) \/ Refused(t)
             \/ \E i \in Items : \/ SweepKeep(t, i) \/ SweepOrphan(t, i) \/ ResumeItem(t, i)
                                 \/ SkipClaimed(t, i) \/ ClaimFails(t, i)
    <3>1. UNCHANGED <<rows, tree, pool, cancelled, announcing>> /\ listening' \subseteq listening \cup {t}
      BY <2>1 DEF LoadStale, ResumeEnds, Listen, Scan, Wake, EndCancelled, CreateFails, Prepare, Execute,
                  TryAgain, Refused, SweepKeep, SweepOrphan, ResumeItem, SkipClaimed, ClaimFails
    <3> QED
      BY <2>1, <3>1, TypeQuiet
  <2>2. CASE \/ Launch(t) \/ Acquire(t) \/ AcquireFails(t) \/ Fail(t) \/ Submit(t) \/ GiveUpStuck(t)
             \/ RemoveTree(t) \/ RemoveBranch(t) \/ \E i \in Items : ClaimItem(t, i)
    BY <2>2, TypeItem
  <2> QED
    BY <1>1, <2>1, <2>2 DEF Proceed
<1>2. CASE UNCHANGED vars
  BY <1>2 DEF vars, rows, Inv, TypeOK, Placed, InUse
<1> QED
  BY <1>1, <1>2, TypeOthers DEF Next

\* Type correctness of the workers and of the rows they work on.
THEOREM TypeCorrect == Spec => []TypeOK
<1>1. Inv => TypeOK
  BY DEF Inv
<1> QED
  BY <1>1, TypeInit, TypeNext, PTL DEF Spec

-----------------------------------------------------------------------------
(* One task per rig id                                                     *)

\* A task by itself changes no other task, and not the rig it is of.
LEMMA OwnStep ==
  ASSUME Inv, NEW t \in Tasks, Proceed(t)
  PROVE  /\ InUse(t) /\ worker'[t].rig = worker[t].rig
         /\ \A u \in Tasks : u # t => worker'[u] = worker[u]
<1> DEFINE w == worker[t]
<1>1. w \in Workers /\ worker \in [Tasks -> Workers]
  BY DEF Inv, TypeOK
<1> DEFINE Own == worker'[t].rig = w.rig /\ \A u \in Tasks : u # t => worker'[u] = worker[u]
<1>2. \A n : Go(t, n) /\ n.rig = w.rig => Own
  BY <1>1 DEF Go
<1> HIDE DEF Own
<1>3. Own
  <2>1. CASE Launch(t) \/ CreateFails(t) \/ LoadStale(t) \/ ResumeEnds(t) \/ Listen(t) \/ Scan(t)
    BY <1>1, <1>2, <2>1 DEF Launch, CreateFails, LoadStale, ResumeEnds, Listen, Scan, GoTo, Workers
  <2>2. CASE Wake(t) \/ EndCancelled(t) \/ Acquire(t) \/ AcquireFails(t) \/ Prepare(t) \/ Execute(t)
    BY <1>1, <1>2, <2>2 DEF Wake, EndCancelled, Acquire, AcquireFails, Prepare, Execute, Done, GoTo, Workers
  <2>3. CASE Fail(t) \/ Submit(t) \/ TryAgain(t) \/ GiveUpStuck(t) \/ RemoveTree(t) \/ RemoveBranch(t)
    BY <1>1, <1>2, <2>3 DEF Fail, Submit, TryAgain, GiveUpStuck, RemoveTree, RemoveBranch, Done, GoTo, Workers
  <2>4. ASSUME NEW i \in Items,
               \/ SweepKeep(t, i) \/ SweepOrphan(t, i) \/ ResumeItem(t, i)
               \/ ClaimItem(t, i) \/ SkipClaimed(t, i) \/ ClaimFails(t, i)
        PROVE  Own
    BY <1>1, <1>2, <2>4 DEF SweepKeep, SweepOrphan, ResumeItem, ClaimItem, SkipClaimed, ClaimFails, Workers
  <2>5. CASE Refused(t)
    BY <1>1, <1>2, <2>5 DEF Refused, GoTo, Workers
  <2> QED
    BY <2>1, <2>2, <2>3, <2>4, <2>5 DEF Proceed
<1>4. InUse(t)
  BY DEF Refused, Working, Proceed, Launch, CreateFails, LoadStale, ResumeEnds, Listen, Scan, Wake, EndCancelled, Acquire,
         AcquireFails, Prepare, Execute, Fail, Submit, TryAgain, GiveUpStuck, RemoveTree, RemoveBranch,
         SweepKeep, SweepOrphan, ResumeItem, ClaimItem, SkipClaimed, ClaimFails, At, InUse
<1> QED
  BY <1>3, <1>4 DEF Own

\* The steps of all others leave the tasks as they are, start one, or end them all.
LEMMA OthersStep ==
  ASSUME Inv, [Next]_vars
  PROVE  \/ \E t \in Tasks : Proceed(t)
         \/ UNCHANGED worker
         \/ \E t \in Tasks, r \in Rigs : Spawn(t, r)
         \/ Crash
BY DEF Next, vars, Remove, Announce, Outside

\* An id that is not spawned again while its worker is alive names one task.
LEMMA OneTaskStep == Inv /\ OneTask /\ [Next]_vars => OneTask'
<1> SUFFICES ASSUME Inv, OneTask, [Next]_vars PROVE OneTask'
  OBVIOUS
<1>0. worker \in [Tasks -> Workers] /\ worker' \in [Tasks -> Workers]
  BY TypeNext DEF Inv, TypeOK
<1>1. ASSUME NEW t \in Tasks, Proceed(t) PROVE OneTask'
  <2>1. InUse(t) /\ \A u \in Tasks : worker'[u].rig = worker[u].rig /\ (InUse(u)' => InUse(u))
    BY <1>1, OwnStep DEF InUse
  <2> QED
    BY <2>1 DEF OneTask, InUse, Alone
<1>2. ASSUME NEW t \in Tasks, NEW r \in Rigs, Spawn(t, r) PROVE OneTask'
  <2>1. r \notin Shared => \A u \in Tasks : InUse(u) => worker[u].rig # r
    BY <1>2 DEF Spawn, InUse
  <2>2. worker'[t].rig = r /\ \A u \in Tasks : u # t => worker'[u] = worker[u]
    BY <1>0, <1>2 DEF Spawn, Go, Unused
  <2> QED
    BY <2>1, <2>2 DEF OneTask, InUse, Alone
<1>3. CASE UNCHANGED worker
  BY <1>3 DEF OneTask, InUse, Alone
<1>4. CASE Crash
  BY <1>4 DEF Crash, OneTask, InUse, Unused, Alone
<1> QED
  BY <1>1, <1>2, <1>3, <1>4, OthersStep

-----------------------------------------------------------------------------
(* The worktree of the item at hand                                        *)

\* A worktree is removed only by the worker of its rig, which is then past its item.
LEMMA TreeStep ==
  Inv /\ OneTask /\ TreeWhileWorking /\ [Next]_vars => TreeWhileWorking'
<1> SUFFICES ASSUME Inv, OneTask, TreeWhileWorking, [Next]_vars, NEW u \in Tasks, Working(u)', Alone(u)'
             PROVE  tree'[worker'[u].rig][worker'[u].item] = "tree"
  BY DEF TreeWhileWorking
<1>0. /\ worker \in [Tasks -> Workers] /\ worker' \in [Tasks -> Workers]
      /\ tree \in [Rigs -> [Items -> Trees]]
  BY TypeNext DEF Inv, TypeOK
<1>1. ASSUME NEW t \in Tasks, Proceed(t)
      PROVE  tree'[worker'[u].rig][worker'[u].item] = "tree"
  <2>1. InUse(t) /\ worker'[t].rig = worker[t].rig /\ \A v \in Tasks : v # t => worker'[v] = worker[v]
    BY <1>1, OwnStep
  <2>2. worker[t].rig \in Rigs
    BY <2>1 DEF Inv, Placed
  <2>3. CASE u = t
    <3>1. \/ Acquire(t)
          \/ (Prepare(t) \/ Execute(t) \/ TryAgain(t)) /\ worker'[t].item = worker[t].item
      <4> DEFINE w == worker[t]
      <4>1. w \in Workers /\ \A n : Go(t, n) => worker'[t] = n
        BY <1>0 DEF Go
      <4>2. worker'[t].pc \in {"prepare", "execute", "validate"}
        BY <2>3 DEF Working
      <4>3. ~Done(t)
        BY <4>1, <4>2 DEF Done, Workers
      <4>4. ~GoTo(t, "ended") /\ ~GoTo(t, "scan") /\ ~GoTo(t, "cleanup") /\ ~GoTo(t, "unbranch")
        BY <4>1, <4>2 DEF GoTo, Workers
      <4>5. ~LoadStale(t) /\ ~ResumeEnds(t) /\ ~Scan(t) /\ ~Wake(t) /\ ~Launch(t)
        BY <4>1, <4>2 DEF LoadStale, ResumeEnds, Scan, Wake, Launch, Workers
      <4>8. ~Refused(t)
        <5> SUFFICES ASSUME Refused(t) PROVE worker'[t].pc \notin {"prepare", "execute", "validate"}
          BY <4>2
        <5>1. w.back \in {"sweep", "resume", "listen"}
          BY <4>1 DEF Workers
        <5> QED
          BY <4>1, <5>1 DEF Refused, At, GoTo, Workers
      <4>6. ASSUME NEW i \in Items
            PROVE  /\ ~SweepKeep(t, i) /\ ~SweepOrphan(t, i) /\ ~ResumeItem(t, i)
                   /\ ~ClaimItem(t, i) /\ ~SkipClaimed(t, i) /\ ~ClaimFails(t, i)
        BY <4>1, <4>2, ZenonT(60) DEF SweepKeep, SweepOrphan, ResumeItem, ClaimItem, SkipClaimed, ClaimFails, At, Workers
      <4>7. Acquire(t) \/ Prepare(t) \/ Execute(t) \/ TryAgain(t)
        BY <1>1, <4>3, <4>4, <4>5, <4>6, <4>8
           DEF Proceed, CreateFails, Listen, EndCancelled, AcquireFails, Fail, Submit, GiveUpStuck,
               RemoveTree, RemoveBranch
      <4> QED
        BY <4>1, <4>7 DEF Prepare, Execute, TryAgain, GoTo, Workers
    <3>2. CASE Acquire(t)
      <4>1. worker[t].item \in Items /\ worker'[t].item = worker[t].item
        BY <1>0, <3>2 DEF Acquire, At, Inv, Placed, GoTo, Go, Workers
      <4> QED
        BY <1>0, <2>1, <2>2, <2>3, <3>2, <4>1 DEF Acquire
    <3>3. CASE (Prepare(t) \/ Execute(t) \/ TryAgain(t)) /\ worker'[t].item = worker[t].item
      <4>1. Working(t) /\ tree' = tree
        BY <3>3 DEF Prepare, Execute, TryAgain, At, Working
      <4> QED
        BY <2>1, <2>3, <3>3, <4>1 DEF TreeWhileWorking, Alone
    <3> QED
      BY <3>1, <3>2, <3>3
  <2>4. CASE u # t
    <3>1. /\ Working(u) /\ Alone(u) /\ worker'[u] = worker[u]
          /\ tree[worker[u].rig][worker[u].item] = "tree"
      BY <2>1, <2>4 DEF Working, TreeWhileWorking, Alone
    <3>2. worker[u].rig # worker[t].rig
      BY <2>1, <2>4, <3>1 DEF OneTask, InUse, Working
    <3>3. tree'[worker[u].rig] = tree[worker[u].rig]
      <4>1. CASE Acquire(t) \/ RemoveTree(t) \/ RemoveBranch(t)
        <5>1. \/ tree' = tree
              \/ \E v : tree' = [tree EXCEPT ![worker[t].rig][worker[t].item] = v]
          BY <4>1 DEF Acquire, RemoveTree, RemoveBranch
        <5>2. worker[u].rig \in Rigs
          BY <3>1 DEF Inv, Placed, InUse, Working
        <5> QED
          BY <1>0, <3>2, <5>1, <5>2
      <4>2. CASE ~(Acquire(t) \/ RemoveTree(t) \/ RemoveBranch(t))
        BY <1>1, <4>2 DEF Proceed, Refused, Launch, CreateFails, LoadStale, ResumeEnds, Listen, Scan, Wake, EndCancelled,
             AcquireFails, Prepare, Execute, Fail, Submit, TryAgain, GiveUpStuck, SweepKeep, SweepOrphan,
             ResumeItem, ClaimItem, SkipClaimed, ClaimFails
      <4> QED
        BY <4>1, <4>2
    <3> QED
      BY <3>1, <3>3
  <2> QED
    BY <2>3, <2>4
<1>2. ASSUME NEW t \in Tasks, NEW r \in Rigs, Spawn(t, r)
      PROVE  tree'[worker'[u].rig][worker'[u].item] = "tree"
  BY <1>0, <1>2 DEF Spawn, Go, Unused, Working, TreeWhileWorking, Alone
<1>3. CASE UNCHANGED worker
  <2>1. CASE \E t \in Tasks : Proceed(t)
    BY <1>1, <2>1
  <2>2. CASE ~\E t \in Tasks : Proceed(t)
    <3>1. tree' = tree
      BY <2>2 DEF Next, vars, Remove, Announce, Outside, Spawn, Crash
    <3> QED
      BY <1>3, <3>1 DEF Working, TreeWhileWorking, Alone
  <2> QED
    BY <2>1, <2>2
<1>4. CASE Crash
  BY <1>4 DEF Crash, Working, Unused
<1> QED
  BY <1>1, <1>2, <1>3, <1>4, OthersStep

\* The worktree a worker is in is there until it is done, if its rig id is its own.
THEOREM WorktreeStays == Spec => []TreeWhileWorking
<1>1. Init => OneTask /\ TreeWhileWorking
  BY DEF Init, Unused, OneTask, InUse, TreeWhileWorking, Working
<1> DEFINE I == Inv /\ OneTask /\ TreeWhileWorking
<1>2. I /\ [Next]_vars => I'
  BY TypeNext, OneTaskStep, TreeStep
<1> QED
  BY <1>1, <1>2, TypeInit, PTL DEF Spec

-----------------------------------------------------------------------------
(* What a step of a task does to the item at hand and to the list of items *)

Loop == {"listen", "scan", "claim", "asleep"}

\* On an item, from taking it up to the call that ends it.
Engaged(t) == worker[t].pc \in {"acquire", "prepare", "execute", "validate"}

\* `todo` is the list of items to resume.
Resuming(t) == worker[t].pc = "resume" \/ worker[t].back = "resume"

\* Not in the loop yet, or not any more.
Outer(t) ==
  /\ worker'[t].pc \in {"sweep", "cleanup", "ended"}
  /\ worker'[t].pc # "ended" => worker'[t].back = "sweep"

\* The items to resume are read, or could not be.
Reads(t) ==
  /\ UNCHANGED rows
  /\ worker'[t].pc = "resume"
  /\ worker'[t].todo \subseteq HeldBy(worker[t].rig)
  /\ HeldBy(worker[t].rig) \subseteq worker'[t].todo \cup worker'[t].left

\* Into the loop, or on in it.
Loops(t) ==
  /\ UNCHANGED rows
  /\ worker'[t].pc \in Loop /\ worker'[t].back = "listen" /\ worker'[t].left = worker[t].left
  /\ \/ worker[t].pc \in Loop /\ worker[t].back = "listen"
     \/ worker[t].pc = "resume" /\ (worker[t].todo = {} \/ t \in cancelled)

\* An item from the list.
TakesUp(t) ==
  /\ UNCHANGED rows
  /\ worker[t].pc = "resume" /\ worker'[t].pc = "acquire" /\ worker'[t].back = "resume"
  /\ worker'[t].item \in worker[t].todo
  /\ worker'[t].todo = worker[t].todo \ {worker'[t].item}
  /\ worker'[t].left = worker[t].left

\* An item from the board.
Claims(t) ==
  /\ worker[t].pc = "claim" /\ worker[t].back = "listen"
  /\ worker'[t].pc = "acquire" /\ worker'[t].back = "listen"
  /\ worker'[t].left = worker[t].left \ {worker'[t].item}
  /\ \E i \in Items : i = worker'[t].item /\ Rows!Take(i, worker[t].rig)

SameList(t) ==
  /\ worker'[t].todo = worker[t].todo /\ worker'[t].back = worker[t].back
  /\ worker[t].left \subseteq worker'[t].left

KeepsOn(t) ==
  /\ UNCHANGED rows
  /\ SameList(t)
  /\ worker'[t].item = worker[t].item
  /\ Engaged(t) /\ Engaged(t)'

\* The item is handed back, submitted or marked, or was not the worker's any more, or
\* the database refused the call.
LetsGo(t) ==
  /\ SameList(t)
  /\ Engaged(t) /\ worker'[t].pc \in {"cleanup", worker[t].back}
  /\ \A i \in Items : i # worker[t].item => status'[i] = status[i] /\ owner'[i] = owner[i]
  /\ status'[worker[t].item] = "Claimed" /\ owner'[worker[t].item] = worker[t].rig
       => worker[t].item \in worker'[t].left

CleansUp(t) ==
  /\ UNCHANGED rows
  /\ SameList(t)
  /\ worker[t].pc \in {"cleanup", "unbranch"} /\ worker'[t].pc \in {"unbranch", worker[t].back}

\* Every step of a task is one of these.
LEMMA Shape ==
  ASSUME Inv, NEW t \in Tasks, Proceed(t)
  PROVE  \/ Outer(t) \/ Reads(t) \/ Loops(t) \/ TakesUp(t) \/ Claims(t)
         \/ KeepsOn(t) \/ LetsGo(t) \/ CleansUp(t)
<1> DEFINE w == worker[t]
<1>1. w \in Workers /\ worker \in [Tasks -> Workers]
  BY DEF Inv, TypeOK
<1>2. \A n : Go(t, n) => worker'[t] = n
  BY <1>1 DEF Go
<1>3. w.pc = "sweep" => w.back = "sweep"
  BY DEF Inv, Placed
<1>4. w.pc \in Loop => w.back = "listen"
  BY DEF Inv, Placed, Loop
<1>5. CASE Launch(t) \/ CreateFails(t) \/ EndCancelled(t) \/ \E i \in Items : SweepKeep(t, i) \/ SweepOrphan(t, i)
  <2>1. CASE Launch(t)
    BY <1>1, <1>2, <2>1 DEF Launch, Outer, Workers
  <2>2. CASE CreateFails(t) \/ EndCancelled(t)
    BY <1>1, <1>2, <2>2 DEF CreateFails, EndCancelled, GoTo, Outer, Workers
  <2>3. ASSUME NEW i \in Items, SweepKeep(t, i) \/ SweepOrphan(t, i) PROVE Outer(t)
    BY <1>1, <1>2, <1>3, <2>3 DEF SweepKeep, SweepOrphan, At, Outer, Workers
  <2> QED
    BY <1>5, <2>1, <2>2, <2>3
<1>6. CASE LoadStale(t)
  BY <1>1, <1>2, <1>6 DEF LoadStale, Reads, Workers, rows
<1>7. CASE ResumeEnds(t) \/ Listen(t) \/ Scan(t) \/ Wake(t) \/ \E i \in Items : SkipClaimed(t, i) \/ ClaimFails(t, i)
  <2>1. CASE ResumeEnds(t)
    BY <1>1, <1>2, <2>1 DEF ResumeEnds, At, Loops, Loop, Workers, rows
  <2>2. CASE Listen(t)
    BY <1>1, <1>2, <1>4, <2>2 DEF Listen, At, GoTo, Loops, Loop, Workers, rows
  <2>3. CASE Scan(t)
    BY <1>1, <1>2, <1>4, <2>3 DEF Scan, At, Loops, Loop, Workers, rows
  <2>4. CASE Wake(t)
    BY <1>1, <1>2, <1>4, <2>4 DEF Wake, At, Loops, Loop, Workers, rows
  <2>5. ASSUME NEW i \in Items, SkipClaimed(t, i) \/ ClaimFails(t, i) PROVE Loops(t)
    BY <1>1, <1>2, <1>4, <2>5 DEF SkipClaimed, ClaimFails, At, Loops, Loop, Workers, rows
  <2> QED
    BY <1>7, <2>1, <2>2, <2>3, <2>4, <2>5
<1>8. ASSUME NEW i \in Items, ResumeItem(t, i) PROVE TakesUp(t)
  <2> DEFINE n == [w EXCEPT !.pc = "acquire", !.back = "resume", !.todo = @ \ {i}, !.item = i]
  <2>1. worker'[t] = n
    BY <1>2, <1>8 DEF ResumeItem
  <2>2. n.pc = "acquire" /\ n.back = "resume" /\ n.item = i /\ n.todo = w.todo \ {i} /\ n.left = w.left
    BY <1>1 DEF Workers
  <2> HIDE DEF n
  <2> QED
    BY <1>8, <2>1, <2>2 DEF ResumeItem, At, TakesUp, rows
<1>9. ASSUME NEW i \in Items, ClaimItem(t, i) PROVE Claims(t)
  <2> DEFINE n == [w EXCEPT !.pc = "acquire", !.back = "listen", !.todo = {}, !.item = i, !.left = @ \ {i}]
  <2>1. worker'[t] = n
    BY <1>2, <1>9 DEF ClaimItem
  <2>2. n.pc = "acquire" /\ n.back = "listen" /\ n.item = i /\ n.left = w.left \ {i}
    BY <1>1 DEF Workers
  <2>3. w.pc = "claim" /\ w.back = "listen"
    BY <1>4, <1>9 DEF ClaimItem, At, Loop
  <2> HIDE DEF n
  <2> QED
    BY <1>9, <2>1, <2>2, <2>3 DEF ClaimItem, Claims
<1>10. CASE Acquire(t) \/ Prepare(t) \/ Execute(t) \/ TryAgain(t)
  BY <1>1, <1>2, <1>10 DEF Acquire, Prepare, Execute, TryAgain, At, GoTo, KeepsOn, SameList, Engaged, Workers, rows
<1>11. CASE AcquireFails(t) \/ Fail(t) \/ Submit(t) \/ GiveUpStuck(t)
  <2>1. Engaged(t) /\ w.item \in Items /\ w.rig \in Rigs
    BY <1>11 DEF AcquireFails, Fail, Submit, GiveUpStuck, At, Engaged, Inv, Placed, InUse
  <2>2. SameList(t) /\ worker'[t].pc \in {"cleanup", w.back}
    <3>1. CASE AcquireFails(t)
      BY <1>1, <1>2, <3>1 DEF AcquireFails, Done, SameList, Workers
    <3>2. CASE Fail(t) \/ Submit(t) \/ GiveUpStuck(t)
      BY <1>1, <1>2, <3>2 DEF Fail, Submit, GiveUpStuck, GoTo, SameList, Workers
    <3> QED
      BY <1>11, <3>1, <3>2
  <2>3. /\ \A i \in Items : i # w.item => status'[i] = status[i] /\ owner'[i] = owner[i]
        /\ ~(status'[w.item] = "Claimed" /\ owner'[w.item] = w.rig)
    <3>1. status \in [Items -> Statuses \cup {"Absent"}] /\ owner \in [Items -> Rigs \cup {NoRig}]
      BY DEF Inv, TypeOK
    <3>2. CASE AcquireFails(t) \/ Fail(t)
      BY <2>1, <3>1, <3>2 DEF AcquireFails, Fail, GiveBack, HeldBy, rows, Rows!Release, Rows!MoveTo
    <3>3. CASE Submit(t)
      BY <2>1, <3>1, <3>3 DEF Submit, HeldBy, rows, Rows!Complete, Rows!MoveTo
    <3>4. CASE GiveUpStuck(t)
      BY <2>1, <3>1, <3>4 DEF GiveUpStuck, NotHeldByOther, rows, Rows!Stall, Rows!MoveTo
    <3> QED
      BY <1>11, <3>2, <3>3, <3>4
  <2> QED
    BY <2>1, <2>2, <2>3 DEF LetsGo
<1>13. CASE Refused(t)
  <2>1. UNCHANGED <<rows, cancelled>>
    BY <1>13 DEF Refused
  <2>2. CASE At(t, "sweep") /\ \E i \in w.todo : Go(t, [w EXCEPT !.todo = @ \ {i}])
    BY <1>1, <1>2, <1>3, <2>2 DEF At, Outer, Workers
  <2>3. CASE At(t, "sweep") /\ w.todo = {} /\ Go(t, [w EXCEPT !.pc = "resume", !.left = HeldBy(w.rig)])
    BY <1>1, <1>2, <2>1, <2>3 DEF Reads, Workers, rows
  <2>4. CASE At(t, "scan") /\ Go(t, [w EXCEPT !.pc = "asleep", !.todo = OpenItems])
    BY <1>1, <1>2, <1>4, <2>1, <2>4 DEF At, Loops, Loop, Workers, rows
  <2>5. CASE At(t, "claim") /\ GoTo(t, "asleep")
    BY <1>1, <1>2, <1>4, <2>1, <2>5 DEF At, GoTo, Loops, Loop, Workers, rows
  <2>6. CASE /\ At(t, "acquire")
             /\ Go(t, [w EXCEPT !.pc = w.back, !.item = NoItem, !.attempt = 0, !.left = @ \cup {w.item}])
    <3> DEFINE n == [w EXCEPT !.pc = w.back, !.item = NoItem, !.attempt = 0, !.left = @ \cup {w.item}]
    <3>1. worker'[t] = n
      BY <1>2, <2>6
    <3>2. n.pc = w.back /\ n.back = w.back /\ n.todo = w.todo /\ n.left = w.left \cup {w.item}
      BY <1>1 DEF Workers
    <3> HIDE DEF n
    <3> QED
      BY <2>1, <2>6, <3>1, <3>2 DEF At, LetsGo, SameList, Engaged, rows
  <2>7. CASE Working(t) /\ Go(t, [w EXCEPT !.pc = "cleanup", !.left = @ \cup {w.item}])
    <3> DEFINE n == [w EXCEPT !.pc = "cleanup", !.left = @ \cup {w.item}]
    <3>1. worker'[t] = n
      BY <1>2, <2>7
    <3>2. n.pc = "cleanup" /\ n.back = w.back /\ n.todo = w.todo /\ n.left = w.left \cup {w.item}
      BY <1>1 DEF Workers
    <3> HIDE DEF n
    <3> QED
      BY <2>1, <2>7, <3>1, <3>2 DEF Working, LetsGo, SameList, Engaged, rows
  <2> QED
    BY <1>13, <2>2, <2>3, <2>4, <2>5, <2>6, <2>7 DEF Refused
<1>12. CASE RemoveTree(t) \/ RemoveBranch(t)
  <2>1. GoTo(t, "unbranch") \/ Done(t)
    BY <1>12 DEF RemoveTree, RemoveBranch
  <2>2. SameList(t) /\ worker'[t].pc \in {"unbranch", w.back}
    BY <1>1, <1>2, <2>1 DEF GoTo, Done, SameList, Workers
  <2> QED
    BY <1>12, <2>2 DEF RemoveTree, RemoveBranch, At, CleansUp, rows
<1> QED
  BY <1>5, <1>6, <1>7, <1>8, <1>9, <1>10, <1>11, <1>12, <1>13 DEF Proceed

\* What a task does to rows: it takes open ones for its rig, and settles the item at
\* hand if that is its rig's or nobody's.
LEMMA RowsByTask ==
  ASSUME Inv, NEW t \in Tasks, Proceed(t), NEW i \in Items
  PROVE  \/ status'[i] = status[i] /\ owner'[i] = owner[i]
         \/ status[i] = "Open" /\ status'[i] = "Claimed" /\ owner'[i] = worker[t].rig
         \/ /\ i = worker[t].item /\ owner[i] \in {worker[t].rig, NoRig}
            /\ status[i] = "Claimed" /\ status'[i] \in {"Open", "Done", "Stuck"}
<1>1. status \in [Items -> Statuses \cup {"Absent"}] /\ owner \in [Items -> Rigs \cup {NoRig}]
  BY DEF Inv, TypeOK
<1>2. CASE AcquireFails(t) \/ Fail(t) \/ Submit(t) \/ GiveUpStuck(t)
  <2>1. worker[t].item \in Items
    BY <1>2 DEF AcquireFails, Fail, Submit, GiveUpStuck, At, Inv, Placed
  <2>2. CASE AcquireFails(t) \/ Fail(t)
    BY <1>1, <2>1, <2>2 DEF AcquireFails, Fail, GiveBack, HeldBy, rows, Rows!Release, Rows!MoveTo
  <2>3. CASE Submit(t)
    BY <1>1, <2>1, <2>3 DEF Submit, HeldBy, rows, Rows!Complete, Rows!MoveTo
  <2>4. CASE GiveUpStuck(t)
    BY <1>1, <2>1, <2>4 DEF GiveUpStuck, NotHeldByOther, rows, Rows!Stall, Rows!MoveTo
  <2> QED
    BY <1>2, <2>2, <2>3, <2>4
<1>3. ASSUME NEW j \in Items, ClaimItem(t, j)
      PROVE  \/ status'[i] = status[i] /\ owner'[i] = owner[i]
             \/ status[i] = "Open" /\ status'[i] = "Claimed" /\ owner'[i] = worker[t].rig
  BY <1>1, <1>3 DEF ClaimItem, Rows!Take, Rows!MoveTo
<1>4. CASE ~(AcquireFails(t) \/ Fail(t) \/ Submit(t) \/ GiveUpStuck(t) \/ \E j \in Items : ClaimItem(t, j))
  BY <1>4 DEF Proceed, Refused, Launch, CreateFails, LoadStale, ResumeEnds, Listen, Scan, Wake, EndCancelled, Acquire,
       Prepare, Execute, TryAgain, RemoveTree, RemoveBranch, SweepKeep, SweepOrphan, ResumeItem,
       SkipClaimed, ClaimFails, rows
<1> QED
  BY <1>2, <1>3, <1>4

\* What the board's other callers do to rows.
LEMMA RowsByOthers ==
  ASSUME Inv, NEW c \in Callers, Outside(c), NEW i \in Items
  PROVE  \/ status'[i] = status[i] /\ owner'[i] = owner[i]
         \/ status[i] = "Absent" /\ status'[i] = "Open"
         \/ status[i] \in {"Open", "Stuck"} /\ status'[i] = "Abandoned" /\ owner'[i] = owner[i]
         \/ status[i] = "Claimed" /\ status'[i] = "Done" /\ owner'[i] = owner[i]
         \/ status[i] = "Open" /\ status'[i] = "Claimed" /\ owner'[i] \in Outsiders
<1>1. status \in [Items -> Statuses \cup {"Absent"}] /\ owner \in [Items -> Rigs \cup {NoRig}]
  BY DEF Inv, TypeOK
<1> QED
  BY <1>1 DEF Outside, Rows!Create, Rows!GiveUp, Rows!Complete, Rows!Take, Rows!MoveTo

-----------------------------------------------------------------------------
(* The item at hand stays with the rig                                     *)

Kept(i, r) == status[i] \in {"Claimed", "Done"} /\ owner[i] = r

\* What is on the list, and what is at hand, is the rig's: still claimed, or completed.
Mine(t) ==
  /\ Resuming(t) => \A i \in worker[t].todo : Kept(i, worker[t].rig)
  /\ Engaged(t) => Kept(worker[t].item, worker[t].rig)
  /\ Engaged(t) /\ Resuming(t) => worker[t].item \notin worker[t].todo

MineInv == \A t \in Tasks : InUse(t) /\ Alone(t) => Mine(t)

\* A task keeps what is its own.
LEMMA MineOwnStep ==
  ASSUME Inv, NEW t \in Tasks, Proceed(t), Mine(t), InUse(t)'
  PROVE  Mine(t)'
<1> DEFINE w == worker[t]
           v == worker'[t]
<1>1. /\ v.rig = w.rig /\ w \in Workers /\ v \in Workers /\ Inv'
      /\ w.rig \in Rigs /\ w.todo \subseteq Items
      /\ Engaged(t) => w.item \in Items
  <2>1. Inv'
    BY TypeNext DEF Next
  <2> QED
    BY <2>1, OwnStep DEF Inv, TypeOK, Placed, Workers, Engaged
<1>2. CASE Outer(t)
  BY <1>2 DEF Outer, Mine, Resuming, Engaged, InUse
<1>3. CASE Reads(t)
  BY <1>1, <1>3 DEF Reads, Mine, Resuming, Engaged, HeldBy, Kept, rows, Inv, Placed
<1>4. CASE Loops(t)
  BY <1>4 DEF Loops, Loop, Mine, Resuming, Engaged
<1>5. CASE TakesUp(t)
  BY <1>1, <1>5 DEF TakesUp, Mine, Resuming, Engaged, Kept, rows
<1>6. CASE Claims(t)
  <2>1. status'[v.item] = "Claimed" /\ owner'[v.item] = w.rig
    BY <1>1, <1>6 DEF Claims, Rows!Take, Rows!MoveTo, Inv, TypeOK
  <2> QED
    BY <1>1, <1>6, <2>1 DEF Claims, Mine, Resuming, Engaged, Kept
<1>7. CASE KeepsOn(t)
  BY <1>1, <1>7 DEF KeepsOn, SameList, Mine, Resuming, Engaged, Kept, rows
<1>8. CASE LetsGo(t)
  <2>1. Resuming(t)' => Resuming(t) /\ w.item \notin w.todo /\ v.todo = w.todo
    BY <1>8 DEF LetsGo, SameList, Mine, Resuming, Engaged
  <2>2. ~Engaged(t)'
    BY <1>1, <1>8 DEF LetsGo, Engaged, Workers
  <2>3. \A i \in w.todo : i # w.item => status'[i] = status[i] /\ owner'[i] = owner[i]
    BY <1>1, <1>8 DEF LetsGo
  <2> QED
    BY <1>1, <2>1, <2>2, <2>3 DEF Mine, Kept
<1>9. CASE CleansUp(t)
  BY <1>1, <1>9 DEF CleansUp, SameList, Mine, Resuming, Engaged, Kept, rows, Workers
<1> QED
  BY <1>2, <1>3, <1>4, <1>5, <1>6, <1>7, <1>8, <1>9, Shape

\* Nobody else takes it away.
LEMMA MineOtherStep ==
  ASSUME Inv, OneTask, NEW u \in Tasks, InUse(u), Alone(u), Mine(u), worker'[u] = worker[u],
         \/ \E t \in Tasks : t # u /\ Proceed(t)
         \/ \E c \in Callers : Outside(c)
         \/ UNCHANGED rows
  PROVE  Mine(u)'
<1>1. /\ worker[u] \in Workers /\ worker[u].rig \in Rigs /\ worker[u].todo \subseteq Items
      /\ Engaged(u) => worker[u].item \in Items
  BY DEF Inv, TypeOK, Placed, Workers, Engaged
<1>2. ASSUME NEW i \in Items, Kept(i, worker[u].rig) PROVE Kept(i, worker[u].rig)'
  <2>1. ASSUME NEW t \in Tasks, t # u, Proceed(t) PROVE Kept(i, worker[u].rig)'
    <3>1. worker[t].rig # worker[u].rig /\ worker[u].rig # NoRig
      BY <1>1, <2>1, OwnStep, RigsAssumption DEF OneTask
    <3>2. status'[i] = status[i] /\ owner'[i] = owner[i]
      BY <1>2, <2>1, <3>1, RowsByTask DEF Kept
    <3> QED
      BY <1>2, <3>2 DEF Kept
  <2>2. ASSUME NEW c \in Callers, Outside(c) PROVE Kept(i, worker[u].rig)'
    BY <1>2, <2>2, RowsByOthers DEF Kept
  <2>3. CASE UNCHANGED rows
    BY <1>2, <2>3 DEF Kept, rows
  <2> QED
    BY <2>1, <2>2, <2>3
<1> QED
  BY <1>1, <1>2 DEF Mine, Resuming, Engaged, Kept

\* Who is left alone by a step: the others if it is a task's, all tasks if it is a
\* caller's or the pool's; a task that is being started has nothing.
LEMMA WhoSteps ==
  ASSUME Inv, [Next]_vars, NEW u \in Tasks, InUse(u)'
  PROVE  \/ Proceed(u)
         \/ worker[u] = Unused /\ worker'[u].pc = "creating" /\ worker'[u].back = "listen"
         \/ /\ InUse(u) /\ worker'[u] = worker[u]
            /\ cancelled \subseteq cancelled'
            /\ \/ \E t \in Tasks : t # u /\ Proceed(t)
               \/ \E c \in Callers : Outside(c)
               \/ UNCHANGED rows
<1>1. worker \in [Tasks -> Workers] /\ worker' \in [Tasks -> Workers]
  BY TypeNext DEF Inv, TypeOK
<1>2. ASSUME NEW t \in Tasks, t # u, Proceed(t)
      PROVE  InUse(u) /\ worker'[u] = worker[u] /\ cancelled \subseteq cancelled'
  <2>1. worker'[u] = worker[u]
    BY <1>2, OwnStep
  <2>2. cancelled' = cancelled
    BY <1>2 DEF Proceed, Refused, Launch, CreateFails, LoadStale, ResumeEnds, Listen, Scan, Wake, EndCancelled, Acquire,
         AcquireFails, Prepare, Execute, Fail, Submit, TryAgain, GiveUpStuck, RemoveTree, RemoveBranch,
         SweepKeep, SweepOrphan, ResumeItem, ClaimItem, SkipClaimed, ClaimFails
  <2> QED
    BY <2>1, <2>2 DEF InUse
<1>3. ASSUME NEW t \in Tasks, NEW r \in Rigs, Spawn(t, r)
      PROVE  \/ worker[u] = Unused /\ worker'[u].pc = "creating" /\ worker'[u].back = "listen"
             \/ InUse(u) /\ worker'[u] = worker[u] /\ cancelled' = cancelled /\ UNCHANGED rows
  BY <1>1, <1>3 DEF Spawn, Go, Unused, InUse
<1>4. ASSUME \/ \E r \in Rigs : Remove(r)
             \/ \E a \in Tasks \cup Callers : Announce(a)
             \/ UNCHANGED vars
      PROVE  InUse(u) /\ worker'[u] = worker[u] /\ cancelled \subseteq cancelled' /\ UNCHANGED rows
  BY <1>4 DEF Remove, Announce, vars, rows, InUse
<1>5. ASSUME NEW c \in Callers, Outside(c)
      PROVE  InUse(u) /\ worker'[u] = worker[u] /\ cancelled' = cancelled
  BY <1>5 DEF Outside, InUse
<1>6. ASSUME Crash PROVE FALSE
  <2>1. worker'[u].pc \in {"unused", "ended"}
    BY <1>6 DEF Crash, Unused
  <2> QED
    BY <2>1 DEF InUse
<1> QED
  BY <1>2, <1>3, <1>4, <1>5, <1>6 DEF Next

LEMMA MineStep == Inv /\ OneTask /\ MineInv /\ [Next]_vars => MineInv'
<1> SUFFICES ASSUME Inv, OneTask, MineInv, [Next]_vars, NEW u \in Tasks, InUse(u)', Alone(u)'
             PROVE  Mine(u)'
  BY DEF MineInv
<1>1. CASE Proceed(u)
  <2>1. InUse(u) /\ Alone(u)
    BY <1>1, OwnStep DEF Alone
  <2> QED
    BY <1>1, <2>1, MineOwnStep DEF MineInv
<1>2. CASE worker[u] = Unused /\ worker'[u].pc = "creating" /\ worker'[u].back = "listen"
  BY <1>2 DEF Mine, Resuming, Engaged
<1>3. CASE /\ InUse(u) /\ worker'[u] = worker[u]
           /\ \/ \E t \in Tasks : t # u /\ Proceed(t)
              \/ \E c \in Callers : Outside(c)
              \/ UNCHANGED rows
  <2>1. Alone(u)
    BY <1>3 DEF Alone
  <2> QED
    BY <1>3, <2>1, MineOtherStep DEF MineInv
<1> QED
  BY <1>1, <1>2, <1>3, WhoSteps

LEMMA HeldFromMine == Inv /\ OneTask /\ MineInv => HeldWhileWorking
<1> SUFFICES ASSUME Inv, OneTask, MineInv, NEW t \in Tasks, Working(t), Alone(t)
             PROVE  /\ status[worker[t].item] \in {"Claimed", "Done"}
                    /\ owner[worker[t].item] = worker[t].rig
                    /\ \A u \in Tasks \ {t} : Working(u) /\ Alone(u) => worker[u].item # worker[t].item
  BY DEF HeldWhileWorking
<1>1. \A u \in Tasks : Working(u) /\ Alone(u) => InUse(u) /\ Kept(worker[u].item, worker[u].rig)
  BY DEF MineInv, Mine, Engaged, Working, InUse
<1> QED
  BY <1>1 DEF Kept, OneTask

\* The item a worker is on stays its rig's, at most completed by a caller, and no
\* other such worker is on it, if its rig id is its own.
THEOREM ItemStays == Spec => []HeldWhileWorking
<1>1. Init => OneTask /\ MineInv
  BY DEF Init, Unused, OneTask, InUse, MineInv
<1> DEFINE I == Inv /\ OneTask /\ MineInv
<1>2. I /\ [Next]_vars => I'
  BY TypeNext, OneTaskStep, MineStep
<1>3. I => HeldWhileWorking
  BY HeldFromMine
<1> QED
  BY <1>1, <1>2, <1>3, TypeInit, PTL DEF Spec

\* Neither the row nor the worktree of the item a worker is on is changed under it,
\* if its rig id is its own, whatever workers that share an id do.
THEOREM WorkStays == Spec => []WorkUndisturbed
<1>1. HeldWhileWorking /\ TreeWhileWorking => WorkUndisturbed
  BY DEF WorkUndisturbed
<1> QED
  BY <1>1, ItemStays, WorktreeStays, PTL

-----------------------------------------------------------------------------
(* No claim is forgotten                                                   *)

\* What the worker still has to see to, or has left because the database refused.
OnMind(t) ==
  (IF Resuming(t) THEN worker[t].todo ELSE {}) \cup (IF Engaged(t) THEN {worker[t].item} ELSE {})
    \cup worker[t].left

\* A worker that has read its claims, is to go on, and has its rig for itself.
Responsible(t) ==
  /\ InUse(t) /\ worker[t].pc # "creating"
  /\ t \notin cancelled
  /\ Alone(t) /\ worker[t].rig \notin Outsiders
  /\ ~(worker[t].back = "sweep" /\ worker[t].pc # "resume")

Minds(t) == Responsible(t) => HeldBy(worker[t].rig) \subseteq OnMind(t)

MindInv == \A t \in Tasks : Minds(t)

LEMMA MindOwnStep ==
  ASSUME Inv, NEW t \in Tasks, Proceed(t), Minds(t)
  PROVE  Minds(t)'
<1> DEFINE w == worker[t]
           v == worker'[t]
<1>1. /\ v.rig = w.rig /\ w \in Workers /\ v \in Workers
      /\ w.rig \in Rigs /\ InUse(t)
      /\ Engaged(t) => w.item \in Items
  <2>1. Inv'
    BY TypeNext DEF Next
  <2> QED
    BY <2>1, OwnStep DEF Inv, TypeOK, Placed, Workers, Engaged
<1>2. cancelled' = cancelled
  BY DEF Proceed, Refused, Launch, CreateFails, LoadStale, ResumeEnds, Listen, Scan, Wake, EndCancelled, Acquire,
         AcquireFails, Prepare, Execute, Fail, Submit, TryAgain, GiveUpStuck, RemoveTree, RemoveBranch,
         SweepKeep, SweepOrphan, ResumeItem, ClaimItem, SkipClaimed, ClaimFails
<1> SUFFICES ASSUME Responsible(t)' PROVE HeldBy(w.rig)' \subseteq OnMind(t)'
  BY <1>1 DEF Minds, HeldBy
<1>3. ~Outer(t)
  BY DEF Outer, Responsible, InUse
<1>4. CASE Reads(t)
  BY <1>1, <1>4 DEF Reads, HeldBy, OnMind, Resuming, rows
<1>5. CASE Loops(t)
  <2>1. HeldBy(w.rig)' = HeldBy(w.rig)
    BY <1>1, <1>5 DEF Loops, rows, HeldBy
  <2>2. Responsible(t) /\ OnMind(t) = w.left
    BY <1>1, <1>2, <1>5 DEF Loops, Loop, Responsible, OnMind, Resuming, Engaged, Alone
  <2>3. w.left \subseteq OnMind(t)'
    BY <1>5 DEF Loops, OnMind
  <2> QED
    BY <2>1, <2>2, <2>3 DEF Minds
<1>6. CASE TakesUp(t)
  <2>1. HeldBy(w.rig)' = HeldBy(w.rig)
    BY <1>1, <1>6 DEF TakesUp, rows, HeldBy
  <2>2. Responsible(t) /\ OnMind(t) = w.todo \cup w.left
    BY <1>1, <1>2, <1>6 DEF TakesUp, Responsible, OnMind, Resuming, Engaged, Alone
  <2>3. OnMind(t)' = v.todo \cup {v.item} \cup w.left
    BY <1>6 DEF TakesUp, OnMind, Resuming, Engaged
  <2> QED
    BY <1>6, <2>1, <2>2, <2>3 DEF Minds, TakesUp
<1>7. CASE Claims(t)
  <2>1. Responsible(t) /\ OnMind(t) = w.left
    BY <1>1, <1>2, <1>7 DEF Claims, Responsible, OnMind, Resuming, Engaged, Alone
  <2>2. HeldBy(w.rig)' \subseteq HeldBy(w.rig) \cup {v.item}
    BY <1>1, <1>7 DEF Claims, Rows!Take, Rows!MoveTo, HeldBy, Inv, TypeOK
  <2>3. w.left \cup {v.item} \subseteq OnMind(t)'
    BY <1>7 DEF Claims, OnMind, Engaged
  <2> QED
    BY <2>1, <2>2, <2>3 DEF Minds
<1>8. CASE KeepsOn(t)
  <2>1. HeldBy(w.rig)' = HeldBy(w.rig)
    BY <1>1, <1>8 DEF KeepsOn, rows, HeldBy
  <2>2. Responsible(t) /\ OnMind(t) \subseteq OnMind(t)'
    BY <1>1, <1>2, <1>8 DEF KeepsOn, SameList, Responsible, OnMind, Resuming, Engaged, Alone
  <2> QED
    BY <2>1, <2>2 DEF Minds
<1>9. CASE LetsGo(t)
  <2>1. HeldBy(w.rig)' \subseteq (HeldBy(w.rig) \ {w.item}) \cup v.left
    BY <1>1, <1>9 DEF LetsGo, HeldBy
  <2>2. Responsible(t) /\ (OnMind(t) \ {w.item}) \cup v.left \subseteq OnMind(t)'
    BY <1>1, <1>2, <1>9 DEF LetsGo, SameList, Responsible, OnMind, Resuming, Engaged, Alone
  <2> QED
    BY <2>1, <2>2 DEF Minds
<1>10. CASE CleansUp(t)
  <2>1. HeldBy(w.rig)' = HeldBy(w.rig)
    BY <1>1, <1>10 DEF CleansUp, rows, HeldBy
  <2>2. Responsible(t) /\ OnMind(t) \subseteq OnMind(t)'
    BY <1>1, <1>2, <1>10 DEF CleansUp, SameList, Responsible, OnMind, Resuming, Engaged, Alone
  <2> QED
    BY <2>1, <2>2 DEF Minds
<1> QED
  BY <1>3, <1>4, <1>5, <1>6, <1>7, <1>8, <1>9, <1>10, Shape

LEMMA MindStep == Inv /\ OneTask /\ MindInv /\ [Next]_vars => MindInv'
<1> SUFFICES ASSUME Inv, OneTask, MindInv, [Next]_vars, NEW u \in Tasks PROVE Minds(u)'
  BY DEF MindInv
<1> SUFFICES ASSUME Responsible(u)' PROVE HeldBy(worker[u].rig)' \subseteq OnMind(u)'
  BY DEF Minds
<1>1. InUse(u)'
  BY DEF Responsible
<1>2. CASE Proceed(u)
  BY <1>2, MindOwnStep DEF MindInv, Minds
<1>3. CASE worker[u] = Unused /\ worker'[u].pc = "creating" /\ worker'[u].back = "listen"
  BY <1>3 DEF Responsible
<1>4. CASE /\ InUse(u) /\ worker'[u] = worker[u]
           /\ cancelled \subseteq cancelled'
           /\ \/ \E t \in Tasks : t # u /\ Proceed(t)
              \/ \E c \in Callers : Outside(c)
              \/ UNCHANGED rows
  <2> DEFINE r == worker[u].rig
  <2>1. Responsible(u) /\ OnMind(u)' = OnMind(u) /\ HeldBy(r) \subseteq OnMind(u)
    BY <1>4 DEF Responsible, InUse, OnMind, Resuming, Engaged, MindInv, Minds, Alone
  <2>2. r \in Rigs /\ r # NoRig /\ r \notin Outsiders
    BY <2>1, RigsAssumption DEF Responsible, Inv, Placed
  <2>3. ASSUME NEW i \in Items, status'[i] = "Claimed", owner'[i] = r
        PROVE  status[i] = "Claimed" /\ owner[i] = r
    <3>1. ASSUME NEW t \in Tasks, t # u, Proceed(t)
          PROVE  status[i] = "Claimed" /\ owner[i] = r
      <4>1. worker[t].rig # r
        BY <1>4, <2>1, <3>1, OwnStep DEF OneTask, Responsible
      <4> QED
        BY <2>3, <3>1, <4>1, RowsByTask
    <3>2. ASSUME NEW c \in Callers, Outside(c)
          PROVE  status[i] = "Claimed" /\ owner[i] = r
      BY <2>2, <2>3, <3>2, RowsByOthers
    <3>3. CASE UNCHANGED rows
      BY <2>3, <3>3 DEF rows
    <3> QED
      BY <1>4, <3>1, <3>2, <3>3
  <2> QED
    BY <1>4, <2>1, <2>3 DEF HeldBy
<1> QED
  BY <1>1, <1>2, <1>3, <1>4, WhoSteps

\* An item a worker's rig holds is on the worker's mind, if its rig id is its own: no
\* error but of the database, no crash and no restart leaves a claim to a worker that has
\* moved on.
THEOREM NoClaimForgotten == Spec => []ClaimsAccounted
<1>1. Init => OneTask /\ MindInv
  BY DEF Init, Unused, OneTask, InUse, MindInv, Minds, Responsible
<1> DEFINE I == Inv /\ OneTask /\ MindInv
<1>2. I /\ [Next]_vars => I'
  BY TypeNext, OneTaskStep, MindStep
<1>3. I => ClaimsAccounted
  <2> SUFFICES ASSUME I, NEW t \in Tasks, Live(t), t \notin cancelled, Alone(t), worker[t].rig \notin Outsiders,
                      ~(worker[t].back = "sweep" /\ worker[t].pc # "resume")
               PROVE  HeldBy(worker[t].rig) \subseteq worker[t].todo \cup {worker[t].item} \cup worker[t].left
    BY DEF ClaimsAccounted
  <2>1. Responsible(t)
    BY DEF Responsible, Live, InUse
  <2> QED
    BY <2>1 DEF MindInv, Minds, OnMind
<1> QED
  BY <1>1, <1>2, <1>3, TypeInit, PTL DEF Spec

-----------------------------------------------------------------------------
(* Sleep                                                                   *)

\* From the scan on, a worker whose registration is pending has seen every open item.
SleepInv ==
  \A t \in Tasks :
    worker[t].pc \in {"claim", "asleep"} /\ t \in listening /\ announcing = {}
      => OpenItems \subseteq worker[t].todo

\* An item becomes open only with a notification to come.
LEMMA OpensAnnounced ==
  ASSUME Inv, Remote = {}, [Next]_vars, announcing' = {}
  PROVE  OpenItems' \subseteq OpenItems
<1> SUFFICES ASSUME NEW i \in Items, status'[i] = "Open", status[i] # "Open" PROVE FALSE
  BY DEF OpenItems
<1>1. ASSUME NEW t \in Tasks, Proceed(t) PROVE FALSE
  <2>1. i = worker[t].item /\ status[i] = "Claimed"
    BY <1>1, RowsByTask
  <2>2. status \in [Items -> Statuses \cup {"Absent"}]
    BY DEF Inv, TypeOK
  <2>3. CASE AcquireFails(t) \/ Fail(t)
    BY <2>1, <2>3 DEF AcquireFails, Fail, GiveBack, rows
  <2>4. CASE Submit(t)
    BY <2>1, <2>2, <2>4 DEF Submit, rows, Rows!Complete, Rows!MoveTo
  <2>5. CASE GiveUpStuck(t)
    BY <2>1, <2>2, <2>5 DEF GiveUpStuck, rows, Rows!Stall, Rows!MoveTo
  <2>6. ASSUME NEW j \in Items, ClaimItem(t, j) PROVE FALSE
    BY <2>2, <2>6 DEF ClaimItem, Rows!Take, Rows!MoveTo
  <2> QED
    BY <1>1, <2>3, <2>4, <2>5, <2>6 DEF Proceed, Refused, Launch, CreateFails, LoadStale, ResumeEnds, Listen, Scan,
       Wake, EndCancelled, Acquire, Prepare, Execute, TryAgain, RemoveTree, RemoveBranch, SweepKeep,
       SweepOrphan, ResumeItem, SkipClaimed, ClaimFails, rows
<1>2. ASSUME NEW c \in Callers, Outside(c) PROVE FALSE
  <2>1. status \in [Items -> Statuses \cup {"Absent"}]
    BY DEF Inv, TypeOK
  <2>2. ASSUME NEW j \in Items, NEW r \in Outsiders, Rows!Take(j, r) PROVE FALSE
    BY <2>1, <2>2 DEF Rows!Take, Rows!MoveTo
  <2> QED
    BY <1>2, <2>2 DEF Outside
<1> QED
  BY <1>1, <1>2 DEF Next, vars, rows, Spawn, Remove, Announce, Crash

\* A worker that sleeps over open items has met each of them in a failed claim, or a
\* notification is due, if all callers are in its process.
THEOREM SleepsForAReason ==
  ASSUME Remote = {}
  PROVE  Spec => []SleepJustified
<1>1. Init => SleepInv
  BY DEF Init, SleepInv
<1>2. Inv /\ SleepInv /\ [Next]_vars => SleepInv'
  <2> SUFFICES ASSUME Inv, SleepInv, [Next]_vars, NEW u \in Tasks, worker'[u].pc \in {"claim", "asleep"},
                      u \in listening', announcing' = {}
               PROVE  OpenItems' \subseteq worker'[u].todo
    BY DEF SleepInv
  <2>1. OpenItems' \subseteq OpenItems
    BY OpensAnnounced
  <2>2. worker \in [Tasks -> Workers] /\ worker' \in [Tasks -> Workers]
    BY TypeNext DEF Inv, TypeOK
  <2>3. ASSUME NEW t \in Tasks, Proceed(t) PROVE OpenItems' \subseteq worker'[u].todo
    <3>1. announcing = {}
      BY <2>3 DEF Proceed, Refused, Launch, CreateFails, LoadStale, ResumeEnds, Listen, Scan, Wake, EndCancelled, Acquire,
         AcquireFails, Prepare, Execute, Fail, Submit, TryAgain, GiveUpStuck, RemoveTree, RemoveBranch,
         SweepKeep, SweepOrphan, ResumeItem, ClaimItem, SkipClaimed, ClaimFails, GiveBack
    <3>2. listening' \subseteq listening \cup {t}
      BY <2>3 DEF Proceed, Refused, Launch, CreateFails, LoadStale, ResumeEnds, Listen, Scan, Wake, EndCancelled, Acquire,
         AcquireFails, Prepare, Execute, Fail, Submit, TryAgain, GiveUpStuck, RemoveTree, RemoveBranch,
         SweepKeep, SweepOrphan, ResumeItem, ClaimItem, SkipClaimed, ClaimFails
    <3>3. CASE u # t
      BY <2>1, <2>3, <3>1, <3>2, <3>3, OwnStep DEF SleepInv
    <3>4. CASE u = t
      <4> DEFINE w == worker[t]
      <4>1. w \in Workers /\ \A n : Go(t, n) => worker'[t] = n
        BY <2>2 DEF Go
      <4>2. Loops(t)
        BY <2>2, <2>3, <3>4, Shape DEF Outer, Reads, Loops, TakesUp, Claims, KeepsOn, LetsGo, CleansUp, Engaged,
           Workers
      <4>3. \/ Scan(t) \/ Refused(t)
            \/ \E i \in Items : SkipClaimed(t, i) \/ ClaimFails(t, i)
        <5>1. worker'[t].pc \in {"claim", "asleep"}
          BY <3>4
        <5>2. ~Listen(t) /\ ~ResumeEnds(t) /\ ~Wake(t) /\ ~LoadStale(t) /\ ~CreateFails(t) /\ ~EndCancelled(t)
          BY <4>1, <5>1 DEF Listen, ResumeEnds, Wake, LoadStale, CreateFails, EndCancelled, GoTo, Workers
        <5>3. w.pc \in Loop \cup {"resume"}
          BY <4>2 DEF Loops
        <5>4. ~Launch(t) /\ ~Acquire(t) /\ ~AcquireFails(t) /\ ~Prepare(t) /\ ~Execute(t) /\ ~Fail(t)
          BY <5>3 DEF Loop, Launch, Acquire, AcquireFails, Prepare, Execute, Fail, At
        <5>5. ~Submit(t) /\ ~TryAgain(t) /\ ~GiveUpStuck(t) /\ ~RemoveTree(t) /\ ~RemoveBranch(t)
          BY <5>3 DEF Loop, Submit, TryAgain, GiveUpStuck, RemoveTree, RemoveBranch, At
        <5>6. ASSUME NEW i \in Items
              PROVE  ~SweepKeep(t, i) /\ ~SweepOrphan(t, i) /\ ~ResumeItem(t, i) /\ ~ClaimItem(t, i)
          BY <4>1, <5>1, <5>3, ZenonT(60) DEF Loop, SweepKeep, SweepOrphan, ResumeItem, ClaimItem, At, Workers
        <5> QED
          BY <2>3, <5>2, <5>4, <5>5, <5>6 DEF Proceed
      <4>4. CASE Scan(t)
        <5>1. worker'[t].todo = OpenItems
          BY <4>1, <4>4 DEF Scan, Workers
        <5> QED
          BY <2>1, <3>4, <5>1
      <4>5. ASSUME NEW i \in Items, SkipClaimed(t, i) \/ ClaimFails(t, i)
            PROVE  OpenItems' \subseteq worker'[u].todo
        <5>1. worker'[t].todo = w.todo \ {i} /\ w.pc = "claim" /\ status[i] # "Open"
          BY <4>1, <4>5 DEF SkipClaimed, ClaimFails, At, Workers
        <5>2. t \in listening
          BY <3>4, <4>5 DEF SkipClaimed, ClaimFails
        <5> QED
          BY <2>1, <3>1, <3>4, <5>1, <5>2 DEF SleepInv, OpenItems
      <4>6. CASE Refused(t)
        <5>1. w.pc \in {"scan", "claim"}
          BY <4>1, <4>2, <4>6, <3>4 DEF Refused, At, Working, Loops, Loop, Workers
        <5>2. CASE w.pc = "scan"
          <6>1. worker'[t].todo = OpenItems
            BY <4>1, <4>6, <5>2 DEF Refused, At, Working, Workers
          <6> QED
            BY <2>1, <3>4, <6>1
        <5>3. CASE w.pc = "claim"
          <6>1. worker'[t].todo = w.todo /\ listening' = listening
            BY <4>1, <4>6, <5>3 DEF Refused, At, Working, GoTo, Workers
          <6> QED
            BY <2>1, <3>1, <3>4, <5>3, <6>1 DEF SleepInv
        <5> QED
          BY <5>1, <5>2, <5>3
      <4> QED
        BY <4>3, <4>4, <4>5, <4>6
    <3> QED
      BY <3>3, <3>4
  <2>4. ASSUME NEW t \in Tasks, NEW r \in Rigs, Spawn(t, r) PROVE OpenItems' \subseteq worker'[u].todo
    BY <2>1, <2>2, <2>4 DEF Spawn, Go, Unused, SleepInv
  <2>5. CASE UNCHANGED vars \/ (\E r \in Rigs : Remove(r)) \/ (\E c \in Callers : Outside(c))
    <3>1. worker' = worker /\ listening' = listening /\ announcing = {}
      BY <2>5 DEF vars, Remove, Outside
    <3> QED
      BY <2>1, <3>1 DEF SleepInv
  <2>6. CASE Crash \/ \E a \in Tasks \cup Callers : Announce(a)
    BY <2>6 DEF Crash, Announce
  <2> QED
    BY <2>3, <2>4, <2>5, <2>6 DEF Next
<1>3. SleepInv => SleepJustified
  BY DEF SleepInv, SleepJustified
<1> QED
  BY <1>1, <1>2, <1>3, TypeInit, TypeNext, PTL DEF Spec

=============================================================================
