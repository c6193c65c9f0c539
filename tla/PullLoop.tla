------------------------------ MODULE PullLoop ------------------------------
(***************************************************************************)
(* Workers: the pool that starts and removes them, the loop in which each  *)
(* waits for, claims, executes and hands back work items, the git worktree *)
(* it does so in, and a crash of the process.  The board below them is the *)
(* life cycle of its rows (WorkLifecycle, which Board implements) and its  *)
(* notification, which follows the commit in a step of its own.  Language  *)
(* model, middleware and git are outside: their verdicts are choices, and  *)
(* so is an error of the database, which leaves the rows as they were.     *)
(***************************************************************************)
EXTENDS WorkItem, Naturals

CONSTANTS
  Items,       \* ids of work items
  NoItem,      \* a worker with no item at hand
  Tasks,       \* tokio tasks that run Worker::run, each at most once
  NoTask,      \* a free entry of the pool
  Callers,     \* everybody else who calls the board: API, agents, command line
  Remote,      \* callers in another process, whose Notify is not this one's
  Outsiders,   \* rig ids under which Callers claim
  Shared,      \* rig ids spawned again while a worker of that id is alive
  MaxRetries   \* execute_with_retry: validations that may fail before the last

ASSUME PullLoopAssumption ==
  /\ NoItem \notin Items
  /\ NoTask \notin Tasks
  /\ Remote \subseteq Callers
  /\ Outsiders \subseteq Rigs
  /\ Shared \subseteq Rigs
  /\ MaxRetries \in Nat

VARIABLES
  status, owner,   \* rows of the board, as in WorkLifecycle
  tree,            \* worktree of a rig for an item, on disk
  worker,          \* state of each task
  pool,            \* WorkerPool::handles: the task of each rig id
  cancelled,       \* tasks whose cancellation token is set
  listening,       \* tasks whose Notified future is still pending
  announcing       \* who has committed a change and is still to notify

rows == <<status, owner>>
vars == <<status, owner, tree, worker, pool, cancelled, listening, announcing>>

Rows == INSTANCE WorkLifecycle

\* Where a task is in Worker::run; `back` says where to go after an item, `left`
\* keeps, for the properties, the items whose last call the database refused.
Phases == {"unused", "creating", "sweep", "resume", "listen", "scan", "claim", "acquire",
           "prepare", "execute", "validate", "cleanup", "unbranch", "asleep", "ended"}

Workers ==
  [pc : Phases, back : {"sweep", "resume", "listen"}, rig : Rigs \cup {NoRig},
   todo : SUBSET Items, item : Items \cup {NoItem}, attempt : 0..MaxRetries, left : SUBSET Items]

Unused == [pc |-> "unused", back |-> "listen", rig |-> NoRig,
           todo |-> {}, item |-> NoItem, attempt |-> 0, left |-> {}]

\* "branch": the directory is gone, the branch is not.
Trees == {"none", "tree", "branch"}

TypeOK ==
  /\ status \in [Items -> Statuses \cup {"Absent"}]
  /\ owner \in [Items -> Rigs \cup {NoRig}]
  /\ tree \in [Rigs -> [Items -> Trees]]
  /\ worker \in [Tasks -> Workers]
  /\ pool \in [Rigs -> Tasks \cup {NoTask}]
  /\ cancelled \subseteq Tasks
  /\ listening \subseteq Tasks
  /\ announcing \subseteq Tasks \cup Callers

Live(t) == worker[t].pc \notin {"unused", "creating", "ended"}

\* Between a claim and the call that ends it.
Working(t) == worker[t].pc \in {"prepare", "execute", "validate"}

OpenItems == {i \in Items : status[i] = "Open"}

HeldBy(r) == {i \in Items : status[i] = "Claimed" /\ owner[i] = r}

Init ==
  /\ Rows!Init
  /\ tree = [r \in Rigs |-> [i \in Items |-> "none"]]
  /\ worker = [t \in Tasks |-> Unused]
  /\ pool = [r \in Rigs |-> NoTask]
  /\ cancelled = {}
  /\ listening = {}
  /\ announcing = {}

\* Task t stands at `pc` and has no notification to send first.
At(t, pc) == worker[t].pc = pc /\ t \notin announcing

Go(t, w) == worker' = [worker EXCEPT ![t] = w]

GoTo(t, pc) == Go(t, [worker[t] EXCEPT !.pc = pc])

\* The item is dealt with: back to the rest of the sweep, the resume or the loop.
Done(t) == Go(t, [worker[t] EXCEPT !.pc = worker[t].back, !.item = NoItem, !.attempt = 0])

-----------------------------------------------------------------------------
(* The pool *)

\* spawn(), up to the await of agent creation: the id is not in the map.
Spawn(t, r) ==
  /\ worker[t] = Unused
  /\ pool[r] = NoTask
  /\ (\E u \in Tasks : worker[u].rig = r /\ worker[u].pc # "ended") => r \in Shared
  /\ Go(t, [Unused EXCEPT !.pc = "creating", !.rig = r])
  /\ UNCHANGED <<rows, tree, pool, cancelled, listening, announcing>>

\* The task is spawned and the handle inserted, whatever the map holds by now.
\* The task begins by listing the directories of its rig.
Launch(t) ==
  /\ At(t, "creating")
  /\ pool' = [pool EXCEPT ![worker[t].rig] = t]
  /\ Go(t, [worker[t] EXCEPT !.pc = "sweep", !.back = "sweep",
                             !.todo = {i \in Items : tree[worker[t].rig][i] = "tree"}])
  /\ UNCHANGED <<rows, tree, cancelled, listening, announcing>>

\* Creating the agent fails and spawn() returns the error.
CreateFails(t) ==
  /\ At(t, "creating")
  /\ GoTo(t, "ended")
  /\ UNCHANGED <<rows, tree, pool, cancelled, listening, announcing>>

\* remove() and cancel_all(): the handle goes first, then the worker is told; after the
\* time-out the task goes on by itself.
Remove(r) ==
  /\ pool[r] # NoTask
  /\ pool' = [pool EXCEPT ![r] = NoTask]
  /\ cancelled' = cancelled \cup {pool[r]}
  /\ UNCHANGED <<rows, tree, worker, listening, announcing>>

\* The process dies; rows and worktrees stay.
Crash ==
  /\ \E t \in Tasks : Live(t)
  /\ worker' = [t \in Tasks |-> IF worker[t] = Unused THEN Unused
                                ELSE [Unused EXCEPT !.pc = "ended", !.rig = worker[t].rig]]
  /\ pool' = [r \in Rigs |-> NoTask]
  /\ cancelled' = {} /\ listening' = {} /\ announcing' = {}
  /\ UNCHANGED <<rows, tree>>

-----------------------------------------------------------------------------
(* Start of a worker: sweep, then resume *)

SweepKeep(t, i) ==
  /\ At(t, "sweep") /\ i \in worker[t].todo
  /\ status[i] \in {"Claimed", "Stuck"}
  /\ Go(t, [worker[t] EXCEPT !.todo = @ \ {i}])
  /\ UNCHANGED <<rows, tree, pool, cancelled, listening, announcing>>

SweepOrphan(t, i) ==
  /\ At(t, "sweep") /\ i \in worker[t].todo
  /\ status[i] \in {"Done", "Abandoned", "Open", "Absent"}
  /\ Go(t, [worker[t] EXCEPT !.pc = "cleanup", !.todo = @ \ {i}, !.item = i])
  /\ UNCHANGED <<rows, tree, pool, cancelled, listening, announcing>>

\* Mutant of LoadStale: the sweep has found all there is to resume.
LoadStaleWithTree(t) ==
  /\ At(t, "sweep") /\ worker[t].todo = {}
  /\ Go(t, [worker[t] EXCEPT !.pc = "resume",
                             !.todo = {i \in HeldBy(worker[t].rig) : tree[worker[t].rig][i] = "tree"}])
  /\ UNCHANGED <<rows, tree, pool, cancelled, listening, announcing>>

\* claimed_by(): the items this rig holds, from before the crash or the restart.
LoadStale(t) ==
  /\ At(t, "sweep") /\ worker[t].todo = {}
  /\ Go(t, [worker[t] EXCEPT !.pc = "resume", !.todo = HeldBy(worker[t].rig)])
  /\ UNCHANGED <<rows, tree, pool, cancelled, listening, announcing>>

ResumeItem(t, i) ==
  /\ At(t, "resume") /\ t \notin cancelled
  /\ i \in worker[t].todo
  /\ Go(t, [worker[t] EXCEPT !.pc = "acquire", !.back = "resume",
                             !.todo = @ \ {i}, !.item = i])
  /\ UNCHANGED <<rows, tree, pool, cancelled, listening, announcing>>

ResumeEnds(t) ==
  /\ At(t, "resume")
  /\ worker[t].todo = {} \/ t \in cancelled
  /\ Go(t, [worker[t] EXCEPT !.pc = "listen", !.back = "listen", !.todo = {}])
  /\ UNCHANGED <<rows, tree, pool, cancelled, listening, announcing>>

-----------------------------------------------------------------------------
(* The loop: listen, scan, claim *)

Listen(t) ==
  /\ At(t, "listen")
  /\ listening' = listening \cup {t}
  /\ GoTo(t, "scan")
  /\ UNCHANGED <<rows, tree, pool, cancelled, announcing>>

\* ready(): nothing to do, or candidates to claim.
Scan(t) ==
  /\ At(t, "scan")
  /\ Go(t, [worker[t] EXCEPT !.pc = IF OpenItems = {} THEN "asleep" ELSE "claim",
                             !.todo = OpenItems])
  /\ UNCHANGED <<rows, tree, pool, cancelled, listening, announcing>>

ClaimItem(t, i) ==
  /\ At(t, "claim") /\ i \in worker[t].todo
  /\ Rows!Take(i, worker[t].rig)
  /\ Go(t, [worker[t] EXCEPT !.pc = "acquire", !.back = "listen", !.todo = {}, !.item = i, !.left = @ \ {i}])
  /\ UNCHANGED <<tree, pool, cancelled, listening, announcing>>

\* AlreadyClaimed: the next candidate, or the top of the loop after the last.
SkipClaimed(t, i) ==
  /\ At(t, "claim") /\ i \in worker[t].todo
  /\ status[i] = "Claimed"
  /\ Go(t, [worker[t] EXCEPT !.todo = @ \ {i},
                             !.pc = IF worker[t].todo = {i} THEN "listen" ELSE "claim"])
  /\ UNCHANGED <<rows, tree, pool, cancelled, listening, announcing>>

\* Any other error ends the scan and the worker sleeps; `todo` keeps, for the
\* properties, the candidates it did not get to.
ClaimFails(t, i) ==
  /\ At(t, "claim") /\ i \in worker[t].todo
  /\ status[i] \notin {"Open", "Claimed"}
  /\ Go(t, [worker[t] EXCEPT !.pc = "asleep", !.todo = @ \ {i}])
  /\ UNCHANGED <<rows, tree, pool, cancelled, listening, announcing>>

Wake(t) ==
  /\ At(t, "asleep")
  /\ t \notin listening
  /\ Go(t, [worker[t] EXCEPT !.pc = "listen", !.todo = {}])
  /\ UNCHANGED <<rows, tree, pool, cancelled, listening, announcing>>

EndCancelled(t) ==
  /\ At(t, "asleep")
  /\ t \in cancelled
  /\ GoTo(t, "ended")
  /\ listening' = listening \ {t}
  /\ UNCHANGED <<rows, tree, pool, cancelled, announcing>>

-----------------------------------------------------------------------------
(* One item: acquire, prepare, execute, validate, clean up *)

\* Mutant of GiveBack: whoever holds the item.
GiveBackAnyones(t) ==
  LET i == worker[t].item IN
  \/ /\ status[i] = "Claimed"
     /\ Rows!Release(i)
     /\ announcing' = announcing \cup {t}
  \/ /\ status[i] # "Claimed"
     /\ UNCHANGED <<rows, announcing>>

\* Mutant of GiveBack: the notification is forgotten.
GiveBackSilently(t) ==
  LET i == worker[t].item IN
  /\ \/ i \in HeldBy(worker[t].rig) /\ Rows!Release(i)
     \/ i \notin HeldBy(worker[t].rig) /\ UNCHANGED rows
  /\ UNCHANGED announcing

\* unclaim(): the row goes back to Open and a notification is due, unless the
\* item is no longer this rig's, which is logged.
GiveBack(t) ==
  LET i == worker[t].item IN
  \/ /\ i \in HeldBy(worker[t].rig)
     /\ Rows!Release(i)
     /\ announcing' = announcing \cup {t}
  \/ /\ i \notin HeldBy(worker[t].rig)
     /\ UNCHANGED <<rows, announcing>>

\* Mutant of Acquire: a guard for a worktree nobody has looked for.
AcquireUnchecked(t) ==
  /\ At(t, "acquire")
  /\ GoTo(t, "prepare")
  /\ UNCHANGED <<rows, tree, pool, cancelled, listening, announcing>>

\* WorktreeGuard::attach, or ::create where there is nothing yet.
Acquire(t) ==
  /\ At(t, "acquire")
  /\ tree[worker[t].rig][worker[t].item] # "branch"
  /\ tree' = [tree EXCEPT ![worker[t].rig][worker[t].item] = "tree"]
  /\ GoTo(t, "prepare")
  /\ UNCHANGED <<rows, pool, cancelled, listening, announcing>>

\* `git worktree add -b` fails, always so when the branch is left over.
AcquireFails(t) ==
  /\ At(t, "acquire")
  /\ tree[worker[t].rig][worker[t].item] # "tree"
  /\ GiveBack(t)
  /\ Done(t)
  /\ UNCHANGED <<tree, pool, cancelled, listening>>

\* on_start of the middleware and the session.
Prepare(t) ==
  /\ At(t, "prepare")
  /\ GoTo(t, "execute")
  /\ UNCHANGED <<rows, tree, pool, cancelled, listening, announcing>>

\* Mutant of Fail: one of the error paths returns without unclaim().
FailKeepingClaim(t) ==
  /\ At(t, "prepare") \/ At(t, "execute") \/ At(t, "validate")
  /\ GoTo(t, "cleanup")
  /\ UNCHANGED <<rows, tree, pool, cancelled, listening, announcing>>

\* on_start or the session fails, or the language model, or validation itself.
Fail(t) ==
  /\ At(t, "prepare") \/ At(t, "execute") \/ At(t, "validate")
  /\ GiveBack(t)
  /\ GoTo(t, "cleanup")
  /\ UNCHANGED <<tree, pool, cancelled, listening>>

Execute(t) ==
  /\ At(t, "execute")
  /\ GoTo(t, "validate")
  /\ UNCHANGED <<rows, tree, pool, cancelled, listening, announcing>>

\* Validation passes: submit; an error is logged.
Submit(t) ==
  LET i == worker[t].item IN
  /\ At(t, "validate")
  /\ \/ /\ i \in HeldBy(worker[t].rig)
        /\ Rows!Complete(i)
        /\ announcing' = announcing \cup {t}
     \/ /\ i \notin HeldBy(worker[t].rig)
        /\ UNCHANGED <<rows, announcing>>
  /\ GoTo(t, "cleanup")
  /\ UNCHANGED <<tree, pool, cancelled, listening>>

\* Mutant of TryAgain: attempts are not counted.
TryAgainUncounted(t) ==
  /\ At(t, "validate")
  /\ GoTo(t, "execute")
  /\ UNCHANGED <<rows, tree, pool, cancelled, listening, announcing>>

TryAgain(t) ==
  /\ At(t, "validate")
  /\ worker[t].attempt < MaxRetries
  /\ Go(t, [worker[t] EXCEPT !.pc = "execute", !.attempt = @ + 1])
  /\ UNCHANGED <<rows, tree, pool, cancelled, listening, announcing>>

\* mark_stuck after the last attempt, without a notification.  The worktree is
\* meant to stay, but the guard goes out of scope with keep = false.
GiveUpStuck(t) ==
  LET i == worker[t].item IN
  /\ At(t, "validate")
  /\ worker[t].attempt = MaxRetries
  /\ \/ /\ NotHeldByOther(owner[i], worker[t].rig)
        /\ Rows!Stall(i)
     \/ /\ status[i] # "Claimed" \/ ~NotHeldByOther(owner[i], worker[t].rig)
        /\ UNCHANGED rows
  /\ GoTo(t, "cleanup")
  /\ UNCHANGED <<tree, pool, cancelled, listening, announcing>>

\* remove_worktree(): first the directory; an error ends it.
RemoveTree(t) ==
  /\ At(t, "cleanup")
  /\ \/ /\ tree' = [tree EXCEPT ![worker[t].rig][worker[t].item] =
                      IF @ = "tree" THEN "branch" ELSE @]
        /\ GoTo(t, "unbranch")
     \/ /\ Done(t)
        /\ UNCHANGED tree
  /\ UNCHANGED <<rows, pool, cancelled, listening, announcing>>

\* Then the branch, which git keeps when it is checked out or busy.
RemoveBranch(t) ==
  /\ At(t, "unbranch")
  /\ \/ tree' = [tree EXCEPT ![worker[t].rig][worker[t].item] =
                   IF @ = "branch" THEN "none" ELSE @]
     \/ UNCHANGED tree
  /\ Done(t)
  /\ UNCHANGED <<rows, pool, cancelled, listening, announcing>>

-----------------------------------------------------------------------------
(* A call that the database refuses *)

\* get() keeps the worktree, claimed_by() counts as empty, ready() and claim() put
\* the worker to sleep, the last call about an item is not repeated.
Refused(t) ==
  /\ \/ /\ At(t, "sweep")
        /\ \/ \E i \in worker[t].todo : Go(t, [worker[t] EXCEPT !.todo = @ \ {i}])
           \/ /\ worker[t].todo = {}
              /\ Go(t, [worker[t] EXCEPT !.pc = "resume", !.left = HeldBy(worker[t].rig)])
     \/ At(t, "scan") /\ Go(t, [worker[t] EXCEPT !.pc = "asleep", !.todo = OpenItems])
     \/ At(t, "claim") /\ GoTo(t, "asleep")
     \/ /\ At(t, "acquire")
        /\ tree[worker[t].rig][worker[t].item] # "tree"
        /\ Go(t, [worker[t] EXCEPT !.pc = worker[t].back, !.item = NoItem, !.attempt = 0,
                                  !.left = @ \cup {worker[t].item}])
     \/ /\ Working(t) /\ t \notin announcing
        /\ Go(t, [worker[t] EXCEPT !.pc = "cleanup", !.left = @ \cup {worker[t].item}])
  /\ UNCHANGED <<rows, tree, pool, cancelled, listening, announcing>>

-----------------------------------------------------------------------------
(* Everybody else *)

\* Mutant of Announce: only one of the waiting workers is notified.
AnnounceToOne(a) ==
  /\ a \in announcing
  /\ announcing' = announcing \ {a}
  /\ \/ listening = {} /\ listening' = {}
     \/ \E t \in listening : listening' = listening \ {t}
  /\ UNCHANGED <<rows, tree, worker, pool, cancelled>>

\* notify_waiters() of whoever committed a change.
Announce(a) ==
  /\ a \in announcing
  /\ announcing' = announcing \ {a}
  /\ listening' = {}
  /\ UNCHANGED <<rows, tree, worker, pool, cancelled>>

\* Other calls of the board: post, abandon, submit (of an item they hold, or of
\* the last sub-task of any held item), and claim, which notifies nobody.
Outside(c) ==
  /\ c \notin announcing
  /\ \/ /\ \E i \in Items : Rows!Create(i) \/ Rows!GiveUp(i) \/ Rows!Complete(i)
        /\ announcing' = announcing \cup ({c} \ Remote)
     \/ /\ \E i \in Items, r \in Outsiders : Rows!Take(i, r)
        /\ UNCHANGED announcing
  /\ UNCHANGED <<tree, worker, pool, cancelled, listening>>

\* The steps a task takes by itself.
Proceed(t) ==
  \/ Launch(t) \/ CreateFails(t) \/ LoadStale(t) \/ ResumeEnds(t)
  \/ Listen(t) \/ Scan(t) \/ Wake(t) \/ EndCancelled(t)
  \/ Acquire(t) \/ AcquireFails(t) \/ Prepare(t) \/ Execute(t) \/ Fail(t)
  \/ Submit(t) \/ TryAgain(t) \/ GiveUpStuck(t) \/ RemoveTree(t) \/ RemoveBranch(t) \/ Refused(t)
  \/ \E i \in Items : \/ SweepKeep(t, i) \/ SweepOrphan(t, i) \/ ResumeItem(t, i)
                      \/ ClaimItem(t, i) \/ SkipClaimed(t, i) \/ ClaimFails(t, i)

Next ==
  \/ \E t \in Tasks : Proceed(t) \/ \E r \in Rigs : Spawn(t, r)
  \/ \E r \in Rigs : Remove(r)
  \/ \E a \in Tasks \cup Callers : Announce(a)
  \/ \E c \in Callers : Outside(c)
  \/ Crash

Spec == Init /\ [][Next]_vars

\* A task is polled until it waits for something, and a call that committed
\* goes on to notify; the language model and git answer in the end.
FairSpec ==
  /\ Spec
  /\ \A t \in Tasks : WF_vars(Proceed(t))
  /\ \A a \in Tasks \cup Callers : WF_vars(Announce(a))

-----------------------------------------------------------------------------
(* Properties *)

\* A worker sleeps with its registration pending only over items that a failed
\* claim hid from it: everything else that is open has been seen to be claimed,
\* or a notification is on its way.  (All callers in this process.)
SleepJustified ==
  \A t \in Tasks :
    worker[t].pc = "asleep" /\ t \in listening /\ announcing = {}
      => OpenItems \subseteq worker[t].todo

\* What the loop says of its wait: no work, so wait for the notification.
SleepOnlyWithoutWork ==
  \A t \in Tasks :
    worker[t].pc = "asleep" /\ t \in listening /\ announcing = {} => OpenItems = {}

\* No second worker of the same id is started beside this one.
Alone(t) == worker[t].rig \notin Shared

\* While a worker whose id is its own is on an item the row stays with its rig: whatever
\* others do, workers that share an id and disturb each other included, the item is at
\* most completed, and nobody else who is alone works on it.  (One of two workers of an
\* id can still be on an item that the other gave back.)
HeldWhileWorking ==
  \A t \in Tasks : Working(t) /\ Alone(t) =>
    /\ status[worker[t].item] \in {"Claimed", "Done"}
    /\ owner[worker[t].item] = worker[t].rig
    /\ \A u \in Tasks \ {t} : Working(u) /\ Alone(u) => worker[u].item # worker[t].item

\* The worktree such a worker is in is not swept or removed under it.
TreeWhileWorking ==
  \A t \in Tasks : Working(t) /\ Alone(t) => tree[worker[t].rig][worker[t].item] = "tree"

\* What a worker is on is nobody else's to change, if its id is its own: neither the
\* row nor the worktree.
WorkUndisturbed == HeldWhileWorking /\ TreeWhileWorking

\* A claim of a rig that only its worker uses is always on the worker's mind: still to
\* be resumed after a restart, or being worked on; or the database refused the call that
\* was to read or to end it.  No other error, and no crash, leaves an item claimed by a
\* worker that has moved on.
ClaimsAccounted ==
  \A t \in Tasks : Live(t) /\ t \notin cancelled /\ Alone(t) /\ worker[t].rig \notin Outsiders =>
    \/ worker[t].back = "sweep" /\ worker[t].pc # "resume"
    \/ HeldBy(worker[t].rig) \subseteq worker[t].todo \cup {worker[t].item} \cup worker[t].left

\* Every id has one worker: "worker '{}' already exists" (worker_pool.rs:57) is what
\* the pool answers to a second; refuted by a run, since it looks before an await and
\* inserts after it.
OneWorkerPerRig ==
  \A t, u \in Tasks : Live(t) /\ Live(u) /\ worker[t].rig = worker[u].rig => t = u

\* The worktree of a stuck item is kept for debugging.
StuckKeepsTree ==
  \A t \in Tasks, i \in Items :
    status[i] = "Stuck" /\ owner[i] = worker[t].rig /\ worker[t].pc = "listen"
      => tree[owner[i]][i] = "tree"

\* An item a worker has in hand is out of its hands in the end: attempts are
\* bounded and every error path comes to its end.
ItemLeft == \A t \in Tasks : worker[t].item # NoItem ~> worker[t].item = NoItem

\* A sleeping worker notices an open item that no failed claim hid from it,
\* unless the item is taken first.
WakesUp ==
  \A t \in Tasks, i \in Items :
    (worker[t].pc = "asleep" /\ i \in OpenItems \ worker[t].todo)
      ~> (worker[t].pc # "asleep" \/ i \notin OpenItems \ worker[t].todo)

=============================================================================
