-------------------------------- MODULE Board --------------------------------
(***************************************************************************)
(* The Wanted Board: the work_items and relations tables, and the calls    *)
(* that rigs, HTTP handlers, MCP tools and the command line have in flight *)
(* on it.  A transaction, and a single SQL statement, is one step; a call  *)
(* that awaits between two of them is one step per await, with what it has *)
(* read so far kept in call[c].  A call whose guard fails returns an error *)
(* and changes nothing, so it is not a step.                               *)
(***************************************************************************)
EXTENDS WorkItem

CONSTANTS
  Items,      \* ids the AUTO INCREMENT key may hand out
  NoItem,     \* parent_id = None
  Callers,    \* tasks that use a Board
  Remote,     \* callers in another process: same database, their own Notify
  Droppable,  \* callers whose future may be dropped, or whose query may fail
  Linkers,    \* callers that may add dependencies
  Pullers     \* callers that listen for work and scan for it

ASSUME BoardAssumption ==
  /\ NoItem \notin Items
  /\ Remote \subseteq Callers
  /\ Droppable \subseteq Callers
  /\ Linkers \subseteq Callers
  /\ Pullers \subseteq Callers \ Remote

VARIABLES
  status, owner, parent,  \* columns of work_items
  blocks,                 \* relations: <<blocker, blocked>>
  call,                   \* what each caller is in the middle of
  waiters,                \* callers whose Notified future is still pending
  due                     \* history: parents owed an automatic completion

rows == <<status, owner, parent>>
vars == <<status, owner, parent, blocks, call, waiters, due>>

Edges == Items \X Items

\* The calls in flight, by the await they are stopped at.
Idle      == [op |-> "idle"]
Notifying == [op |-> "notify"]
Calls ==
  {Idle, Notifying}
  \cup [op : {"insert"}, parent : Items \cup {NoItem}]
  \cup [op : {"siblings", "parent", "complete"}, item : Items]
  \cup [op : {"link"}, from : Items, to : Items]
  \cup [op : {"blockers"}, rels : SUBSET Edges]
  \cup [op : {"open"}, rels : SUBSET Edges, blocked : SUBSET Items]
  \cup [op : {"ready"}, rels : SUBSET Edges, items : SUBSET Items]

TypeOK ==
  /\ status \in [Items -> Statuses \cup {"Absent"}]
  /\ owner \in [Items -> Rigs \cup {NoRig}]
  /\ parent \in [Items -> Items \cup {NoItem}]
  /\ blocks \subseteq Edges
  /\ call \in [Callers -> Calls]
  /\ waiters \subseteq Callers
  /\ due \subseteq Items

-----------------------------------------------------------------------------
(* Reading the tables *)

Children(p) == {i \in Items : status[i] # "Absent" /\ parent[i] = p}

AllChildrenDone(p) == \A i \in Children(p) : status[i] = "Done"

\* Direct blockers that are not Done; a blocker with no row counts.
OpenBlockers(i, rels) == {b \in Items : <<b, i>> \in rels /\ status[b] # "Done"}

\* Mutant of BlockedItems: an Abandoned blocker no longer blocks.
BlockedItemsUnlessAbandoned(rels) ==
  {i \in Items : \E b \in OpenBlockers(i, rels) : status[b] # "Abandoned"}

BlockedItems(rels) == {i \in Items : OpenBlockers(i, rels) # {}}

ReadyItems == {i \in Items : status[i] = "Open" /\ i \notin BlockedItems(blocks)}

\* A set of items that contains every blocker of its members.
ClosedUnderBlockers(S) == \A e \in blocks : e[2] \in S => e[1] \in S

\* The search walks the blockers of `from` and looks for `to`: `to` is found
\* when every set with `from` that is closed under blockers contains it.
WouldCreateCycle(from, to) ==
  \A S \in SUBSET Items : from \in S /\ ClosedUnderBlockers(S) => to \in S

-----------------------------------------------------------------------------
(* Steps of a call *)

\* A caller may start a call when it has none, or only a result of ready().
Free(c) == call[c].op \in {"idle", "ready"}

Await(c, next) == call' = [call EXCEPT ![c] = next]

SetStatus(i, to) ==
  /\ CanTransitionTo(status[i], to)
  /\ status' = [status EXCEPT ![i] = to]

Init ==
  /\ status = [i \in Items |-> "Absent"]
  /\ owner = [i \in Items |-> NoRig]
  /\ parent = [i \in Items |-> NoItem]
  /\ blocks = {}
  /\ call = [c \in Callers |-> Idle]
  /\ waiters = {}
  /\ due = {}

\* post, first await: the parent is read and checked.
Post(c, p) ==
  /\ Free(c)
  /\ p # NoItem => /\ status[p] \notin Closed \cup {"Absent"}
                   /\ parent[p] = NoItem
  /\ Await(c, [op |-> "insert", parent |-> p])
  /\ UNCHANGED <<rows, blocks, waiters>>

\* post, second await: the row is inserted, whatever became of the parent.
InsertItem(c, i) ==
  /\ call[c].op = "insert"
  /\ status[i] = "Absent"
  /\ status' = [status EXCEPT ![i] = "Open"]
  /\ parent' = [parent EXCEPT ![i] = call[c].parent]
  /\ Await(c, Notifying)
  /\ UNCHANGED <<owner, blocks, waiters>>

\* Mutant of Claim: the transition is not validated.
ClaimUnvalidated(c, i, r) ==
  /\ Free(c)
  /\ status[i] \notin {"Absent", "Claimed"}
  /\ status' = [status EXCEPT ![i] = "Claimed"]
  /\ owner' = [owner EXCEPT ![i] = r]
  /\ Await(c, Idle)
  /\ UNCHANGED <<parent, blocks, waiters>>

\* claim: one transaction, no notification.
Claim(c, i, r) ==
  /\ Free(c)
  /\ SetStatus(i, "Claimed")
  /\ owner' = [owner EXCEPT ![i] = r]
  /\ Await(c, Idle)
  /\ UNCHANGED <<parent, blocks, waiters>>

\* submit: the item is Done; a sub-task goes on to look at its siblings.
Submit(c, i, r) ==
  /\ Free(c)
  /\ VerifyClaimedBy(owner[i], r)
  /\ SetStatus(i, "Done")
  /\ Await(c, IF parent[i] = NoItem
                THEN Notifying
                ELSE [op |-> "siblings", item |-> parent[i]])
  /\ UNCHANGED <<owner, parent, blocks, waiters>>

\* Mutant of ReadSiblings: an only child does not complete its parent.
ReadSiblingsOffByOne(c) ==
  /\ call[c].op = "siblings"
  /\ Await(c, IF /\ AllChildrenDone(call[c].item)
                /\ \E i, j \in Children(call[c].item) : i # j
                THEN [op |-> "parent", item |-> call[c].item]
                ELSE Notifying)
  /\ UNCHANGED <<rows, blocks, waiters>>

ReadSiblings(c) ==
  /\ call[c].op = "siblings"
  /\ Await(c, IF AllChildrenDone(call[c].item)
                THEN [op |-> "parent", item |-> call[c].item]
                ELSE Notifying)
  /\ UNCHANGED <<rows, blocks, waiters>>

ReadParent(c) ==
  /\ call[c].op = "parent"
  /\ Await(c, IF CanTransitionTo(status[call[c].item], "Done")
                THEN [op |-> "complete", item |-> call[c].item]
                ELSE Notifying)
  /\ UNCHANGED <<rows, blocks, waiters>>

\* Mutant of CompleteParent: the table is asked the wrong way round, and the
\* error that follows is dropped.
CompleteParentBackwards(c) ==
  /\ call[c].op = "complete"
  /\ status' = IF CanTransitionTo("Done", status[call[c].item])
                 THEN [status EXCEPT ![call[c].item] = "Done"] ELSE status
  /\ Await(c, Notifying)
  /\ UNCHANGED <<owner, parent, blocks, waiters>>

\* The parent's own transition; its error, if any, is dropped.
CompleteParent(c) ==
  /\ call[c].op = "complete"
  /\ \/ SetStatus(call[c].item, "Done")
     \/ /\ ~CanTransitionTo(status[call[c].item], "Done")
        /\ UNCHANGED status
  /\ Await(c, Notifying)
  /\ UNCHANGED <<owner, parent, blocks, waiters>>

\* Mutant of Unclaim: returns without notifying.
UnclaimSilently(c, i, r) ==
  /\ Free(c)
  /\ VerifyClaimedBy(owner[i], r)
  /\ SetStatus(i, "Open")
  /\ owner' = [owner EXCEPT ![i] = NoRig]
  /\ Await(c, Idle)
  /\ UNCHANGED <<parent, blocks, waiters>>

\* unclaim: back to Open by its holder.
Unclaim(c, i, r) ==
  /\ Free(c)
  /\ VerifyClaimedBy(owner[i], r)
  /\ SetStatus(i, "Open")
  /\ owner' = [owner EXCEPT ![i] = NoRig]
  /\ Await(c, Notifying)
  /\ UNCHANGED <<parent, blocks, waiters>>

\* mark_stuck: the holder stays on the row, nobody is notified.
MarkStuck(c, i, r) ==
  /\ Free(c)
  /\ NotHeldByOther(owner[i], r)
  /\ SetStatus(i, "Stuck")
  /\ Await(c, Idle)
  /\ UNCHANGED <<owner, parent, blocks, waiters>>

\* retry: anyone may reopen an item, a Claimed one included.
Retry(c, i) ==
  /\ Free(c)
  /\ SetStatus(i, "Open")
  /\ owner' = [owner EXCEPT ![i] = NoRig]
  /\ Await(c, Notifying)
  /\ UNCHANGED <<parent, blocks, waiters>>

Abandon(c, i) ==
  /\ Free(c)
  /\ SetStatus(i, "Abandoned")
  /\ Await(c, Notifying)
  /\ UNCHANGED <<owner, parent, blocks, waiters>>

\* Tail of post, submit, unclaim, retry and abandon: notify_waiters() wakes
\* the futures registered with this process's Notify.
Notify(c) ==
  /\ call[c].op = "notify"
  /\ waiters' = IF c \in Remote THEN waiters ELSE {}
  /\ Await(c, Idle)
  /\ UNCHANGED <<rows, blocks>>

\* add_dependency, first await: the relations are loaded and searched.
CheckDependency(c, from, to) ==
  /\ Free(c) /\ c \in Linkers
  /\ from # to
  /\ ~WouldCreateCycle(from, to)
  /\ Await(c, [op |-> "link", from |-> from, to |-> to])
  /\ UNCHANGED <<rows, blocks, waiters>>

\* add_dependency, second await: the edge is inserted without another look.
InsertDependency(c) ==
  /\ call[c].op = "link"
  /\ blocks' = blocks \cup {<<call[c].from, call[c].to>>}
  /\ Await(c, Idle)
  /\ UNCHANGED <<rows, waiters>>

\* notify_handle().notified(): registered from the moment it is created.
Register(c) ==
  /\ Free(c) /\ c \in Pullers
  /\ waiters' = waiters \cup {c}
  /\ Await(c, Idle)
  /\ UNCHANGED <<rows, blocks>>

\* ready(): three queries, one after the other.
LoadRelations(c) ==
  /\ Free(c) /\ c \in Pullers
  /\ Await(c, IF blocks = {}
                THEN [op |-> "open", rels |-> {}, blocked |-> {}]
                ELSE [op |-> "blockers", rels |-> blocks])
  /\ UNCHANGED <<rows, blocks, waiters>>

LoadBlockers(c) ==
  /\ call[c].op = "blockers"
  /\ Await(c, [op |-> "open", rels |-> call[c].rels,
               blocked |-> BlockedItems(call[c].rels)])
  /\ UNCHANGED <<rows, blocks, waiters>>

LoadOpen(c) ==
  /\ call[c].op = "open"
  /\ Await(c, [op |-> "ready", rels |-> call[c].rels,
               items |-> {i \in Items : status[i] = "Open"} \ call[c].blocked])
  /\ UNCHANGED <<rows, blocks, waiters>>

\* The future is dropped at an await, a query fails, or the process dies:
\* what is committed stays, the rest of the call never happens.
Abort(c) ==
  /\ c \in Droppable
  /\ call[c] # Idle
  /\ Await(c, Idle)
  /\ waiters' = waiters \ {c}
  /\ due' = IF call[c].op \in {"siblings", "parent", "complete"}
              THEN due \ {call[c].item} ELSE due
  /\ UNCHANGED <<rows, blocks>>

-----------------------------------------------------------------------------

\* Steps that carry a call already in flight one await further.
Continue(c) ==
  \/ \E i \in Items : InsertItem(c, i)
  \/ ReadSiblings(c)
  \/ ReadParent(c)
  \/ CompleteParent(c)
  \/ Notify(c)
  \/ InsertDependency(c)
  \/ LoadBlockers(c)
  \/ LoadOpen(c)

Start(c) ==
  \/ \E p \in Items \cup {NoItem} : Post(c, p)
  \/ \E i \in Items, r \in Rigs :
       Claim(c, i, r) \/ Submit(c, i, r) \/ Unclaim(c, i, r) \/ MarkStuck(c, i, r)
  \/ \E i \in Items : Retry(c, i) \/ Abandon(c, i)
  \/ \E from, to \in Items : CheckDependency(c, from, to)
  \/ Register(c)
  \/ LoadRelations(c)

\* History: a held parent is due from the step that finishes its last child
\* until it is no longer held or gets another child.
TrackDue ==
  due' = {p \in Items :
            /\ status'[p] = "Claimed"
            /\ Children(p)' # {} /\ AllChildrenDone(p)'
            /\ p \in due \/ Children(p) = {} \/ ~AllChildrenDone(p)}

Next ==
  \E c \in Callers :
    \/ (Start(c) \/ Continue(c)) /\ TrackDue
    \/ Abort(c)

Spec == Init /\ [][Next]_vars

\* A task that is not dropped is polled until its call returns.
FairSpec == Spec /\ \A c \in Callers : WF_vars(Continue(c) /\ TrackDue)

-----------------------------------------------------------------------------
(* Properties *)

\* Whoever finished, stalled or holds an item is on its row, and an item on
\* offer belongs to nobody: completed_by() and resume rely on the column.
OwnerMatchesStatus ==
  \A i \in Items :
    /\ status[i] \in {"Claimed", "Stuck", "Done"} => owner[i] # NoRig
    /\ status[i] \in {"Absent", "Open"} => owner[i] = NoRig

\* A sub-task's parent exists and is no sub-task itself, although post()
\* checks the parent in one step and inserts the row in a later one.
SubTaskDepth ==
  \A i \in Items : parent[i] # NoItem =>
    /\ status[parent[i]] # "Absent"
    /\ parent[parent[i]] = NoItem

\* When siblings are submitted at the same time one of the submits in flight
\* still completes the parent: no last child goes unnoticed by all of them.
CascadeOwed ==
  \A p \in due : \E c \in Callers :
    call[c].op \in {"siblings", "parent", "complete"} /\ call[c].item = p

\* The steps after which notify_waiters() of this process is still to come.
WillNotify(c) ==
  /\ c \notin Remote
  /\ call[c].op \in {"siblings", "parent", "complete", "notify"}

\* A caller that registers, then scans, misses nothing: whatever is ready now
\* and not in its result is announced by a notification still to come.
WakeupOwed ==
  \A c \in waiters : call[c].op = "ready" =>
    \A i \in ReadyItems \ call[c].items : \E d \in Callers : WillNotify(d)

\* Every blocker that ready() knew of is Done when its result is used, however
\* much time passed between its three queries and since.
ReadyResultUnblocked ==
  \A c \in Callers : call[c].op = "ready" =>
    \A i \in call[c].items : OpenBlockers(i, call[c].rels) = {}

\* No set of items in which every member waits for another member.
NoDependencyCycle ==
  \A S \in SUBSET Items :
    S # {} => \E i \in S : \A b \in S : <<b, i>> \notin blocks

\* Sub-tasks all Done and no call in flight: the parent is Done as well.
ParentFollowsChildren ==
  (\A c \in Callers : Free(c)) =>
    \A p \in Items :
      Children(p) # {} /\ AllChildrenDone(p) => status[p] = "Done"

\* The board implements the life cycle of its rows.
Lifecycle == INSTANCE WorkLifecycle
ImplementsLifecycle == Lifecycle!Spec

\* A parent owed a completion gets one, or is taken out of its holder's hands,
\* or is given another sub-task.
CascadeCompletes == \A p \in Items : p \in due ~> p \notin due

=============================================================================
