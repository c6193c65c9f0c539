----------------------------- MODULE BoardProofs -----------------------------
(***************************************************************************)
(* Theorems about Board, for every set of items, rigs and callers.         *)
(***************************************************************************)
EXTENDS Board, TLAPS

\* A caller that moves to a well-formed await leaves `call` well-formed.
LEMMA AwaitType ==
  ASSUME TypeOK, NEW c \in Callers, NEW x \in Calls, Await(c, x)
  PROVE  call' \in [Callers -> Calls]
BY DEF TypeOK, Await

\* A legal transition leaves the status column well-formed.
LEMMA SetStatusType ==
  ASSUME TypeOK, NEW i \in Items, NEW s \in Statuses, SetStatus(i, s)
  PROVE  status' \in [Items -> Statuses \cup {"Absent"}]
BY DEF TypeOK, SetStatus

\* What a caller in flight holds.
LEMMA CallShape ==
  ASSUME TypeOK, NEW c \in Callers
  PROVE  /\ call[c].op = "insert" => call[c].parent \in Items \cup {NoItem}
         /\ call[c].op \in {"siblings", "parent", "complete"} => call[c].item \in Items
         /\ call[c].op = "link" => call[c].from \in Items /\ call[c].to \in Items
         /\ call[c].op = "blockers" => call[c].rels \in SUBSET Edges
         /\ call[c].op = "open" => /\ call[c].rels \in SUBSET Edges
                                   /\ call[c].blocked \in SUBSET Items
         /\ call[c].op = "ready" => /\ call[c].rels \in SUBSET Edges
                                    /\ call[c].items \in SUBSET Items
BY DEF TypeOK, Calls, Idle, Notifying

\* A step changes at most the call of the caller that takes it.
LEMMA OthersUntouched ==
  ASSUME TypeOK, NEW c \in Callers, Start(c) \/ Continue(c) \/ Abort(c),
         NEW d \in Callers \ {c}
  PROVE  call'[d] = call[d]
BY DEF TypeOK, Await, Start, Continue, Post, InsertItem, Claim, Submit, ReadSiblings,
   ReadParent, CompleteParent, Unclaim, MarkStuck, Retry, Abandon, Notify,
   CheckDependency, InsertDependency, Register, LoadRelations, LoadBlockers, LoadOpen,
   Abort

\* A call comes to an await by a step of its own caller.
LEMMA OwnStep ==
  ASSUME TypeOK, [Next]_vars, NEW c \in Callers, call'[c] # call[c]
  PROVE  ((Start(c) \/ Continue(c)) /\ TrackDue) \/ Abort(c)
BY OthersUntouched DEF Next, vars

\* The caller of Await(c, x) is at x afterwards.
LEMMA AwaitNext ==
  ASSUME TypeOK, NEW c \in Callers, NEW x, Await(c, x)
  PROVE  call'[c] = x
BY DEF TypeOK, Await

-----------------------------------------------------------------------------
(* Types *)

\* The parents owed a completion are items.
LEMMA DueType == ASSUME TrackDue PROVE due' \subseteq Items
BY DEF TrackDue

\* Every step preserves the types.
LEMMA TypeStep ==
  ASSUME TypeOK, [Next]_vars
  PROVE  TypeOK'
<1> USE DEF rows
<1>1. CASE UNCHANGED vars
  BY <1>1 DEF TypeOK, vars
<1>2. CASE Next
  <2> USE DueType
  <2>a. Idle \in Calls /\ Notifying \in Calls
    BY DEF Calls
  <2>b. \A c \in Callers, x \in Calls : Await(c, x) => call' \in [Callers -> Calls]
    BY AwaitType
  <2>c. \A i \in Items, s \in Statuses :
          SetStatus(i, s) => status' \in [Items -> Statuses \cup {"Absent"}]
    BY SetStatusType
  <2>d. \A s \in {"Open", "Claimed", "Done", "Stuck", "Abandoned"} : s \in Statuses
    BY DEF Statuses
  <2>1. ASSUME NEW c \in Callers, NEW p \in Items \cup {NoItem}, Post(c, p), TrackDue PROVE TypeOK'
    <3>1. [op |-> "insert", parent |-> p] \in Calls
      BY DEF Calls
    <3> QED BY <2>1, <2>b, <3>1 DEF Post, TypeOK
  <2>2. ASSUME NEW c \in Callers, NEW i \in Items, InsertItem(c, i), TrackDue PROVE TypeOK'
    BY <2>2, <2>a, <2>b, <2>d, CallShape DEF InsertItem, TypeOK
  <2>3. ASSUME NEW c \in Callers, NEW i \in Items, NEW r \in Rigs, Claim(c, i, r), TrackDue PROVE TypeOK'
    BY <2>3, <2>a, <2>b, <2>c, <2>d DEF Claim, TypeOK
  <2>4. ASSUME NEW c \in Callers, NEW i \in Items, NEW r \in Rigs, Submit(c, i, r), TrackDue PROVE TypeOK'
    <3>1. parent[i] # NoItem => [op |-> "siblings", item |-> parent[i]] \in Calls
      BY DEF Calls, TypeOK
    <3>2. call' \in [Callers -> Calls]
      BY <2>4, <2>a, <2>b, <3>1 DEF Submit
    <3> QED BY <2>4, <2>c, <2>d, <3>2 DEF Submit, TypeOK
  <2>5. ASSUME NEW c \in Callers, ReadSiblings(c), TrackDue PROVE TypeOK'
    <3>1. [op |-> "parent", item |-> call[c].item] \in Calls
      BY <2>5, CallShape DEF Calls, ReadSiblings
    <3>2. call' \in [Callers -> Calls]
      BY <2>5, <2>a, <2>b, <3>1 DEF ReadSiblings
    <3> QED BY <2>5, <3>2 DEF ReadSiblings, TypeOK
  <2>6. ASSUME NEW c \in Callers, ReadParent(c), TrackDue PROVE TypeOK'
    <3>1. [op |-> "complete", item |-> call[c].item] \in Calls
      BY <2>6, CallShape DEF Calls, ReadParent
    <3>2. call' \in [Callers -> Calls]
      BY <2>6, <2>a, <2>b, <3>1 DEF ReadParent
    <3> QED BY <2>6, <3>2 DEF ReadParent, TypeOK
  <2>7. ASSUME NEW c \in Callers, CompleteParent(c), TrackDue PROVE TypeOK'
    <3>1. status' \in [Items -> Statuses \cup {"Absent"}]
      BY <2>7, <2>c, <2>d, CallShape DEF CompleteParent, TypeOK
    <3> QED BY <2>7, <2>a, <2>b, <3>1 DEF CompleteParent, TypeOK
  <2>8. ASSUME NEW c \in Callers, NEW i \in Items, NEW r \in Rigs, Unclaim(c, i, r), TrackDue PROVE TypeOK'
    BY <2>8, <2>a, <2>b, <2>c, <2>d DEF Unclaim, TypeOK
  <2>9. ASSUME NEW c \in Callers, NEW i \in Items, NEW r \in Rigs, MarkStuck(c, i, r), TrackDue PROVE TypeOK'
    BY <2>9, <2>a, <2>b, <2>c, <2>d DEF MarkStuck, TypeOK
  <2>10. ASSUME NEW c \in Callers, NEW i \in Items, Retry(c, i), TrackDue PROVE TypeOK'
    BY <2>10, <2>a, <2>b, <2>c, <2>d DEF Retry, TypeOK
  <2>11. ASSUME NEW c \in Callers, NEW i \in Items, Abandon(c, i), TrackDue PROVE TypeOK'
    BY <2>11, <2>a, <2>b, <2>c, <2>d DEF Abandon, TypeOK
  <2>12. ASSUME NEW c \in Callers, Notify(c), TrackDue PROVE TypeOK'
    BY <2>12, <2>a, <2>b DEF Notify, TypeOK
  <2>13. ASSUME NEW c \in Callers, NEW f \in Items, NEW t \in Items, CheckDependency(c, f, t), TrackDue
         PROVE TypeOK'
    <3>1. [op |-> "link", from |-> f, to |-> t] \in Calls
      BY DEF Calls
    <3> QED BY <2>13, <2>b, <3>1 DEF CheckDependency, TypeOK
  <2>14. ASSUME NEW c \in Callers, InsertDependency(c), TrackDue PROVE TypeOK'
    <3>1. <<call[c].from, call[c].to>> \in Edges
      BY <2>14, CallShape DEF InsertDependency, Edges
    <3> QED BY <2>14, <2>a, <2>b, <3>1 DEF InsertDependency, TypeOK
  <2>15. ASSUME NEW c \in Callers, Register(c), TrackDue PROVE TypeOK'
    BY <2>15, <2>a, <2>b DEF Register, TypeOK
  <2>16. ASSUME NEW c \in Callers, LoadRelations(c), TrackDue PROVE TypeOK'
    <3>1. /\ [op |-> "open", rels |-> {}, blocked |-> {}] \in Calls
          /\ [op |-> "blockers", rels |-> blocks] \in Calls
      BY DEF Calls, TypeOK
    <3>2. call' \in [Callers -> Calls]
      BY <2>16, <2>b, <3>1 DEF LoadRelations
    <3> QED BY <2>16, <3>2 DEF LoadRelations, TypeOK
  <2>17. ASSUME NEW c \in Callers, LoadBlockers(c), TrackDue PROVE TypeOK'
    <3>1. [op |-> "open", rels |-> call[c].rels,
           blocked |-> BlockedItems(call[c].rels)] \in Calls
      BY <2>17, CallShape DEF Calls, LoadBlockers, BlockedItems
    <3> QED BY <2>17, <2>b, <3>1 DEF LoadBlockers, TypeOK
  <2>18. ASSUME NEW c \in Callers, LoadOpen(c), TrackDue PROVE TypeOK'
    <3>1. [op |-> "ready", rels |-> call[c].rels,
           items |-> {i \in Items : status[i] = "Open"} \ call[c].blocked] \in Calls
      BY <2>18, CallShape DEF Calls, LoadOpen
    <3> QED BY <2>18, <2>b, <3>1 DEF LoadOpen, TypeOK
  <2>19. ASSUME NEW c \in Callers, Abort(c) PROVE TypeOK'
    BY <2>19, <2>a, <2>b DEF Abort, TypeOK
  <2> QED
    BY <1>2, <2>1, <2>2, <2>3, <2>4, <2>5, <2>6, <2>7, <2>8, <2>9, <2>10, <2>11, <2>12,
       <2>13, <2>14, <2>15, <2>16, <2>17, <2>18, <2>19, Zenon
       DEF Next, Start, Continue
<1> QED BY <1>1, <1>2

\* Every variable keeps its type: rows, calls in flight and listeners.
THEOREM TypeCorrect == Spec => []TypeOK
<1>1. Init => TypeOK
  BY DEF Init, TypeOK, Calls, Idle, Edges
<1>2. TypeOK /\ [Next]_vars => TypeOK'
  BY TypeStep
<1> QED BY <1>1, <1>2, PTL DEF Spec

-----------------------------------------------------------------------------
(* The board implements the life cycle of its rows *)

\* Every step of the board is a step of WorkLifecycle, or changes no row of its.
LEMMA LifecycleStep ==
  ASSUME TypeOK, OwnerMatchesStatus, [Next]_vars
  PROVE  [Lifecycle!Next]_<<status, owner>>
<1> USE DEF rows, SetStatus, CanTransitionTo, Transitions, TypeOK, Lifecycle!MoveTo
<1>1. CASE UNCHANGED vars
  BY <1>1 DEF vars
<1>2. CASE Next
  <2>1. ASSUME NEW i \in Items, NEW c \in Callers, InsertItem(c, i)
        PROVE  Lifecycle!Create(i)
    BY <2>1 DEF InsertItem, Lifecycle!Create, OwnerMatchesStatus
  <2>2. ASSUME NEW i \in Items, NEW r \in Rigs, NEW c \in Callers, Claim(c, i, r)
        PROVE  Lifecycle!Take(i, r)
    BY <2>2 DEF Claim, Lifecycle!Take
  <2>3. ASSUME NEW i \in Items, NEW r \in Rigs, NEW c \in Callers, Submit(c, i, r)
        PROVE  Lifecycle!Complete(i)
    BY <2>3 DEF Submit, Lifecycle!Complete
  <2>4. ASSUME NEW i \in Items, NEW r \in Rigs, NEW c \in Callers, Unclaim(c, i, r)
        PROVE  Lifecycle!Release(i)
    BY <2>4 DEF Unclaim, Lifecycle!Release
  <2>5. ASSUME NEW i \in Items, NEW r \in Rigs, NEW c \in Callers, MarkStuck(c, i, r)
        PROVE  Lifecycle!Stall(i)
    BY <2>5 DEF MarkStuck, Lifecycle!Stall
  <2>6. ASSUME NEW i \in Items, NEW c \in Callers, Retry(c, i)
        PROVE  Lifecycle!Release(i)
    BY <2>6 DEF Retry, Lifecycle!Release
  <2>7. ASSUME NEW i \in Items, NEW c \in Callers, Abandon(c, i)
        PROVE  Lifecycle!GiveUp(i)
    BY <2>7 DEF Abandon, Lifecycle!GiveUp
  <2>8. ASSUME NEW c \in Callers, CompleteParent(c)
        PROVE  UNCHANGED <<status, owner>> \/ Lifecycle!Complete(call[c].item)
    <3>1. call[c].item \in Items
      BY <2>8, CallShape DEF CompleteParent
    <3> QED BY <2>8, <3>1 DEF CompleteParent, Lifecycle!Complete
  <2>9. ASSUME NEW c \in Callers, CompleteParent(c) PROVE call[c].item \in Items
    BY <2>9, CallShape DEF CompleteParent
  <2>10. ASSUME NEW c \in Callers,
                \/ \E p \in Items \cup {NoItem} : Post(c, p)
                \/ ReadSiblings(c) \/ ReadParent(c) \/ Notify(c)
                \/ \E from, to \in Items : CheckDependency(c, from, to)
                \/ InsertDependency(c) \/ Register(c)
                \/ LoadRelations(c) \/ LoadBlockers(c) \/ LoadOpen(c) \/ Abort(c)
         PROVE  UNCHANGED <<status, owner>>
    BY <2>10 DEF Post, ReadSiblings, ReadParent, Notify, CheckDependency,
         InsertDependency, Register, LoadRelations, LoadBlockers, LoadOpen, Abort
  <2> HIDE DEF SetStatus, CanTransitionTo, Transitions, TypeOK, Lifecycle!MoveTo
  <2> QED
    BY <1>2, <2>1, <2>2, <2>3, <2>4, <2>5, <2>6, <2>7, <2>8, <2>9, <2>10, Zenon
       DEF Next, Start, Continue, Lifecycle!Next
<1> QED BY <1>1, <1>2

\* Every step keeps the holder in agreement with the status.
LEMMA OwnerStep ==
  ASSUME TypeOK, OwnerMatchesStatus, [Next]_vars
  PROVE  OwnerMatchesStatus'
BY LifecycleStep, RigsAssumption
   DEF TypeOK, OwnerMatchesStatus, Lifecycle!Next, Lifecycle!Create, Lifecycle!Take,
       Lifecycle!Complete, Lifecycle!Release, Lifecycle!Stall, Lifecycle!GiveUp,
       Lifecycle!MoveTo

\* Held, stalled and finished items name a rig; items on offer name nobody.
THEOREM OwnerCorrect == Spec => []OwnerMatchesStatus
<1>1. Init => OwnerMatchesStatus
  BY DEF Init, OwnerMatchesStatus
<1>2. TypeOK /\ OwnerMatchesStatus /\ [Next]_vars => OwnerMatchesStatus'
  BY OwnerStep
<1> QED BY <1>1, <1>2, TypeCorrect, PTL DEF Spec

\* The board, with all its concurrent calls, implements WorkLifecycle.
THEOREM LifecycleRefinement == Spec => ImplementsLifecycle
<1>1. Init => Lifecycle!Init
  BY DEF Init, Lifecycle!Init
<1>2. TypeOK /\ OwnerMatchesStatus /\ [Next]_vars
        => [Lifecycle!Next]_(Lifecycle!lifecycleVars)
  BY LifecycleStep DEF Lifecycle!lifecycleVars
<1> QED
  BY <1>1, <1>2, TypeCorrect, OwnerCorrect, PTL
     DEF Spec, ImplementsLifecycle, Lifecycle!Spec

-----------------------------------------------------------------------------
(* Sub-tasks: depth and automatic completion *)

\* What every step leaves alone: rows never vanish, Done is final, and only the
\* insertion of a row sets its parent.
LEMMA RowsStable ==
  ASSUME TypeOK, OwnerMatchesStatus, [Next]_vars, NEW i \in Items
  PROVE  /\ status[i] # "Absent" => status'[i] # "Absent" /\ parent'[i] = parent[i]
         /\ status[i] = "Done" => status'[i] = "Done"
         /\ status'[i] = "Absent" => status[i] = "Absent" /\ parent'[i] = parent[i]
<1>1. /\ status[i] # "Absent" => status'[i] # "Absent"
      /\ status[i] = "Done" => status'[i] = "Done"
      /\ status'[i] = "Absent" => status[i] = "Absent"
  BY LifecycleStep
     DEF TypeOK, Lifecycle!Next, Lifecycle!Create, Lifecycle!Take, Lifecycle!Complete,
         Lifecycle!Release, Lifecycle!Stall, Lifecycle!GiveUp, Lifecycle!MoveTo
<1>2. CASE \E c \in Callers, j \in Items : InsertItem(c, j)
  BY <1>1, <1>2 DEF InsertItem, TypeOK
<1>3. CASE ~ \E c \in Callers, j \in Items : InsertItem(c, j)
  <2>1. parent' = parent
    BY <1>3, ZenonT(60) DEF Next, Start, Continue, vars, rows, Post, Claim, Submit, ReadSiblings,
       ReadParent, CompleteParent, Unclaim, MarkStuck, Retry, Abandon, Notify,
       CheckDependency, InsertDependency, Register, LoadRelations, LoadBlockers,
       LoadOpen, Abort
  <2> QED BY <1>1, <2>1
<1> QED BY <1>2, <1>3

\* The parent a caller is about to use was fit for sub-tasks when it looked,
\* and stays so: it exists and has no parent of its own.
FitParent(p) == status[p] # "Absent" /\ parent[p] = NoItem

DepthInv ==
  /\ SubTaskDepth
  /\ \A i \in Items : status[i] = "Absent" => parent[i] = NoItem
  /\ \A c \in Callers : call[c].op = "insert" /\ call[c].parent # NoItem
                           => FitParent(call[c].parent)

\* Every step preserves DepthInv: a fit parent stays fit until the row is inserted.
LEMMA DepthStep ==
  ASSUME TypeOK, OwnerMatchesStatus, DepthInv, [Next]_vars
  PROVE  DepthInv'
<1>1. \A p \in Items : FitParent(p) => FitParent(p)'
  BY RowsStable DEF FitParent
<1>2. ASSUME NEW i \in Items, status'[i] = "Absent" PROVE parent'[i] = NoItem
  BY <1>2, RowsStable DEF DepthInv
<1>3. ASSUME NEW c \in Callers, call'[c].op = "insert", call'[c].parent # NoItem
      PROVE  \E p \in Items : call'[c].parent = p /\ FitParent(p)'
  <2>1. CASE call'[c] = call[c]
    <3>1. call[c].parent \in Items
      BY <1>3, <2>1, CallShape
    <3>2. FitParent(call[c].parent)
      BY <1>3, <2>1 DEF DepthInv
    <3>3. PICK p \in Items : p = call[c].parent
      BY <3>1
    <3> QED BY <1>1, <2>1, <3>2, <3>3
  <2>2. CASE call'[c] # call[c]
    <3>1. Start(c) \/ Continue(c) \/ Abort(c)
      BY <2>2, OwnStep
    <3>2. PICK p \in Items \cup {NoItem} : Post(c, p)
      <4>1. Continue(c) \/ Abort(c) => call'[c].op # "insert"
        BY DEF TypeOK, Await, Continue, InsertItem, ReadSiblings, ReadParent,
           CompleteParent, Notify, InsertDependency, LoadBlockers, LoadOpen, Abort, Idle,
           Notifying
      <4>2. Start(c) => \/ call'[c].op # "insert"
                        \/ \E p \in Items \cup {NoItem} : Post(c, p)
        BY DEF TypeOK, Await, Start, Claim, Submit, Unclaim, MarkStuck, Retry, Abandon,
           CheckDependency, Register, LoadRelations, Idle, Notifying
      <4> QED BY <1>3, <3>1, <4>1, <4>2
    <3>3. call'[c].parent = p
      BY <3>2, AwaitNext DEF Post
    <3>4. p \in Items /\ FitParent(p)
      BY <1>3, <3>2, <3>3 DEF Post, FitParent
    <3> QED BY <1>1, <3>3, <3>4
  <2> QED BY <2>1, <2>2
<1>4. ASSUME NEW i \in Items, parent'[i] # NoItem
      PROVE  \E p \in Items : parent'[i] = p /\ FitParent(p)'
  <2>1. CASE parent'[i] = parent[i]
    <3>1. PICK p \in Items : parent[i] = p
      BY <1>4, <2>1 DEF TypeOK
    <3>2. FitParent(p)
      BY <1>4, <2>1, <3>1 DEF DepthInv, SubTaskDepth, FitParent
    <3> QED BY <1>1, <2>1, <3>1, <3>2
  <2>2. CASE parent'[i] # parent[i]
    <3>1. PICK c \in Callers : InsertItem(c, i)
      BY <2>2, ZenonT(60) DEF Next, Start, Continue, vars, rows, Post, InsertItem, Claim, Submit,
         ReadSiblings, ReadParent, CompleteParent, Unclaim, MarkStuck, Retry, Abandon,
         Notify, CheckDependency, InsertDependency, Register, LoadRelations, LoadBlockers,
         LoadOpen, Abort, TypeOK
    <3>2. parent'[i] = call[c].parent
      BY <3>1 DEF InsertItem, TypeOK
    <3>3. PICK p \in Items : call[c].parent = p
      BY <1>4, <3>1, <3>2, CallShape DEF InsertItem
    <3>4. FitParent(p)
      BY <1>4, <3>1, <3>2, <3>3 DEF DepthInv, InsertItem
    <3> QED BY <1>1, <3>2, <3>3, <3>4
  <2> QED BY <2>1, <2>2
<1> QED BY <1>2, <1>3, <1>4 DEF DepthInv, SubTaskDepth, FitParent

\* Sub-tasks are one level deep, whatever happens between check and insertion.
THEOREM DepthCorrect == Spec => []SubTaskDepth
<1>1. Init => DepthInv
  BY DEF Init, DepthInv, SubTaskDepth, Idle
<1>2. TypeOK /\ OwnerMatchesStatus /\ DepthInv /\ [Next]_vars => DepthInv'
  BY DepthStep
<1>3. DepthInv => SubTaskDepth
  BY DEF DepthInv
<1> QED BY <1>1, <1>2, <1>3, TypeCorrect, OwnerCorrect, PTL DEF Spec

\* The calls on their way to completing a parent.
Completing(c) == call[c].op \in {"siblings", "parent", "complete"}

\* The strengthening: what is due is still in the state it was due for, and a
\* call that may complete an item does so to an item that has sub-tasks, which
\* is therefore no sub-task itself: completing it makes no other parent due.
CascadeInv ==
  /\ CascadeOwed
  /\ \A p \in due : status[p] = "Claimed" /\ Children(p) # {} /\ AllChildrenDone(p)
  /\ \A c \in Callers : Completing(c) => Children(call[c].item) # {}

\* A call that starts to complete a parent was submitting one of its children.
LEMMA CompletingStep ==
  ASSUME TypeOK, OwnerMatchesStatus, CascadeInv, [Next]_vars,
         NEW c \in Callers, Completing(c)'
  PROVE  \E p \in Items : call'[c].item = p /\ Children(p) # {}
<1> USE DEF Completing
<1>1. CASE call'[c] = call[c]
  BY <1>1, CallShape DEF CascadeInv
<1>2. CASE call'[c] # call[c]
  <2>1. Start(c) \/ Continue(c) \/ Abort(c)
    BY <1>2, OwnStep
  <2>2. CASE Start(c)
    <3>1. PICK i \in Items, r \in Rigs : Submit(c, i, r)
      BY <2>2 DEF TypeOK, Await, Start, Post, Claim, Unclaim, MarkStuck, Retry,
         Abandon, CheckDependency, Register, LoadRelations, Idle, Notifying
    <3>2. call'[c] = [op |-> "siblings", item |-> parent[i]] /\ parent[i] # NoItem
      BY <3>1 DEF TypeOK, Await, Submit, Notifying
    <3>3. parent[i] \in Items /\ status[i] = "Claimed"
      BY <3>1, <3>2 DEF TypeOK, Submit, SetStatus, CanTransitionTo, Transitions
    <3> QED BY <3>2, <3>3 DEF Children
  <2>3. CASE Continue(c)
    <3>1. ReadSiblings(c) \/ ReadParent(c)
      BY <2>3 DEF TypeOK, Await, Continue, InsertItem, CompleteParent, Notify,
         InsertDependency, LoadBlockers, LoadOpen, Notifying, Idle
    <3>2. Completing(c) /\ call'[c].item = call[c].item
      BY <3>1 DEF TypeOK, Await, ReadSiblings, ReadParent, Notifying
    <3> QED BY <3>2, CallShape DEF CascadeInv
  <2>4. CASE Abort(c)
    BY <2>4 DEF TypeOK, Await, Abort, Idle
  <2> QED BY <2>1, <2>2, <2>3, <2>4
<1> QED BY <1>1, <1>2

\* An item becomes Done by its own submit or as the parent of Done items.
LEMMA DoneStep ==
  ASSUME TypeOK, [Next]_vars, NEW i \in Items, status[i] # "Done", status'[i] = "Done"
  PROVE  \E c \in Callers :
           \/ \E r \in Rigs : Submit(c, i, r)
           \/ CompleteParent(c) /\ call[c].item = i
<1>1. PICK c \in Callers : Start(c) \/ Continue(c) \/ Abort(c)
  BY DEF Next, vars, rows
<1>2. ~Abort(c)
  BY DEF Abort, rows
<1>3. CASE Start(c)
  <2>1. \E r \in Rigs : Submit(c, i, r)
    BY <1>3 DEF TypeOK, SetStatus, rows, Start, Post, Claim, Submit, Unclaim, MarkStuck,
       Retry, Abandon, CheckDependency, Register, LoadRelations
  <2> QED BY <2>1
<1>4. CASE Continue(c)
  <2>1. CompleteParent(c) /\ call[c].item = i
    BY <1>4 DEF TypeOK, SetStatus, rows, Continue, InsertItem, ReadSiblings, ReadParent,
       CompleteParent, Notify, InsertDependency, LoadBlockers, LoadOpen
  <2> QED BY <2>1
<1> QED BY <1>1, <1>2, <1>3, <1>4

\* Every step preserves CascadeInv: a parent that becomes due has a call to complete it,
\* and that call is given up only when the parent is no longer due.
LEMMA CascadeStep ==
  ASSUME TypeOK, OwnerMatchesStatus, DepthInv, CascadeInv, [Next]_vars
  PROVE  CascadeInv'
<1> DEFINE OwedTo(p) == \E c \in Callers : Completing(c) /\ call[c].item = p
<1>a. \A p \in due : OwedTo(p)
  BY DEF CascadeInv, CascadeOwed, Completing
<1>1. ASSUME NEW c \in Callers, Completing(c)'
      PROVE  \E p \in Items : call'[c].item = p /\ Children(p)' # {}
  <2>1. PICK p \in Items : call'[c].item = p /\ Children(p) # {}
    BY <1>1, CompletingStep
  <2>2. Children(p) \subseteq Children(p)'
    BY RowsStable DEF Children
  <2> QED BY <2>1, <2>2
<1>2. CASE UNCHANGED vars
  BY <1>2, <1>a DEF vars, CascadeInv, CascadeOwed, Completing, Children, AllChildrenDone
<1>3. ASSUME NEW c \in Callers, Abort(c) PROVE CascadeInv'
  <2>1. due' \subseteq due
    BY <1>3 DEF Abort
  <2>2. ASSUME NEW p \in due' PROVE OwedTo(p)'
    <3>1. PICK d \in Callers : Completing(d) /\ call[d].item = p
      BY <2>1, <2>2, <1>a
    <3>2. d # c
      BY <1>3, <2>2, <3>1 DEF Abort, Completing
    <3>3. call'[d] = call[d]
      BY <1>3, <3>2, OthersUntouched
    <3> QED BY <3>1, <3>3 DEF Completing
  <2>3. UNCHANGED rows
    BY <1>3 DEF Abort
  <2> QED BY <1>1, <2>1, <2>2, <2>3
          DEF rows, CascadeInv, CascadeOwed, Completing, Children, AllChildrenDone
<1>4. ASSUME NEW c \in Callers, Start(c) \/ Continue(c), TrackDue PROVE CascadeInv'
  <2>1. ASSUME NEW p \in due'
        PROVE  /\ p \in Items /\ status'[p] = "Claimed"
               /\ Children(p)' # {} /\ AllChildrenDone(p)'
               /\ p \in due \/ Children(p) = {} \/ ~AllChildrenDone(p)
    BY <1>4, <2>1 DEF TrackDue
  <2>2. ASSUME NEW p \in due', p \in due PROVE OwedTo(p)'
    <3>1. PICK d \in Callers : Completing(d) /\ call[d].item = p
      BY <2>2, <1>a
    <3>2. CASE call'[d] = call[d]
      BY <3>1, <3>2 DEF Completing
    <3>3. CASE call'[d] # call[d]
      <4>1. d = c /\ Continue(d)
        BY <1>4, <3>1, <3>3, OthersUntouched DEF Completing, Start, Post, Claim, Submit,
           Unclaim, MarkStuck, Retry, Abandon, CheckDependency, Register, LoadRelations,
           Free
      <4>2. status[p] = "Claimed" /\ AllChildrenDone(p)
        BY <2>2 DEF CascadeInv
      <4>3. ~CompleteParent(d)
        BY <2>1, <2>2, <3>1, <4>2
           DEF CompleteParent, SetStatus, CanTransitionTo, Transitions, TypeOK
      <4>4. ReadSiblings(d) \/ ReadParent(d)
        BY <3>1, <4>1, <4>3 DEF Completing, Continue, InsertItem, Notify,
           InsertDependency, LoadBlockers, LoadOpen
      <4> QED BY <3>1, <4>2, <4>4
         DEF TypeOK, Await, ReadSiblings, ReadParent, Completing, CanTransitionTo, Transitions
    <3> QED BY <3>2, <3>3
  <2>3. ASSUME NEW p \in due', p \notin due PROVE OwedTo(p)'
    <3>1. PICK i \in Children(p)' : i \notin Children(p) \/ status[i] # "Done"
      <4>1. Children(p) \subseteq Children(p)'
        BY RowsStable DEF Children
      <4> QED BY <2>1, <2>3, <4>1 DEF AllChildrenDone
    <3>2. i \in Items /\ status'[i] = "Done" /\ parent'[i] = p /\ p \in Items
      BY <2>1, <3>1 DEF AllChildrenDone, Children
    <3>3. status[i] # "Absent" /\ parent[i] = p
      <4>1. status[i] # "Absent"
        BY <3>2, LifecycleStep
           DEF TypeOK, Lifecycle!Next, Lifecycle!Create, Lifecycle!Take, Lifecycle!Complete,
           Lifecycle!Release, Lifecycle!Stall, Lifecycle!GiveUp, Lifecycle!MoveTo
      <4> QED BY <3>2, <4>1, RowsStable
    <3>4. status[i] # "Done"
      BY <3>1, <3>2, <3>3 DEF Children
    <3>5. PICK d \in Callers : \/ \E r \in Rigs : Submit(d, i, r)
                               \/ CompleteParent(d) /\ call[d].item = i
      BY <3>2, <3>4, DoneStep
    <3>6. ~(CompleteParent(d) /\ call[d].item = i)
      <4>1. SUFFICES ASSUME CompleteParent(d), call[d].item = i PROVE FALSE
        OBVIOUS
      <4>2. PICK j \in Items : status[j] # "Absent" /\ parent[j] = i
        BY <4>1 DEF CascadeInv, Completing, CompleteParent, Children
      <4>3. parent[i] = NoItem
        BY <3>2, <4>2, BoardAssumption DEF DepthInv, SubTaskDepth
      <4> QED BY <3>2, <3>3, <4>3, BoardAssumption
    <3>7. PICK r \in Rigs : Submit(d, i, r)
      BY <3>5, <3>6
    <3>8. call'[d] = [op |-> "siblings", item |-> p]
      BY <3>2, <3>3, <3>7, BoardAssumption DEF Submit, Await, TypeOK
    <3> QED BY <3>8 DEF Completing
  <2> QED BY <1>1, <2>1, <2>2, <2>3 DEF CascadeInv, CascadeOwed, Completing
<1> QED BY <1>2, <1>3, <1>4 DEF Next

\* However many submits overlap, the last sub-task finished never leaves its
\* parent without a call that is going to complete it.
THEOREM CascadeCorrect == Spec => []CascadeOwed
<1>1. Init => CascadeInv
  BY DEF Init, CascadeInv, CascadeOwed, Completing, Idle
<1>2. TypeOK /\ OwnerMatchesStatus /\ DepthInv /\ CascadeInv /\ [Next]_vars => CascadeInv'
  BY CascadeStep
<1>3. CascadeInv => CascadeOwed
  BY DEF CascadeInv
<1>4. Init => DepthInv
  BY DEF Init, DepthInv, SubTaskDepth, Idle
<1>5. TypeOK /\ OwnerMatchesStatus /\ DepthInv /\ [Next]_vars => DepthInv'
  BY DepthStep
<1> QED BY <1>1, <1>2, <1>3, <1>4, <1>5, TypeCorrect, OwnerCorrect, PTL DEF Spec

-----------------------------------------------------------------------------
(* Dependencies: the result of ready(), and cycles *)

\* Done is final, so an item that is unblocked by some edges remains so.
LEMMA StillUnblocked ==
  ASSUME TypeOK, OwnerMatchesStatus, [Next]_vars, NEW i \in Items, NEW R
  PROVE  OpenBlockers(i, R)' \subseteq OpenBlockers(i, R)
BY RowsStable DEF OpenBlockers

\* Between its second and third query ready() holds a set of blocked items
\* that leaves out only items whose blockers were Done.
ReadyInv ==
  /\ ReadyResultUnblocked
  /\ \A c \in Callers : call[c].op = "open" =>
       \A i \in Items \ call[c].blocked : OpenBlockers(i, call[c].rels) = {}

\* Every step preserves ReadyInv, since Done is final.
LEMMA ReadyStep ==
  ASSUME TypeOK, OwnerMatchesStatus, ReadyInv, [Next]_vars
  PROVE  ReadyInv'
<1> DEFINE Unblocked(c, I) == \A i \in I : OpenBlockers(i, call[c].rels) = {}
<1>1. ASSUME NEW c \in Callers, call'[c] = call[c],
             NEW i \in Items, OpenBlockers(i, call[c].rels) = {}
      PROVE  OpenBlockers(i, call[c].rels)' = {}
  <2>1. PICK R : R = call[c].rels
    OBVIOUS
  <2>2. OpenBlockers(i, R)' = {}
    BY <1>1, <2>1, StillUnblocked
  <2> QED BY <1>1, <2>1, <2>2 DEF OpenBlockers
<1>2. ASSUME NEW c \in Callers, call'[c].op = "open",
             NEW i \in Items \ call'[c].blocked
      PROVE  OpenBlockers(i, call[c].rels)' = {}
  <2>1. CASE call'[c] = call[c]
    BY <1>1, <1>2, <2>1 DEF ReadyInv
  <2>2. CASE call'[c] # call[c]
    <3>1. LoadRelations(c) \/ LoadBlockers(c)
      BY <1>2, <2>2, OwnStep DEF TypeOK, Await, Start, Continue, Post, InsertItem, Claim,
         Submit, ReadSiblings, ReadParent, CompleteParent, Unclaim, MarkStuck, Retry,
         Abandon, Notify, CheckDependency, InsertDependency, Register, LoadOpen, Abort,
         Idle, Notifying
    <3>2. CASE LoadRelations(c)
      BY <1>2, <3>2 DEF TypeOK, Await, LoadRelations, OpenBlockers
    <3>3. CASE LoadBlockers(c)
      BY <1>2, <3>3 DEF TypeOK, Await, LoadBlockers, OpenBlockers, BlockedItems, rows
    <3> QED BY <3>1, <3>2, <3>3
  <2> QED BY <2>1, <2>2
<1>3. ASSUME NEW c \in Callers, call'[c].op = "ready", NEW i \in call'[c].items
      PROVE  OpenBlockers(i, call[c].rels)' = {}
  <2>1. CASE call'[c] = call[c]
    <3>1. i \in Items
      BY <1>3, <2>1, CallShape
    <3> QED BY <1>1, <1>3, <2>1, <3>1 DEF ReadyInv, ReadyResultUnblocked
  <2>2. CASE call'[c] # call[c]
    <3>1. LoadOpen(c)
      BY <1>3, <2>2, OwnStep DEF TypeOK, Await, Start, Continue, Post, InsertItem, Claim,
         Submit, ReadSiblings, ReadParent, CompleteParent, Unclaim, MarkStuck, Retry,
         Abandon, Notify, CheckDependency, InsertDependency, Register, LoadRelations,
         LoadBlockers, Abort, Idle, Notifying
    <3> QED BY <1>3, <3>1
            DEF ReadyInv, TypeOK, Await, LoadOpen, OpenBlockers, rows
  <2> QED BY <2>1, <2>2
<1> QED BY <1>2, <1>3 DEF ReadyInv, ReadyResultUnblocked

\* What ready() returns is unblocked by every edge it knew of, from the moment
\* of its queries for as long as the result is used.
THEOREM ReadyCorrect == Spec => []ReadyResultUnblocked
<1>1. Init => ReadyInv
  BY DEF Init, ReadyInv, ReadyResultUnblocked, Idle
<1>2. TypeOK /\ OwnerMatchesStatus /\ ReadyInv /\ [Next]_vars => ReadyInv'
  BY ReadyStep
<1>3. ReadyInv => ReadyResultUnblocked
  BY DEF ReadyInv
<1> QED BY <1>1, <1>2, <1>3, TypeCorrect, OwnerCorrect, PTL DEF Spec

\* The edge a linker is about to insert still closes no cycle.
LinkInv ==
  /\ NoDependencyCycle
  /\ \A c \in Callers : call[c].op = "link" =>
       /\ c \in Linkers
       /\ ~WouldCreateCycle(call[c].from, call[c].to)

\* An edge that the search lets through closes no cycle: a set in which all
\* wait would leave a smaller one behind among the blockers of its first end.
LEMMA SafeEdge ==
  ASSUME NoDependencyCycle, NEW from \in Items, NEW to \in Items,
         ~WouldCreateCycle(from, to), blocks' = blocks \cup {<<from, to>>}
  PROVE  NoDependencyCycle'
<1>1. PICK C \in SUBSET Items : from \in C /\ ClosedUnderBlockers(C) /\ to \notin C
  BY DEF WouldCreateCycle
<1> SUFFICES ASSUME NEW S \in SUBSET Items, S # {}
             PROVE  \E i \in S : \A b \in S : <<b, i>> \notin blocks'
  BY DEF NoDependencyCycle
<1>2. CASE S \cap C = {}
  <2>1. PICK i \in S : \A b \in S : <<b, i>> \notin blocks
    BY DEF NoDependencyCycle
  <2> QED BY <1>1, <1>2, <2>1
<1>3. CASE S \cap C # {}
  <2>1. PICK i \in S \cap C : \A b \in S \cap C : <<b, i>> \notin blocks
    BY <1>3 DEF NoDependencyCycle
  <2>2. \A b : <<b, i>> \in blocks => b \in C
    BY <1>1, <2>1 DEF ClosedUnderBlockers
  <2> QED BY <1>1, <2>1, <2>2
<1> QED BY <1>2, <1>3

\* With one linker every step preserves LinkInv: no edge comes between its search and its
\* insertion.
LEMMA LinkStep ==
  ASSUME TypeOK, LinkInv, [Next]_vars, NEW l, Linkers \subseteq {l}
  PROVE  LinkInv'
<1>1. CASE \E c \in Callers : InsertDependency(c)
  <2>1. PICK c \in Callers : InsertDependency(c)
    BY <1>1
  <2>2. /\ call[c].op = "link" /\ c \in Linkers
        /\ call[c].from \in Items /\ call[c].to \in Items
        /\ ~WouldCreateCycle(call[c].from, call[c].to)
    BY <2>1, CallShape DEF InsertDependency, LinkInv
  <2>3. NoDependencyCycle'
    BY <2>1, <2>2, SafeEdge DEF InsertDependency, LinkInv
  <2>4. \A d \in Callers : call'[d].op # "link"
    BY <2>1, <2>2 DEF InsertDependency, LinkInv, Await, TypeOK, Idle
  <2> QED BY <2>3, <2>4 DEF LinkInv
<1>2. CASE ~ \E c \in Callers : InsertDependency(c)
  <2>1. blocks' = blocks
    BY <1>2, ZenonT(60) DEF Next, Start, Continue, vars, Post, InsertItem, Claim, Submit, ReadSiblings,
       ReadParent, CompleteParent, Unclaim, MarkStuck, Retry, Abandon, Notify,
       CheckDependency, Register, LoadRelations, LoadBlockers, LoadOpen, Abort
  <2>2. ASSUME NEW c \in Callers, call'[c].op = "link", call'[c] # call[c]
        PROVE  c \in Linkers /\ ~WouldCreateCycle(call'[c].from, call'[c].to)
    <3>1. PICK f \in Items, t \in Items : CheckDependency(c, f, t)
      <4>1. Continue(c) \/ Abort(c) => call'[c].op # "link"
        BY DEF TypeOK, Await, Continue, InsertItem, ReadSiblings, ReadParent,
           CompleteParent, Notify, InsertDependency, LoadBlockers, LoadOpen, Abort, Idle,
           Notifying
      <4>2. Start(c) => \/ call'[c].op # "link"
                        \/ \E f, t \in Items : CheckDependency(c, f, t)
        BY DEF TypeOK, Await, Start, Post, Claim, Submit, Unclaim, MarkStuck, Retry,
           Abandon, Register, LoadRelations, Idle, Notifying
      <4> QED BY <2>2, <4>1, <4>2, OwnStep
    <3> QED BY <3>1 DEF CheckDependency, Await, TypeOK
  <2> QED BY <2>1, <2>2
          DEF LinkInv, NoDependencyCycle, WouldCreateCycle, ClosedUnderBlockers
<1> QED BY <1>1, <1>2

\* With one caller at a time adding dependencies they never form a cycle.
THEOREM AcyclicWithOneLinker ==
  ASSUME NEW l, Linkers \subseteq {l}
  PROVE  Spec => []NoDependencyCycle
<1>1. Init => LinkInv
  BY DEF Init, LinkInv, NoDependencyCycle, Idle
<1>2. TypeOK /\ LinkInv /\ [Next]_vars => LinkInv'
  BY LinkStep
<1>3. LinkInv => NoDependencyCycle
  BY DEF LinkInv
<1> QED BY <1>1, <1>2, <1>3, TypeCorrect, PTL DEF Spec

-----------------------------------------------------------------------------
(* Wake-ups, in one process whose calls run to their end *)

\* What a listener may still miss is announced: after its second query an item
\* it takes for blocked though it is not, after its third an item it left out.
WakeInv ==
  /\ WakeupOwed
  /\ \A c \in waiters : call[c].op = "open" =>
       \A i \in call[c].blocked \ BlockedItems(blocks) : \E d \in Callers : WillNotify(d)
  /\ \A c \in Callers : call[c].op \in {"blockers", "open"} => call[c].rels \subseteq blocks

\* When no call is cut short, a call changes only by a step of its own.
LEMMA NoneDropped ==
  ASSUME TypeOK, Droppable = {}, [Next]_vars, NEW c \in Callers, call'[c] # call[c]
  PROVE  Start(c) \/ Continue(c)
BY OwnStep DEF Abort

\* A notification that is to come comes, or is still to come.
LEMMA NotifyPending ==
  ASSUME TypeOK, Remote = {}, Droppable = {}, [Next]_vars,
         NEW d \in Callers, WillNotify(d)
  PROVE  WillNotify(d)' \/ waiters' = {}
<1>1. CASE call'[d] = call[d]
  BY <1>1 DEF WillNotify
<1>2. CASE call'[d] # call[d]
  <2>1. Start(d) \/ Continue(d)
    BY <1>2, NoneDropped
  <2>2. ~Start(d)
    BY DEF WillNotify, Start, Post, Claim, Submit, Unclaim, MarkStuck, Retry, Abandon,
       CheckDependency, Register, LoadRelations, Free
  <2>3. Notify(d) => waiters' = {}
    BY DEF Notify
  <2>4. ReadSiblings(d) \/ ReadParent(d) \/ CompleteParent(d) => WillNotify(d)'
    BY DEF ReadSiblings, ReadParent, CompleteParent, WillNotify, Await, TypeOK, Notifying
  <2> QED BY <2>1, <2>2, <2>3, <2>4
          DEF Continue, WillNotify, InsertItem, InsertDependency, LoadBlockers, LoadOpen
<1> QED BY <1>1, <1>2

\* Edges are only ever added.
LEMMA EdgesGrow ==
  ASSUME [Next]_vars
  PROVE  blocks \subseteq blocks'
BY ZenonT(60) DEF Next, Start, Continue, vars, Post, InsertItem, Claim, Submit, ReadSiblings,
   ReadParent, CompleteParent, Unclaim, MarkStuck, Retry, Abandon, Notify,
   CheckDependency, InsertDependency, Register, LoadRelations, LoadBlockers, LoadOpen,
   Abort

\* A step that opens or finishes an item has its own notification to come.
LEMMA ChangeAnnounced ==
  ASSUME TypeOK, Remote = {}, [Next]_vars, NEW i \in Items, status'[i] # status[i],
         status'[i] \in {"Open", "Done"}
  PROVE  \E d \in Callers : WillNotify(d)'
<1>1. PICK c \in Callers : Start(c) \/ Continue(c) \/ Abort(c)
  BY DEF Next, vars, rows
<1>2. ~Abort(c)
  BY DEF Abort, rows
<1>3. CASE Start(c)
  <2>1. \E j \in Items : \/ \E r \in Rigs : Submit(c, j, r) \/ Unclaim(c, j, r)
                         \/ Retry(c, j)
    BY <1>3 DEF TypeOK, SetStatus, rows, Start, Post, Claim, MarkStuck, Abandon,
       CheckDependency, Register, LoadRelations
  <2> QED BY <2>1 DEF Submit, Unclaim, Retry, Await, TypeOK, WillNotify, Notifying
<1>4. CASE Continue(c)
  <2>1. CompleteParent(c) \/ \E j \in Items : InsertItem(c, j)
    BY <1>4 DEF rows, Continue, ReadSiblings, ReadParent, Notify, InsertDependency,
       LoadBlockers, LoadOpen
  <2> QED BY <2>1 DEF CompleteParent, InsertItem, Await, TypeOK, WillNotify, Notifying
<1> QED BY <1>1, <1>2, <1>3, <1>4

\* A step that unblocks an item finished its blocker, and announces it.
LEMMA UnblockingAnnounced ==
  ASSUME TypeOK, Remote = {}, [Next]_vars, NEW i \in Items,
         i \in BlockedItems(blocks), i \notin BlockedItems(blocks)'
  PROVE  \E d \in Callers : WillNotify(d)'
<1>1. PICK b \in Items : <<b, i>> \in blocks /\ status[b] # "Done"
  BY DEF BlockedItems, OpenBlockers
<1>2. status'[b] = "Done"
  BY <1>1, EdgesGrow DEF BlockedItems, OpenBlockers
<1> QED BY <1>1, <1>2, ChangeAnnounced

\* Every step preserves WakeInv.
LEMMA WakeStep ==
  ASSUME TypeOK, WakeInv, Remote = {}, Droppable = {}, [Next]_vars
  PROVE  WakeInv'
<1> DEFINE Announced == \E d \in Callers : WillNotify(d)
<1>a. Announced => Announced' \/ waiters' = {}
  BY NotifyPending
<1>b. ASSUME NEW c \in Callers, call'[c].op \in {"open", "ready"}, c \in waiters'
      PROVE  c \in waiters
  BY <1>b DEF Next, Start, Continue, vars, Post, InsertItem, Claim, Submit, ReadSiblings,
     ReadParent, CompleteParent, Unclaim, MarkStuck, Retry, Abandon, Notify,
     CheckDependency, InsertDependency, Register, LoadRelations, LoadBlockers, LoadOpen,
     Abort, Await, TypeOK, Idle
<1>1. ASSUME NEW c \in waiters', call'[c].op = "ready",
             NEW i \in ReadyItems' \ call'[c].items
      PROVE  Announced'
  <2> c \in Callers /\ c \in waiters /\ i \in Items
    BY <1>1, <1>b, TypeStep DEF TypeOK, ReadyItems
  <2>1. CASE call'[c] # call[c]
    <3>1. LoadOpen(c)
      BY <1>1, <2>1, NoneDropped DEF TypeOK, Await, Start, Continue, Post, InsertItem,
         Claim, Submit, ReadSiblings, ReadParent, CompleteParent, Unclaim, MarkStuck, Retry,
         Abandon, Notify, CheckDependency, InsertDependency, Register, LoadRelations,
         LoadBlockers, Idle, Notifying
    <3>2. i \in call[c].blocked /\ i \notin BlockedItems(blocks)
      BY <1>1, <3>1 DEF LoadOpen, Await, TypeOK, ReadyItems, BlockedItems, OpenBlockers, rows
    <3> QED BY <1>1, <1>a, <3>1, <3>2 DEF WakeInv, LoadOpen
  <2>2. CASE call'[c] = call[c] /\ i \in ReadyItems
    BY <1>1, <1>a, <2>2 DEF WakeInv, WakeupOwed
  <2>3. CASE call'[c] = call[c] /\ i \notin ReadyItems
    <3>1. CASE status[i] # "Open"
      BY <1>1, <3>1, ChangeAnnounced DEF ReadyItems
    <3>2. CASE i \in BlockedItems(blocks)
      BY <1>1, <3>2, UnblockingAnnounced DEF ReadyItems
    <3> QED BY <2>3, <3>1, <3>2 DEF ReadyItems
  <2> QED BY <2>1, <2>2, <2>3
<1>2. ASSUME NEW c \in waiters', call'[c].op = "open",
             NEW i \in call'[c].blocked \ BlockedItems(blocks)'
      PROVE  Announced'
  <2> c \in Callers /\ c \in waiters
    BY <1>2, <1>b, TypeStep DEF TypeOK
  <2>1. CASE call'[c] # call[c]
    <3>1. LoadRelations(c) \/ LoadBlockers(c)
      BY <1>2, <2>1, NoneDropped DEF TypeOK, Await, Start, Continue, Post, InsertItem,
         Claim, Submit, ReadSiblings, ReadParent, CompleteParent, Unclaim, MarkStuck, Retry,
         Abandon, Notify, CheckDependency, InsertDependency, Register, LoadOpen, Idle,
         Notifying
    <3>2. ~LoadRelations(c)
      BY <1>2 DEF LoadRelations, Await, TypeOK
    <3>3. CASE LoadBlockers(c)
      <4>1. call'[c].blocked = BlockedItems(call[c].rels) /\ call[c].rels \subseteq blocks
        BY <3>3 DEF LoadBlockers, Await, TypeOK, WakeInv
      <4>2. BlockedItems(call[c].rels) \subseteq BlockedItems(blocks)
        BY <4>1 DEF BlockedItems, OpenBlockers
      <4>3. BlockedItems(blocks)' = BlockedItems(blocks)
        BY <3>3 DEF LoadBlockers, rows, BlockedItems, OpenBlockers
      <4> QED BY <1>2, <4>1, <4>2, <4>3
    <3> QED BY <3>1, <3>2, <3>3
  <2>2. CASE call'[c] = call[c] /\ i \notin BlockedItems(blocks)
    BY <1>2, <1>a, <2>2 DEF WakeInv
  <2>3. CASE call'[c] = call[c] /\ i \in BlockedItems(blocks)
    BY <1>2, <2>3, UnblockingAnnounced DEF BlockedItems
  <2> QED BY <2>1, <2>2, <2>3
<1>3. ASSUME NEW c \in Callers, call'[c].op \in {"blockers", "open"}
      PROVE  call'[c].rels \subseteq blocks'
  <2>1. CASE call'[c] = call[c]
    BY <1>3, <2>1, EdgesGrow DEF WakeInv
  <2>2. CASE call'[c] # call[c]
    <3>1. LoadRelations(c) \/ LoadBlockers(c)
      BY <1>3, <2>2, NoneDropped DEF TypeOK, Await, Start, Continue, Post, InsertItem,
         Claim, Submit, ReadSiblings, ReadParent, CompleteParent, Unclaim, MarkStuck, Retry,
         Abandon, Notify, CheckDependency, InsertDependency, Register, LoadOpen, Idle,
         Notifying
    <3> QED BY <3>1 DEF LoadRelations, LoadBlockers, Await, TypeOK, WakeInv
  <2> QED BY <2>1, <2>2
<1> QED BY <1>1, <1>2, <1>3 DEF WakeInv, WakeupOwed

\* A worker that registers first and scans next loses no wake-up, as long as
\* the posting calls are in its own process and none is cut short.
THEOREM NoLostWakeup ==
  ASSUME Remote = {}, Droppable = {}
  PROVE  Spec => []WakeupOwed
<1>1. Init => WakeInv
  BY DEF Init, WakeInv, WakeupOwed, Idle
<1>2. TypeOK /\ WakeInv /\ [Next]_vars => WakeInv'
  BY WakeStep
<1>3. WakeInv => WakeupOwed
  BY DEF WakeInv
<1> QED BY <1>1, <1>2, <1>3, TypeCorrect, PTL DEF Spec

=============================================================================
