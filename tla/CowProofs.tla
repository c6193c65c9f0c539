----------------------------- MODULE CowProofs -----------------------------
(***************************************************************************)
(* The copy of the board in memory, its branches and its merges, for any   *)
(* number of items, callers and branches: the rules of the merge for every *)
(* item; many merges in any order; no change lost in a merge; the commit   *)
(* logs of memory and disk; and the copy as a mirror of the rows.          *)
(***************************************************************************)
EXTENDS MCCowBoard, FiniteSetTheorems, TLAPS

-----------------------------------------------------------------------------
(* The rules of the merge, for every item. *)

\* A merged item is an item again.
LEMMA MergeType ==
  ASSUME NEW old \in WorkItems, NEW branch \in WorkItems, NEW cur \in WorkItems
  PROVE  MergeWorkItem(old, branch, cur) \in WorkItems
<1> DEFINE later == LaterOf(branch, cur)
<1>1. later \in WorkItems
  BY DEF LaterOf
<1>2. MergeField(old.status, branch.status, cur.status, later.status) \in Statuses
  BY <1>1 DEF WorkItems, MergeField
<1>3. MergeField(old.holder, branch.holder, cur.holder, later.holder) \in Rigs \cup {NoRig}
  BY <1>1 DEF WorkItems, MergeField
<1>4. HigherOf(branch.priority, cur.priority) \in {P0, P1, P2}
  BY DEF WorkItems, HigherOf
<1>5. MergeField(old.priority, branch.priority, cur.priority,
                 HigherOf(branch.priority, cur.priority)) \in {P0, P1, P2}
  BY <1>4 DEF WorkItems, MergeField
<1>6. MergeField(old.tags, branch.tags, cur.tags, branch.tags \cup cur.tags) \in SUBSET Tags
  BY DEF WorkItems, MergeField
<1>7. HigherOf(branch.at, cur.at) \in Nat
  BY DEF WorkItems, HigherOf
<1> QED
  BY <1>2, <1>3, <1>5, <1>6, <1>7 DEF MergeWorkItem, WorkItems

\* The fields of a merged item, one by one.
LEMMA MergedFields ==
  ASSUME NEW old \in WorkItems, NEW branch \in WorkItems, NEW cur \in WorkItems
  PROVE  LET after == MergeWorkItem(old, branch, cur)
             later == LaterOf(branch, cur)
         IN  /\ after.status = MergeField(old.status, branch.status, cur.status, later.status)
             /\ after.holder = MergeField(old.holder, branch.holder, cur.holder, later.holder)
             /\ after.priority = MergeField(old.priority, branch.priority, cur.priority,
                                            HigherOf(branch.priority, cur.priority))
             /\ after.tags = MergeField(old.tags, branch.tags, cur.tags,
                                        branch.tags \cup cur.tags)
             /\ after.at = HigherOf(branch.at, cur.at)
BY DEF MergeWorkItem, WorkItems

\* A scalar goes to the later side when both changed it.
LEMMA ScalarMerged ==
  ASSUME NEW old \in WorkItems, NEW branch \in WorkItems, NEW cur \in WorkItems,
         NEW field \in {"status", "holder"}
  PROVE  MergeWorkItem(old, branch, cur)[field]
           = MergeField(old[field], branch[field], cur[field], LaterOf(branch, cur)[field])
<1> DEFINE after == MergeWorkItem(old, branch, cur)
           later == LaterOf(branch, cur)
<1>1. after.status = MergeField(old.status, branch.status, cur.status, later.status)
  BY MergedFields, ZenonT(60)
<1>2. after.holder = MergeField(old.holder, branch.holder, cur.holder, later.holder)
  BY MergedFields, ZenonT(60)
<1> HIDE DEF after, later
<1>3. CASE field = "status"
  BY <1>1, <1>3 DEF after, later
<1>4. CASE field = "holder"
  BY <1>2, <1>4 DEF after, later
<1> QED
  BY <1>3, <1>4

\* merge_work_item with sides written at different times does not depend on which
\* of them is the branch.
THEOREM MergeCommutes ==
  ASSUME NEW old \in WorkItems, NEW branch \in WorkItems, NEW cur \in WorkItems,
         branch.at # cur.at
  PROVE  MergeWorkItem(old, branch, cur) = MergeWorkItem(old, cur, branch)
<1>1. LaterOf(branch, cur) = LaterOf(cur, branch)
  BY DEF LaterOf, WorkItems
<1>2. HigherOf(branch.at, cur.at) = HigherOf(cur.at, branch.at)
  BY DEF HigherOf, WorkItems
<1>3. HigherOf(branch.priority, cur.priority) = HigherOf(cur.priority, branch.priority)
  BY DEF HigherOf, WorkItems, P0, P1, P2
<1> DEFINE later == LaterOf(branch, cur)
           other == LaterOf(cur, branch)
           higher == HigherOf(branch.priority, cur.priority)
<1>4. /\ MergeField(old.status, branch.status, cur.status, later.status)
           = MergeField(old.status, cur.status, branch.status, other.status)
      /\ MergeField(old.holder, branch.holder, cur.holder, later.holder)
           = MergeField(old.holder, cur.holder, branch.holder, other.holder)
  BY <1>1 DEF MergeField
<1>5. MergeField(old.priority, branch.priority, cur.priority, higher)
        = MergeField(old.priority, cur.priority, branch.priority,
                     HigherOf(cur.priority, branch.priority))
  BY <1>3 DEF MergeField
<1>6. MergeField(old.tags, branch.tags, cur.tags, branch.tags \cup cur.tags)
        = MergeField(old.tags, cur.tags, branch.tags, cur.tags \cup branch.tags)
  <2>1. branch.tags \cup cur.tags = cur.tags \cup branch.tags
    OBVIOUS
  <2> QED
    BY <2>1 DEF MergeField
<1> HIDE DEF later, other, higher
<1> QED
  BY <1>2, <1>4, <1>5, <1>6 DEF MergeWorkItem, later, other, higher

\* merge_work_item keeps a change that only one side made, in each field it merges.
THEOREM OneSideKept ==
  ASSUME NEW old \in WorkItems, NEW branch \in WorkItems, NEW cur \in WorkItems,
         NEW field \in {"status", "holder", "priority", "tags"}
  PROVE  LET after == MergeWorkItem(old, branch, cur) IN
           /\ branch[field] = old[field] => after[field] = cur[field]
           /\ cur[field] = old[field] => after[field] = branch[field]
<1> DEFINE after == MergeWorkItem(old, branch, cur)
           later == LaterOf(branch, cur)
<1>1. after.status = MergeField(old.status, branch.status, cur.status, later.status)
  BY MergedFields, ZenonT(60)
<1>2. after.holder = MergeField(old.holder, branch.holder, cur.holder, later.holder)
  BY MergedFields, ZenonT(60)
<1>3. after.priority = MergeField(old.priority, branch.priority, cur.priority,
                                  HigherOf(branch.priority, cur.priority))
  BY MergedFields, ZenonT(60)
<1>4. after.tags = MergeField(old.tags, branch.tags, cur.tags, branch.tags \cup cur.tags)
  BY MergedFields, ZenonT(60)
<1> HIDE DEF after, later
<1>5. CASE field = "status"
  BY <1>1, <1>5 DEF MergeField, after
<1>6. CASE field = "holder"
  BY <1>2, <1>6 DEF MergeField, after
<1>7. CASE field = "priority"
  BY <1>3, <1>7 DEF MergeField, after
<1>8. CASE field = "tags"
  BY <1>4, <1>8 DEF MergeField, after
<1> QED
  BY <1>5, <1>6, <1>7, <1>8

-----------------------------------------------------------------------------
(* MergeOrder: what any number of branches of one item leave in main.  The *)
(* invariant says of each field what it is after the branches merged so    *)
(* far; every merge keeps it, whichever branch is next.                    *)

\* The rules of the instance are those above.
LEMMA SameRules ==
  ASSUME NEW old, NEW branch, NEW cur
  PROVE  Order!ResolveMergeItem(old, branch, cur) = ResolveMergeItem(old, branch, cur)
<1>1. Order!MergeWorkItem(old, branch, cur) = MergeWorkItem(old, branch, cur)
  BY DEF Order!MergeWorkItem, MergeWorkItem, Order!MergeField, MergeField, Order!LaterOf, LaterOf,
         Order!HigherOf, HigherOf
<1>2. Order!MergeWorkItem(branch, branch, cur) = MergeWorkItem(branch, branch, cur)
  BY DEF Order!MergeWorkItem, MergeWorkItem, Order!MergeField, MergeField, Order!LaterOf, LaterOf,
         Order!HigherOf, HigherOf
<1> QED
  BY <1>1, <1>2 DEF Order!ResolveMergeItem, ResolveMergeItem

\* Item e of a branch is a change of the item as it was: written later.
LEMMA EditType ==
  ASSUME NEW item, NEW e \in Order!Edits(item)
  PROVE  e \in WorkItems /\ e.at # 0
BY OrderAssumption DEF Order!Edits, Order!P0, Order!P1, Order!P2, P0, P1, P2, WorkItems

\* The branches merged so far that changed a field.
Changed(field) == {b \in merged : edits[b][field] # origin[field]}

\* Main has the time of the last of the merged branches.
TimesInv ==
  /\ origin \in WorkItems /\ origin.at = 0 /\ current \in WorkItems
  /\ \A b \in Branches : edits[b] \in WorkItems /\ edits[b].at # 0
  /\ \A b, c \in Branches : b # c => edits[b].at # edits[c].at
  /\ merged \subseteq Branches
  /\ merged = {} => current = origin
  /\ merged # {} => \E b \in merged : edits[b].at = current.at
  /\ \A b \in merged : edits[b].at <= current.at

\* A scalar is as it was if no branch changed it; else it is what the only one, or
\* the one that is the last of all, made of it.
ScalarInv(field) ==
  /\ Changed(field) = {} => current[field] = origin[field]
  /\ \A b \in Changed(field) :
       Changed(field) = {b} \/ edits[b].at = current.at => current[field] = edits[b][field]

PriorityInv ==
  IF Changed("priority") = {} THEN current.priority = origin.priority
  ELSE /\ current.priority \in {edits[b].priority : b \in Changed("priority")}
       /\ \A b \in Changed("priority") : current.priority >= edits[b].priority

\* When the union of tags says which were written.
Unions == \/ \A b \in Branches : origin.tags \subseteq edits[b].tags
          \/ \E p, q \in Branches : Order!Changers("tags") \subseteq {p, q}

TagsInv ==
  Unions => current.tags = IF Changed("tags") = {} THEN origin.tags
                           ELSE UNION {edits[b].tags : b \in Changed("tags")}

OrderInv == TimesInv /\ (\A field \in {"status", "holder"} : ScalarInv(field)) /\ PriorityInv /\ TagsInv

\* What one merge makes of main, field by field: also the first one, which takes the
\* branch as it is.
LEMMA MergeFields ==
  ASSUME TimesInv, NEW b \in Branches, Order!Merge(b)
  PROVE  /\ current' \in WorkItems
         /\ \A field \in {"status", "holder"} :
              current'[field] = MergeField(origin[field], edits[b][field], current[field],
                                           LaterOf(edits[b], current)[field])
         /\ current'.priority = MergeField(origin.priority, edits[b].priority, current.priority,
                                           HigherOf(edits[b].priority, current.priority))
         /\ current'.tags = MergeField(origin.tags, edits[b].tags, current.tags,
                                       edits[b].tags \cup current.tags)
         /\ current'.at = HigherOf(edits[b].at, current.at)
<1>1. edits[b] # origin /\ edits[b] \in WorkItems /\ origin \in WorkItems /\ current \in WorkItems
  BY DEF TimesInv
<1>2. current' = ResolveMergeItem(origin, edits[b], current)
  BY SameRules DEF Order!Merge
<1>3. origin # NoItem /\ current # NoItem
  BY <1>1, NoItemAssumption
<1>4. CASE merged = {}
  <2>1. current = origin /\ current' = edits[b]
    BY <1>1, <1>2, <1>3, <1>4 DEF TimesInv, ResolveMergeItem
  <2>2. edits[b].at = HigherOf(edits[b].at, current.at)
    BY <1>1, <2>1 DEF TimesInv, HigherOf, WorkItems
  <2> QED
    BY <1>1, <2>1, <2>2 DEF MergeField
<1>5. CASE merged # {}
  <2>1. current # origin
    <3>1. PICK c \in merged : edits[c].at = current.at
      BY <1>5 DEF TimesInv
    <3>2. edits[c].at # 0 /\ origin.at = 0
      BY DEF TimesInv
    <3> QED
      BY <3>1, <3>2
  <2>2. current' = MergeWorkItem(origin, edits[b], current)
    BY <1>1, <1>2, <1>3, <2>1 DEF ResolveMergeItem
  <2>3. \A field \in {"status", "holder"} :
          current'[field] = MergeField(origin[field], edits[b][field], current[field],
                                       LaterOf(edits[b], current)[field])
    BY <1>1, <2>2, ScalarMerged
  <2>4. /\ current'.priority = MergeField(origin.priority, edits[b].priority, current.priority,
                                          HigherOf(edits[b].priority, current.priority))
        /\ current'.tags = MergeField(origin.tags, edits[b].tags, current.tags,
                                      edits[b].tags \cup current.tags)
        /\ current'.at = HigherOf(edits[b].at, current.at)
    BY <1>1, <2>2, MergedFields, ZenonT(60)
  <2>5. current' \in WorkItems
    BY <1>1, <2>2, MergeType
  <2> QED
    BY <2>3, <2>4, <2>5
<1> QED
  BY <1>4, <1>5

LEMMA OrderInit0 == Order!Init => OrderInv
<1> SUFFICES ASSUME Order!Init PROVE OrderInv
  OBVIOUS
<1>1. origin \in WorkItems /\ origin.at = 0
  BY OrderAssumption DEF Order!Init
<1>2. \A b \in Branches : edits[b] \in WorkItems /\ edits[b].at # 0
  BY EditType DEF Order!Init
<1>3. TimesInv
  BY <1>1, <1>2 DEF Order!Init, TimesInv
<1>4. \A field : Changed(field) = {}
  BY DEF Changed, Order!Init
<1> QED
  BY <1>3, <1>4 DEF Order!Init, OrderInv, ScalarInv, PriorityInv, TagsInv

\* One more branch of those that changed the field, or not.
LEMMA ChangedNext ==
  ASSUME NEW b \in Branches, Order!Merge(b), NEW field
  PROVE  /\ b \notin merged /\ b \notin Changed(field)
         /\ Changed(field)' = IF edits[b][field] # origin[field] THEN Changed(field) \cup {b}
                              ELSE Changed(field)
BY DEF Changed, Order!Merge

LEMMA TimesStep ==
  ASSUME TimesInv, NEW b \in Branches, Order!Merge(b)
  PROVE  TimesInv'
<1>1. current' \in WorkItems /\ current'.at = HigherOf(edits[b].at, current.at)
  BY MergeFields
<1>2. edits[b].at \in Nat /\ current.at \in Nat /\ \A c \in merged : edits[c].at \in Nat
  BY DEF TimesInv, WorkItems
<1>3. current'.at >= edits[b].at /\ current'.at >= current.at /\ current'.at \in Nat
  BY <1>1, <1>2 DEF HigherOf, TimesInv
<1>4. \A c \in merged \cup {b} : edits[c].at <= current'.at
  BY <1>2, <1>3 DEF TimesInv
<1>5. merged' = merged \cup {b} /\ origin' = origin /\ edits' = edits
  BY DEF Order!Merge
<1>6. \E c \in merged \cup {b} : edits[c].at = current'.at
  <2>1. CASE merged = {}
    BY <1>1, <1>2, <2>1 DEF HigherOf, TimesInv
  <2>2. CASE merged # {}
    BY <1>1, <2>2 DEF HigherOf, TimesInv
  <2> QED
    BY <2>1, <2>2
<1> QED
  BY <1>1, <1>3, <1>4, <1>5, <1>6 DEF TimesInv

LEMMA ScalarStep ==
  ASSUME TimesInv, NEW b \in Branches, Order!Merge(b), NEW field \in {"status", "holder"},
         ScalarInv(field)
  PROVE  ScalarInv(field)'
<1> DEFINE old == origin[field]
           own == edits[b][field]
           main == current[field]
           resolved == LaterOf(edits[b], current)[field]
<1>1. /\ current'[field] = MergeField(old, own, main, resolved)
      /\ current'.at = HigherOf(edits[b].at, current.at)
  BY MergeFields
<1>2. origin' = origin /\ edits' = edits /\ b \notin Changed(field)
  BY ChangedNext DEF Order!Merge
<1>3. edits[b].at \in Nat /\ current.at \in Nat
  BY DEF TimesInv, WorkItems
<1>4. CASE own = old
  <2>1. Changed(field)' = Changed(field) /\ current'[field] = main
    BY <1>1, <1>4, ChangedNext DEF MergeField
  <2>2. ASSUME NEW c \in Changed(field), edits[c].at = current'.at PROVE edits[c].at = current.at
    <3>1. c \in Branches /\ c # b /\ edits[c].at \in Nat /\ edits[c].at <= current.at
      BY <1>2 DEF Changed, TimesInv, WorkItems
    <3>2. edits[c].at # edits[b].at
      BY <3>1 DEF TimesInv
    <3> QED
      BY <1>1, <1>3, <2>2, <3>1, <3>2 DEF HigherOf
  <2> QED
    BY <1>2, <2>1, <2>2 DEF ScalarInv
<1>5. CASE own # old
  <2>1. Changed(field)' = Changed(field) \cup {b}
    BY <1>5, ChangedNext
  <2>2. ASSUME NEW c \in Changed(field)',
               Changed(field)' = {c} \/ edits[c].at = current'.at
        PROVE  current'[field] = edits[c][field]
    <3>1. CASE c = b /\ Changed(field) = {}
      BY <1>1, <1>5, <3>1 DEF ScalarInv, MergeField
    <3>2. CASE c = b /\ Changed(field) # {}
      <4>1. edits[b].at = current'.at
        BY <1>2, <2>1, <2>2, <3>2
      <4>2. resolved = own
        BY <1>1, <1>3, <4>1 DEF HigherOf, LaterOf
      <4> QED
        BY <1>1, <1>5, <3>2, <4>2 DEF MergeField
    <3>3. CASE c # b
      <4>1. c \in Changed(field) /\ edits[c].at = current'.at
        BY <2>1, <2>2, <3>3
      <4>2. c \in Branches /\ edits[c].at \in Nat /\ edits[c].at <= current.at /\ edits[c].at # edits[b].at
        BY <3>3, <4>1 DEF Changed, TimesInv, WorkItems
      <4>3. edits[c].at = current.at /\ edits[b].at < current.at
        BY <1>1, <1>3, <4>1, <4>2 DEF HigherOf
      <4>4. main = edits[c][field] /\ resolved = main
        BY <1>3, <4>1, <4>3 DEF ScalarInv, LaterOf
      <4>5. edits[c][field] # old
        BY <4>1 DEF Changed
      <4> QED
        BY <1>1, <1>5, <4>4, <4>5 DEF MergeField
    <3> QED
      BY <3>1, <3>2, <3>3
  <2> QED
    BY <1>2, <2>1, <2>2 DEF ScalarInv
<1> QED
  BY <1>4, <1>5

LEMMA PriorityStep ==
  ASSUME TimesInv, NEW b \in Branches, Order!Merge(b), PriorityInv
  PROVE  PriorityInv'
<1> DEFINE own == edits[b].priority
           C == Changed("priority")
<1>1. current'.priority = MergeField(origin.priority, own, current.priority, HigherOf(own, current.priority))
  BY MergeFields
<1>2. origin' = origin /\ edits' = edits
  BY DEF Order!Merge
<1>3. own \in Int /\ current.priority \in Int /\ \A c \in C : edits[c].priority \in Int /\ edits[c].priority # origin.priority
  BY DEF TimesInv, WorkItems, P0, P1, P2, Changed
<1>4. CASE own = origin.priority
  <2>1. Changed("priority")' = C /\ current'.priority = current.priority
    BY <1>1, <1>4, ChangedNext DEF MergeField
  <2> QED
    BY <1>2, <2>1 DEF PriorityInv
<1>5. CASE own # origin.priority
  <2>1. Changed("priority")' = C \cup {b}
    BY <1>5, ChangedNext
  <2>2. CASE C = {}
    <3>1. current'.priority = own
      BY <1>1, <1>5, <2>2 DEF PriorityInv, MergeField
    <3> QED
      BY <1>2, <1>3, <2>1, <2>2, <3>1 DEF PriorityInv
  <2>3. CASE C # {}
    <3>1. /\ current.priority \in {edits[c].priority : c \in C}
          /\ \A c \in C : current.priority >= edits[c].priority
      BY <2>3 DEF PriorityInv
    <3>2. current'.priority = HigherOf(own, current.priority)
      BY <1>1, <1>3, <1>5, <3>1 DEF MergeField
    <3>3. current'.priority \in {edits[c].priority : c \in C \cup {b}}
      BY <3>1, <3>2 DEF HigherOf
    <3>4. \A c \in C \cup {b} : current'.priority >= edits[c].priority
      BY <1>3, <3>1, <3>2 DEF HigherOf
    <3> QED
      BY <1>2, <2>1, <2>3, <3>3, <3>4 DEF PriorityInv
  <2> QED
    BY <2>2, <2>3
<1> QED
  BY <1>4, <1>5

LEMMA TagsStep ==
  ASSUME TimesInv, NEW b \in Branches, Order!Merge(b), TagsInv
  PROVE  TagsInv'
<1> DEFINE own == edits[b].tags
           C == Changed("tags")
<1>1. current'.tags = MergeField(origin.tags, own, current.tags, own \cup current.tags)
  BY MergeFields
<1>2. origin' = origin /\ edits' = edits
  BY DEF Order!Merge
<1>3. Unions' => Unions
  BY <1>2 DEF Unions, Order!Changers
<1> SUFFICES ASSUME Unions, own # origin.tags
             PROVE  current'.tags = UNION {edits[c].tags : c \in C \cup {b}}
  <2>1. ASSUME own = origin.tags PROVE TagsInv'
    <3>1. Changed("tags")' = C /\ current'.tags = current.tags
      BY <1>1, <2>1, ChangedNext DEF MergeField
    <3>2. ASSUME Unions
          PROVE  current'.tags = IF C = {} THEN origin.tags ELSE UNION {edits[c].tags : c \in C}
      BY <3>1, <3>2 DEF TagsInv
    <3>3. Unions' => current'.tags = IF Changed("tags")' = {} THEN origin'.tags
                                     ELSE UNION {edits'[c].tags : c \in Changed("tags")'}
      <4>1. {edits'[c].tags : c \in Changed("tags")'} = {edits[c].tags : c \in C}
        BY <1>2, <3>1
      <4>2. Changed("tags")' = C /\ origin'.tags = origin.tags /\ current'.tags = current.tags
        BY <1>2, <3>1
      <4> QED
        BY <1>3, <3>2, <4>1, <4>2
    <3> QED
      BY <3>3 DEF TagsInv
  <2>2. ASSUME own # origin.tags PROVE Changed("tags")' = C \cup {b}
    BY <2>2, ChangedNext
  <2> QED
    BY <1>2, <1>3, <2>1, <2>2 DEF TagsInv
<1>4. CASE C = {}
  <2>1. current'.tags = own
    BY <1>1, <1>4 DEF TagsInv, MergeField
  <2> QED
    BY <1>4, <2>1
<1>5. CASE C # {}
  <2>1. current.tags = UNION {edits[c].tags : c \in C}
    BY <1>5 DEF TagsInv
  <2>2. PICK c \in C : c \in merged /\ c \in Branches /\ edits[c].tags # origin.tags /\ c # b
    BY <1>5, ChangedNext DEF Changed, TimesInv
  <2>3. current.tags # origin.tags
    <3>1. CASE \A d \in Branches : origin.tags \subseteq edits[d].tags
      BY <2>1, <2>2, <3>1
    <3>2. CASE \E p, q \in Branches : Order!Changers("tags") \subseteq {p, q}
      <4>1. b \in Order!Changers("tags") /\ C \subseteq Order!Changers("tags") \ {b}
        BY ChangedNext DEF Order!Changers, Changed, TimesInv
      <4>2. C = {c}
        BY <2>2, <3>2, <4>1
      <4>3. current.tags = edits[c].tags
        BY <2>1, <4>2
      <4> QED
        BY <2>2, <4>3
    <3> QED
      BY <3>1, <3>2 DEF Unions
  <2>4. current'.tags = own \cup current.tags
    BY <1>1, <2>3 DEF MergeField
  <2> QED
    BY <2>1, <2>4
<1> QED
  BY <1>4, <1>5

LEMMA OrderStep == OrderInv /\ [Order!Next]_Order!vars => OrderInv'
<1> SUFFICES ASSUME OrderInv, [Order!Next]_Order!vars PROVE OrderInv'
  OBVIOUS
<1>1. ASSUME NEW b \in Branches, Order!Merge(b) PROVE OrderInv'
  BY <1>1, TimesStep, ScalarStep, PriorityStep, TagsStep DEF OrderInv
<1>2. ASSUME UNCHANGED Order!vars PROVE OrderInv'
  <2>1. origin' = origin /\ edits' = edits /\ current' = current /\ merged' = merged
    BY <1>2 DEF Order!vars
  <2>2. \A field : Changed(field)' = Changed(field)
    BY <2>1 DEF Changed
  <2>3. TimesInv'
    BY <2>1 DEF OrderInv, TimesInv
  <2>4. \A field \in {"status", "holder"} : ScalarInv(field)'
    BY <2>1, <2>2 DEF OrderInv, ScalarInv
  <2>5. PriorityInv'
    BY <2>1, <2>2 DEF OrderInv, PriorityInv
  <2>6. TagsInv'
    BY <2>1, <2>2 DEF OrderInv, TagsInv, Unions, Order!Changers
  <2> QED
    BY <2>3, <2>4, <2>5, <2>6 DEF OrderInv
<1> QED
  BY <1>1, <1>2 DEF Order!Next

LEMMA OrderCorrect == Order!Spec => []OrderInv
  BY OrderInit0, OrderStep, PTL DEF Order!Spec

LEMMA OrderInvSuffices == OrderInv => Order!MergeConverges
<1> SUFFICES ASSUME OrderInv, Order!AllMerged PROVE Order!MergeConverges
  BY DEF Order!MergeConverges, Order!LastWriterWins, Order!HighestPriority,
         Order!TagsUnited
<1>1. \A field : Changed(field) = Order!Changers(field)
  BY DEF Changed, Order!Changers, Order!AllMerged
<1>2. ASSUME NEW field \in {"status", "holder"}, NEW b \in Order!Changers(field),
             Order!Changers(field) = {b} \/ \A c \in Branches : edits[c].at <= edits[b].at
      PROVE  current[field] = edits[b][field]
  <2>1. ScalarInv(field) /\ TimesInv
    BY DEF OrderInv
  <2>2. CASE Order!Changers(field) = {b}
    BY <1>1, <2>1, <2>2 DEF ScalarInv
  <2>3. CASE \A c \in Branches : edits[c].at <= edits[b].at
    <3>1. b \in Branches /\ merged = Branches
      BY DEF Order!Changers, Order!AllMerged
    <3>2. PICK c \in Branches : edits[c].at = current.at
      BY <2>1, <3>1 DEF TimesInv
    <3>3. edits[b].at \in Nat /\ edits[c].at \in Nat /\ edits[b].at <= current.at
      BY <2>1, <3>1, <3>2 DEF TimesInv, WorkItems
    <3>4. edits[b].at = current.at
      BY <2>3, <3>2, <3>3
    <3> QED
      BY <1>1, <2>1, <3>4 DEF ScalarInv
  <2> QED
    BY <1>2, <2>2, <2>3
<1>3. Order!LastWriterWins
  BY <1>2 DEF Order!LastWriterWins
<1>4. Order!HighestPriority
  BY <1>1 DEF OrderInv, PriorityInv, Order!HighestPriority
<1>5. Order!TagsUnited
  BY <1>1 DEF OrderInv, TagsInv, Unions, Order!TagsUnited
<1> QED
  BY <1>3, <1>4, <1>5 DEF Order!MergeConverges

\* merge() of any number of branches of one item, in every order: of each field main
\* ends with values that were written, and where it does not depend on the order
\* these are the last writer's, the highest and all.  The second half says so of the
\* specification that TLC runs, which takes the branches' changes in order of time.
THEOREM MergeOfMany ==
  /\ Order!Spec => []Order!MergeConverges
  /\ PartsSpec => []MergeConverges
<1> DEFINE Inv == part = "order" => OrderInv
<1>1. PartsInit => Inv
  BY OrderInit0 DEF PartsInit, OrderInit
<1>2. Inv /\ [PartsNext]_<<part, vars, order, board>> => Inv'
  <2> SUFFICES ASSUME Inv, [PartsNext]_<<part, vars, order, board>>, part' = "order"
               PROVE  OrderInv'
    OBVIOUS
  <2>1. part = "order" /\ OrderInv /\ [Order!Next]_Order!vars
    BY DEF PartsNext, OrderNext, order, Order!vars
  <2> QED
    BY <2>1, OrderStep
<1>3. Inv => MergeConverges
  BY OrderInvSuffices DEF MergeConverges
<1>4. PartsSpec => []MergeConverges
  BY <1>1, <1>2, <1>3, PTL DEF PartsSpec
<1> QED
  BY <1>4, OrderCorrect, OrderInvSuffices, PTL

-----------------------------------------------------------------------------
(* A merge loses no change of a field it resolves, on either side.  The    *)
(* reason is the write lock:                                               *)
(* from the moment a merge is staged until it is swapped in, the copy it   *)
(* was staged on does not change, so what is swapped in is still the merge *)
(* of the copy.                                                            *)

\* A value of CowStore, of whatever commits.
IsStore(s) ==
  /\ s = [items |-> s.items, commits |-> s.commits, next |-> s.next]
  /\ s.items \in Tables

ItemsOK ==
  /\ rows \in Tables
  /\ IsStore(store)
  /\ branches \in [Names -> [base : Tables, data : Tables] \cup {NoBranch}]
  /\ calls \in [Callers -> Calls \cup {NoCall}]
  /\ \A c \in Callers :
       calls[c] # NoCall /\ calls[c].step = "describe" => calls[c].value \in WorkItems
  /\ clock \in Nat

\* What a merge under way is going to swap in is the merge of the copy as it is now.
StagedOnCopy ==
  merging # NoMerge =>
    /\ merging = [staged |-> merging.staged, saved |-> merging.saved,
                  base |-> merging.base, data |-> merging.data]
    /\ IsStore(merging.staged)
    /\ merging.base \in Tables /\ merging.data \in Tables
    /\ merging.staged.items = MergeInto(store.items, merging.base, merging.data)

CowInv == ItemsOK /\ StagedOnCopy

\* An item of the branch merges to an item, or to nothing.
LEMMA ResolvedType ==
  ASSUME NEW old \in WorkItems \cup {NoItem}, NEW branch \in WorkItems,
         NEW cur \in WorkItems \cup {NoItem}
  PROVE  ResolveMergeItem(old, branch, cur) \in WorkItems \cup {NoItem}
BY MergeType DEF ResolveMergeItem

\* A merge maps tables to a table.
LEMMA MergedTable ==
  ASSUME NEW cur \in Tables, NEW old \in Tables, NEW data \in Tables
  PROVE  MergeInto(cur, old, data) \in Tables
BY ResolvedType DEF MergeInto, Tables

\* An item whose status, holder and time, or whose description and time, are replaced.
LEMMA RewrittenType ==
  ASSUME NEW item \in WorkItems, NEW t \in Nat
  PROVE  /\ \A s \in Statuses, h \in Rigs \cup {NoRig} :
              [item EXCEPT !.status = s, !.at = t, !.holder = h] \in WorkItems
         /\ \A text \in Texts : [item EXCEPT !.text = text, !.at = t] \in WorkItems
BY DEF WorkItems

\* What a closure of Branch::update returns is an item.
LEMMA EditedType ==
  ASSUME NEW n \in Names, NEW item \in WorkItems, NEW e \in Edited(n, item)
  PROVE  e \in WorkItems
<1>1. n \in Rigs
  BY CowBoardAssumption
<1>2. [item EXCEPT !.status = "Claimed", !.holder = n] \in WorkItems
  BY <1>1 DEF WorkItems, Statuses
<1>3. [item EXCEPT !.priority = P0] \in WorkItems
  BY DEF WorkItems
<1>4. \A x \in NewTags : [item EXCEPT !.tags = @ \cup {x}] \in WorkItems
  BY CowBoardAssumption DEF WorkItems
<1>5. \A x \in Texts : [item EXCEPT !.text = x] \in WorkItems
  BY DEF WorkItems
<1> QED
  BY <1>2, <1>3, <1>4, <1>5 DEF Edited

\* Both stores are empty at first.
LEMMA CowInit == Init => CowInv
BY DEF Init, CowInv, ItemsOK, StagedOnCopy, EmptyStore, IsStore, Tables

\* The time of a write is a number.
LEMMA TickType ==
  ASSUME clock \in Nat, Tick
  PROVE  clock' \in Nat
BY DEF Tick

\* An operation that commits a row: the copy and the merge are as before.
LEMMA CommitStep ==
  ASSUME CowInv, NEW c \in Callers, NEW i \in Items, NEW value \in WorkItems,
         NEW step \in {"update", "describe"}, Commit(c, i, value, step), clock' \in Nat
  PROVE  CowInv'
<1>1. ItemsOK'
  BY DEF Commit, CowInv, ItemsOK, IsStore, Tables, Calls
<1>2. StagedOnCopy'
  BY DEF Commit, CowInv, StagedOnCopy, IsStore, Tables
<1> QED
  BY <1>1, <1>2 DEF CowInv

\* Calls keep CowInv; those that write to the copy wait for the lock.
LEMMA CallsStep ==
  ASSUME CowInv, NEW c \in Callers
  PROVE  /\ Reread(c) \/ Sync(c) => CowInv'
         /\ \A i \in Items : Post(c, i) \/ Transact(c, i) \/ Compact(c, i) => CowInv'
<1>1. ASSUME Reread(c) PROVE CowInv'
  <2>1. calls[c].item \in Items /\ rows[calls[c].item] \in WorkItems \cup {NoItem}
    BY <1>1 DEF Reread, CowInv, ItemsOK, Tables, Calls
  <2>2. calls' \in [Callers -> Calls \cup {NoCall}]
    BY <1>1, <2>1, ZenonT(60) DEF Reread, CowInv, ItemsOK, Calls
  <2>3. \A d \in Callers :
          calls'[d] # NoCall /\ calls'[d].step = "describe" => calls'[d].value \in WorkItems
    BY <1>1 DEF Reread, CowInv, ItemsOK
  <2>4. ItemsOK'
    BY <1>1, <2>2, <2>3 DEF Reread, CowInv, ItemsOK, IsStore
  <2>5. StagedOnCopy'
    BY <1>1 DEF Reread, CowInv, StagedOnCopy, IsStore, Tables
  <2> QED
    BY <2>4, <2>5 DEF CowInv
<1>2. ASSUME Sync(c) PROVE CowInv'
  <2> DEFINE i == calls[c].item
             old == store.items[i]
             new == calls[c].value
             value == IF calls[c].step = "describe"
                      THEN [old EXCEPT !.text = new.text, !.at = clock + 1] ELSE new
  <2>1. i \in Items /\ old \in WorkItems \cup {NoItem} /\ new \in WorkItems \cup {NoItem}
    BY <1>2 DEF Sync, CowInv, ItemsOK, IsStore, Tables, Calls
  <2>2. clock' \in Nat
    BY <1>2, TickType DEF Sync, CowInv, ItemsOK
  <2>3. CASE old = NoItem /\ calls[c].step # "insert"
    <3>1. store' = store
      BY <1>2, <2>3 DEF Sync
    <3>2. ItemsOK'
      BY <1>2, <2>2, <3>1 DEF Sync, CowInv, ItemsOK
    <3>3. StagedOnCopy'
      BY <1>2, <3>1 DEF Sync, CowInv, StagedOnCopy
    <3> QED
      BY <3>2, <3>3 DEF CowInv
  <2>4. CASE ~(old = NoItem /\ calls[c].step # "insert")
    <3>1. store' = [store EXCEPT !.items[i] = value]
      BY <1>2, <2>4 DEF Sync
    <3>2. value \in WorkItems \cup {NoItem}
      <4>1. CASE calls[c].step = "describe"
        <5>1. old \in WorkItems
          BY <2>1, <2>4, <4>1
        <5>2. new.text \in Texts /\ clock + 1 \in Nat
          BY <1>2, <4>1 DEF Sync, CowInv, ItemsOK, WorkItems, Calls
        <5> QED
          BY <4>1, <5>1, <5>2 DEF WorkItems
      <4>2. CASE calls[c].step # "describe"
        BY <2>1, <4>2
      <4> QED
        BY <4>1, <4>2
    <3>3. IsStore(store')
      BY <2>1, <3>1, <3>2 DEF CowInv, ItemsOK, IsStore, Tables, Calls
    <3>4. ItemsOK'
      BY <1>2, <2>2, <3>3 DEF Sync, CowInv, ItemsOK
    <3>5. StagedOnCopy'
      BY <1>2 DEF Sync, StagedOnCopy, Unlocked
    <3> QED
      BY <3>4, <3>5 DEF CowInv
  <2> QED
    BY <2>3, <2>4
<1>3. ASSUME NEW i \in Items, Post(c, i) PROVE CowInv'
  <2>1. PICK text \in Texts :
          rows' = [rows EXCEPT ![i] = [status |-> "Open", holder |-> NoRig, priority |-> P1,
                                       tags |-> {}, text |-> text, at |-> clock + 1]]
    BY <1>3 DEF Post
  <2>2. [status |-> "Open", holder |-> NoRig, priority |-> P1,
         tags |-> {}, text |-> text, at |-> clock + 1] \in WorkItems
    BY DEF CowInv, ItemsOK, WorkItems, Statuses
  <2>3. rows' \in Tables
    BY <2>1, <2>2 DEF CowInv, ItemsOK, Tables
  <2>4. ItemsOK'
    BY <1>3, <2>3, TickType DEF Post, CowInv, ItemsOK, IsStore, Tables, Calls
  <2>5. StagedOnCopy'
    BY <1>3 DEF Post, CowInv, StagedOnCopy, IsStore, Tables
  <2> QED
    BY <2>4, <2>5 DEF CowInv
<1>4. ASSUME NEW i \in Items, Transact(c, i) PROVE CowInv'
  <2>1. PICK to \in Statuses, r \in Rigs :
          Commit(c, i, [rows[i] EXCEPT !.status = to, !.at = clock + 1,
                          !.holder = HolderAfter(to, r, @)], "update")
    BY <1>4 DEF Transact
  <2>2. rows[i] \in WorkItems
    BY <1>4 DEF Transact, CowInv, ItemsOK, Tables
  <2>3. HolderAfter(to, r, rows[i].holder) \in Rigs \cup {NoRig}
    BY <2>2 DEF HolderAfter, WorkItems
  <2>4. [rows[i] EXCEPT !.status = to, !.at = clock + 1,
                        !.holder = HolderAfter(to, r, @)] \in WorkItems
    <3>1. clock + 1 \in Nat
      BY DEF CowInv, ItemsOK
    <3> QED
      BY <2>2, <2>3, <3>1, RewrittenType
  <2>5. clock' \in Nat
    BY <1>4, TickType DEF Transact, CowInv, ItemsOK
  <2> QED
    BY <2>1, <2>4, <2>5, CommitStep
<1>5. ASSUME NEW i \in Items, Compact(c, i) PROVE CowInv'
  <2>1. PICK text \in Texts :
          Commit(c, i, [rows[i] EXCEPT !.text = text, !.at = clock + 1], "describe")
    BY <1>5 DEF Compact
  <2>2. rows[i] \in WorkItems
    BY <1>5 DEF Compact, CowInv, ItemsOK, Tables
  <2>3. [rows[i] EXCEPT !.text = text, !.at = clock + 1] \in WorkItems
    <3>1. clock + 1 \in Nat
      BY DEF CowInv, ItemsOK
    <3> QED
      BY <2>2, <3>1, RewrittenType
  <2>4. clock' \in Nat
    BY <1>5, TickType DEF Compact, CowInv, ItemsOK
  <2> QED
    BY <2>1, <2>3, <2>4, CommitStep
<1> QED
  BY <1>1, <1>2, <1>3, <1>4, <1>5

\* Taking, changing and dropping a branch leaves both stores alone.
LEMMA BranchStep ==
  ASSUME CowInv, NEW n \in Names
  PROVE  /\ TakeBranch(n) \/ Discard(n) => CowInv'
         /\ \A i \in Items : Edit(n, i) \/ RemoveItem(n, i) => CowInv'
<1>1. ASSUME TakeBranch(n) \/ Discard(n) PROVE CowInv'
  <2>1. ItemsOK'
    BY <1>1 DEF TakeBranch, Discard, CowInv, ItemsOK, IsStore
  <2>2. StagedOnCopy'
    BY <1>1 DEF TakeBranch, Discard, CowInv, StagedOnCopy
  <2> QED
    BY <2>1, <2>2 DEF CowInv
<1>2. ASSUME NEW i \in Items, NEW value \in WorkItems \cup {NoItem}, branches[n] # NoBranch,
             branches' = [branches EXCEPT ![n].data[i] = value], clock' \in Nat,
             UNCHANGED <<rows, log, store, merging, calls>>
      PROVE  CowInv'
  <2>1. branches[n].data \in Tables /\ branches[n].base \in Tables
    BY <1>2 DEF CowInv, ItemsOK
  <2>2. branches[n] \in [base : Tables, data : Tables]
    BY <1>2 DEF CowInv, ItemsOK
  <2>3. [branches[n].data EXCEPT ![i] = value] \in Tables
    BY <2>1 DEF Tables
  <2>4. branches' \in [Names -> [base : Tables, data : Tables] \cup {NoBranch}]
    BY <1>2, <2>2, <2>3 DEF CowInv, ItemsOK
  <2>5. ItemsOK'
    BY <1>2, <2>4 DEF CowInv, ItemsOK
  <2>6. StagedOnCopy'
    BY <1>2 DEF CowInv, StagedOnCopy
  <2> QED
    BY <2>5, <2>6 DEF CowInv
<1>3. ASSUME NEW i \in Items, Edit(n, i) PROVE CowInv'
  <2>1. branches[n].data[i] \in WorkItems
    BY <1>3 DEF Edit, CowInv, ItemsOK, Tables
  <2>2. PICK e \in Edited(n, branches[n].data[i]) :
          \/ /\ Tick
             /\ branches' = [branches EXCEPT ![n].data[i] = [e EXCEPT !.at = clock + 1]]
          \/ /\ branches' = [branches EXCEPT ![n].data[i] = e]
             /\ UNCHANGED clock
    BY <1>3 DEF Edit
  <2>3. e \in WorkItems
    BY <2>1, EditedType
  <2>4. [e EXCEPT !.at = clock + 1] \in WorkItems
    BY <2>3 DEF CowInv, ItemsOK, WorkItems
  <2>5. clock' \in Nat
    BY <2>2, TickType DEF CowInv, ItemsOK
  <2> QED
    BY <1>2, <1>3, <2>2, <2>3, <2>4, <2>5 DEF Edit
<1>4. ASSUME NEW i \in Items, RemoveItem(n, i) PROVE CowInv'
  BY <1>2, <1>4 DEF RemoveItem, CowInv, ItemsOK
<1> QED
  BY <1>1, <1>3, <1>4

\* A merge, and a restart.
LEMMA MergeStep ==
  ASSUME CowInv
  PROVE  /\ \A n \in Names : Stage(n) => CowInv'
         /\ Persist \/ PersistFails \/ SwapIn \/ Restart => CowInv'
<1>1. ASSUME NEW n \in Names, Stage(n) PROVE CowInv'
  <2> DEFINE b == branches[n]
             joined == [store EXCEPT !.items = MergeInto(@, b.base, b.data)]
  <2>1. b.base \in Tables /\ b.data \in Tables
    BY <1>1 DEF Stage, CowInv, ItemsOK
  <2>2. joined.items = MergeInto(store.items, b.base, b.data)
        /\ joined = [items |-> joined.items, commits |-> joined.commits, next |-> joined.next]
    BY DEF CowInv, ItemsOK, IsStore
  <2>3. joined.items \in Tables
    BY <2>1, <2>2, MergedTable DEF CowInv, ItemsOK, IsStore
  <2> HIDE DEF joined
  <2>4. IsStore(AppendCommit(joined, n)) /\ AppendCommit(joined, n).items = joined.items
    BY <2>2, <2>3 DEF AppendCommit, IsStore
  <2>5. merging' = [staged |-> AppendCommit(joined, n), saved |-> FALSE,
                    base |-> b.base, data |-> b.data]
    BY <1>1 DEF Stage, joined
  <2>6. StagedOnCopy'
    BY <1>1, <2>1, <2>2, <2>4, <2>5 DEF Stage, StagedOnCopy
  <2>7. ItemsOK'
    BY <1>1 DEF Stage, CowInv, ItemsOK
  <2> QED
    BY <2>6, <2>7 DEF CowInv
<1>2. ASSUME Persist PROVE CowInv'
  <2>1. rows' \in Tables
    BY <1>2 DEF Persist, CowInv, ItemsOK, StagedOnCopy, IsStore, Tables, Unlocked
  <2>2. ItemsOK'
    BY <1>2, <2>1 DEF Persist, CowInv, ItemsOK
  <2>3. merging' = [staged |-> merging.staged, saved |-> TRUE,
                    base |-> merging.base, data |-> merging.data]
    BY <1>2 DEF Persist, CowInv, StagedOnCopy, Unlocked
  <2>4. StagedOnCopy'
    BY <1>2, <2>3 DEF Persist, CowInv, StagedOnCopy, Unlocked
  <2> QED
    BY <2>2, <2>4 DEF CowInv
<1>3. ASSUME PersistFails \/ SwapIn PROVE CowInv'
  <2>1. ItemsOK'
    BY <1>3 DEF PersistFails, SwapIn, CowInv, ItemsOK, StagedOnCopy, Unlocked
  <2>2. StagedOnCopy'
    BY <1>3 DEF PersistFails, SwapIn, StagedOnCopy
  <2> QED
    BY <2>1, <2>2 DEF CowInv
<1>4. ASSUME Restart PROVE CowInv'
  <2>1. IsStore(Restored)
    BY DEF Restored, IsStore, CowInv, ItemsOK
  <2>2. ItemsOK'
    BY <1>4, <2>1 DEF Restart, CowInv, ItemsOK
  <2>3. StagedOnCopy'
    BY <1>4 DEF Restart, StagedOnCopy
  <2> QED
    BY <2>2, <2>3 DEF CowInv
<1> QED
  BY <1>1, <1>2, <1>3, <1>4

\* CowInv holds throughout.
LEMMA CowCorrect == Spec => []CowInv
<1>1. CowInv /\ [Next]_vars => CowInv'
  <2> SUFFICES ASSUME CowInv, [Next]_vars PROVE CowInv'
    OBVIOUS
  <2>1. CASE UNCHANGED vars
    BY <2>1 DEF CowInv, ItemsOK, StagedOnCopy, vars
  <2>2. CASE Next
    BY <2>2, CallsStep, BranchStep, MergeStep DEF Next
  <2> QED
    BY <2>1, <2>2
<1> QED
  BY <1>1, CowInit, PTL DEF Spec

\* merge() loses no change of a status, holder, priority or set of tags: what is
\* swapped in holds, for every item, those that only the branch changed and those that
\* only others changed meanwhile.  Title and description are not among them.
THEOREM ResolvedFieldsKept == Spec => MergeKeepsResolvedFields
<1>1. CowInv /\ SwapIn => BothSidesKept
  <2> SUFFICES ASSUME CowInv, SwapIn, NEW i \in Items
               PROVE  LET old == merging.base[i]  branch == merging.data[i]
                          main == store.items[i]  after == store'.items[i]
                      IN  /\ branch = NoItem /\ old = NoItem => after = main
                          /\ branch # NoItem /\ old # NoItem /\ main # NoItem =>
                               \A field \in Resolved :
                                 FieldKept(old[field], branch[field], main[field], after[field])
    BY DEF BothSidesKept
  <2> DEFINE old == merging.base[i]
             branch == merging.data[i]
             main == store.items[i]
             after == store'.items[i]
  <2>1. store'.items = MergeInto(store.items, merging.base, merging.data)
    BY DEF SwapIn, CowInv, StagedOnCopy, Unlocked
  <2>2. /\ old \in WorkItems \cup {NoItem}
        /\ branch \in WorkItems \cup {NoItem}
        /\ main \in WorkItems \cup {NoItem}
        /\ i \in DOMAIN store.items
    BY DEF SwapIn, CowInv, ItemsOK, IsStore, StagedOnCopy, Unlocked, Tables
  <2>3. after = IF branch # NoItem THEN ResolveMergeItem(old, branch, main)
                ELSE IF old # NoItem THEN NoItem ELSE main
    BY <2>1, <2>2 DEF MergeInto
  <2> HIDE DEF old, branch, main, after
  <2>4. ASSUME branch # NoItem, old # NoItem, main # NoItem,
               NEW field \in Resolved
        PROVE  FieldKept(old[field], branch[field], main[field], after[field])
    <3>1. CASE branch = old \/ main = old
      BY <2>3, <2>4, <3>1 DEF ResolveMergeItem, FieldKept
    <3>2. CASE branch # old /\ main # old
      <4>1. after = MergeWorkItem(old, branch, main)
        BY <2>3, <2>4, <3>2 DEF ResolveMergeItem
      <4> QED
        BY <2>2, <2>4, <4>1, OneSideKept DEF FieldKept, Resolved
    <3> QED
      BY <3>1, <3>2
  <2> QED
    BY <2>3, <2>4 DEF old, branch, main, after
<1> QED
  BY <1>1, CowCorrect, PTL DEF MergeKeepsResolvedFields

-----------------------------------------------------------------------------
(* The commit log in memory and on disk.                                   *)

\* The commits of a store: in the order of their ids, each after the one before, and
\* numbered on from the last.
CommitsOK(s) ==
  /\ s.next \in Nat
  /\ s.commits \in Seq(Commits)
  /\ \A j, k \in 1 .. Len(s.commits) : j < k => s.commits[j].id < s.commits[k].id
  /\ \A k \in 1 .. Len(s.commits) : s.commits[k].parent = s.commits[k].id - 1
  /\ s.commits = <<>> => s.next = 0
  /\ s.commits # <<>> => s.next = Last(s.commits).id + 1

\* A merge has staged one commit more than there are; the table has it once it is saved.
LogInv ==
  /\ CommitsOK(store)
  /\ merging # NoMerge =>
       /\ CommitsOK(merging.staged)
       /\ merging.saved \in BOOLEAN
       /\ \E new \in Commits : /\ new.id = store.next
                               /\ merging.staged.commits = Append(store.commits, new)
  /\ log = ToSet(IF merging # NoMerge /\ merging.saved THEN merging.staged.commits
                 ELSE store.commits)

\* No commit of a store has an id that it would give next.
LEMMA IdsBelowNext ==
  ASSUME NEW s, CommitsOK(s), NEW k \in 1 .. Len(s.commits)
  PROVE  s.commits[k] \in Commits /\ s.commits[k].id \in Nat /\ s.commits[k].id < s.next
<1>1. Len(s.commits) \in Nat /\ s.commits # <<>> /\ s.commits[k] \in Commits
  BY DEF CommitsOK
<1>2. Len(s.commits) \in 1 .. Len(s.commits) /\ Last(s.commits) = s.commits[Len(s.commits)]
  BY <1>1 DEF Last
<1>3. Last(s.commits) \in Commits
  BY <1>2 DEF CommitsOK
<1>4. s.commits[k].id <= Last(s.commits).id
  <2>1. s.commits[k].id \in Nat /\ Last(s.commits).id \in Nat
    BY <1>1, <1>3 DEF Commits
  <2>2. CASE k = Len(s.commits)
    BY <1>2, <2>1, <2>2
  <2>3. CASE k < Len(s.commits)
    BY <1>2, <2>1, <2>3, SMTT(30) DEF CommitsOK
  <2> QED
    BY <1>1, <2>2, <2>3
<1> QED
  BY <1>1, <1>3, <1>4 DEF CommitsOK, Commits

\* append_commit keeps the commits in order.
LEMMA AppendedCommits ==
  ASSUME NEW s, CommitsOK(s), NEW n \in Names
  PROVE  /\ CommitsOK(AppendCommit(s, n))
         /\ \E new \in Commits : new.id = s.next /\ AppendCommit(s, n).commits = Append(s.commits, new)
<1> DEFINE parent == IF s.commits = <<>> THEN -1 ELSE Last(s.commits).id
           new == [id |-> s.next, parent |-> parent, branch |-> n]
           after == AppendCommit(s, n)
<1>1. s.commits \in Seq(Commits) /\ s.next \in Nat /\ Len(s.commits) \in Nat
  BY DEF CommitsOK
<1>2. parent = s.next - 1
  <2>1. CASE s.commits = <<>>
    BY <2>1 DEF CommitsOK
  <2>2. CASE s.commits # <<>>
    <3>1. Last(s.commits) \in Commits
      BY <1>1, <2>2 DEF Last
    <3> QED
      BY <2>2, <3>1 DEF CommitsOK, Commits
  <2> QED
    BY <2>1, <2>2
<1>3. parent \in Nat \cup {-1}
  BY <1>1, <1>2
<1>4. new \in Commits /\ new.id = s.next /\ new.parent = new.id - 1
  BY <1>1, <1>2, <1>3 DEF Commits
<1>5. after.commits = Append(s.commits, new) /\ after.next = s.next + 1
  BY DEF AppendCommit
<1> HIDE DEF after, new
<1>6. /\ after.commits \in Seq(Commits) /\ after.commits # <<>>
      /\ Len(after.commits) = Len(s.commits) + 1
      /\ \A k \in 1 .. Len(s.commits) : after.commits[k] = s.commits[k]
      /\ after.commits[Len(s.commits) + 1] = new
      /\ Last(after.commits) = new
  <2>1. after.commits \in Seq(Commits) /\ Len(after.commits) = Len(s.commits) + 1
    BY <1>1, <1>4, <1>5
  <2>2. \A k \in 1 .. Len(s.commits) : after.commits[k] = s.commits[k]
    BY <1>1, <1>4, <1>5
  <2>3. after.commits[Len(s.commits) + 1] = new
    BY <1>1, <1>4, <1>5
  <2>4. after.commits # <<>> /\ Last(after.commits) = new
    BY <1>1, <2>1, <2>3 DEF Last
  <2> QED
    BY <2>1, <2>2, <2>3, <2>4
<1>7. ASSUME NEW j \in 1 .. Len(after.commits), NEW k \in 1 .. Len(after.commits), j < k
      PROVE  after.commits[j].id < after.commits[k].id
  <2>1. j \in 1 .. Len(s.commits)
    BY <1>1, <1>6, <1>7
  <2>2. CASE k = Len(s.commits) + 1
    BY <1>4, <1>6, <2>1, <2>2, IdsBelowNext
  <2>3. CASE k # Len(s.commits) + 1
    <3>1. k \in 1 .. Len(s.commits)
      BY <1>1, <1>6, <2>3
    <3> QED
      BY <1>6, <1>7, <2>1, <3>1 DEF CommitsOK
  <2> QED
    BY <2>2, <2>3
<1>8. ASSUME NEW k \in 1 .. Len(after.commits)
      PROVE  after.commits[k].parent = after.commits[k].id - 1
  <2>1. CASE k = Len(s.commits) + 1
    BY <1>4, <1>6, <2>1
  <2>2. CASE k # Len(s.commits) + 1
    <3>1. k \in 1 .. Len(s.commits)
      BY <1>1, <1>6, <2>2
    <3> QED
      BY <1>6, <3>1 DEF CommitsOK
  <2> QED
    BY <2>1, <2>2
<1>9. CommitsOK(after)
  BY <1>1, <1>4, <1>5, <1>6, <1>7, <1>8, SMTT(30) DEF CommitsOK
<1> QED
  BY <1>4, <1>5, <1>9 DEF after

\* The numbers up to n are n numbers.
LEMMA IntervalSize ==
  ASSUME NEW n \in Nat
  PROVE  IsFiniteSet(1 .. n) /\ Cardinality(1 .. n) = n
<1>1. IsFiniteSet(1 .. n) /\ Cardinality(1 .. n) = IF 1 > n THEN 0 ELSE n - 1 + 1
  BY FS_Interval
<1> QED
  BY <1>1

\* Reading a table back by id gives its commits in order, all of them once.
LEMMA SortedById ==
  ASSUME NEW s, CommitsOK(s), NEW table, table = ToSet(s.commits)
  PROVE  /\ ById(table) \in Seq(Commits)
         /\ Len(ById(table)) = Len(s.commits)
         /\ ToSet(ById(table)) = table
         /\ \A j, k \in 1 .. Len(ById(table)) : j < k => ById(table)[j].id < ById(table)[k].id
<1> DEFINE c == s.commits
           n == Len(c)
           sorted == ById(table)
<1>1. /\ c \in Seq(Commits) /\ n \in Nat
      /\ c \in [1 .. n -> table]
      /\ \A t \in table : \E k \in 1 .. n : c[k] = t
      /\ table \subseteq Commits
  BY DEF CommitsOK, ToSet
<1>2. \A j, k \in 1 .. n : j < k => c[j].id < c[k].id
  BY DEF CommitsOK
<1>3. \A k \in 1 .. n : c[k].id \in Nat
  BY <1>1 DEF Commits
<1>4. IsFiniteSet(table) /\ Cardinality(table) = n
  <2>1. c \in Surjection(1 .. n, table)
    BY <1>1 DEF Surjection
  <2>2. IsInjective(c)
    <3> SUFFICES ASSUME NEW j \in 1 .. n, NEW k \in 1 .. n, c[j] = c[k] PROVE j = k
      BY <1>1 DEF IsInjective
    <3>1. c[j].id = c[k].id /\ c[j].id \in Nat
      BY <1>3
    <3> QED
      BY <1>1, <1>2, <3>1
  <2>3. c \in Injection(1 .. n, table)
    BY <1>1, <2>2 DEF Injection
  <2>4. IsFiniteSet(1 .. n) /\ Cardinality(1 .. n) = n
    BY <1>1, IntervalSize
  <2> QED
    BY <2>1, <2>3, <2>4, FS_Surjection
<1>5. \E f \in [1 .. Cardinality(table) -> table] : \A j, k \in DOMAIN f : j < k => f[j].id < f[k].id
  <2>1. DOMAIN c = 1 .. n
    BY <1>1
  <2> QED
    BY <1>1, <1>2, <1>4, <2>1
<1>6. sorted \in [1 .. n -> table] /\ \A j, k \in DOMAIN sorted : j < k => sorted[j].id < sorted[k].id
  BY <1>4, <1>5 DEF ById
<1> HIDE DEF sorted
<1>7. /\ sorted \in Seq(Commits) /\ Len(sorted) = n /\ DOMAIN sorted = 1 .. n
      /\ \A k \in 1 .. n : sorted[k] \in Commits
  BY <1>1, <1>6
<1>8. sorted \in Surjection(1 .. n, table)
  <2>1. IsInjective(sorted)
    <3> SUFFICES ASSUME NEW j \in 1 .. n, NEW k \in 1 .. n, sorted[j] = sorted[k] PROVE j = k
      BY <1>7 DEF IsInjective
    <3>1. sorted[j].id = sorted[k].id /\ sorted[j].id \in Nat
      BY <1>7 DEF Commits
    <3>2. ~(j < k) /\ ~(k < j)
      BY <1>6, <1>7, <3>1
    <3> QED
      BY <1>1, <3>2
  <2>2. sorted \in Injection(1 .. n, table)
    BY <1>6, <2>1 DEF Injection
  <2>3. Cardinality(1 .. n) = n /\ IsFiniteSet(1 .. n)
    BY <1>1, IntervalSize
  <2> QED
    BY <1>4, <2>2, <2>3, FS_Injection
<1>9. ToSet(sorted) = table
  <2>1. \A t \in table : \E k \in 1 .. n : sorted[k] = t
    BY <1>8 DEF Surjection
  <2>2. ToSet(sorted) \subseteq table
    BY <1>6, <1>7 DEF ToSet
  <2>3. table \subseteq ToSet(sorted)
    BY <1>7, <2>1 DEF ToSet
  <2> QED
    BY <2>2, <2>3
<1> QED
  BY <1>6, <1>7, <1>9 DEF sorted

\* Both logs are empty at first.
LEMMA LogInit == Init => LogInv
BY DEF Init, EmptyStore, LogInv, CommitsOK, ToSet, Last

\* What a sequence holds with one more element.
LEMMA AppendedSet ==
  ASSUME NEW S, NEW c \in Seq(S), NEW new \in S
  PROVE  ToSet(Append(c, new)) = ToSet(c) \cup {new}
<1> DEFINE after == Append(c, new)
<1>1. /\ Len(c) \in Nat /\ DOMAIN c = 1 .. Len(c)
      /\ DOMAIN after = 1 .. Len(c) + 1
      /\ \A k \in 1 .. Len(c) : after[k] = c[k]
      /\ after[Len(c) + 1] = new
  OBVIOUS
<1> HIDE DEF after
<1>2. ToSet(after) \subseteq ToSet(c) \cup {new}
  BY <1>1 DEF ToSet
<1>3. ToSet(c) \subseteq ToSet(after) /\ new \in ToSet(after)
  BY <1>1 DEF ToSet
<1> QED
  BY <1>2, <1>3 DEF after

\* The record of a merge under way, marked as saved.
LEMMA CowStaged ==
  ASSUME CowInv, LogInv, merging # NoMerge, merging' = [merging EXCEPT !.saved = TRUE]
  PROVE  merging'.staged = merging.staged /\ merging'.saved = TRUE /\ merging' # NoMerge
<1>1. merging = [staged |-> merging.staged, saved |-> merging.saved,
                 base |-> merging.base, data |-> merging.data]
  BY DEF CowInv, StagedOnCopy
<1>2. merging' = [staged |-> merging.staged, saved |-> TRUE,
                  base |-> merging.base, data |-> merging.data]
  BY <1>1
<1>3. merging.staged \in Stores
  BY DEF CowInv, StagedOnCopy, LogInv, CommitsOK, IsStore, Stores
<1>4. merging' \in Merges
  BY <1>2, <1>3 DEF Merges, CowInv, StagedOnCopy
<1> QED
  BY <1>2, <1>4, NothingAssumption

\* Every step keeps the two logs as LogInv says.
LEMMA LogStep ==
  ASSUME CowInv, LogInv, Next
  PROVE  LogInv'
<1>1. ASSUME log' = log, store'.commits = store.commits, store'.next = store.next, merging' = merging
      PROVE  LogInv'
  BY <1>1 DEF LogInv, CommitsOK
<1>2. ASSUME NEW c \in Callers,
             Reread(c) \/ Sync(c) \/ \E i \in Items : Post(c, i) \/ Transact(c, i) \/ Compact(c, i)
      PROVE  LogInv'
  <2>1. log' = log /\ merging' = merging
    BY <1>2 DEF Reread, Sync, Post, Transact, Compact, Commit
  <2>2. store'.commits = store.commits /\ store'.next = store.next
    BY <1>2 DEF Reread, Sync, Post, Transact, Compact, Commit, CowInv, ItemsOK, IsStore
  <2> QED
    BY <1>1, <2>1, <2>2
<1>3. ASSUME NEW n \in Names,
             TakeBranch(n) \/ Discard(n) \/ \E i \in Items : Edit(n, i) \/ RemoveItem(n, i)
      PROVE  LogInv'
  <2>1. log' = log /\ merging' = merging /\ store' = store
    BY <1>3 DEF TakeBranch, Discard, Edit, RemoveItem
  <2> QED
    BY <1>1, <2>1
<1>4. ASSUME NEW n \in Names, Stage(n) PROVE LogInv'
  <2> DEFINE b == branches[n]
             joined == [store EXCEPT !.items = MergeInto(@, b.base, b.data)]
  <2>1. joined.commits = store.commits /\ joined.next = store.next
    BY DEF CowInv, ItemsOK, IsStore
  <2> HIDE DEF joined
  <2>2. CommitsOK(joined)
    BY <2>1 DEF LogInv, CommitsOK
  <2>3. /\ merging' = [staged |-> AppendCommit(joined, n), saved |-> FALSE,
                       base |-> b.base, data |-> b.data]
        /\ merging = NoMerge /\ log' = log /\ store' = store
    BY <1>4 DEF Stage, joined, Unlocked
  <2>4. /\ CommitsOK(AppendCommit(joined, n))
        /\ \E new \in Commits : /\ new.id = store.next
                                /\ AppendCommit(joined, n).commits = Append(store.commits, new)
    BY <2>1, <2>2, AppendedCommits
  <2>5. merging'.staged = AppendCommit(joined, n) /\ merging'.saved = FALSE
    BY <2>3
  <2>6. CommitsOK(store') /\ log' = ToSet(store'.commits)
    BY <2>3, <2>5 DEF LogInv
  <2> QED
    BY <2>3, <2>4, <2>5, <2>6 DEF LogInv
<1>5. ASSUME Persist PROVE LogInv'
  <2> DEFINE old == store.commits
             all == merging.staged.commits
  <2>1. merging # NoMerge /\ ~merging.saved /\ log = ToSet(old)
    BY <1>5 DEF Persist, Unlocked, LogInv
  <2>2. PICK new \in Commits : new.id = store.next /\ all = Append(old, new)
    BY <2>1 DEF LogInv
  <2>3. old \in Seq(Commits)
    BY DEF LogInv, CommitsOK
  <2>4. ToSet(all) = log \cup {new}
    BY <2>1, <2>2, <2>3, AppendedSet
  <2>5. ASSUME NEW l \in log PROVE l.id # new.id
    <3>1. PICK k \in 1 .. Len(old) : l = old[k]
      BY <2>1, <2>3 DEF ToSet
    <3>2. l.id \in Nat /\ l.id < store.next
      BY <3>1, IdsBelowNext DEF LogInv
    <3> QED
      BY <2>2, <3>2 DEF LogInv, CommitsOK
  <2>6. log' = ToSet(all)
    BY <1>5, <2>4, <2>5 DEF Persist
  <2>7. merging'.staged = merging.staged /\ merging'.saved = TRUE /\ merging' # NoMerge /\ store' = store
    BY <1>5, <2>1, CowStaged DEF Persist
  <2> QED
    BY <2>1, <2>6, <2>7 DEF LogInv, CommitsOK
<1>6. ASSUME PersistFails PROVE LogInv'
  BY <1>6 DEF PersistFails, Unlocked, LogInv, CommitsOK
<1>7. ASSUME SwapIn PROVE LogInv'
  BY <1>7 DEF SwapIn, Unlocked, LogInv, CommitsOK
<1>8. ASSUME Restart PROVE LogInv'
  <2> DEFINE s == IF merging # NoMerge /\ merging.saved THEN merging.staged ELSE store
  <2>1. CommitsOK(s) /\ log = ToSet(s.commits)
    BY DEF LogInv
  <2> HIDE DEF s
  <2> DEFINE sorted == ById(log)
  <2>2. /\ sorted \in Seq(Commits) /\ Len(sorted) = Len(s.commits) /\ ToSet(sorted) = log
        /\ \A j, k \in 1 .. Len(sorted) : j < k => sorted[j].id < sorted[k].id
    BY <2>1, SortedById
  <2> HIDE DEF sorted
  <2>3. store' = [items |-> rows, commits |-> sorted,
                  next |-> IF sorted = <<>> THEN 0 ELSE Last(sorted).id + 1]
        /\ merging' = NoMerge /\ log' = log
    BY <1>8 DEF Restart, Restored, sorted
  <2>4. \A k \in 1 .. Len(sorted) : sorted[k].parent = sorted[k].id - 1
    <3> SUFFICES ASSUME NEW k \in 1 .. Len(sorted) PROVE sorted[k].parent = sorted[k].id - 1
      OBVIOUS
    <3>1. sorted[k] \in ToSet(sorted)
      BY <2>2 DEF ToSet
    <3>2. sorted[k] \in ToSet(s.commits)
      BY <2>1, <2>2, <3>1
    <3> QED
      BY <2>1, <3>2 DEF ToSet, CommitsOK
  <2>5. sorted # <<>> => Last(sorted).id \in Nat
    <3>1. sorted # <<>> => Last(sorted) \in Commits
      BY <2>2 DEF Last
    <3> QED
      BY <3>1 DEF Commits
  <2>6. CommitsOK(store')
    BY <2>2, <2>3, <2>4, <2>5 DEF CommitsOK
  <2> QED
    BY <2>2, <2>3, <2>6 DEF LogInv
<1> QED
  BY <1>2, <1>3, <1>4, <1>5, <1>6, <1>7, <1>8 DEF Next

\* CowInv and LogInv hold throughout.
LEMMA LogCorrect == Spec => [](CowInv /\ LogInv)
<1>1. CowInv /\ LogInv /\ [Next]_vars => LogInv'
  <2> SUFFICES ASSUME CowInv, LogInv, [Next]_vars PROVE LogInv'
    OBVIOUS
  <2>1. CASE UNCHANGED vars
    BY <2>1 DEF LogInv, CommitsOK, vars
  <2> QED
    BY <2>1, LogStep
<1> QED
  BY <1>1, LogInit, CowCorrect, PTL DEF Spec

\* The commit log in memory is the one on disk, apart from the commit of a merge that is
\* saved and not yet swapped in, and no id is given out twice: not by a merge whose save
\* failed, and not after a restart.
THEOREM CommitLogsAgree == Spec => []LogsAgree
<1>1. CowInv /\ LogInv => LogsAgree
  <2> SUFFICES ASSUME CowInv, LogInv PROVE LogsAgree
    OBVIOUS
  <2> DEFINE s == IF merging # NoMerge /\ merging.saved THEN merging.staged ELSE store
  <2>1. CommitsOK(s) /\ log = ToSet(s.commits)
    BY DEF LogInv
  <2> HIDE DEF s
  <2>2. ASSUME NEW a \in log, NEW b \in log, a.id = b.id PROVE a = b
    <3>1. PICK j \in 1 .. Len(s.commits), k \in 1 .. Len(s.commits) :
            a = s.commits[j] /\ b = s.commits[k]
      BY <2>1 DEF ToSet, CommitsOK
    <3>2. ~(j < k) /\ ~(k < j)
      <4>1. s.commits[j].id \in Nat /\ s.commits[k].id \in Nat
        BY <2>1, <3>1, IdsBelowNext
      <4>2. /\ j < k => s.commits[j].id < s.commits[k].id
            /\ k < j => s.commits[k].id < s.commits[j].id
        BY <2>1, <3>1 DEF CommitsOK
      <4> QED
        BY <2>2, <3>1, <4>1, <4>2
    <3>3. j \in Int /\ k \in Int
      BY <2>1, <3>1 DEF CommitsOK
    <3> QED
      BY <3>1, <3>2, <3>3
  <2>3. \A a \in log : a.parent = a.id - 1
    BY <2>1 DEF ToSet, CommitsOK
  <2> QED
    BY <2>1, <2>2, <2>3 DEF LogsAgree, Unlocked, s
<1> QED
  BY <1>1, LogCorrect, PTL

-----------------------------------------------------------------------------
(* The copy against the rows, before the first merge.                      *)

\* A row and its copy, times apart.
Alike(row, copy) ==
  IF row = NoItem \/ copy = NoItem THEN copy = row
  ELSE /\ copy.status = row.status /\ copy.holder = row.holder
       /\ copy.priority = row.priority /\ copy.tags = row.tags /\ copy.text = row.text

\* What a call is about to write to the copy of the row that it has committed.
Underway(call, row, copy) ==
  /\ row # NoItem
  /\ call.step = "posted" => copy = NoItem
  /\ call.step # "posted" => call.value = row
  /\ call.step = "update" => copy # NoItem
  /\ call.step = "describe" =>
       copy # NoItem /\ Alike(row, [copy EXCEPT !.text = row.text])

\* Each row is copied, or is about to be by the call that has committed it.
MirrorInv ==
  log = {} =>
    \A i \in Items :
      /\ (\A c \in Callers : calls[c] # NoCall => calls[c].item # i) => Alike(rows[i], store.items[i])
      /\ \A c \in Callers :
           calls[c] # NoCall /\ calls[c].item = i => Underway(calls[c], rows[i], store.items[i])

\* Both stores are empty at first.
LEMMA MirrorInit == Init => MirrorInv
BY DEF Init, MirrorInv, EmptyStore, Alike

\* Without a commit in the table no merge has been saved.
LEMMA NothingSaved ==
  ASSUME LogInv, log = {}, merging # NoMerge
  PROVE  ~merging.saved
<1> SUFFICES ASSUME merging.saved PROVE FALSE
  OBVIOUS
<1>1. PICK new \in Commits : merging.staged.commits = Append(store.commits, new)
  BY DEF LogInv
<1>2. store.commits \in Seq(Commits)
  BY DEF LogInv, CommitsOK
<1>3. new \in ToSet(merging.staged.commits)
  BY <1>1, <1>2, AppendedSet
<1> QED
  BY <1>3 DEF LogInv

\* With one caller: a call commits row i, and nothing else happens.
LEMMA MirrorCommit ==
  ASSUME CowInv, MirrorInv, \A c, d \in Callers : c = d,
         NEW c \in Callers, NEW i \in Items, NEW call \in Calls,
         calls[c] = NoCall, calls' = [calls EXCEPT ![c] = call], call.item = i,
         NEW row, rows' = [rows EXCEPT ![i] = row], UNCHANGED <<log, store>>,
         Alike(rows[i], store.items[i]) => Underway(call, row, store.items[i])
  PROVE  MirrorInv'
<1>1. calls \in [Callers -> Calls \cup {NoCall}] /\ rows \in [Items -> WorkItems \cup {NoItem}]
  BY DEF CowInv, ItemsOK, Tables
<1>2. \A d \in Callers : calls[d] = NoCall /\ calls'[d] = call
  BY <1>1
<1>3. call # NoCall
  BY NothingAssumption
<1>4. \A k \in Items \ {i} : rows'[k] = rows[k]
  BY <1>1
<1>5. rows'[i] = row
  BY <1>1
<1> QED
  BY <1>2, <1>3, <1>4, <1>5 DEF MirrorInv

\* With one caller every step of it keeps copy and rows together.
LEMMA MirrorCalls ==
  ASSUME CowInv, MirrorInv, \A c, d \in Callers : c = d, NEW c \in Callers
  PROVE  /\ Reread(c) \/ Sync(c) => MirrorInv'
         /\ \A i \in Items : Post(c, i) \/ Transact(c, i) \/ Compact(c, i) => MirrorInv'
<1>1. /\ calls \in [Callers -> Calls \cup {NoCall}]
      /\ rows \in [Items -> WorkItems \cup {NoItem}]
      /\ store.items \in [Items -> WorkItems \cup {NoItem}]
      /\ clock + 1 \in Nat
  BY DEF CowInv, ItemsOK, IsStore, Tables
<1>2. ASSUME NEW i \in Items, Post(c, i) PROVE MirrorInv'
  <2>1. PICK text \in Texts :
          rows' = [rows EXCEPT ![i] = [status |-> "Open", holder |-> NoRig, priority |-> P1,
                                       tags |-> {}, text |-> text, at |-> clock + 1]]
    BY <1>2 DEF Post
  <2> DEFINE row == [status |-> "Open", holder |-> NoRig, priority |-> P1,
                     tags |-> {}, text |-> text, at |-> clock + 1]
             call == [step |-> "posted", item |-> i, value |-> NoItem]
  <2>2. row \in WorkItems
    BY <1>1 DEF WorkItems, Statuses
  <2>3. row # NoItem
    BY <2>2, NoItemAssumption
  <2>4. call \in Calls /\ call.item = i /\ call.step = "posted"
    BY DEF Calls
  <2>5. calls[c] = NoCall /\ calls' = [calls EXCEPT ![c] = call] /\ UNCHANGED <<log, store>>
        /\ rows[i] = NoItem /\ rows' = [rows EXCEPT ![i] = row]
    BY <1>2, <2>1 DEF Post
  <2> HIDE DEF row, call
  <2>6. Alike(rows[i], store.items[i]) => Underway(call, row, store.items[i])
    BY <2>3, <2>4, <2>5 DEF Alike, Underway
  <2> QED
    BY <2>4, <2>5, <2>6, MirrorCommit
<1>3. ASSUME NEW i \in Items, Transact(c, i) PROVE MirrorInv'
  <2>1. PICK to \in Statuses, r \in Rigs :
          Commit(c, i, [rows[i] EXCEPT !.status = to, !.at = clock + 1,
                          !.holder = HolderAfter(to, r, @)], "update")
    BY <1>3 DEF Transact
  <2> DEFINE row == [rows[i] EXCEPT !.status = to, !.at = clock + 1,
                                    !.holder = HolderAfter(to, r, @)]
             call == [step |-> "update", item |-> i, value |-> row]
  <2>2. rows[i] \in WorkItems /\ rows[i] # NoItem
    BY <1>1, <1>3 DEF Transact
  <2>3. HolderAfter(to, r, rows[i].holder) \in Rigs \cup {NoRig}
    BY <2>2 DEF HolderAfter, WorkItems
  <2>4. row \in WorkItems /\ row # NoItem
    <3>1. clock + 1 \in Nat
      BY <1>1
    <3>2. [rows[i] EXCEPT !.status = to, !.at = clock + 1,
                          !.holder = HolderAfter(to, r, rows[i].holder)] \in WorkItems
      BY <2>2, <2>3, <3>1, RewrittenType
    <3>3. row \in WorkItems
      BY <3>2
    <3> QED
      BY <3>3, NoItemAssumption
  <2> HIDE DEF row
  <2>5. call \in Calls /\ call.item = i /\ call.step = "update" /\ call.value = row
    BY <2>4 DEF Calls
  <2>6. calls[c] = NoCall /\ calls' = [calls EXCEPT ![c] = call] /\ UNCHANGED <<log, store>>
        /\ rows' = [rows EXCEPT ![i] = row]
    BY <2>1 DEF Commit, row
  <2> HIDE DEF call
  <2>7. Alike(rows[i], store.items[i]) => Underway(call, row, store.items[i])
    BY <2>2, <2>4, <2>5 DEF Alike, Underway
  <2> QED
    BY <2>5, <2>6, <2>7, MirrorCommit
<1>4. ASSUME NEW i \in Items, Compact(c, i) PROVE MirrorInv'
  <2>1. PICK text \in Texts :
          Commit(c, i, [rows[i] EXCEPT !.text = text, !.at = clock + 1], "describe")
    BY <1>4 DEF Compact
  <2> DEFINE row == [rows[i] EXCEPT !.text = text, !.at = clock + 1]
             call == [step |-> "describe", item |-> i, value |-> row]
             copy == store.items[i]
  <2>2. rows[i] \in WorkItems /\ rows[i] # NoItem
    BY <1>1, <1>4 DEF Compact
  <2>3. row \in WorkItems /\ row # NoItem
    <3>1. clock + 1 \in Nat
      BY <1>1
    <3>2. row \in WorkItems
      BY <2>2, <3>1, RewrittenType
    <3> QED
      BY <3>2, NoItemAssumption
  <2>4. row.status = rows[i].status /\ row.holder = rows[i].holder /\ row.priority = rows[i].priority
        /\ row.tags = rows[i].tags
    BY <2>2 DEF WorkItems
  <2> HIDE DEF row
  <2>5. call \in Calls /\ call.item = i /\ call.step = "describe" /\ call.value = row
    BY <2>3 DEF Calls
  <2>6. calls[c] = NoCall /\ calls' = [calls EXCEPT ![c] = call] /\ UNCHANGED <<log, store>>
        /\ rows' = [rows EXCEPT ![i] = row]
    BY <2>1 DEF Commit, row
  <2> HIDE DEF call
  <2>7. ASSUME Alike(rows[i], copy) PROVE Underway(call, row, copy)
    <3>1. copy \in WorkItems /\ copy # NoItem
      BY <1>1, <2>2, <2>7 DEF Alike
    <3> DEFINE new == [copy EXCEPT !.text = row.text]
    <3>2. new.status = copy.status /\ new.holder = copy.holder /\ new.priority = copy.priority
          /\ new.tags = copy.tags /\ new.text = row.text /\ new \in WorkItems
      BY <2>3, <3>1 DEF WorkItems
    <3> HIDE DEF new
    <3>3. Alike(row, new)
      BY <2>2, <2>3, <2>4, <2>7, <3>1, <3>2, NoItemAssumption DEF Alike
    <3> QED
      BY <2>3, <2>5, <3>1, <3>3 DEF Underway, new
  <2> QED
    BY <2>5, <2>6, <2>7, MirrorCommit
<1>5. ASSUME Reread(c) PROVE MirrorInv'
  <2> DEFINE i == calls[c].item
  <2>1. /\ calls[c] \in Calls /\ calls[c] # NoCall /\ calls[c].step = "posted" /\ i \in Items
        /\ calls' = [calls EXCEPT ![c] = [@ EXCEPT !.step = "insert", !.value = rows[i]]]
        /\ UNCHANGED <<rows, log, store>>
    BY <1>1, <1>5 DEF Reread, Calls
  <2> DEFINE call == [calls[c] EXCEPT !.step = "insert", !.value = rows[i]]
  <2>2. call \in Calls /\ call.step = "insert" /\ call.value = rows[i] /\ call.item = i
    BY <1>1, <2>1 DEF Calls
  <2>3. call # NoCall
    BY <2>2, NothingAssumption
  <2>4. calls'[c] = call /\ \A d \in Callers : d = c
    BY <1>1, <2>1
  <2> HIDE DEF call
  <2>5. log = {} => Underway(call, rows[i], store.items[i])
    BY <2>1, <2>2 DEF MirrorInv, Underway
  <2> QED
    BY <2>1, <2>2, <2>3, <2>4, <2>5 DEF MirrorInv
<1>6. ASSUME Sync(c) PROVE MirrorInv'
  <2> DEFINE i == calls[c].item
             old == store.items[i]
             new == calls[c].value
             value == IF calls[c].step = "describe"
                      THEN [old EXCEPT !.text = new.text, !.at = clock + 1] ELSE new
  <2>1. /\ calls[c] \in Calls /\ calls[c] # NoCall /\ calls[c].step # "posted" /\ i \in Items
        /\ \A d \in Callers : d = c /\ calls'[d] = NoCall
        /\ UNCHANGED <<rows, log>>
    BY <1>1, <1>6 DEF Sync, Calls
  <2>2. SUFFICES ASSUME log = {} PROVE \A k \in Items : Alike(rows[k], store'.items[k])
    BY <2>1 DEF MirrorInv
  <2>3. Underway(calls[c], rows[i], old) /\ new = rows[i] /\ new \in WorkItems /\ new # NoItem
    BY <1>1, <2>1, <2>2 DEF MirrorInv, Underway
  <2>4. ~(old = NoItem /\ calls[c].step # "insert")
    BY <2>1, <2>3 DEF Underway, Calls
  <2>5. store' = [store EXCEPT !.items[i] = value]
    BY <1>6, <2>4 DEF Sync
  <2>6. store'.items = [store.items EXCEPT ![i] = value]
    BY <2>5 DEF CowInv, ItemsOK, IsStore
  <2>7. Alike(rows[i], value)
    <3>1. CASE calls[c].step # "describe"
      BY <2>3, <3>1 DEF Alike
    <3>2. CASE calls[c].step = "describe"
      <4>1. old \in WorkItems /\ old # NoItem /\ Alike(rows[i], [old EXCEPT !.text = new.text])
        BY <1>1, <2>1, <2>3, <3>2 DEF Underway
      <4> DEFINE described == [old EXCEPT !.text = new.text]
      <4>2. /\ value \in WorkItems /\ described \in WorkItems
            /\ value.status = described.status /\ value.holder = described.holder
            /\ value.priority = described.priority /\ value.tags = described.tags
            /\ value.text = described.text
        BY <1>1, <2>3, <3>2, <4>1 DEF WorkItems
      <4> HIDE DEF value, described
      <4>3. Alike(rows[i], described)
        BY <4>1 DEF described
      <4> QED
        BY <2>3, <4>2, <4>3, NoItemAssumption DEF Alike
    <3> QED
      BY <3>1, <3>2
  <2> HIDE DEF value
  <2>8. ASSUME NEW k \in Items, k # i PROVE Alike(rows[k], store'.items[k])
    <3>1. store'.items[k] = store.items[k]
      BY <1>1, <2>6, <2>8
    <3>2. \A d \in Callers : calls[d].item # k
      BY <2>1, <2>8
    <3> QED
      BY <2>2, <3>1, <3>2 DEF MirrorInv
  <2>9. store'.items[i] = value
    BY <1>1, <2>1, <2>6
  <2> QED
    BY <2>7, <2>8, <2>9
<1> QED
  BY <1>2, <1>3, <1>4, <1>5, <1>6

\* A copy like its row is the row up to the time.
LEMMA AlikeIsEqual ==
  ASSUME NEW row \in WorkItems, NEW copy \in WorkItems, Alike(row, copy)
  PROVE  [copy EXCEPT !.at = 0] = [row EXCEPT !.at = 0]
<1>1. row # NoItem /\ copy # NoItem
  BY NoItemAssumption
<1> QED
  BY <1>1 DEF Alike, WorkItems

\* As long as nothing was merged, and calls come one after the other, the copy in memory
\* holds every row whenever no call is under way.
THEOREM MirrorKept ==
  ASSUME \A c, d \in Callers : c = d
  PROVE  Spec => []MirrorMatchesRows
<1>1. CowInv /\ LogInv /\ MirrorInv /\ [Next]_vars => MirrorInv'
  <2> SUFFICES ASSUME CowInv, LogInv, MirrorInv, [Next]_vars PROVE MirrorInv'
    OBVIOUS
  <2>1. ASSUME UNCHANGED <<rows, log, store, calls>> PROVE MirrorInv'
    BY <2>1 DEF MirrorInv
  <2>2. CASE UNCHANGED vars
    BY <2>1, <2>2 DEF vars
  <2>3. ASSUME NEW n \in Names,
               TakeBranch(n) \/ Discard(n) \/ Stage(n)
                 \/ \E i \in Items : Edit(n, i) \/ RemoveItem(n, i)
        PROVE  MirrorInv'
    BY <2>1, <2>3 DEF TakeBranch, Discard, Stage, Edit, RemoveItem
  <2>4. CASE PersistFails
    BY <2>1, <2>4 DEF PersistFails
  <2>5. CASE Persist
    <3>1. (CowInv /\ LogInv)'
      BY <2>5, MergeStep, LogStep DEF Next
    <3>2. merging' # NoMerge /\ merging'.saved
      BY <2>5, CowStaged DEF Persist, Unlocked
    <3>3. log' # {}
      <4>1. PICK new \in Commits : merging'.staged.commits = Append(store'.commits, new)
        BY <3>1, <3>2 DEF LogInv
      <4>2. store'.commits \in Seq(Commits)
        BY <3>1 DEF LogInv, CommitsOK
      <4>3. new \in ToSet(merging'.staged.commits)
        BY <4>1, <4>2, AppendedSet
      <4> QED
        BY <3>1, <3>2, <4>3 DEF LogInv
    <3> QED
      BY <3>3 DEF MirrorInv
  <2>6. CASE SwapIn
    <3>1. log # {}
      BY <2>6, NothingSaved DEF SwapIn, Unlocked
    <3> QED
      BY <2>6, <3>1 DEF SwapIn, MirrorInv
  <2>7. CASE Restart
    <3>1. store'.items = rows /\ rows' = rows /\ \A c \in Callers : calls'[c] = NoCall
      BY <2>7 DEF Restart, Restored
    <3> QED
      BY <3>1 DEF MirrorInv, Alike
  <2> QED
    BY <2>2, <2>3, <2>4, <2>5, <2>6, <2>7, MirrorCalls DEF Next
<1>2. CowInv /\ MirrorInv => MirrorMatchesRows
  <2> SUFFICES ASSUME CowInv, MirrorInv, log = {}, \A c \in Callers : calls[c] = NoCall,
                      NEW i \in Items
               PROVE  IF rows[i] = NoItem \/ store.items[i] = NoItem THEN store.items[i] = rows[i]
                      ELSE [store.items[i] EXCEPT !.at = 0] = [rows[i] EXCEPT !.at = 0]
    BY DEF MirrorMatchesRows
  <2>1. Alike(rows[i], store.items[i])
    BY DEF MirrorInv
  <2>2. rows[i] \in WorkItems \cup {NoItem} /\ store.items[i] \in WorkItems \cup {NoItem}
    BY DEF CowInv, ItemsOK, IsStore, Tables
  <2>3. CASE rows[i] = NoItem \/ store.items[i] = NoItem
    BY <2>1, <2>3 DEF Alike
  <2>4. CASE rows[i] # NoItem /\ store.items[i] # NoItem
    BY <2>1, <2>2, <2>4, AlikeIsEqual
  <2> QED
    BY <2>3, <2>4
<1> QED
  BY <1>1, <1>2, MirrorInit, LogCorrect, PTL DEF Spec

=============================================================================
