----------------------------- MODULE MergeRules -----------------------------
(***************************************************************************)
(* The three-way merge of one work item, and of a whole branch into main.  *)
(* A branch is a snapshot of main (its base) and a changed copy of it; each *)
(* field is merged by itself, and only a field that both sides changed     *)
(* needs a rule: the later writer, the higher priority, the union of tags. *)
(***************************************************************************)
EXTENDS WorkItem, Integers

CONSTANTS
  Tags,      \* labels an item may carry
  Texts,     \* descriptions
  NoItem     \* no entry for this id in a map or table

\* P0 is the highest priority.
P0 == 2
P1 == 1
P2 == 0

WorkItems ==
  [status : Statuses, holder : Rigs \cup {NoRig}, priority : {P0, P1, P2},
   tags : SUBSET Tags, text : Texts, at : Nat]

ASSUME NoItemAssumption == NoItem \notin WorkItems

\* One field: what only one side changed is kept, `resolved` is for both.
MergeField(base, branch, main, resolved) ==
  IF branch = base THEN main
  ELSE IF main = base THEN branch
  ELSE resolved

\* Mutant of LaterOf: the comparison is turned round.
EarlierOf(branch, main) == IF branch.at < main.at THEN branch ELSE main

\* lww_resolve: the branch wins a tie.
LaterOf(branch, main) == IF branch.at >= main.at THEN branch ELSE main

HigherOf(branch, main) == IF branch >= main THEN branch ELSE main

\* merge_work_item: title and description, like the other fields, stay as in base.
MergeWorkItem(base, branch, main) ==
  LET later == LaterOf(branch, main) IN
  [base EXCEPT
    !.status   = MergeField(base.status, branch.status, main.status, later.status),
    !.holder   = MergeField(base.holder, branch.holder, main.holder, later.holder),
    !.priority = MergeField(base.priority, branch.priority, main.priority,
                            HigherOf(branch.priority, main.priority)),
    !.tags     = MergeField(base.tags, branch.tags, main.tags, branch.tags \cup main.tags),
    !.at       = HigherOf(branch.at, main.at)]

\* What main holds afterwards for an item of the branch.
ResolveMergeItem(base, branch, main) ==
  IF base = NoItem
  THEN IF main = NoItem THEN branch ELSE MergeWorkItem(branch, branch, main)
  ELSE IF main = NoItem \/ branch = base THEN main
  ELSE IF main = base THEN branch
  ELSE MergeWorkItem(base, branch, main)

\* CowStore::merge: the items of the branch, then those it removed.
MergeInto(main, base, data) ==
  [i \in DOMAIN main |->
     IF data[i] # NoItem THEN ResolveMergeItem(base[i], data[i], main[i])
     ELSE IF base[i] # NoItem THEN NoItem
     ELSE main[i]]

=============================================================================
