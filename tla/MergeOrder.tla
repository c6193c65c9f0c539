----------------------------- MODULE MergeOrder -----------------------------
(***************************************************************************)
(* Several branches taken from one snapshot, each changing the same item,  *)
(* merged into main in every order.  What main ends up with is compared    *)
(* with what was written on the branches.                                  *)
(***************************************************************************)
EXTENDS MergeRules, SequencesExt

CONSTANTS
  Branches,       \* names of the branches
  EditStatuses,   \* statuses a branch may leave the item in
  EditRigs,       \* rigs it may leave it with
  Bases           \* items the branches may be taken from, as they were at time 0

VARIABLES base, edits, main, merged

vars == <<base, edits, main, merged>>

\* Branch::update by every branch: any change of the fields, with updated_at
\* set to the time of the change; no two changes at the same instant.
Edits(item) ==
  {e \in [status : EditStatuses, holder : EditRigs \cup {NoRig}, priority : {P0, P1, P2},
          tags : SUBSET Tags, text : Texts, at : 1..Cardinality(Branches)] :
     e.holder = NoRig <=> e.status = "Open"}

Init ==
  /\ base \in Bases
  /\ edits \in [Branches -> Edits(base)]
  /\ \A b, c \in Branches : b # c => edits[b].at # edits[c].at
  /\ main = base
  /\ merged = {}

Merge(b) ==
  /\ b \notin merged
  /\ main' = ResolveMergeItem(base, edits[b], main)
  /\ merged' = merged \cup {b}
  /\ UNCHANGED <<base, edits>>

Next == \E b \in Branches : Merge(b)

Spec == Init /\ [][Next]_vars

-----------------------------------------------------------------------------
(* Properties *)

AllMerged == merged = Branches

Changers(field) == {b \in Branches : edits[b][field] # base[field]}

\* Status and holder, where the order of the merges does not matter: they are what
\* the only branch to change them wrote, or, of several, what the one wrote that
\* changed the item last of all.  (If that one left the field alone the others'
\* times are lost with its merge, and which of them wins depends on the order.)
LastWriterWins ==
  AllMerged => \A field \in {"status", "holder"} : \A b \in Changers(field) :
    Changers(field) = {b} \/ (\A c \in Branches : edits[c].at <= edits[b].at) =>
      main[field] = edits[b][field]

\* The priority is the highest that was written, whatever it was before.
HighestPriority ==
  AllMerged => IF Changers("priority") = {} THEN main.priority = base.priority
               ELSE /\ main.priority \in {edits[b].priority : b \in Changers("priority")}
                    /\ \A b \in Changers("priority") : main.priority >= edits[b].priority

\* The tags are all that were written, if no branch takes one away, or at most two
\* branches touch them.  (The union of several that do can be what the tags were
\* before, and the next merge takes them for untouched.)
TagsUnited ==
  AllMerged /\ ((\A b \in Branches : base.tags \subseteq edits[b].tags)
                \/ \E p, q \in Branches : Changers("tags") \subseteq {p, q}) =>
    main.tags = IF Changers("tags") = {} THEN base.tags
                ELSE UNION {edits[b].tags : b \in Changers("tags")}

\* What merges of branches of one item leave in main in every order, the fields of
\* which that can be said: they are the values that were written, none is invented
\* and none of the last writer's is lost.
MergeConverges == LastWriterWins /\ HighestPriority /\ TagsUnited

\* What ARCHITECTURE.md 4.4 says of a merge and merge_work_item does not do; each is
\* refuted by a run.

\* "one side changed: the side that changed it ... all fields" (line 392).
OneSidedKept ==
  AllMerged => \A field \in {"status", "holder", "priority", "tags", "text"} :
    \A b \in Branches : Changers(field) = {b} => main[field] = edits[b][field]

\* "status / priority: the higher (MaxRegister), Done > Claimed" (line 395).
StatusIsMax ==
  AllMerged /\ (\E b \in Changers("status") : edits[b].status = "Done") => main.status = "Done"

\* "properties to satisfy: commutative, associative, idempotent" (lines 397 to 400).
OrderIrrelevant ==
  AllMerged => \A order \in SetToSeqs(Branches) :
    main = FoldLeft(LAMBDA m, b : ResolveMergeItem(base, edits[b], m), base, order)

=============================================================================
