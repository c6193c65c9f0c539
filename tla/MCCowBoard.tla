----------------------------- MODULE MCCowBoard -----------------------------
(***************************************************************************)
(* Three parts of the board on small bounds for TLC: the copy in memory    *)
(* (CowBoard), the merges of branches of one item in every order           *)
(* (MergeOrder), and callers that listen and scan (Board).  The first two  *)
(* share the rules of the merge; none shares any state, so that one run    *)
(* checks all: a behaviour is of one part and leaves the others as they    *)
(* are, and nothing is lost but their interleavings, which mean nothing.   *)
(***************************************************************************)
EXTENDS CowBoard, TLC

CONSTANTS
  Branches, EditStatuses, EditRigs, Bases,
  Ids, Holders, Tasks, Linkers, Pullers

VARIABLES
  part,                                            \* which of the three
  origin, edits, current, merged,
  status, owner, parents, blocks, awaits, waiters, due

Order == INSTANCE MergeOrder WITH base <- origin, main <- current

Calling == INSTANCE Board WITH
  Items <- Ids, Rigs <- Holders, Callers <- Tasks, Remote <- {}, Droppable <- {},
  parent <- parents, call <- awaits

ASSUME OrderAssumption ==
  /\ Bases \subseteq {i \in WorkItems : i.at = 0}
  /\ EditStatuses \subseteq Statuses /\ EditRigs \subseteq Rigs

order == <<origin, edits, current, merged>>
board == <<status, owner, parents, blocks, awaits, waiters, due>>

NoOrder == origin = NoItem /\ edits = <<>> /\ current = NoItem /\ merged = {}

\* A bound of the runs, where branches are numbers: each wrote at the time of its number.
EditsInOrder == \A b \in Branches : edits[b].at = b

OrderInit == part = "order" /\ Order!Init /\ EditsInOrder /\ Init /\ Calling!Init
OrderNext == part = "order" /\ Order!Next /\ UNCHANGED <<part, vars, board>>
OrderSpec == OrderInit /\ [][OrderNext]_<<part, vars, order, board>>

PartsInit ==
  \/ OrderInit
  \/ part \in {"copy", "calls"} /\ Init /\ Calling!Init /\ NoOrder
PartsNext ==
  \/ OrderNext
  \/ part = "copy" /\ Next /\ UNCHANGED <<part, order, board>>
  \/ part = "calls" /\ Calling!Next /\ UNCHANGED <<part, vars, order>>
PartsSpec == PartsInit /\ [][PartsNext]_<<part, vars, order, board>>

MergeConverges == part = "order" => Order!MergeConverges
OneSidedKept == part = "order" => Order!OneSidedKept
StatusIsMax == part = "order" => Order!StatusIsMax
OrderIrrelevant == part = "order" => Order!OrderIrrelevant

WakeupOwed == Calling!WakeupOwed
ReadyResultUnblocked == Calling!ReadyResultUnblocked

\* Rigs are told apart by nothing; with Names = Rigs they may be exchanged.
RigSymmetry == Permutations(Rigs)

\* An item on offer, and one that a rig holds and that carries every tag.
MCOpen == [status |-> "Open", holder |-> NoRig, priority |-> P1,
           tags |-> {}, text |-> "long", at |-> 0]
MCBases == {MCOpen} \cup {[MCOpen EXCEPT !.status = "Claimed", !.holder = r, !.tags = Tags] : r \in EditRigs}

=============================================================================
