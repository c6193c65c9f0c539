------------------------------ MODULE WorkItem ------------------------------
(***************************************************************************)
(* The vocabulary of a work item: its statuses, the transition table every *)
(* operation of the board consults, and the two ownership checks.          *)
(* A status of "Absent" stands for an id with no row in `work_items`.      *)
(***************************************************************************)

CONSTANTS
  Rigs,     \* rig identities that may hold an item (RigId)
  NoRig     \* claimed_by = None

ASSUME RigsAssumption == NoRig \notin Rigs

Statuses == {"Open", "Claimed", "Done", "Stuck", "Abandoned"}

\* Statuses the code treats as finished when a sub-task is posted.
Closed == {"Done", "Abandoned"}

Transitions ==
  { <<"Open", "Claimed">>,
    <<"Claimed", "Done">>,  <<"Claimed", "Open">>,  <<"Claimed", "Stuck">>,
    <<"Stuck", "Open">>,    <<"Stuck", "Abandoned">>,
    <<"Open", "Abandoned">> }

CanTransitionTo(from, to) == <<from, to>> \in Transitions

\* WorkItem::verify_claimed_by: the item is held, and by this very rig.
VerifyClaimedBy(holder, rig) == holder # NoRig /\ holder = rig

\* The looser check of mark_stuck: an item nobody holds passes.
NotHeldByOther(holder, rig) == holder \in {NoRig, rig}

=============================================================================
