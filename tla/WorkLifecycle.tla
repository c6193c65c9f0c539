---------------------------- MODULE WorkLifecycle ----------------------------
(***************************************************************************)
(* What the board promises about one work item, whatever calls are running *)
(* at the same time: a row changes by whole, legal transitions, one row at *)
(* a time, and an item changes hands only by going back to Open first.     *)
(* Board implements this specification; the workers of PullLoop take its   *)
(* steps for the calls they make.                                          *)
(***************************************************************************)
EXTENDS WorkItem

CONSTANT Items    \* ids of work items

VARIABLES
  status,   \* status column of each row, "Absent" when there is none
  owner     \* claimed_by column

lifecycleVars == <<status, owner>>

Init ==
  /\ status = [i \in Items |-> "Absent"]
  /\ owner = [i \in Items |-> NoRig]

\* Row i moves to status `to` held by `holder`; no other row changes.
MoveTo(i, to, holder) ==
  /\ status' = [status EXCEPT ![i] = to]
  /\ owner' = [owner EXCEPT ![i] = holder]

Create(i) == status[i] = "Absent" /\ MoveTo(i, "Open", NoRig)

Take(i, r) == status[i] = "Open" /\ MoveTo(i, "Claimed", r)

Complete(i) == status[i] = "Claimed" /\ MoveTo(i, "Done", owner[i])

Release(i) == status[i] \in {"Claimed", "Stuck"} /\ MoveTo(i, "Open", NoRig)

Stall(i) == status[i] = "Claimed" /\ MoveTo(i, "Stuck", owner[i])

GiveUp(i) == status[i] \in {"Open", "Stuck"} /\ MoveTo(i, "Abandoned", owner[i])

Next ==
  \E i \in Items :
    \/ Create(i)
    \/ \E r \in Rigs : Take(i, r)
    \/ Complete(i)
    \/ Release(i)
    \/ Stall(i)
    \/ GiveUp(i)

Spec == Init /\ [][Next]_lifecycleVars

=============================================================================
