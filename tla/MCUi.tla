-------------------------------- MODULE MCUi --------------------------------
(***************************************************************************)
(* The two front ends on small bounds for TLC.  They share no state, so    *)
(* that one run checks both: whichever moves first, the other stays as it  *)
(* is, and nothing is lost, but their interleavings, which mean nothing.   *)
(***************************************************************************)
EXTENDS Dashboard

CONSTANTS ChatCapacity, MaxInputs, MaxPieces

ASSUME ChatAssumption == ChatCapacity \in Nat /\ MaxInputs \in Nat /\ MaxPieces \in Nat

VARIABLES lines, entered, busy, quit, loop, reply, produced, replies

Terminal == INSTANCE Chat WITH Capacity <- ChatCapacity, open <- loop, channel <- replies

chat == <<lines, entered, busy, quit, loop, reply, produced, replies>>

UiInit == Init /\ Terminal!Init

UiNext ==
  \/ Next /\ Terminal!Init /\ UNCHANGED chat
  \/ Terminal!Next /\ Init /\ UNCHANGED vars

UiSpec == UiInit /\ [][UiNext]_<<vars, chat>> /\ ([]Init \/ Fairness) /\ Terminal!Fairness

AnswersApart == Terminal!AnswersApart
BusyEnds == Terminal!BusyEnds

=============================================================================
