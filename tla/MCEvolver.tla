------------------------------ MODULE MCEvolver ------------------------------
(***************************************************************************)
(* Evolver with two server processes and two low stamps on one rig, from   *)
(* the same dimension, so that the second counts against, updates or       *)
(* replaces the skill the first one led to.                                *)
(***************************************************************************)
EXTENDS Evolver

MCTargetOf == [s \in Stamps |-> "worker-1"]
MCDimensionOf == [s \in Stamps |-> "Quality"]
=============================================================================
