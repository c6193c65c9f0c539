------------------------------- MODULE MCBoard -------------------------------
(***************************************************************************)
(* Board on small sets for TLC.                                            *)
(***************************************************************************)
EXTENDS Board, TLC

CONSTANTS i1, i2, i3, r1, r2, c1, c2, c3

\* Items and rigs play no distinguished part.
ItemSymmetry == Permutations(Items) \cup Permutations(Rigs)

=============================================================================
