----------------------------- MODULE MCPullLoop -----------------------------
(***************************************************************************)
(* PullLoop on small sets for TLC.                                         *)
(***************************************************************************)
EXTENDS PullLoop, TLC

CONSTANTS i1, i2, r1, r2, rx, t1, t2, t3, c1

\* Items, tasks and the rigs of workers play no distinguished part.
LoopSymmetry ==
  Permutations(Items) \cup Permutations(Tasks) \cup Permutations(Rigs \ (Outsiders \cup Shared))

\* Bound of a run: workers are removed while one task at least has not been started.
RemovedBeforeLast == cancelled # {} => \E t \in Tasks : worker[t] = Unused

=============================================================================
