------------------------------ MODULE MCSandbox ------------------------------
(***************************************************************************)
(* Sandbox with the server's process, where a worker and a direct user of  *)
(* the pool share it, and a second process with one worker.                *)
(***************************************************************************)
EXTENDS Sandbox

MCHome == [t \in Threads |-> IF t = "other" THEN "q" ELSE "p"]
=============================================================================
