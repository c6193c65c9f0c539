-------------------------------- MODULE Fifo --------------------------------
(***************************************************************************)
(* What a virtqueue promises its two ends: a buffer the driver offers is   *)
(* served by the device once, in the order of the offers, and comes back   *)
(* to the driver once, in that order; no buffer has two owners.            *)
(***************************************************************************)
EXTENDS Sequences, Naturals

CONSTANT Buffers

VARIABLES
  offered,   \* with the device, oldest first
  returned   \* given back and not yet collected by the driver, oldest first

Held(s) == {s[i] : i \in DOMAIN s}

TypeOK ==
  /\ offered \in Seq(Buffers)
  /\ returned \in Seq(Buffers)

Init == offered = <<>> /\ returned = <<>>

Offer(b) ==
  /\ b \notin Held(offered) \cup Held(returned)
  /\ offered' = Append(offered, b)
  /\ UNCHANGED returned

\* The device serves the first n offers in one go.
Serve(n) ==
  /\ offered' = SubSeq(offered, n + 1, Len(offered))
  /\ returned' = returned \o SubSeq(offered, 1, n)

Collect ==
  /\ returned # <<>>
  /\ returned' = Tail(returned)
  /\ UNCHANGED offered

Next == (\E b \in Buffers : Offer(b)) \/ (\E n \in DOMAIN offered : Serve(n)) \/ Collect

Spec == Init /\ [][Next]_<<offered, returned>>
=============================================================================
