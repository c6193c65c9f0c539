-------------------------------- MODULE Ring --------------------------------
(***************************************************************************)
(* A split virtqueue as both ends see it: two arrays of Size slots in the  *)
(* guest's memory, each with an index that counts modulo Width (2^16 in    *)
(* the code), and the index up to which each end has read the other's      *)
(* array.  A slot is an index modulo Size.  The operators work on records, *)
(* so that every queue of every device is one value.                       *)
(***************************************************************************)
EXTENDS Integers, Sequences

CONSTANTS
  Size,   \* entries of the queue, chosen by the driver
  Width   \* an index wraps to 0 here

\* The driver's choice the code relies on: num divides 2^16 and is smaller.
ASSUME RingAssumption ==
  /\ Size \in Nat \ {0}
  /\ Width \in Nat
  /\ Size < Width
  /\ Width % Size = 0

Desc  == 0 .. Size - 1
Index == 0 .. Width - 1

Slot(i)        == i % Size
Plus(i, k)     == (i + k) % Width
Distance(i, j) == (j - i) % Width

Rings == [ready : BOOLEAN, avail : [Desc -> Desc], availIdx : Index, used : [Desc -> Desc], usedIdx : Index,
          lastAvail : Index, lastUsed : Index, free : SUBSET Desc]

\* A queue that is not set up: every register and every index is 0.
ResetRing ==
  [ready |-> FALSE, avail |-> [s \in Desc |-> 0], availIdx |-> 0, used |-> [s \in Desc |-> 0], usedIdx |-> 0,
   lastAvail |-> 0, lastUsed |-> 0, free |-> Desc]

\* The slots between two indices, oldest first.
Window(slots, from, to) == [k \in 1 .. Distance(from, to) |-> slots[Slot(Plus(from, k - 1))]]
Offered(r)  == Window(r.avail, r.lastAvail, r.availIdx)
Returned(r) == Window(r.used, r.lastUsed, r.usedIdx)

\* The driver's two writes of an offer: first the slot, then the index.
Stage(r, d) == [r EXCEPT !.avail[Slot(r.availIdx)] = d, !.free = @ \ {d}]
Expose(r)   == [r EXCEPT !.availIdx = Plus(@, 1)]

\* The driver takes the oldest returned buffer.
Oldest(r)  == r.used[Slot(r.lastUsed)]
Collect(r) == [r EXCEPT !.lastUsed = Plus(@, 1), !.free = @ \cup {Oldest(r)}]

\* What a device sees of a queue.
Pending(r)    == Distance(r.lastAvail, r.availIdx)
HasOffer(r)   == r.ready /\ r.lastAvail # r.availIdx
FirstOffer(r) == r.avail[Slot(r.lastAvail)]

\* Mutant of Serve: of several buffers only the first is listed as returned.
ServeFirst(r, n) ==
  [r EXCEPT
     !.used[Slot(r.usedIdx)] = r.avail[Slot(r.lastAvail)],
     !.usedIdx = Plus(@, n),
     !.lastAvail = Plus(@, n)]

\* The device copies n entries of one array to the other and moves both its indices.
Serve(r, n) ==
  [r EXCEPT
     !.used = [s \in Desc |->
                 LET k == (s - Slot(r.usedIdx)) % Size
                 IN  IF k < n THEN r.avail[Slot(Plus(r.lastAvail, k))] ELSE @[s]],
     !.usedIdx = Plus(@, n),
     !.lastAvail = Plus(@, n)]
=============================================================================
