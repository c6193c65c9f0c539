---------------------------- MODULE ConsoleProofs ----------------------------
(***************************************************************************)
(* The console, for every queue size, every width of the indices that the  *)
(* size divides, and any number of commands and resets.                    *)
(*                                                                         *)
(* First its queues lose, repeat and reorder no buffer: each takes only    *)
(* steps of Fifo.  That rests on the arithmetic of indices that wrap, on   *)
(* the operators of Ring on one queue, and on the steps of guest and host. *)
(*                                                                         *)
(* Then its lines: what is in a buffer, in a queue, with init or with the  *)
(* host is a segment of one long stream of chunks, and the segments join.  *)
(* From that follow the order of what is on its way, whose answer exec()   *)
(* returns, and that no guest sleeps on input.                             *)
(***************************************************************************)
EXTENDS Console, FiniteSetTheorems, SequenceTheorems, WellFoundedInduction, TLAPS

-----------------------------------------------------------------------------
(* Remainders                                                              *)

LEMMA ModRange ==
  ASSUME NEW a \in Int, NEW w \in Nat \ {0}
  PROVE  a % w \in 0 .. w - 1
OBVIOUS

LEMMA ModParts ==
  ASSUME NEW a \in Int, NEW w \in Nat \ {0}
  PROVE  \E q \in Int : a = w * q + (a % w)
<1>1. a = w * (a \div w) + (a % w) /\ a \div w \in Int
  OBVIOUS
<1> QED
  BY <1>1

LEMMA ModSplit ==
  ASSUME NEW a \in Int, NEW w \in Nat \ {0}
  PROVE  \E q \in Int, m \in 0 .. w - 1 : a = w * q + m /\ a % w = m
BY ModParts, ModRange

LEMMA ModOf ==
  ASSUME NEW w \in Nat \ {0}, NEW q \in Int, NEW r \in 0 .. w - 1
  PROVE  (q * w + r) % w = r
OBVIOUS

\* Multiples of the modulus do not matter.
LEMMA ModPlus ==
  ASSUME NEW a \in Int, NEW k \in Int, NEW w \in Nat \ {0}
  PROVE  (a + k * w) % w = a % w
<1>1. PICK q \in Int : a = w * q + (a % w)
  BY ModParts
<1>2. a + k * w = (q + k) * w + (a % w)
  BY <1>1
<1>3. a % w \in 0 .. w - 1 /\ q + k \in Int
  BY ModRange
<1> QED
  BY <1>2, <1>3, ModOf

\* Numbers with the same remainder are a multiple of the modulus apart.
LEMMA ModApart ==
  ASSUME NEW a \in Int, NEW b \in Int, NEW w \in Nat \ {0}, a % w = b % w, a < b
  PROVE  b - a >= w
<1>1. PICK q \in Int : a = w * q + (a % w)
  BY ModParts
<1>2. PICK p \in Int : b = w * p + (b % w)
  BY ModParts
<1>3. b - a = w * (p - q) /\ a % w \in Int
  BY <1>1, <1>2, ModRange
<1>4. p - q >= 1
  BY <1>3
<1> QED
  BY <1>3, <1>4

\* Inside the range, and one turn above or below it.
LEMMA ModSmall ==
  ASSUME NEW a \in Int, NEW w \in Nat \ {0}
  PROVE  /\ 0 <= a /\ a < w => a % w = a
         /\ w <= a /\ a < w + w => a % w = a - w
         /\ a < 0 /\ 0 <= a + w => a % w = a + w
OBVIOUS

LEMMA ModDiff ==
  ASSUME NEW a \in Int, NEW b \in Int, NEW w \in Nat \ {0}
  PROVE  ((a % w) - (b % w)) % w = (a - b) % w
<1>1. PICK q \in Int, m \in 0 .. w - 1 : a = w * q + m /\ a % w = m
  BY ModSplit
<1>2. PICK p \in Int, n \in 0 .. w - 1 : b = w * p + n /\ b % w = n
  BY ModSplit
<1>3. m - n \in Int /\ q - p \in Int /\ a - b = (m - n) + (q - p) * w
  BY <1>1, <1>2
<1>4. ((m - n) + (q - p) * w) % w = (m - n) % w
  BY <1>3, ModPlus
<1> QED
  BY <1>1, <1>2, <1>3, <1>4

-----------------------------------------------------------------------------
(* Indices and slots                                                       *)

LEMMA SizeFacts ==
  /\ Size \in Nat \ {0} /\ Width \in Nat \ {0} /\ Size < Width
  /\ \E m \in Int : Width = Size * m
<1>1. Size \in Nat \ {0} /\ Width \in Nat \ {0} /\ Size < Width /\ Width % Size = 0
  BY RingAssumption
<1>2. PICK q \in Int : Width = Size * q + (Width % Size)
  <2>1. Width \in Int
    BY <1>1
  <2> QED
    BY ONLY <1>1, <2>1, ModParts
<1>3. Width = Size * q
  BY <1>1, <1>2
<1> QED
  BY <1>1, <1>3

\* Indices stay in range and are added up to one turn at a time.
LEMMA IndexFacts ==
  ASSUME NEW i \in Index, NEW j \in Index
  PROVE  /\ Distance(i, j) \in Index
         /\ Plus(i, Distance(i, j)) = j
         /\ \A k \in Index : Plus(i, k) \in Index /\ Distance(i, Plus(i, k)) = k
<1>1. Width \in Nat \ {0} /\ i \in Int /\ j \in Int /\ j - i \in Int
      /\ 0 <= i /\ i < Width /\ 0 <= j /\ j < Width
  BY SizeFacts DEF Index
<1>2. Distance(i, j) = IF j >= i THEN j - i ELSE j - i + Width
  <2>1. CASE j >= i
    <3>1. 0 <= j - i /\ j - i < Width
      BY <1>1, <2>1
    <3> QED
      BY <1>1, <2>1, <3>1, ModSmall DEF Distance
  <2>2. CASE j < i
    <3>1. j - i < 0 /\ 0 <= j - i + Width
      BY <1>1, <2>2
    <3>2. (j - i) % Width = (j - i) + Width
      BY ONLY <1>1, <3>1, ModSmall
    <3> QED
      BY <1>1, <2>2, <3>2 DEF Distance
  <2> QED
    BY <2>1, <2>2 DEF Index
<1>3. ASSUME NEW k \in Index PROVE Plus(i, k) = IF i + k < Width THEN i + k ELSE i + k - Width
  <2>1. k \in Int /\ i + k \in Int /\ 0 <= i + k /\ i + k < Width + Width
    BY <1>1 DEF Index
  <2>2. CASE i + k < Width
    BY <1>1, <2>1, <2>2, ModSmall DEF Plus
  <2>3. CASE i + k >= Width
    <3>1. (i + k) % Width = (i + k) - Width
      BY ONLY <1>1, <2>1, <2>3, ModSmall
    <3> QED
      BY <1>1, <2>1, <2>3, <3>1 DEF Plus
  <2> QED
    BY <2>1, <2>2, <2>3, <1>1
<1>4. Distance(i, j) \in Index
  BY <1>1, <1>2 DEF Index
<1>5. Plus(i, Distance(i, j)) = j
  BY <1>1, <1>2, <1>3, <1>4 DEF Index
<1>6. ASSUME NEW k \in Index PROVE Plus(i, k) \in Index /\ Distance(i, Plus(i, k)) = k
  <2>1. Plus(i, k) \in Index
    BY <1>1, <1>3 DEF Index
  <2>2. CASE i + k < Width
    BY <1>1, <1>3, <2>1, <2>2, ModSmall DEF Distance, Index
  <2>3. CASE i + k >= Width
    BY <1>1, <1>3, <2>1, <2>3, ModSmall DEF Distance, Index
  <2> QED
    BY <1>1, <2>1, <2>2, <2>3 DEF Index
<1> QED
  BY <1>4, <1>5, <1>6

\* Two steps forward are one.
LEMMA PlusPlus ==
  ASSUME NEW i \in Index, NEW n \in Nat, NEW k \in Nat, n + k < Width
  PROVE  Plus(Plus(i, n), k) = Plus(i, n + k)
<1>1. Width \in Nat \ {0}
  BY SizeFacts
<1>2. i + n \in Int
  BY <1>1 DEF Index
<1>3. PICK q \in Int, m \in 0 .. Width - 1 : i + n = Width * q + m /\ (i + n) % Width = m
  BY <1>1, <1>2, ModSplit
<1>4. m + k \in Int /\ i + (n + k) = (m + k) + q * Width
  BY <1>1, <1>3 DEF Index
<1>5. ((m + k) + q * Width) % Width = (m + k) % Width
  BY <1>1, <1>4, ModPlus
<1> QED
  BY <1>3, <1>4, <1>5 DEF Plus

\* How the distance changes when an index moves on.
LEMMA DistanceMoves ==
  ASSUME NEW i \in Index, NEW j \in Index, NEW n \in Nat
  PROVE  /\ n <= Distance(i, j) => Distance(Plus(i, n), j) = Distance(i, j) - n
         /\ Distance(i, j) + n < Width => Distance(i, Plus(j, n)) = Distance(i, j) + n
<1> DEFINE d == Distance(i, j)
<1>1. Width \in Nat \ {0} /\ d \in Index /\ j = Plus(i, d)
  BY SizeFacts, IndexFacts
<1>2. ASSUME n <= d PROVE Distance(Plus(i, n), j) = d - n
  <2>1. n \in Index /\ d - n \in Index /\ n + (d - n) = d /\ d < Width
    BY <1>1, <1>2 DEF Index
  <2>2. Plus(i, n) \in Index
    BY <2>1, IndexFacts
  <2>3. j = Plus(Plus(i, n), d - n)
    BY <1>1, <2>1, PlusPlus DEF Index
  <2>4. Distance(Plus(i, n), Plus(Plus(i, n), d - n)) = d - n
    BY <2>1, <2>2, IndexFacts
  <2> QED
    BY <2>3, <2>4
<1>3. ASSUME d + n < Width PROVE Distance(i, Plus(j, n)) = d + n
  <2>1. Plus(j, n) = Plus(i, d + n)
    BY <1>1, <1>3, PlusPlus DEF Index
  <2>2. d + n \in Index
    BY <1>1, <1>3 DEF Index
  <2> QED
    BY <2>1, <2>2, IndexFacts
<1> QED
  BY <1>2, <1>3

\* A slot is the index modulo Size, before and after the index wraps.
LEMMA SlotOf ==
  ASSUME NEW i \in Int, NEW k \in Int
  PROVE  Slot(Plus(i, k)) = (i + k) % Size /\ Slot(Plus(i, k)) \in Desc
<1>1. PICK m \in Int : Width = Size * m
  BY SizeFacts
<1>2. PICK q \in Int : i + k = Width * q + ((i + k) % Width)
  <2>1. i + k \in Int /\ Width \in Nat \ {0}
    BY SizeFacts
  <2> QED
    BY <2>1, ModParts
<1>3. ((i + k) % Width) \in Int /\ m * q \in Int
  BY SizeFacts, ModRange
<1>4. i + k = ((i + k) % Width) + (m * q) * Size
  BY <1>1, <1>2, <1>3, SizeFacts
<1>5. (((i + k) % Width) + (m * q) * Size) % Size = ((i + k) % Width) % Size
  BY <1>3, SizeFacts, ModPlus
<1>6. (i + k) % Size = ((i + k) % Width) % Size
  BY <1>4, <1>5
<1> QED
  BY <1>6, SizeFacts, ModRange DEF Slot, Plus, Desc

LEMMA IndexSlot ==
  ASSUME NEW i \in Index
  PROVE  Slot(i) \in Desc
<1>1. i \in Int /\ Size \in Nat \ {0}
  BY SizeFacts DEF Index
<1>2. (i % Size) \in 0 .. Size - 1
  BY ONLY <1>1, ModRange
<1> QED
  BY <1>2 DEF Slot, Desc

\* Fewer than Size places apart are different slots.
LEMMA SlotsDiffer ==
  ASSUME NEW i \in Index, NEW j \in Nat, NEW k \in Nat, j < k, k - j < Size
  PROVE  Slot(Plus(i, j)) # Slot(Plus(i, k))
<1>1. i \in Int /\ i + j \in Int /\ i + k \in Int /\ i + j < i + k
  BY SizeFacts DEF Index
<1>2. (i + j) % Size # (i + k) % Size
  <2>1. Size \in Nat \ {0} /\ (i + k) - (i + j) < Size
    BY <1>1, SizeFacts
  <2>2. (i + j) % Size = (i + k) % Size => (i + k) - (i + j) >= Size
    BY ONLY <1>1, <2>1, ModApart
  <2>3. i + j \in Int /\ i + k \in Int /\ Size \in Int
    BY <1>1, <2>1
  <2> QED
    BY ONLY <2>1, <2>2, <2>3
<1> QED
  BY <1>1, <1>2, SlotOf

\* How far apart two slots are, going round.
LEMMA SlotGap ==
  ASSUME NEW i \in Index, NEW j \in Nat, NEW k \in Nat
  PROVE  (Slot(Plus(i, j)) - Slot(Plus(i, k))) % Size = (j - k) % Size
<1>1. i \in Int /\ i + j \in Int /\ i + k \in Int /\ Size \in Nat \ {0} /\ (i + j) - (i + k) = j - k
  BY SizeFacts DEF Index
<1>2. (((i + j) % Size) - ((i + k) % Size)) % Size = ((i + j) - (i + k)) % Size
  BY <1>1, ModDiff
<1>3. j \in Int /\ k \in Int
  OBVIOUS
<1>4. Slot(Plus(i, j)) = (i + j) % Size /\ Slot(Plus(i, k)) = (i + k) % Size
  BY <1>1, <1>3, SlotOf
<1> QED
  BY <1>1, <1>2, <1>4

LEMMA PlusZero ==
  ASSUME NEW i \in Index
  PROVE  Plus(i, 0) = i
<1>1. Width \in Nat \ {0} /\ i + 0 = i /\ i \in Int /\ 0 <= i /\ i < Width
  BY SizeFacts DEF Index
<1> QED
  BY <1>1, ModSmall DEF Plus

-----------------------------------------------------------------------------
(* One queue                                                               *)

\* Every buffer is listed at most once, and not while the driver has it free or has
\* only written its slot.
WellKept(r, stagedSet) ==
  /\ r \in Rings
  /\ stagedSet \subseteq Desc /\ stagedSet \cap r.free = {}
  /\ \A k, l \in DOMAIN Offered(r) : k # l => Offered(r)[k] # Offered(r)[l]
  /\ \A k, l \in DOMAIN Returned(r) : k # l => Returned(r)[k] # Returned(r)[l]
  /\ \A k \in DOMAIN Offered(r), l \in DOMAIN Returned(r) : Offered(r)[k] # Returned(r)[l]
  /\ \A k \in DOMAIN Offered(r) : Offered(r)[k] \notin r.free \cup stagedSet
  /\ \A l \in DOMAIN Returned(r) : Returned(r)[l] \notin r.free \cup stagedSet

\* A window is a sequence of descriptors as long as its two indices are apart.
LEMMA WindowType ==
  ASSUME NEW slots \in [Desc -> Desc], NEW from \in Index, NEW to \in Index
  PROVE  /\ Window(slots, from, to) \in Seq(Desc)
         /\ Len(Window(slots, from, to)) = Distance(from, to)
         /\ DOMAIN Window(slots, from, to) = 1 .. Distance(from, to)
         /\ Distance(from, to) \in Nat /\ Distance(from, to) < Width
         /\ \A k \in 1 .. Distance(from, to) :
              /\ Window(slots, from, to)[k] = slots[Slot(Plus(from, k - 1))]
              /\ Slot(Plus(from, k - 1)) \in Desc
<1>1. Distance(from, to) \in Nat /\ Distance(from, to) < Width /\ from \in Int
  BY IndexFacts, SizeFacts DEF Index
<1>2. \A k \in 1 .. Distance(from, to) : Slot(Plus(from, k - 1)) \in Desc
  BY <1>1, SlotOf
<1>3. Window(slots, from, to) \in [1 .. Distance(from, to) -> Desc]
  BY <1>2 DEF Window
<1>4. Window(slots, from, to) \in Seq(Desc)
  BY <1>1, <1>3, SeqDef
<1> QED
  BY <1>1, <1>2, <1>3, <1>4 DEF Window

\* The fields of a queue.
LEMMA RingFields ==
  ASSUME NEW r \in Rings
  PROVE  /\ r.avail \in [Desc -> Desc] /\ r.used \in [Desc -> Desc]
         /\ r.availIdx \in Index /\ r.usedIdx \in Index
         /\ r.lastAvail \in Index /\ r.lastUsed \in Index
         /\ r.free \subseteq Desc /\ r.ready \in BOOLEAN
BY DEF Rings

\* Pigeonhole: no more buffers are listed than there are.
LEMMA RoomLeft ==
  ASSUME NEW r, NEW stagedSet, WellKept(r, stagedSet)
  PROVE  /\ Len(Offered(r)) + Len(Returned(r)) <= Size
         /\ r.free \cup stagedSet # {} => Len(Offered(r)) + Len(Returned(r)) < Size
<1> DEFINE a == Len(Offered(r))
           u == Len(Returned(r))
           kept == Desc \ (r.free \cup stagedSet)
           f == [k \in 1 .. a + u |-> IF k <= a THEN Offered(r)[k] ELSE Returned(r)[k - a]]
<1>1. /\ a \in Nat /\ DOMAIN Offered(r) = 1 .. a /\ \A k \in 1 .. a : Offered(r)[k] \in Desc
      /\ u \in Nat /\ DOMAIN Returned(r) = 1 .. u /\ \A k \in 1 .. u : Returned(r)[k] \in Desc
  <2>1. r \in Rings
    BY DEF WellKept
  <2>2. Offered(r) \in Seq(Desc) /\ Returned(r) \in Seq(Desc)
    BY <2>1, RingFields, WindowType DEF Offered, Returned
  <2> QED
    BY <2>2
<1>2. f \in [1 .. a + u -> kept]
  <2> SUFFICES ASSUME NEW k \in 1 .. a + u PROVE f[k] \in kept
    OBVIOUS
  <2>1. CASE k <= a
    BY <1>1, <2>1 DEF WellKept
  <2>2. CASE k > a
    <3>1. k - a \in 1 .. u /\ f[k] = Returned(r)[k - a]
      BY <1>1, <2>2
    <3> QED
      BY <1>1, <3>1 DEF WellKept
  <2> QED
    BY <1>1, <2>1, <2>2
<1>3. ASSUME NEW k \in 1 .. a + u, NEW l \in 1 .. a + u, k < l PROVE f[k] # f[l]
  <2>1. CASE l <= a
    BY <1>1, <1>3, <2>1 DEF WellKept
  <2>2. CASE k <= a /\ l > a
    <3>1. l - a \in 1 .. u /\ f[l] = Returned(r)[l - a] /\ k \in 1 .. a /\ f[k] = Offered(r)[k]
      BY <1>1, <2>2
    <3> QED
      BY <1>1, <3>1 DEF WellKept
  <2>3. CASE k > a
    <3>1. /\ l - a \in 1 .. u /\ f[l] = Returned(r)[l - a]
          /\ k - a \in 1 .. u /\ f[k] = Returned(r)[k - a] /\ l - a # k - a
      BY <1>1, <1>3, <2>3
    <3> QED
      BY <1>1, <3>1 DEF WellKept
  <2> QED
    BY <1>1, <2>1, <2>2, <2>3
<1>4. \A k, l \in 1 .. a + u : k # l => f[k] # f[l]
  <2> HIDE DEF f
  <2> QED
    BY <1>1, <1>3
<1>5. /\ IsFiniteSet(1 .. a + u) /\ Cardinality(1 .. a + u) = a + u
      /\ IsFiniteSet(Desc) /\ Cardinality(Desc) = Size
  <2>1. Size - 1 \in Int /\ a + u \in Int /\ 1 \in Int /\ 0 \in Int
    BY <1>1, SizeFacts
  <2>2. \A b \in Int : IsFiniteSet(1 .. b) /\ Cardinality(1 .. b) = IF 1 > b THEN 0 ELSE b - 1 + 1
    BY <2>1, FS_Interval
  <2>3. IsFiniteSet(0 .. Size - 1) /\ Cardinality(0 .. Size - 1) = IF 0 > Size - 1 THEN 0 ELSE Size - 1 - 0 + 1
    BY <2>1, FS_Interval
  <2> HIDE DEF a, u
  <2>4. IsFiniteSet(1 .. a + u) /\ Cardinality(1 .. a + u) = a + u
    BY <1>1, <2>1, <2>2
  <2> QED
    BY <2>1, <2>3, <2>4, SizeFacts DEF Desc
<1>6. IsFiniteSet(kept) /\ Cardinality(kept) <= Size /\ (kept # Desc => Cardinality(kept) < Size)
  <2>1. kept \in SUBSET Desc
    OBVIOUS
  <2> HIDE DEF kept
  <2>2. IsFiniteSet(kept) /\ Cardinality(kept) <= Size /\ (Cardinality(kept) = Size => kept = Desc)
    BY <1>5, <2>1, FS_Subset
  <2>3. Cardinality(kept) \in Nat /\ Size \in Nat
    BY <2>2, FS_CardinalityType, SizeFacts
  <2> QED
    BY <2>2, <2>3
<1>7. Cardinality(kept) \in Nat
  BY <1>6, FS_CardinalityType
<1>8. ~(Cardinality(kept) < a + u)
  <2> HIDE DEF f, kept
  <2> QED
    BY <1>2, <1>4, <1>5, <1>6, FS_PigeonHole
<1>9. r.free \cup stagedSet # {} => kept # Desc
  BY RingFields DEF WellKept
<1> QED
  BY <1>1, <1>6, <1>7, <1>8, <1>9, SizeFacts

\* Windows are equal when the slots in them are.
LEMMA SameWindow ==
  ASSUME NEW slots, NEW others, NEW from \in Index, NEW to \in Index,
         \A k \in 1 .. Distance(from, to) : slots[Slot(Plus(from, k - 1))] = others[Slot(Plus(from, k - 1))]
  PROVE  Window(slots, from, to) = Window(others, from, to)
BY DEF Window

\* The two lists of a queue, by their elements.
LEMMA Lists ==
  ASSUME NEW r \in Rings
  PROVE  /\ Offered(r) \in Seq(Desc) /\ Len(Offered(r)) \in Nat /\ DOMAIN Offered(r) = 1 .. Len(Offered(r))
         /\ Len(Offered(r)) = Distance(r.lastAvail, r.availIdx) /\ Len(Offered(r)) < Width
         /\ \A k \in 1 .. Len(Offered(r)) : Offered(r)[k] = r.avail[Slot(Plus(r.lastAvail, k - 1))]
         /\ Returned(r) \in Seq(Desc) /\ Len(Returned(r)) \in Nat /\ DOMAIN Returned(r) = 1 .. Len(Returned(r))
         /\ Len(Returned(r)) = Distance(r.lastUsed, r.usedIdx) /\ Len(Returned(r)) < Width
         /\ \A k \in 1 .. Len(Returned(r)) : Returned(r)[k] = r.used[Slot(Plus(r.lastUsed, k - 1))]
<1>1. /\ r.avail \in [Desc -> Desc] /\ r.used \in [Desc -> Desc]
      /\ r.availIdx \in Index /\ r.usedIdx \in Index /\ r.lastAvail \in Index /\ r.lastUsed \in Index
  BY RingFields
<1>2. /\ Offered(r) \in Seq(Desc) /\ Len(Offered(r)) = Distance(r.lastAvail, r.availIdx)
      /\ DOMAIN Offered(r) = 1 .. Distance(r.lastAvail, r.availIdx)
      /\ Distance(r.lastAvail, r.availIdx) \in Nat /\ Distance(r.lastAvail, r.availIdx) < Width
      /\ \A k \in 1 .. Distance(r.lastAvail, r.availIdx) : Offered(r)[k] = r.avail[Slot(Plus(r.lastAvail, k - 1))]
  <2>1. PICK sl \in [Desc -> Desc], f \in Index, t \in Index : sl = r.avail /\ f = r.lastAvail /\ t = r.availIdx
    BY ONLY <1>1
  <2>2. /\ Window(sl, f, t) \in Seq(Desc)
        /\ Len(Window(sl, f, t)) = Distance(f, t)
        /\ DOMAIN Window(sl, f, t) = 1 .. Distance(f, t)
        /\ Distance(f, t) \in Nat /\ Distance(f, t) < Width
        /\ \A k \in 1 .. Distance(f, t) : Window(sl, f, t)[k] = sl[Slot(Plus(f, k - 1))]
    BY WindowType
  <2> QED
    BY ONLY <2>1, <2>2 DEF Offered
<1>3. /\ Returned(r) \in Seq(Desc) /\ Len(Returned(r)) = Distance(r.lastUsed, r.usedIdx)
      /\ DOMAIN Returned(r) = 1 .. Distance(r.lastUsed, r.usedIdx)
      /\ Distance(r.lastUsed, r.usedIdx) \in Nat /\ Distance(r.lastUsed, r.usedIdx) < Width
      /\ \A k \in 1 .. Distance(r.lastUsed, r.usedIdx) : Returned(r)[k] = r.used[Slot(Plus(r.lastUsed, k - 1))]
  <2>1. PICK sl \in [Desc -> Desc], f \in Index, t \in Index : sl = r.used /\ f = r.lastUsed /\ t = r.usedIdx
    BY ONLY <1>1
  <2>2. /\ Window(sl, f, t) \in Seq(Desc)
        /\ Len(Window(sl, f, t)) = Distance(f, t)
        /\ DOMAIN Window(sl, f, t) = 1 .. Distance(f, t)
        /\ Distance(f, t) \in Nat /\ Distance(f, t) < Width
        /\ \A k \in 1 .. Distance(f, t) : Window(sl, f, t)[k] = sl[Slot(Plus(f, k - 1))]
    BY WindowType
  <2> QED
    BY ONLY <2>1, <2>2 DEF Returned
<1> QED
  BY ONLY <1>2, <1>3

\* An offer, first half: the slot is outside the window, the lists are as before.
LEMMA StageStep ==
  ASSUME NEW r, WellKept(r, {}), NEW d \in r.free
  PROVE  LET s == Stage(r, d) IN
         /\ WellKept(s, {d})
         /\ Offered(s) = Offered(r) /\ Returned(s) = Returned(r)
         /\ s.avail[Slot(s.availIdx)] = d
<1> DEFINE s == Stage(r, d)
           a == Len(Offered(r))
<1>1. r \in Rings /\ d \in Desc
  BY RingFields DEF WellKept
<1>2. Slot(r.availIdx) \in Desc
  BY <1>1, RingFields, IndexSlot
<1>3. /\ s \in Rings /\ s.free = r.free \ {d} /\ s.used = r.used /\ s.usedIdx = r.usedIdx
      /\ s.lastUsed = r.lastUsed /\ s.lastAvail = r.lastAvail /\ s.availIdx = r.availIdx
      /\ s.avail = [r.avail EXCEPT ![Slot(r.availIdx)] = d]
  BY <1>1, <1>2 DEF Stage, Rings
<1>4. a < Size /\ a \in Nat /\ a = Distance(r.lastAvail, r.availIdx)
  BY <1>1, Lists, RoomLeft, SizeFacts
<1>5. r.availIdx = Plus(r.lastAvail, a) /\ r.lastAvail \in Index /\ r.availIdx \in Index
  BY <1>1, <1>4, RingFields, IndexFacts
<1>6. ASSUME NEW k \in 1 .. a PROVE Slot(Plus(r.lastAvail, k - 1)) # Slot(r.availIdx)
  <2>1. k - 1 \in Nat /\ k - 1 < a /\ a - (k - 1) < Size
    BY <1>4, SizeFacts
  <2> QED
    BY <1>4, <1>5, <2>1, SlotsDiffer
<1>7. Offered(s) = Offered(r) /\ Returned(s) = Returned(r)
  <2>1. \A k \in 1 .. a : Slot(Plus(r.lastAvail, k - 1)) \in Desc
    <3> SUFFICES ASSUME NEW k \in 1 .. a PROVE Slot(Plus(r.lastAvail, k - 1)) \in Desc
      OBVIOUS
    <3>1. k - 1 \in Int /\ r.lastAvail \in Int
      BY <1>4, <1>5, SizeFacts DEF Index
    <3> QED
      BY <3>1, SlotOf
  <2>2. \A k \in 1 .. a : s.avail[Slot(Plus(r.lastAvail, k - 1))] = r.avail[Slot(Plus(r.lastAvail, k - 1))]
    BY <1>1, <1>3, <1>6, <2>1, RingFields
  <2> HIDE DEF s
  <2>3. Window(s.avail, r.lastAvail, r.availIdx) = Window(r.avail, r.lastAvail, r.availIdx)
    <3>1. \A k \in 1 .. Distance(r.lastAvail, r.availIdx) :
            s.avail[Slot(Plus(r.lastAvail, k - 1))] = r.avail[Slot(Plus(r.lastAvail, k - 1))]
      BY <1>4, <2>2
    <3> QED
      BY ONLY <1>5, <3>1, SameWindow
  <2> QED
    BY <1>3, <2>3 DEF Offered, Returned
<1>8. s.avail[Slot(s.availIdx)] = d
  BY <1>1, <1>2, <1>3, RingFields
<1>9. WellKept(s, {d})
  <2> HIDE DEF s
  <2> QED
    BY <1>1, <1>3, <1>7 DEF WellKept
<1> QED
  BY <1>7, <1>8, <1>9

\* An offer, second half: the buffer goes to the end of the list.
LEMMA ExposeStep ==
  ASSUME NEW r, NEW d, WellKept(r, {d}), d = r.avail[Slot(r.availIdx)]
  PROVE  LET s == Expose(r) IN
         /\ WellKept(s, {})
         /\ Offered(s) = Append(Offered(r), d) /\ Returned(s) = Returned(r)
<1> DEFINE s == Expose(r)
           a == Len(Offered(r))
<1>1. r \in Rings /\ d \in Desc
  BY DEF WellKept
<1>2. /\ a < Size /\ a \in Nat /\ a = Distance(r.lastAvail, r.availIdx)
      /\ r.lastAvail \in Index /\ r.availIdx \in Index
  <2>1. /\ a \in Nat /\ Len(Returned(r)) \in Nat /\ a = Distance(r.lastAvail, r.availIdx)
        /\ r.lastAvail \in Index /\ r.availIdx \in Index
    BY <1>1, Lists, RingFields
  <2>2. r.free \cup {d} # {}
    OBVIOUS
  <2>3. a + Len(Returned(r)) < Size
    BY <2>2, RoomLeft
  <2> QED
    BY <2>1, <2>3, SizeFacts
<1>3. /\ r.availIdx = Plus(r.lastAvail, a) /\ Plus(r.availIdx, 1) \in Index
      /\ Distance(r.lastAvail, Plus(r.availIdx, 1)) = a + 1
  <2>1. 1 \in Index /\ a + 1 < Width
    BY <1>2, SizeFacts DEF Index
  <2> QED
    BY <1>2, <2>1, IndexFacts, DistanceMoves
<1>4. /\ s \in Rings /\ s.free = r.free /\ s.used = r.used /\ s.usedIdx = r.usedIdx
      /\ s.lastUsed = r.lastUsed /\ s.lastAvail = r.lastAvail /\ s.availIdx = Plus(r.availIdx, 1)
      /\ s.avail = r.avail
  BY <1>1, <1>3 DEF Expose, Rings
<1> HIDE DEF s
<1>5. /\ Len(Offered(s)) = a + 1
      /\ \A k \in 1 .. a : Offered(s)[k] = Offered(r)[k]
      /\ Offered(s)[a + 1] = d
  <2>1. /\ Len(Offered(s)) = a + 1
        /\ \A k \in 1 .. a + 1 : Offered(s)[k] = r.avail[Slot(Plus(r.lastAvail, k - 1))]
    BY <1>3, <1>4, Lists
  <2>2. \A k \in 1 .. a : Offered(r)[k] = r.avail[Slot(Plus(r.lastAvail, k - 1))]
    BY <1>1, Lists
  <2>3. Offered(s)[a + 1] = r.avail[Slot(Plus(r.lastAvail, a))]
    <3>1. a + 1 \in 1 .. a + 1 /\ (a + 1) - 1 = a
      BY <1>2
    <3> QED
      BY <2>1, <3>1
  <2>4. \A k \in 1 .. a : k \in 1 .. a + 1
    BY <1>2
  <2> QED
    BY <1>3, <2>1, <2>2, <2>3, <2>4
<1>6. Offered(s) = Append(Offered(r), d)
  <2>1. Offered(s) \in Seq(Desc) /\ Offered(r) \in Seq(Desc)
    BY <1>1, <1>4, Lists
  <2>2. /\ Append(Offered(r), d) \in Seq(Desc) /\ Len(Append(Offered(r), d)) = a + 1
        /\ \A k \in 1 .. a : Append(Offered(r), d)[k] = Offered(r)[k]
        /\ Append(Offered(r), d)[a + 1] = d
    BY <1>1, <2>1
  <2>3. \A k \in 1 .. a + 1 : Offered(s)[k] = Append(Offered(r), d)[k]
    BY <1>2, <1>5, <2>2
  <2> QED
    BY <1>5, <2>1, <2>2, <2>3, SeqEqual
<1>7. Returned(s) = Returned(r)
  BY <1>4 DEF Returned
<1>8. WellKept(s, {})
  <2>1. DOMAIN Offered(s) = 1 .. a + 1 /\ DOMAIN Offered(r) = 1 .. a
    BY <1>1, <1>4, <1>5, Lists
  <2>2. \A k \in 1 .. a + 1 : k \in 1 .. a \/ k = a + 1
    BY <1>2
  <2>3. \A k \in 1 .. a : Offered(r)[k] # d
    BY <2>1 DEF WellKept
  <2> QED
    BY <1>4, <1>5, <1>7, <2>1, <2>2, <2>3 DEF WellKept
<1> QED
  BY <1>6, <1>7, <1>8 DEF s

\* The driver takes the oldest buffer back.
LEMMA CollectStep ==
  ASSUME NEW r, NEW stagedSet, WellKept(r, stagedSet), r.lastUsed # r.usedIdx
  PROVE  LET s == Collect(r) IN
         /\ WellKept(s, stagedSet)
         /\ Returned(r) # <<>> /\ Returned(s) = Tail(Returned(r)) /\ Offered(s) = Offered(r)
<1> DEFINE s == Collect(r)
           u == Len(Returned(r))
<1>1. r \in Rings
  BY DEF WellKept
<1>2. /\ u \in Nat /\ u = Distance(r.lastUsed, r.usedIdx) /\ u < Width
      /\ r.lastUsed \in Index /\ r.usedIdx \in Index
      /\ Returned(r) \in Seq(Desc) /\ DOMAIN Returned(r) = 1 .. u
      /\ \A k \in 1 .. u : Returned(r)[k] = r.used[Slot(Plus(r.lastUsed, k - 1))]
  BY <1>1, Lists, RingFields
<1>3. u >= 1 /\ Width \in Nat
  <2>1. u # 0
    BY <1>2, IndexFacts, PlusZero
  <2> QED
    BY <1>2, <2>1, SizeFacts
<1>4. /\ Plus(r.lastUsed, 1) \in Index
      /\ Distance(Plus(r.lastUsed, 1), r.usedIdx) = u - 1
  <2>1. 1 \in Index
    BY SizeFacts DEF Index
  <2> QED
    BY <1>2, <1>3, <2>1, IndexFacts, DistanceMoves
<1>5. Oldest(r) = Returned(r)[1] /\ Returned(r)[1] \in Desc
  <2>1. 1 \in 1 .. u /\ 1 - 1 = 0
    BY <1>2, <1>3
  <2>2. Returned(r)[1] = r.used[Slot(Plus(r.lastUsed, 0))]
    BY <1>2, <2>1
  <2> QED
    BY <1>2, <2>1, <2>2, PlusZero DEF Oldest
<1>6. /\ s \in Rings /\ s.free = r.free \cup {Returned(r)[1]} /\ s.used = r.used /\ s.usedIdx = r.usedIdx
      /\ s.lastUsed = Plus(r.lastUsed, 1) /\ s.lastAvail = r.lastAvail /\ s.availIdx = r.availIdx
      /\ s.avail = r.avail
  BY <1>1, <1>4, <1>5 DEF Collect, Rings
<1> HIDE DEF s
<1>7. /\ Len(Returned(s)) = u - 1 /\ Returned(s) \in Seq(Desc)
      /\ \A k \in 1 .. u - 1 : Returned(s)[k] = Returned(r)[k + 1]
  <2>1. /\ Len(Returned(s)) = u - 1 /\ Returned(s) \in Seq(Desc)
        /\ \A k \in 1 .. u - 1 : Returned(s)[k] = r.used[Slot(Plus(Plus(r.lastUsed, 1), k - 1))]
    BY <1>4, <1>6, Lists
  <2>2. ASSUME NEW k \in 1 .. u - 1 PROVE Returned(s)[k] = Returned(r)[k + 1]
    <3>1. k - 1 \in Nat /\ 1 + (k - 1) = k /\ k < Width /\ k + 1 \in 1 .. u /\ (k + 1) - 1 = k
      BY <1>2, <1>3
    <3>2. Plus(Plus(r.lastUsed, 1), k - 1) = Plus(r.lastUsed, k)
      BY <1>2, <3>1, PlusPlus
    <3>3. Returned(r)[k + 1] = r.used[Slot(Plus(r.lastUsed, k))]
      BY <1>2, <3>1
    <3> QED
      BY <2>1, <3>2, <3>3
  <2> QED
    BY <2>1, <2>2
<1>8. Returned(r) # <<>> /\ Returned(s) = Tail(Returned(r))
  <2>1. /\ Returned(r) # <<>> /\ Tail(Returned(r)) \in Seq(Desc) /\ Len(Tail(Returned(r))) = u - 1
        /\ \A k \in 1 .. u - 1 : Tail(Returned(r))[k] = Returned(r)[k + 1]
    BY <1>2, <1>3
  <2> QED
    BY <1>7, <2>1, SeqEqual
<1>9. Offered(s) = Offered(r)
  BY <1>6 DEF Offered
<1>10. WellKept(s, stagedSet)
  <2>1. DOMAIN Returned(s) = 1 .. u - 1
    BY <1>7
  <2>2. \A k \in 1 .. u - 1 : k + 1 \in 1 .. u /\ k + 1 # 1
    BY <1>2
  <2>3. \A k, l \in 1 .. u - 1 : k # l => k + 1 # l + 1
    OBVIOUS
  <2>4. 1 \in 1 .. u
    BY <1>2, <1>3
  <2>5. \A k, l \in DOMAIN Returned(s) : k # l => Returned(s)[k] # Returned(s)[l]
    BY <1>2, <1>7, <2>1, <2>2, <2>3 DEF WellKept
  <2>6. \A k \in DOMAIN Offered(s), l \in DOMAIN Returned(s) : Offered(s)[k] # Returned(s)[l]
    BY <1>2, <1>7, <1>9, <2>1, <2>2, SMTT(30) DEF WellKept
  <2>7. \A l \in DOMAIN Returned(s) : Returned(s)[l] \notin s.free \cup stagedSet
    BY <1>2, <1>6, <1>7, <2>1, <2>2, <2>4 DEF WellKept
  <2>8. \A k \in DOMAIN Offered(s) : Offered(s)[k] \notin s.free \cup stagedSet
    BY <1>2, <1>6, <1>9, <2>4 DEF WellKept
  <2>9. stagedSet \subseteq Desc /\ stagedSet \cap s.free = {}
    BY <1>2, <1>6, <2>4 DEF WellKept
  <2> QED
    BY <1>6, <1>9, <2>5, <2>6, <2>7, <2>8, <2>9 DEF WellKept
<1> QED
  BY <1>8, <1>9, <1>10 DEF s

\* The device returns the first n offers, in their order.
LEMMA ServeStep ==
  ASSUME NEW r, NEW stagedSet, WellKept(r, stagedSet), NEW n \in 0 .. Pending(r)
  PROVE  LET s == Serve(r, n) IN
         /\ WellKept(s, stagedSet) /\ s.avail = r.avail /\ s.availIdx = r.availIdx
         /\ n <= Len(Offered(r)) /\ n <= Size
         /\ Offered(s) = SubSeq(Offered(r), n + 1, Len(Offered(r)))
         /\ Returned(s) = Returned(r) \o SubSeq(Offered(r), 1, n)
<1> DEFINE s == Serve(r, n)
           a == Len(Offered(r))
           u == Len(Returned(r))
<1>1. r \in Rings
  BY DEF WellKept
<1>2. /\ a \in Nat /\ a = Distance(r.lastAvail, r.availIdx)
      /\ r.lastAvail \in Index /\ r.availIdx \in Index
      /\ Offered(r) \in Seq(Desc) /\ DOMAIN Offered(r) = 1 .. a
      /\ \A k \in 1 .. a : Offered(r)[k] = r.avail[Slot(Plus(r.lastAvail, k - 1))]
  BY <1>1, Lists, RingFields
<1>3. /\ u \in Nat /\ u = Distance(r.lastUsed, r.usedIdx)
      /\ r.lastUsed \in Index /\ r.usedIdx \in Index
      /\ Returned(r) \in Seq(Desc) /\ DOMAIN Returned(r) = 1 .. u
      /\ \A k \in 1 .. u : Returned(r)[k] = r.used[Slot(Plus(r.lastUsed, k - 1))]
  BY <1>1, Lists, RingFields
<1>4. /\ n \in Nat /\ n <= a /\ a + u <= Size /\ Size \in Nat \ {0} /\ Size < Width /\ Width \in Nat
      /\ r.usedIdx = Plus(r.lastUsed, u) /\ n \in Index
  <2>1. a + u <= Size /\ Size \in Nat \ {0} /\ Size < Width /\ Width \in Nat
    BY RoomLeft, SizeFacts
  <2>2. n \in Nat /\ n <= a
    BY <1>2 DEF Pending
  <2>3. r.usedIdx = Plus(r.lastUsed, u)
    BY <1>3, IndexFacts
  <2>4. n \in Index
    BY <1>2, <1>3, <2>1, <2>2 DEF Index
  <2> QED
    BY <2>1, <2>2, <2>3, <2>4
<1>5. /\ Plus(r.lastAvail, n) \in Index /\ Distance(Plus(r.lastAvail, n), r.availIdx) = a - n
      /\ Plus(r.usedIdx, n) \in Index /\ Distance(r.lastUsed, Plus(r.usedIdx, n)) = u + n
  <2>1. u + n < Width
    BY <1>2, <1>3, <1>4
  <2>2. Plus(r.lastAvail, n) \in Index /\ Plus(r.usedIdx, n) \in Index
    BY <1>2, <1>3, <1>4, IndexFacts
  <2>3. Distance(Plus(r.lastAvail, n), r.availIdx) = a - n
    <3>1. PICK i \in Index, j \in Index : i = r.lastAvail /\ j = r.availIdx
      BY <1>2
    <3>2. n <= Distance(i, j) => Distance(Plus(i, n), j) = Distance(i, j) - n
      BY <1>4, DistanceMoves
    <3> QED
      BY <1>2, <1>4, <3>1, <3>2
  <2>4. Distance(r.lastUsed, Plus(r.usedIdx, n)) = u + n
    <3>1. Distance(r.lastUsed, r.usedIdx) + n < Width
      BY <1>3, <2>1
    <3>2. PICK i \in Index, j \in Index : i = r.lastUsed /\ j = r.usedIdx
      BY <1>3
    <3>3. Distance(i, j) + n < Width => Distance(i, Plus(j, n)) = Distance(i, j) + n
      BY <1>4, DistanceMoves
    <3> QED
      BY <1>3, <3>1, <3>2, <3>3
  <2> QED
    BY <2>2, <2>3, <2>4
<1> DEFINE gap(sl) == (sl - Slot(r.usedIdx)) % Size
<1>6. ASSUME NEW k \in Nat, k < n PROVE Slot(Plus(r.lastAvail, k)) \in Desc
  <2>1. k \in Int /\ r.lastAvail \in Int
    BY <1>2, SizeFacts DEF Index
  <2> QED
    BY <2>1, SlotOf
<1>7. \A sl \in Desc : gap(sl) \in Nat
  <2> SUFFICES ASSUME NEW sl \in Desc PROVE gap(sl) \in Nat
    OBVIOUS
  <2>1. Slot(r.usedIdx) \in Desc
    BY <1>3, IndexSlot
  <2>2. sl - Slot(r.usedIdx) \in Int
    BY <1>4, <2>1 DEF Desc
  <2>3. ((sl - Slot(r.usedIdx)) % Size) \in 0 .. Size - 1
    BY ONLY <1>4, <2>2, ModRange
  <2> QED
    BY <1>4, <2>3
<1>8. /\ s \in Rings /\ s.free = r.free /\ s.usedIdx = Plus(r.usedIdx, n)
      /\ s.lastUsed = r.lastUsed /\ s.lastAvail = Plus(r.lastAvail, n) /\ s.availIdx = r.availIdx
      /\ s.avail = r.avail
      /\ \A sl \in Desc : s.used[sl] = IF gap(sl) < n THEN r.avail[Slot(Plus(r.lastAvail, gap(sl)))] ELSE r.used[sl]
  <2> DEFINE us == [sl \in Desc |-> IF gap(sl) < n THEN r.avail[Slot(Plus(r.lastAvail, gap(sl)))] ELSE r.used[sl]]
  <2>1. s = [r EXCEPT !.used = us, !.usedIdx = Plus(r.usedIdx, n), !.lastAvail = Plus(r.lastAvail, n)]
    BY <1>1 DEF Serve, Rings
  <2>2. us \in [Desc -> Desc]
    <3> SUFFICES ASSUME NEW sl \in Desc PROVE us[sl] \in Desc
      OBVIOUS
    <3>1. r.avail \in [Desc -> Desc] /\ r.used \in [Desc -> Desc] /\ gap(sl) \in Nat
      BY <1>1, <1>7, RingFields
    <3>2. gap(sl) < n => Slot(Plus(r.lastAvail, gap(sl))) \in Desc
      BY <1>6, <3>1
    <3> QED
      BY <3>1, <3>2
  <2>3. \A sl \in Desc : us[sl] = IF gap(sl) < n THEN r.avail[Slot(Plus(r.lastAvail, gap(sl)))] ELSE r.used[sl]
    OBVIOUS
  <2> HIDE DEF s, us, gap
  <2> QED
    BY <1>1, <1>5, <2>1, <2>2, <2>3 DEF Rings
<1> HIDE DEF s
<1>9. /\ Len(Offered(s)) = a - n /\ Offered(s) \in Seq(Desc)
      /\ \A k \in 1 .. a - n : Offered(s)[k] = Offered(r)[k + n]
  <2>1. /\ Len(Offered(s)) = a - n /\ Offered(s) \in Seq(Desc)
        /\ \A k \in 1 .. a - n : Offered(s)[k] = r.avail[Slot(Plus(Plus(r.lastAvail, n), k - 1))]
    BY <1>5, <1>8, Lists
  <2>2. ASSUME NEW k \in 1 .. a - n PROVE Offered(s)[k] = Offered(r)[k + n]
    <3>1. k - 1 \in Nat /\ n + (k - 1) < Width /\ k + n \in 1 .. a /\ (k + n) - 1 = n + (k - 1)
      BY <1>2, <1>3, <1>4
    <3>2. Plus(Plus(r.lastAvail, n), k - 1) = Plus(r.lastAvail, n + (k - 1))
      BY <1>2, <1>4, <3>1, PlusPlus
    <3>3. Offered(r)[k + n] = r.avail[Slot(Plus(r.lastAvail, n + (k - 1)))]
      BY <1>2, <3>1
    <3> QED
      BY <2>1, <3>2, <3>3
  <2> QED
    BY <2>1, <2>2
<1>10. Offered(s) = SubSeq(Offered(r), n + 1, a)
  <2>1. /\ SubSeq(Offered(r), n + 1, a) \in Seq(Desc) /\ Len(SubSeq(Offered(r), n + 1, a)) = a - n
        /\ \A k \in 1 .. a - n : SubSeq(Offered(r), n + 1, a)[k] = Offered(r)[k + n]
    <3>1. n + 1 \in Int /\ a \in Int /\ (a - (n + 1)) + 1 = a - n
      BY <1>2, <1>4
    <3> QED
      BY <1>2, <1>4, <3>1
  <2> QED
    BY <1>9, <2>1, SeqEqual
<1>11. /\ Len(Returned(s)) = u + n /\ Returned(s) \in Seq(Desc)
       /\ \A k \in 1 .. u + n : Returned(s)[k] = s.used[Slot(Plus(r.lastUsed, k - 1))]
  BY <1>5, <1>8, Lists
<1>12. ASSUME NEW k \in 1 .. u + n
       PROVE  /\ Slot(Plus(r.lastUsed, k - 1)) \in Desc
              /\ gap(Slot(Plus(r.lastUsed, k - 1))) = ((k - 1) - u) % Size
  <2>1. k - 1 \in Nat /\ k - 1 \in Int /\ r.lastUsed \in Int /\ r.lastUsed \in Index /\ u \in Nat
    BY <1>3, <1>4, SizeFacts DEF Index
  <2>2. Slot(Plus(r.lastUsed, k - 1)) \in Desc
    BY <2>1, SlotOf
  <2>3. (Slot(Plus(r.lastUsed, k - 1)) - Slot(Plus(r.lastUsed, u))) % Size = ((k - 1) - u) % Size
    BY <2>1, SlotGap
  <2> QED
    BY <1>4, <2>2, <2>3
<1>13. ASSUME NEW k \in 1 .. u PROVE Returned(s)[k] = Returned(r)[k]
  <2>1. k \in 1 .. u + n
    BY <1>3, <1>4
  <2>2. (k - 1) - u \in Int /\ (k - 1) - u < 0 /\ 0 <= ((k - 1) - u) + Size
    BY <1>2, <1>3, <1>4
  <2>3. (((k - 1) - u) % Size) = ((k - 1) - u) + Size
    BY ONLY <1>4, <2>2, ModSmall
  <2>4. ~(((k - 1) - u) + Size < n)
    BY <1>2, <1>3, <1>4
  <2> HIDE DEF gap
  <2>5. s.used[Slot(Plus(r.lastUsed, k - 1))] = r.used[Slot(Plus(r.lastUsed, k - 1))]
    BY <1>8, <1>12, <2>1, <2>3, <2>4
  <2> QED
    BY <1>3, <1>11, <2>1, <2>5
<1>14. ASSUME NEW j \in 1 .. n PROVE Returned(s)[u + j] = Offered(r)[j]
  <2>1. u + j \in 1 .. u + n /\ ((u + j) - 1) - u = j - 1 /\ j - 1 \in Int /\ j \in 1 .. a
    BY <1>2, <1>3, <1>4
  <2>2. 0 <= j - 1 /\ j - 1 < Size /\ j - 1 < n
    BY <1>2, <1>3, <1>4
  <2>3. ((j - 1) % Size) = j - 1
    BY ONLY <1>4, <2>1, <2>2, ModSmall
  <2> HIDE DEF gap
  <2>4. gap(Slot(Plus(r.lastUsed, (u + j) - 1))) = j - 1
    BY <1>12, <2>1, <2>3
  <2>5. s.used[Slot(Plus(r.lastUsed, (u + j) - 1))] = r.avail[Slot(Plus(r.lastAvail, j - 1))]
    BY <1>8, <1>12, <2>1, <2>2, <2>4
  <2> QED
    BY <1>2, <1>11, <2>1, <2>5
<1>15. Returned(s) = Returned(r) \o SubSeq(Offered(r), 1, n)
  <2> DEFINE t == SubSeq(Offered(r), 1, n)
  <2>1. /\ t \in Seq(Desc) /\ Len(t) = n /\ \A j \in 1 .. n : t[j] = Offered(r)[j]
    BY <1>2, <1>4
  <2> HIDE DEF t
  <2>2. /\ Returned(r) \o t \in Seq(Desc) /\ Len(Returned(r) \o t) = u + n
        /\ \A k \in 1 .. u + n : (Returned(r) \o t)[k] = IF k <= u THEN Returned(r)[k] ELSE t[k - u]
    <3>1. PICK v \in Seq(Desc) : v = Returned(r)
      BY <1>3
    <3>2. /\ v \o t \in Seq(Desc) /\ Len(v \o t) = Len(v) + Len(t)
          /\ \A k \in 1 .. Len(v) + Len(t) : (v \o t)[k] = IF k <= Len(v) THEN v[k] ELSE t[k - Len(v)]
      BY <2>1
    <3> QED
      BY <2>1, <3>1, <3>2
  <2>3. \A k \in 1 .. u + n : Returned(s)[k] = (Returned(r) \o t)[k]
    <3> SUFFICES ASSUME NEW k \in 1 .. u + n PROVE Returned(s)[k] = (Returned(r) \o t)[k]
      OBVIOUS
    <3>1. CASE k <= u
      <4>1. k \in 1 .. u
        BY <1>3, <3>1
      <4> QED
        BY <1>13, <2>2, <3>1, <4>1
    <3>2. CASE k > u
      <4>1. k - u \in 1 .. n /\ u + (k - u) = k /\ ~(k <= u)
        BY <1>3, <1>4, <3>2
      <4>2. Returned(s)[u + (k - u)] = Offered(r)[k - u]
        BY <1>14, <4>1
      <4> QED
        BY <2>1, <2>2, <4>1, <4>2
    <3>3. k <= u \/ k > u
      BY <1>3, <1>4
    <3> QED
      BY ONLY <3>1, <3>2, <3>3
  <2>4. Returned(s) = Returned(r) \o t
    BY <1>11, <2>2, <2>3, SeqEqual
  <2> QED
    BY <2>4 DEF t
<1>16. WellKept(s, stagedSet)
  <2>1. DOMAIN Offered(s) = 1 .. a - n /\ DOMAIN Returned(s) = 1 .. u + n
    BY <1>9, <1>11
  <2>2. \A k \in 1 .. a - n : k + n \in 1 .. a /\ k + n > n
    BY <1>2, <1>4
  <2>3. \A j \in 1 .. n : j \in 1 .. a
    BY <1>2, <1>4
  <2>4. \A k \in 1 .. u + n : \/ k \in 1 .. u /\ Returned(s)[k] = Returned(r)[k]
                              \/ \E j \in 1 .. n : k = u + j /\ Returned(s)[k] = Offered(r)[j]
    <3> SUFFICES ASSUME NEW k \in 1 .. u + n, k \notin 1 .. u
                 PROVE  \E j \in 1 .. n : k = u + j /\ Returned(s)[k] = Offered(r)[j]
      BY <1>13
    <3>1. k - u \in 1 .. n /\ k = u + (k - u)
      BY <1>3, <1>4
    <3> QED
      BY <1>14, <3>1
  <2>5. \A k, l \in 1 .. a - n : k # l => k + n # l + n
    BY <1>4
  <2>6. /\ \A k, l \in 1 .. a : k # l => Offered(r)[k] # Offered(r)[l]
        /\ \A k, l \in 1 .. u : k # l => Returned(r)[k] # Returned(r)[l]
        /\ \A k \in 1 .. a, l \in 1 .. u : Offered(r)[k] # Returned(r)[l]
        /\ \A k \in 1 .. a : Offered(r)[k] \notin r.free \cup stagedSet
        /\ \A l \in 1 .. u : Returned(r)[l] \notin r.free \cup stagedSet
    BY <1>2, <1>3 DEF WellKept
  <2>7. \A k, l \in DOMAIN Offered(s) : k # l => Offered(s)[k] # Offered(s)[l]
    <3> SUFFICES ASSUME NEW k \in 1 .. a - n, NEW l \in 1 .. a - n, k # l PROVE Offered(s)[k] # Offered(s)[l]
      BY <2>1
    <3>1. k + n \in 1 .. a /\ l + n \in 1 .. a /\ k + n # l + n
      BY <2>2, <2>5
    <3>2. Offered(s)[k] = Offered(r)[k + n] /\ Offered(s)[l] = Offered(r)[l + n]
      BY <1>9
    <3> QED
      BY <2>6, <3>1, <3>2
  <2>8. \A k, l \in DOMAIN Returned(s) : k # l => Returned(s)[k] # Returned(s)[l]
    <3> SUFFICES ASSUME NEW k \in 1 .. u + n, NEW l \in 1 .. u + n, k # l PROVE Returned(s)[k] # Returned(s)[l]
      BY <2>1
    <3>1. CASE k \in 1 .. u /\ Returned(s)[k] = Returned(r)[k]
      BY <2>3, <2>4, <2>6, <3>1
    <3>2. ASSUME NEW j \in 1 .. n, k = u + j, Returned(s)[k] = Offered(r)[j] PROVE Returned(s)[k] # Returned(s)[l]
      <4>1. CASE l \in 1 .. u /\ Returned(s)[l] = Returned(r)[l]
        BY <2>3, <2>6, <3>2, <4>1
      <4>2. ASSUME NEW i \in 1 .. n, l = u + i, Returned(s)[l] = Offered(r)[i] PROVE Returned(s)[k] # Returned(s)[l]
        BY <2>3, <2>6, <3>2, <4>2
      <4> QED
        BY <2>4, <4>1, <4>2
    <3> QED
      BY <2>4, <3>1, <3>2
  <2>9. \A k \in DOMAIN Offered(s), l \in DOMAIN Returned(s) : Offered(s)[k] # Returned(s)[l]
    <3> SUFFICES ASSUME NEW k \in 1 .. a - n, NEW l \in 1 .. u + n PROVE Offered(s)[k] # Returned(s)[l]
      BY <2>1
    <3>1. k + n \in 1 .. a /\ Offered(s)[k] = Offered(r)[k + n]
      BY <1>9, <2>2
    <3>2. \A j \in 1 .. n : j # k + n
      BY <1>4
    <3> QED
      BY <2>3, <2>4, <2>6, <3>1, <3>2
  <2>10. \A k \in DOMAIN Offered(s) : Offered(s)[k] \notin s.free \cup stagedSet
    BY <1>8, <1>9, <2>1, <2>2, <2>6
  <2>11. \A l \in DOMAIN Returned(s) : Returned(s)[l] \notin s.free \cup stagedSet
    <3> SUFFICES ASSUME NEW l \in 1 .. u + n PROVE Returned(s)[l] \notin s.free \cup stagedSet
      BY <2>1
    <3> QED
      BY <1>8, <2>3, <2>4, <2>6
  <2>12. stagedSet \subseteq Desc /\ stagedSet \cap s.free = {}
    BY <1>8 DEF WellKept
  <2> QED
    BY <1>8, <2>7, <2>8, <2>9, <2>10, <2>11, <2>12 DEF WellKept
<1> QED
  BY <1>2, <1>4, <1>8, <1>10, <1>15, <1>16 DEF s

-----------------------------------------------------------------------------
(* What a step may do to a queue                                           *)

Held(s) == {s[i] : i \in DOMAIN s}

Stutters(r, t) == Offered(t) = Offered(r) /\ Returned(t) = Returned(r)

\* A stutter or a step of Fifo.
Moves(r, t) ==
  \/ Stutters(r, t)
  \/ \E b \in Desc :
       /\ b \notin Held(Offered(r)) \cup Held(Returned(r))
       /\ Offered(t) = Append(Offered(r), b) /\ Returned(t) = Returned(r)
  \/ \E n \in DOMAIN Offered(r) :
       /\ Offered(t) = SubSeq(Offered(r), n + 1, Len(Offered(r)))
       /\ Returned(t) = Returned(r) \o SubSeq(Offered(r), 1, n)
  \/ Returned(r) # <<>> /\ Returned(t) = Tail(Returned(r)) /\ Offered(t) = Offered(r)

\* A device handler serves each queue of Q at most once, and no other.
Served(qs, qt, Q) ==
  /\ qt = [q \in Queues |-> qt[q]]
  /\ \A q \in Queues : qt[q] = qs[q] \/ (q \in Q /\ \E n \in 0 .. Pending(qs[q]) : qt[q] = Serve(qs[q], n))

Queueful(qs) == qs = [q \in Queues |-> qs[q]]

LEMMA ServedNone ==
  ASSUME NEW qs, Queueful(qs), NEW Q
  PROVE  Served(qs, qs, Q)
BY DEF Queueful, Served

LEMMA ServedBoth ==
  ASSUME NEW qs, NEW qt, NEW qu, NEW P, NEW Q, Served(qs, qt, P), Served(qt, qu, Q), P \cap Q = {}
  PROVE  Served(qs, qu, P \cup Q)
BY DEF Served

LEMMA ServedOne ==
  ASSUME NEW qs, Queueful(qs), NEW q \in Queues, NEW n \in 0 .. Pending(qs[q])
  PROVE  Served(qs, [qs EXCEPT ![q] = Serve(@, n)], {q})
BY DEF Queueful, Served

\* A queue that was served keeps what WellKept says, and moves as a Fifo.
LEMMA ServedMoves ==
  ASSUME NEW qs, NEW qt, NEW Q, Served(qs, qt, Q), NEW q \in Queues, NEW stagedSet, WellKept(qs[q], stagedSet)
  PROVE  /\ WellKept(qt[q], stagedSet) /\ Moves(qs[q], qt[q])
         /\ qt[q].avail = qs[q].avail /\ qt[q].availIdx = qs[q].availIdx
         /\ Offered(qs[q]) = <<>> => Stutters(qs[q], qt[q])
<1>1. CASE qt[q] = qs[q]
  BY <1>1 DEF Moves, Stutters
<1>2. ASSUME NEW n \in 0 .. Pending(qs[q]), qt[q] = Serve(qs[q], n)
      PROVE  /\ WellKept(qt[q], stagedSet) /\ Moves(qs[q], qt[q])
             /\ qt[q].avail = qs[q].avail /\ qt[q].availIdx = qs[q].availIdx
             /\ Offered(qs[q]) = <<>> => Stutters(qs[q], qt[q])
  <2> DEFINE r == qs[q]
             t == qt[q]
  <2>1. /\ WellKept(t, stagedSet) /\ t.avail = r.avail /\ t.availIdx = r.availIdx
        /\ n <= Len(Offered(r)) /\ n <= Size
        /\ Offered(t) = SubSeq(Offered(r), n + 1, Len(Offered(r)))
        /\ Returned(t) = Returned(r) \o SubSeq(Offered(r), 1, n)
    BY <1>2, ServeStep
  <2>2. r \in Rings /\ Offered(r) \in Seq(Desc) /\ Returned(r) \in Seq(Desc)
    BY Lists DEF WellKept
  <2>3. n \in Nat
    BY <2>2, Lists DEF Pending
  <2>4. n = 0 => Stutters(r, t)
    <3> HIDE DEF r, t
    <3> SUFFICES ASSUME n = 0 PROVE Stutters(r, t)
      OBVIOUS
    <3>1. Offered(t) = SubSeq(Offered(r), 1, Len(Offered(r)))
      BY <2>1
    <3>2. SubSeq(Offered(r), 1, Len(Offered(r))) = Offered(r) /\ SubSeq(Offered(r), 1, 0) = <<>>
      BY <2>2
    <3>3. Returned(t) = Returned(r) \o <<>>
      BY <2>1, <3>2
    <3> QED
      BY <2>2, <3>1, <3>2, <3>3 DEF Stutters
  <2>5. Offered(r) = <<>> => n = 0
    BY <2>1, <2>2, <2>3
  <2>6. n # 0 => n \in DOMAIN Offered(r)
    BY <2>1, <2>2, <2>3
  <2> HIDE DEF r, t
  <2>7. Moves(r, t)
    BY <2>1, <2>4, <2>6 DEF Moves
  <2> QED
    BY <2>1, <2>4, <2>5, <2>7 DEF r, t
<1> QED
  BY <1>1, <1>2 DEF Served

\* A move of the four lists is a step of Fifo in the sense of Console.
LEMMA MoveIsFifo ==
  ASSUME NEW q \in Queues, Moves(queue[q], queue'[q])
  PROVE  [Queued(q)!Next]_<<Offered(queue[q]), Returned(queue[q])>>
<1> DEFINE r == queue[q]
           t == queue'[q]
<1>1. /\ Offered(queue[q])' = Offered(t) /\ Returned(queue[q])' = Returned(t)
  BY DEF Offered, Returned, Window, Distance, Slot, Plus
<1>2. CASE Stutters(r, t)
  BY <1>1, <1>2 DEF Stutters
<1>3. ASSUME NEW b \in Desc, b \notin Held(Offered(r)) \cup Held(Returned(r)),
             Offered(t) = Append(Offered(r), b), Returned(t) = Returned(r)
      PROVE  Queued(q)!Next
  <2>1. Queued(q)!Offer(b)
    BY <1>1, <1>3 DEF Queued!Offer, Queued!Held, Held
  <2> QED
    BY <2>1 DEF Queued!Next
<1>4. ASSUME NEW n \in DOMAIN Offered(r),
             Offered(t) = SubSeq(Offered(r), n + 1, Len(Offered(r))),
             Returned(t) = Returned(r) \o SubSeq(Offered(r), 1, n)
      PROVE  Queued(q)!Next
  <2>1. Queued(q)!Serve(n)
    BY <1>1, <1>4 DEF Queued!Serve
  <2> QED
    BY <2>1 DEF Queued!Next
<1>5. CASE Returned(r) # <<>> /\ Returned(t) = Tail(Returned(r)) /\ Offered(t) = Offered(r)
  <2>1. Queued(q)!Collect
    BY <1>1, <1>5 DEF Queued!Collect
  <2> QED
    BY <2>1 DEF Queued!Next
<1> QED
  BY <1>2, <1>3, <1>4, <1>5 DEF Moves

-----------------------------------------------------------------------------
(* The handlers of the device                                              *)

\* What the handlers pass on.
Stated(s) == s = [dev |-> s.dev, queue |-> s.queue, buf |-> s.buf] /\ Queueful(s.queue)

LEMMA QueueNames == Queues = {0, 1, 2, 3} /\ RX = 0 /\ TX = 1 /\ CRX = 2 /\ CTX = 3
BY DEF Queues, RX, TX, CRX, CTX

\* How many entries are pending, and how many of them are served.
LEMMA PendingType ==
  ASSUME NEW r \in Rings
  PROVE  Pending(r) \in Nat /\ (r.lastAvail # r.availIdx => 1 \in 0 .. Pending(r))
<1>1. PICK i \in Index, j \in Index : i = r.lastAvail /\ j = r.availIdx
  BY RingFields
<1>2. Distance(i, j) \in Nat
  BY IndexFacts DEF Index
<1>3. Distance(i, j) = 0 => i = j
  BY IndexFacts, PlusZero
<1>4. i # j => 1 <= Distance(i, j)
  BY <1>2, <1>3
<1> QED
  BY <1>1, <1>2, <1>4 DEF Pending

LEMMA TxServes ==
  ASSUME NEW s, Stated(s), \A q \in Queues : s.queue[q] \in Rings
  PROVE  Stated(ProcessTx(s)) /\ Served(s.queue, ProcessTx(s).queue, {TX})
<1>1. CASE ~s.queue[TX].ready
  BY <1>1, ServedNone DEF ProcessTx, Stated
<1>2. CASE s.queue[TX].ready
  <2> DEFINE qt == [s.queue EXCEPT ![TX] = Serve(@, Pending(@))]
             t == ProcessTx(s)
  <2>1. Pending(s.queue[TX]) \in 0 .. Pending(s.queue[TX])
    BY QueueNames, PendingType
  <2>2. Served(s.queue, qt, {TX}) /\ Queueful(qt)
    BY <2>1, QueueNames, ServedOne DEF Stated, Queueful
  <2>3. t = [dev |-> t.dev, queue |-> qt, buf |-> t.buf]
    BY <1>2 DEF ProcessTx, Stated
  <2> HIDE DEF t
  <2>4. t.queue = qt
    BY <2>3
  <2> QED
    BY <2>2, <2>3, <2>4 DEF Stated, t
<1> QED
  BY <1>1, <1>2

LEMMA CtrlTxServes ==
  ASSUME NEW s, Stated(s), \A q \in Queues : s.queue[q] \in Rings
  PROVE  Stated(ProcessCtrlTx(s)) /\ Served(s.queue, ProcessCtrlTx(s).queue, {CTX})
<1>1. CASE ~s.queue[CTX].ready
  BY <1>1, ServedNone DEF ProcessCtrlTx, Stated
<1>2. CASE s.queue[CTX].ready
  <2> DEFINE qt == [s.queue EXCEPT ![CTX] = Serve(@, Pending(@))]
             t == ProcessCtrlTx(s)
  <2>1. Pending(s.queue[CTX]) \in 0 .. Pending(s.queue[CTX])
    BY QueueNames, PendingType
  <2>2. Served(s.queue, qt, {CTX}) /\ Queueful(qt)
    BY <2>1, QueueNames, ServedOne DEF Stated, Queueful
  <2>3. t = [dev |-> t.dev, queue |-> qt, buf |-> t.buf]
    BY <1>2 DEF ProcessCtrlTx, Stated
  <2> HIDE DEF t
  <2>4. t.queue = qt
    BY <2>3
  <2> QED
    BY <2>2, <2>3, <2>4 DEF Stated, t
<1> QED
  BY <1>1, <1>2

LEMMA CtrlRxServes ==
  ASSUME NEW s, Stated(s), \A q \in Queues : s.queue[q] \in Rings
  PROVE  Stated(DeliverCtrlRx(s)) /\ Served(s.queue, DeliverCtrlRx(s).queue, {CRX})
<1> DEFINE q == s.queue[CRX]
           n == IF q.ready THEN Cardinality(DOMAIN s.dev.ctrl \cap (1 .. Pending(q))) ELSE 0
           qt == [s.queue EXCEPT ![CRX] = Serve(@, n)]
           t == DeliverCtrlRx(s)
<1>1. n \in 0 .. Pending(q)
  <2>1. Pending(q) \in Nat
    BY QueueNames, PendingType
  <2> DEFINE p == Pending(q)
             D == DOMAIN s.dev.ctrl \cap (1 .. p)
  <2> HIDE DEF q, p
  <2>2. IsFiniteSet(1 .. p) /\ Cardinality(1 .. p) = p
    <3>1. p \in Int /\ 1 \in Int
      BY <2>1 DEF p
    <3>2. IsFiniteSet(1 .. p) /\ Cardinality(1 .. p) = IF 1 > p THEN 0 ELSE p - 1 + 1
      BY <3>1, FS_Interval
    <3> QED
      BY <2>1, <3>2 DEF p
  <2>3. D \in SUBSET (1 .. p)
    OBVIOUS
  <2> HIDE DEF D
  <2>4. IsFiniteSet(D) /\ Cardinality(D) <= p
    BY <2>2, <2>3, FS_Subset
  <2>5. Cardinality(D) \in Nat
    BY <2>4, FS_CardinalityType
  <2> QED
    BY <2>1, <2>4, <2>5 DEF p, D
<1>2. Served(s.queue, qt, {CRX}) /\ Queueful(qt)
  <2> HIDE DEF n
  <2> QED
    BY <1>1, QueueNames, ServedOne DEF Stated, Queueful
<1>3. t = [dev |-> t.dev, queue |-> qt, buf |-> t.buf]
  <2> DEFINE d2 == [s.dev EXCEPT !.ctrl = SubSeq(@, n + 1, Len(@)), !.intr = @ \/ n > 0]
             b2 == [s.buf EXCEPT ![CRX] = [d \in Desc |->
                                IF \E i \in 1 .. n : Offered(q)[i] = d
                                THEN s.dev.ctrl[CHOOSE i \in 1 .. n : Offered(q)[i] = d]
                                ELSE @[d]]]
  <2>1. t = [s EXCEPT !.dev = d2, !.buf = b2, !.queue = qt]
    BY Zenon DEF DeliverCtrlRx, Stated
  <2> HIDE DEF d2, b2, qt, t
  <2> QED
    BY <2>1 DEF Stated
<1> HIDE DEF t, qt
<1>4. t.queue = qt
  BY <1>3
<1> QED
  BY <1>2, <1>3, <1>4 DEF Stated, t

LEMMA RxServes ==
  ASSUME NEW s, Stated(s), \A q \in Queues : s.queue[q] \in Rings
  PROVE  Stated(DeliverRx(s)) /\ Served(s.queue, DeliverRx(s).queue, {CRX, RX})
<1> DEFINE t == DeliverCtrlRx(s)
           u == DeliverRx(s)
           qt == [t.queue EXCEPT ![RX] = Serve(@, 1)]
<1>1. Stated(t) /\ Served(s.queue, t.queue, {CRX})
  BY CtrlRxServes
<1>2. {CRX} \cap {RX} = {} /\ {CRX} \cup {RX} = {CRX, RX}
  BY QueueNames
<1>3. CASE ~t.dev.rxPending \/ t.dev.in = <<>> \/ ~HasOffer(t.queue[RX])
  <2>1. u = t
    BY <1>3 DEF DeliverRx
  <2> HIDE DEF t, u
  <2>2. Served(t.queue, t.queue, {RX})
    BY <1>1, ServedNone DEF Stated
  <2>3. Served(s.queue, t.queue, {CRX, RX})
    BY <1>1, <1>2, <2>2, ServedBoth
  <2> QED
    BY <1>1, <2>1, <2>3 DEF u
<1>4. CASE ~(~t.dev.rxPending \/ t.dev.in = <<>> \/ ~HasOffer(t.queue[RX]))
  <2>1. t.queue[RX] = s.queue[RX] /\ s.queue[RX] \in Rings
    BY <1>1, QueueNames DEF Served
  <2>2. 1 \in 0 .. Pending(t.queue[RX])
    BY <1>4, <2>1, PendingType DEF HasOffer
  <2>3. Served(t.queue, qt, {RX}) /\ Queueful(qt)
    <3> HIDE DEF t
    <3> QED
      BY <1>1, <2>2, QueueNames, ServedOne DEF Stated, Queueful
  <2>4. u = [dev |-> u.dev, queue |-> qt, buf |-> u.buf]
    BY <1>1, <1>4 DEF DeliverRx, Stated
  <2> HIDE DEF t, u, qt
  <2>5. u.queue = qt
    BY <2>4
  <2>6. Served(s.queue, qt, {CRX} \cup {RX})
    BY <1>1, <1>2, <2>3, ServedBoth
  <2> QED
    BY <1>2, <2>3, <2>4, <2>5, <2>6 DEF Stated, u
<1> QED
  BY <1>3, <1>4

-----------------------------------------------------------------------------
(* The guest                                                               *)

\* A list of buffers for queues of Q.
OfferList(t, Q) == \E S : t \in Seq(S) /\ \A x \in S : x.q \in Q

LEMMA OfferListEmpty ==
  ASSUME NEW Q
  PROVE  OfferList(<<>>, Q)
<1> DEFINE S == {}
<1>1. <<>> \in Seq(S) /\ \A x \in S : x.q \in Q
  OBVIOUS
<1> HIDE DEF S
<1> QED
  BY <1>1 DEF OfferList

LEMMA OfferListOne ==
  ASSUME NEW Q, NEW q \in Q, NEW what
  PROVE  OfferList(<<Offer(q, what)>>, Q)
<1> DEFINE o == Offer(q, what)
<1>1. o.q = q
  BY DEF Offer
<1> HIDE DEF o
<1> DEFINE S == {o}
<1>2. <<o>> \in Seq(S) /\ \A x \in S : x.q \in Q
  BY <1>1
<1> HIDE DEF S
<1>3. OfferList(<<o>>, Q)
  BY <1>2 DEF OfferList
<1> QED
  BY <1>3 DEF o

LEMMA OfferListJoin ==
  ASSUME NEW Q, NEW a, NEW b, OfferList(a, Q), OfferList(b, Q)
  PROVE  OfferList(a \o b, Q)
<1>1. PICK S : a \in Seq(S) /\ \A x \in S : x.q \in Q
  BY DEF OfferList
<1>2. PICK T : b \in Seq(T) /\ \A x \in T : x.q \in Q
  BY DEF OfferList
<1>3. a \in Seq(S \cup T) /\ b \in Seq(S \cup T)
  BY <1>1, <1>2
<1>4. a \o b \in Seq(S \cup T) /\ \A x \in S \cup T : x.q \in Q
  BY <1>1, <1>2, <1>3
<1> QED
  BY <1>4 DEF OfferList

LEMMA OfferListTail ==
  ASSUME NEW Q, NEW t, OfferList(t, Q), t # <<>>
  PROVE  Head(t).q \in Q /\ OfferList(Tail(t), Q)
<1>1. PICK S : t \in Seq(S) /\ \A x \in S : x.q \in Q
  BY DEF OfferList
<1>2. Head(t) \in S /\ Tail(t) \in Seq(S)
  BY <1>1
<1> QED
  BY <1>1, <1>2 DEF OfferList

LEMMA OfferListRefill ==
  ASSUME NEW Q, NEW q \in Q
  PROVE  OfferList(Refill(q), Q)
<1> DEFINE o == Offer(q, Empty)
<1>1. o.q = q
  BY DEF Offer
<1>2. Refill(q) = [d \in 1 .. Size |-> o]
  BY DEF Refill
<1> HIDE DEF o
<1>3. Refill(q) \in Seq({o})
  BY <1>2, SizeFacts, SeqDef
<1>4. \A x \in {o} : x.q \in Q
  BY <1>1
<1> QED
  BY <1>3, <1>4 DEF OfferList

LEMMA OfferListAppend ==
  ASSUME NEW Q, NEW t, OfferList(t, Q), NEW q \in Q, NEW what
  PROVE  OfferList(Append(t, Offer(q, what)), Q)
<1> DEFINE o == Offer(q, what)
<1>1. o.q = q
  BY DEF Offer
<1> HIDE DEF o
<1>2. PICK S : t \in Seq(S) /\ \A x \in S : x.q \in Q
  BY DEF OfferList
<1>3. t \in Seq(S \cup {o})
  BY <1>2
<1>4. Append(t, o) \in Seq(S \cup {o}) /\ \A x \in S \cup {o} : x.q \in Q
  BY <1>1, <1>2, <1>3
<1> QED
  BY <1>4 DEF OfferList, o

Shape(g) ==
  g = [phase |-> g.phase, todo |-> g.todo, step |-> g.step, irq |-> g.irq, work |-> g.work, awake |-> g.awake,
       connected |-> g.connected, tries |-> g.tries, inbox |-> g.inbox, outbox |-> g.outbox]

\* Past the first write of an offer there is an offer.
GuestOK(g) ==
  /\ Shape(g) /\ OfferList(g.todo, Queues)
  /\ g.step \in {"slot", "index", "kick", "spin"}
  /\ g.step # "slot" => g.todo # <<>>

\* The buffer whose slot is written and whose index is not.
StagedAs(qs, g, q) ==
  IF g.step = "index" /\ Head(g.todo).q = q THEN {qs[q].avail[Slot(qs[q].availIdx)]} ELSE {}

\* Before the driver has set the device up nothing is on its way.
Fresh(qs, g) ==
  g.phase = "probe" =>
    /\ g.todo = <<>> /\ g.inbox = <<>> /\ g.outbox = <<>>
    /\ \A q \in Queues : Offered(qs[q]) = <<>> /\ Returned(qs[q]) = <<>>

Sound(qs, g) ==
  /\ GuestOK(g) /\ Fresh(qs, g)
  /\ Queueful(qs) /\ \A q \in Queues : WellKept(qs[q], StagedAs(qs, g, q))

\* A queue whose indices are 0 is well kept, set up or not.
LEMMA ResetWellKept ==
  WellKept(ResetRing, {}) /\ Offered(ResetRing) = <<>> /\ Returned(ResetRing) = <<>>
<1> DEFINE z == ResetRing
<1>1. 0 \in Index /\ 0 \in Desc
  BY SizeFacts DEF Index, Desc
<1>2. z \in Rings /\ z.availIdx = 0 /\ z.usedIdx = 0 /\ z.lastAvail = 0 /\ z.lastUsed = 0
  BY <1>1 DEF ResetRing, Rings
<1> HIDE DEF z
<1>3. Distance(0, 0) = 0
  BY <1>1, PlusZero, IndexFacts
<1>4. /\ Offered(z) \in Seq(Desc) /\ Len(Offered(z)) = 0 /\ DOMAIN Offered(z) = 1 .. 0
      /\ Returned(z) \in Seq(Desc) /\ Len(Returned(z)) = 0 /\ DOMAIN Returned(z) = 1 .. 0
  BY <1>2, <1>3, Lists
<1>5. WellKept(z, {}) /\ Offered(z) = <<>> /\ Returned(z) = <<>>
  BY <1>2, <1>4 DEF WellKept
<1> QED
  BY <1>5 DEF z

LEMMA NewWellKept ==
  LET z == [ResetRing EXCEPT !.ready = TRUE]
  IN  WellKept(z, {}) /\ Offered(z) = <<>> /\ Returned(z) = <<>>
<1> DEFINE z == [ResetRing EXCEPT !.ready = TRUE]
           y == ResetRing
<1>1. WellKept(y, {}) /\ Offered(y) = <<>> /\ Returned(y) = <<>>
  BY ResetWellKept
<1>2. /\ z \in Rings /\ z.avail = y.avail /\ z.used = y.used /\ z.availIdx = y.availIdx /\ z.usedIdx = y.usedIdx
      /\ z.lastAvail = y.lastAvail /\ z.lastUsed = y.lastUsed /\ z.free = y.free
  <2>1. y \in Rings
    BY <1>1 DEF WellKept
  <2> HIDE DEF y
  <2>2. z = [y EXCEPT !.ready = TRUE]
    BY DEF y
  <2> HIDE DEF z
  <2> QED
    BY <2>1, <2>2 DEF Rings
<1> HIDE DEF y, z
<1>3. Offered(z) = Offered(y) /\ Returned(z) = Returned(y)
  BY <1>2 DEF Offered, Returned
<1>4. WellKept(z, {}) /\ Offered(z) = <<>> /\ Returned(z) = <<>>
  BY <1>1, <1>2, <1>3 DEF WellKept
<1> QED
  BY <1>4 DEF z

\* The machine is sound, and so is the one in the snapshot, which stands still.
Inv ==
  /\ Sound(queue, guest)
  /\ Sound(snap.queue, snap.guest) /\ snap.guest.todo = <<>>

\* The guest goes on and its queues stay.
LEMMA GuestStep ==
  ASSUME NEW qs, NEW g, NEW h, Sound(qs, g), g.todo = <<>>, GuestOK(h), h.step = g.step, Fresh(qs, h)
  PROVE  Sound(qs, h) /\ \A q \in Queues : Moves(qs[q], qs[q])
BY DEF Sound, GuestOK, StagedAs, Moves, Stutters

\* A device serves queues; what the driver has staged is as before.
LEMMA DeviceStep ==
  ASSUME NEW qs, NEW qt, NEW g, NEW h, NEW Q, Sound(qs, g), Served(qs, qt, Q), GuestOK(h),
         h = g \/ (g.step # "index" /\ h.step # "index" /\ h.phase # "probe")
  PROVE  Sound(qt, h) /\ \A q \in Queues : Moves(qs[q], qt[q])
<1>1. ASSUME NEW q \in Queues
      PROVE  /\ WellKept(qt[q], StagedAs(qt, h, q)) /\ Moves(qs[q], qt[q])
             /\ Offered(qs[q]) = <<>> => Stutters(qs[q], qt[q])
  <2>1. WellKept(qs[q], StagedAs(qs, g, q))
    BY DEF Sound
  <2>2. /\ WellKept(qt[q], StagedAs(qs, g, q)) /\ Moves(qs[q], qt[q])
        /\ qt[q].avail = qs[q].avail /\ qt[q].availIdx = qs[q].availIdx
        /\ Offered(qs[q]) = <<>> => Stutters(qs[q], qt[q])
    BY <2>1, ServedMoves
  <2>3. StagedAs(qt, h, q) = StagedAs(qs, g, q)
    BY <2>2 DEF StagedAs
  <2> QED
    BY <2>2, <2>3
<1>2. Fresh(qt, h)
  BY <1>1 DEF Sound, Fresh, Stutters
<1>3. Queueful(qt)
  BY DEF Served, Queueful
<1> QED
  BY <1>1, <1>2, <1>3 DEF Sound

\* The driver changes one queue.
LEMMA DriverStep ==
  ASSUME NEW qs, NEW qt, NEW g, NEW h, NEW q \in Queues, NEW t, Sound(qs, g), qt = [qs EXCEPT ![q] = t],
         GuestOK(h), h.phase # "probe", WellKept(t, StagedAs(qt, h, q)), Moves(qs[q], t),
         g.step = "index" => Head(g.todo).q = q, h.step = "index" => Head(h.todo).q = q
  PROVE  Sound(qt, h) /\ \A p \in Queues : Moves(qs[p], qt[p])
<1>1. Queueful(qt) /\ qt[q] = t /\ \A p \in Queues \ {q} : qt[p] = qs[p]
  BY DEF Sound, Queueful
<1>2. \A p \in Queues \ {q} : StagedAs(qs, g, p) = {} /\ StagedAs(qt, h, p) = {}
  BY DEF StagedAs
<1>3. \A p \in Queues : WellKept(qt[p], StagedAs(qt, h, p))
  BY <1>1, <1>2 DEF Sound
<1>4. \A p \in Queues : Moves(qs[p], qt[p])
  BY <1>1 DEF Moves, Stutters
<1> QED
  BY <1>1, <1>3, <1>4 DEF Sound, Fresh

\* A driver that takes a buffer back.
LEMMA CollectMoves ==
  ASSUME NEW r, WellKept(r, {}), r.lastUsed # r.usedIdx
  PROVE  WellKept(Collect(r), {}) /\ Moves(r, Collect(r))
BY CollectStep DEF Moves

Goes == Sound(queue', guest') /\ \A q \in Queues : Moves(queue[q], queue'[q])

LEMMA ProbeGoes ==
  ASSUME Sound(queue, guest), Probe
  PROVE  Goes
<1> DEFINE z == [ResetRing EXCEPT !.ready = TRUE]
<1>1. /\ guest.phase = "probe" /\ guest.todo = <<>> /\ guest.step = "slot"
      /\ \A q \in Queues : Offered(queue[q]) = <<>> /\ Returned(queue[q]) = <<>>
  BY DEF Probe, Sound, GuestOK, Fresh
<1>2. /\ queue' = [q \in Queues |-> z]
      /\ guest' = [guest EXCEPT !.phase = "open", !.todo = Append(Refill(CRX), Offer(CTX, "DEVICE_READY"))]
  BY DEF Probe
<1>3. WellKept(z, {}) /\ Offered(z) = <<>> /\ Returned(z) = <<>>
  BY NewWellKept
<1>4. GuestOK(guest') /\ guest'.phase = "open" /\ guest'.step = "slot"
  <2>1. OfferList(Append(Refill(CRX), Offer(CTX, "DEVICE_READY")), Queues)
    BY QueueNames, OfferListRefill, OfferListAppend
  <2>2. Shape(guest)
    BY DEF Sound, GuestOK
  <2>3. /\ Shape(guest') /\ guest'.phase = "open" /\ guest'.step = "slot"
        /\ guest'.todo = Append(Refill(CRX), Offer(CTX, "DEVICE_READY"))
    BY <1>1, <1>2, <2>2 DEF Shape
  <2> QED
    BY <2>1, <2>3 DEF GuestOK
<1> HIDE DEF z
<1>5. \A q \in Queues : WellKept(queue'[q], StagedAs(queue', guest', q)) /\ Moves(queue[q], queue'[q])
  BY <1>1, <1>2, <1>3, <1>4 DEF StagedAs, Moves, Stutters
<1>6. Queueful(queue')
  BY <1>2 DEF Queueful
<1> QED
  BY <1>4, <1>5, <1>6 DEF Goes, Sound, Fresh

LEMMA WriteSlotGoes ==
  ASSUME Sound(queue, guest), WriteSlot
  PROVE  Goes
<1> DEFINE q == Head(guest.todo).q
           r == queue[q]
           d == FreeOne(r)
           t == Stage(r, d)
<1>1. /\ guest.todo # <<>> /\ guest.step = "slot" /\ r.free # {} /\ guest.phase # "probe"
      /\ queue' = [queue EXCEPT ![q] = t]
      /\ guest' = [guest EXCEPT !.step = "index"]
  BY DEF WriteSlot, Sound, Fresh
<1>2. q \in Queues /\ Shape(guest) /\ OfferList(guest.todo, Queues)
  BY <1>1, OfferListTail DEF Sound, GuestOK
<1>3. WellKept(r, {})
  BY <1>1, <1>2 DEF Sound, StagedAs
<1>4. d \in r.free
  BY <1>1, <1>3 DEF WellKept, Rings, FreeOne
<1>5. /\ GuestOK(guest') /\ guest'.phase # "probe" /\ guest'.todo = guest.todo /\ guest'.step = "index"
  BY <1>1, <1>2 DEF GuestOK, Shape
<1> HIDE DEF q, r, d, t
<1>6. /\ WellKept(t, {d}) /\ Offered(t) = Offered(r) /\ Returned(t) = Returned(r)
      /\ t.avail[Slot(t.availIdx)] = d
  BY <1>3, <1>4, StageStep DEF t
<1>7. StagedAs(queue', guest', q) = {d}
  <2>1. queue'[q] = t
    BY <1>1, <1>2 DEF Sound, Queueful
  <2> QED
    BY <1>5, <1>6, <2>1 DEF StagedAs, q
<1>8. Moves(queue[q], t)
  BY <1>6 DEF Moves, Stutters, r
<1> QED
  <2>1. (guest.step = "index" => Head(guest.todo).q = q) /\ (guest'.step = "index" => Head(guest'.todo).q = q)
    BY <1>5 DEF q
  <2>2. WellKept(t, StagedAs(queue', guest', q))
    BY <1>6, <1>7
  <2>3. Sound(queue', guest') /\ \A p \in Queues : Moves(queue[p], queue'[p])
    <3>1. queue' = [queue EXCEPT ![q] = t] /\ q \in Queues /\ GuestOK(guest') /\ guest'.phase # "probe"
      BY <1>1, <1>2, <1>5
    <3> QED
      BY ONLY Sound(queue, guest), <1>8, <2>1, <2>2, <3>1, DriverStep
  <2> QED
    BY <2>3 DEF Goes

LEMMA WriteIndexGoes ==
  ASSUME Sound(queue, guest), WriteIndex
  PROVE  Goes
<1> DEFINE q == Head(guest.todo).q
           r == queue[q]
           d == r.avail[Slot(r.availIdx)]
           t == Expose(r)
<1>1. /\ guest.todo # <<>> /\ guest.step = "index" /\ guest.phase # "probe"
      /\ queue' = [queue EXCEPT ![q] = t]
      /\ guest' = [guest EXCEPT !.step = "kick"]
  BY DEF WriteIndex, Sound, Fresh, GuestOK
<1>2. q \in Queues /\ Shape(guest) /\ OfferList(guest.todo, Queues)
  BY <1>1, OfferListTail DEF Sound, GuestOK
<1>3. WellKept(r, {d})
  BY <1>1, <1>2 DEF Sound, StagedAs
<1>4. /\ GuestOK(guest') /\ guest'.phase # "probe" /\ guest'.todo = guest.todo /\ guest'.step = "kick"
  BY <1>1, <1>2 DEF GuestOK, Shape
<1> HIDE DEF q, r, t
<1>5. WellKept(t, {}) /\ Offered(t) = Append(Offered(r), d) /\ Returned(t) = Returned(r)
  BY <1>3, ExposeStep DEF t
<1>6. d \in Desc /\ d \notin Held(Offered(r)) \cup Held(Returned(r))
  BY <1>3 DEF WellKept, Held
<1> HIDE DEF d
<1>7. Moves(r, t)
  BY <1>5, <1>6 DEF Moves
<1>8. StagedAs(queue', guest', q) = {}
  BY <1>4 DEF StagedAs
<1> QED
  <2>1. (guest.step = "index" => Head(guest.todo).q = q) /\ (guest'.step = "index" => Head(guest'.todo).q = q)
    BY <1>4 DEF q
  <2>2. WellKept(t, StagedAs(queue', guest', q)) /\ Moves(queue[q], t)
    BY <1>5, <1>7, <1>8 DEF r
  <2>3. Sound(queue', guest') /\ \A p \in Queues : Moves(queue[p], queue'[p])
    BY ONLY Sound(queue, guest), <1>1, <1>2, <1>4, <2>1, <2>2, DriverStep
  <2> QED
    BY <2>3 DEF Goes

\* Steps of the driver that take a buffer of queue q back, in any state but staging.
LEMMA TakesBack ==
  ASSUME Sound(queue, guest), NEW q \in Queues, guest.step # "index", guest.phase # "probe",
         queue[q].lastUsed # queue[q].usedIdx, queue' = [queue EXCEPT ![q] = Collect(@)],
         GuestOK(guest'), guest'.phase = guest.phase, guest'.step = "slot"
  PROVE  Goes
<1> DEFINE r == queue[q]
           t == Collect(r)
<1>1. WellKept(r, {})
  BY DEF Sound, StagedAs
<1>2. WellKept(t, {}) /\ Moves(r, t)
  BY <1>1, CollectMoves
<1>3. StagedAs(queue', guest', q) = {}
  BY DEF StagedAs
<1> HIDE DEF t
<1>4. queue' = [queue EXCEPT ![q] = t]
  BY DEF t
<1> QED
  BY <1>2, <1>3, <1>4, DriverStep DEF Goes

LEMMA SpinGoes ==
  ASSUME Sound(queue, guest), Spin
  PROVE  Goes
<1>1. /\ guest.step = "spin" /\ guest.todo # <<>> /\ guest.phase # "probe"
      /\ queue[CTX].lastUsed # queue[CTX].usedIdx
      /\ queue' = [queue EXCEPT ![CTX] = Collect(@)]
      /\ guest' = [guest EXCEPT !.step = "slot", !.todo = Tail(@)]
  BY DEF Spin, Sound, GuestOK, Fresh
<1>2. Shape(guest) /\ OfferList(Tail(guest.todo), Queues)
  BY <1>1, OfferListTail DEF Sound, GuestOK
<1>3. GuestOK(guest') /\ guest'.phase = guest.phase /\ guest'.step = "slot"
  BY <1>1, <1>2 DEF GuestOK, Shape
<1> QED
  BY <1>1, <1>3, QueueNames, TakesBack

LEMMA KickGoes ==
  ASSUME Sound(queue, guest), Kick
  PROVE  Goes
<1> DEFINE q == Head(guest.todo).q
           s == ProcessNotify(Now, q)
<1>1. /\ guest.step = "kick" /\ guest.todo # <<>> /\ guest.phase # "probe"
      /\ guest' = IF q = CTX THEN [guest EXCEPT !.step = "spin"]
                  ELSE [guest EXCEPT !.step = "slot", !.todo = Tail(@)]
  BY DEF Kick, Sound, GuestOK, Fresh
<1>2. Shape(guest) /\ OfferList(guest.todo, Queues) /\ OfferList(Tail(guest.todo), Queues) /\ q \in Queues
  BY <1>1, OfferListTail DEF Sound, GuestOK
<1>3. GuestOK(guest') /\ guest'.phase # "probe" /\ guest'.step # "index"
  <2>1. CASE q = CTX
    BY <1>1, <1>2, <2>1 DEF GuestOK, Shape
  <2>2. CASE q # CTX
    BY <1>1, <1>2, <2>2 DEF GuestOK, Shape
  <2> QED
    BY <2>1, <2>2
<1>4. Stated(Now) /\ Now.queue = queue /\ \A p \in Queues : queue[p] \in Rings
  BY DEF Now, Stated, Sound, WellKept
<1>5. \E Q : Served(queue, queue', Q)
  <2>1. CASE noKick[q]
    <3>1. queue' = queue
      BY <2>1 DEF Kick
    <3> QED
      BY <1>4, <3>1, ServedNone DEF Stated
  <2>2. CASE ~noKick[q]
    <3>1. Stated(s) /\ Served(queue, s.queue, {TX, CTX})
      <4>1. CASE q = TX
        <5>1. s = ProcessTx(Now)
          BY <4>1, QueueNames DEF ProcessNotify
        <5>2. Stated(s) /\ Served(queue, s.queue, {TX})
          BY <1>4, <5>1, TxServes
        <5> QED
          BY <5>2 DEF Served
      <4>2. CASE q = CTX
        <5>1. s = ProcessCtrlTx(Now)
          BY <4>2, QueueNames DEF ProcessNotify
        <5>2. Stated(s) /\ Served(queue, s.queue, {CTX})
          BY <1>4, <5>1, CtrlTxServes
        <5> QED
          BY <5>2 DEF Served
      <4>3. CASE q # TX /\ q # CTX
        <5>1. s = Now
          BY <4>3 DEF ProcessNotify
        <5> QED
          BY <1>4, <5>1, ServedNone DEF Stated
      <4> QED
        BY <4>1, <4>2, <4>3
    <3> HIDE DEF s
    <3>2. queue' = s.queue \/ queue' = DeliverCtrlRx(s).queue
      BY <2>2 DEF Kick, Put, s, q
    <3>3. \A p \in Queues : s.queue[p] \in Rings
      <4> SUFFICES ASSUME NEW p \in Queues PROVE s.queue[p] \in Rings
        OBVIOUS
      <4>1. WellKept(queue[p], StagedAs(queue, guest, p))
        BY DEF Sound
      <4>2. WellKept(s.queue[p], StagedAs(queue, guest, p))
        BY <3>1, <4>1, ServedMoves
      <4> QED
        BY <4>2 DEF WellKept
    <3>4. Served(s.queue, DeliverCtrlRx(s).queue, {CRX})
      BY <3>1, <3>3, CtrlRxServes
    <3>5. {TX, CTX} \cap {CRX} = {}
      BY QueueNames
    <3>6. Served(queue, DeliverCtrlRx(s).queue, {TX, CTX} \cup {CRX})
      BY <3>1, <3>4, <3>5, ServedBoth
    <3> QED
      BY <3>1, <3>2, <3>6
  <2> QED
    BY <2>1, <2>2
<1>6. PICK Q : Served(queue, queue', Q)
  BY <1>5
<1>7. guest' = guest \/ (guest.step # "index" /\ guest'.step # "index" /\ guest'.phase # "probe")
  BY <1>1, <1>3
<1>8. Sound(queue', guest') /\ \A p \in Queues : Moves(queue[p], queue'[p])
  BY ONLY Sound(queue, guest), <1>3, <1>6, <1>7, DeviceStep
<1> QED
  BY <1>8 DEF Goes

\* Steps that leave the queues alone and end with nothing staged.
LEMMA StaysPut ==
  ASSUME Sound(queue, guest), queue' = queue, guest.todo = <<>>, GuestOK(guest'), guest'.step = guest.step,
         Fresh(queue, guest')
  PROVE  Goes
BY GuestStep DEF Goes

\* The guest with nothing to offer.
LEMMA ReadyFacts ==
  ASSUME Sound(queue, guest), Ready
  PROVE  /\ guest.todo = <<>> /\ guest.step = "slot" /\ Shape(guest) /\ OfferList(guest.todo, Queues)
         /\ guest.phase = "probe" =>
              /\ guest.inbox = <<>> /\ guest.outbox = <<>>
              /\ \A q \in Queues : ~HasUsed(q)
<1>1. guest.todo = <<>> /\ guest.step = "slot" /\ Shape(guest) /\ OfferList(guest.todo, Queues)
  BY DEF Ready, Sound, GuestOK
<1>2. ASSUME guest.phase = "probe", NEW q \in Queues PROVE ~HasUsed(q)
  <2> DEFINE r == queue[q]
  <2>1. Returned(r) = <<>> /\ r \in Rings
    BY <1>2 DEF Sound, Fresh, WellKept
  <2>2. WellKept(r, {})
    BY <1>1 DEF Sound, StagedAs
  <2> HIDE DEF r
  <2>3. r.lastUsed = r.usedIdx
    BY <2>1, <2>2, CollectStep
  <2> QED
    BY <2>3 DEF HasUsed, r
<1> QED
  BY <1>1, <1>2 DEF Sound, Fresh

LEMMA IrqGoes ==
  ASSUME Sound(queue, guest), TakeIrq \/ HandleIrq \/ FallAsleep \/ OpenPort
  PROVE  Goes
<1>1. Ready /\ queue' = queue
  BY DEF TakeIrq, HandleIrq, FallAsleep, OpenPort, AtRead
<1>2. guest.todo = <<>> /\ guest.step = "slot" /\ Shape(guest)
  BY <1>1, ReadyFacts
<1>3. /\ Shape(guest') /\ guest'.step = "slot" /\ OfferList(guest'.todo, Queues)
      /\ guest'.phase = "probe" => guest'.todo = <<>> /\ guest'.inbox = guest.inbox /\ guest'.outbox = guest.outbox
                                     /\ guest.phase = "probe"
  <2>1. OfferList(guest.todo, Queues) /\ OfferList(<<Offer(CTX, "PORT_OPEN")>>, Queues)
    BY <1>1, ReadyFacts, OfferListOne, QueueNames
  <2>2. CASE TakeIrq
    BY <1>2, <2>1, <2>2 DEF TakeIrq, Shape
  <2>3. CASE HandleIrq
    BY <1>2, <2>1, <2>3 DEF HandleIrq, Shape
  <2>4. CASE FallAsleep
    BY <1>2, <2>1, <2>4 DEF FallAsleep, Shape
  <2>5. CASE OpenPort
    <3>1. guest.phase = "open"
      BY <2>5 DEF OpenPort
    <3>2. CASE guest.connected
      <4>1. guest' = [guest EXCEPT !.phase = "marker", !.todo = <<Offer(CTX, "PORT_OPEN")>>]
        BY <2>5, <3>2 DEF OpenPort
      <4> QED
        BY <1>2, <2>1, <4>1 DEF Shape
    <3>3. CASE ~guest.connected /\ guest.tries + 1 = MaxTries
      <4>1. guest' = [guest EXCEPT !.phase = "nomarker", !.tries = MaxTries]
        BY <2>5, <3>3 DEF OpenPort
      <4> QED
        BY <1>2, <2>1, <4>1 DEF Shape
    <3>4. CASE ~guest.connected /\ guest.tries + 1 # MaxTries
      <4>1. guest' = [guest EXCEPT !.tries = @ + 1]
        BY <2>5, <3>4 DEF OpenPort
      <4> QED
        BY <1>2, <2>1, <3>1, <4>1 DEF Shape
    <3> QED
      BY <3>2, <3>3, <3>4
  <2> QED
    BY <2>2, <2>3, <2>4, <2>5
<1>4. GuestOK(guest') /\ Fresh(queue, guest')
  BY <1>3 DEF GuestOK, Fresh, Sound
<1> QED
  BY <1>1, <1>2, <1>3, <1>4, StaysPut

LEMMA ControlWorkGoes ==
  ASSUME Sound(queue, guest), ControlWork
  PROVE  Goes
<1>1. Ready
  BY DEF ControlWork
<1>2. guest.todo = <<>> /\ guest.step = "slot" /\ Shape(guest) /\ OfferList(guest.todo, Queues)
  BY <1>1, ReadyFacts
<1>3. CASE ~HasUsed(CRX)
  <2>1. queue' = queue /\ guest' = [guest EXCEPT !.work = FALSE]
    BY <1>3 DEF ControlWork
  <2>2. /\ GuestOK(guest') /\ guest'.step = guest.step /\ guest'.todo = guest.todo /\ guest'.phase = guest.phase
        /\ guest'.inbox = guest.inbox /\ guest'.outbox = guest.outbox
    BY <1>2, <2>1 DEF GuestOK, Shape
  <2>3. Fresh(queue, guest')
    BY <2>2 DEF Fresh, Sound
  <2> QED
    BY <1>2, <2>1, <2>2, <2>3, StaysPut
<1>4. CASE HasUsed(CRX)
  <2> DEFINE event == buf[CRX][Oldest(queue[CRX])]
             again == <<Offer(CRX, Empty)>>
  <2>1. /\ queue' = [queue EXCEPT ![CRX] = Collect(@)]
        /\ guest' = CASE event = "PORT_ADD"  -> [guest EXCEPT !.todo = again \o Refill(RX) \o <<Offer(CTX, "PORT_READY")>>]
                      [] event = "PORT_OPEN" -> [guest EXCEPT !.todo = again, !.connected = TRUE]
                      [] OTHER               -> [guest EXCEPT !.todo = again]
    BY <1>4 DEF ControlWork
  <2>2. OfferList(again, Queues) /\ OfferList(again \o Refill(RX) \o <<Offer(CTX, "PORT_READY")>>, Queues)
    BY QueueNames, OfferListOne, OfferListRefill, OfferListJoin
  <2> HIDE DEF again, event
  <2>3. GuestOK(guest') /\ guest'.phase = guest.phase /\ guest'.step = "slot"
    <3>1. CASE event = "PORT_ADD"
      BY <1>2, <2>1, <2>2, <3>1 DEF GuestOK, Shape
    <3>2. CASE event # "PORT_ADD" /\ event = "PORT_OPEN"
      BY <1>2, <2>1, <2>2, <3>2 DEF GuestOK, Shape
    <3>3. CASE event # "PORT_ADD" /\ event # "PORT_OPEN"
      BY <1>2, <2>1, <2>2, <3>3 DEF GuestOK, Shape
    <3> QED
      BY <3>1, <3>2, <3>3
  <2>4. CRX \in Queues /\ guest.phase # "probe"
    BY <1>1, <1>4, QueueNames, ReadyFacts
  <2>5. queue[CRX].lastUsed # queue[CRX].usedIdx /\ guest.step # "index"
    BY <1>2, <1>4 DEF HasUsed
  <2> QED
    BY <2>1, <2>3, <2>4, <2>5, TakesBack
<1> QED
  BY <1>3, <1>4

LEMMA ReadBufferGoes ==
  ASSUME Sound(queue, guest), ReadBuffer
  PROVE  Goes
<1>1. Ready /\ guest.phase = "loop" /\ HasUsed(RX)
  BY DEF ReadBuffer, AtRead
<1>2. guest.todo = <<>> /\ guest.step = "slot" /\ Shape(guest)
  BY <1>1, ReadyFacts
<1>3. /\ queue' = [queue EXCEPT ![RX] = Collect(@)]
      /\ guest' = [guest EXCEPT !.inbox = @ \o buf[RX][Oldest(queue[RX])], !.todo = <<Offer(RX, Empty)>>]
  BY DEF ReadBuffer
<1>4. GuestOK(guest') /\ guest'.phase = guest.phase /\ guest'.step = "slot"
  <2>1. OfferList(<<Offer(RX, Empty)>>, Queues)
    BY QueueNames, OfferListOne
  <2> QED
    BY <1>2, <1>3, <2>1 DEF GuestOK, Shape
<1>5. RX \in Queues /\ queue[RX].lastUsed # queue[RX].usedIdx
  BY <1>1, QueueNames DEF HasUsed
<1> QED
  BY <1>1, <1>2, <1>3, <1>4, <1>5, TakesBack

LEMMA ProcessRequestGoes ==
  ASSUME Sound(queue, guest), ProcessRequest
  PROVE  Goes
<1>1. Ready /\ HasLine /\ queue' = queue
  BY DEF ProcessRequest
<1>2. guest.todo = <<>> /\ guest.step = "slot" /\ Shape(guest) /\ OfferList(guest.todo, Queues)
  BY <1>1, ReadyFacts
<1>3. guest.phase # "probe"
  BY <1>1, ReadyFacts DEF HasLine
<1> DEFINE n == LineEnd(guest.inbox)
           l == Line(guest.inbox[n].cmd)
<1>4. guest' = [guest EXCEPT !.outbox = l, !.inbox = SubSeq(@, n + 1, Len(@))]
  BY DEF ProcessRequest
<1> HIDE DEF n, l
<1>5. GuestOK(guest') /\ guest'.phase = guest.phase /\ guest'.step = guest.step
  BY <1>2, <1>4 DEF GuestOK, Shape
<1>6. Fresh(queue, guest')
  BY <1>3, <1>5 DEF Fresh
<1> QED
  BY <1>1, <1>2, <1>5, <1>6, StaysPut

LEMMA WritesGo ==
  ASSUME Sound(queue, guest), ReclaimTx \/ WriteBuffer
  PROVE  Goes
<1>1. Ready /\ guest.outbox # <<>>
  BY DEF ReclaimTx, WriteBuffer
<1>2. /\ guest.todo = <<>> /\ guest.step = "slot" /\ Shape(guest) /\ OfferList(guest.todo, Queues)
      /\ guest.phase # "probe"
  BY <1>1, ReadyFacts
<1>3. CASE ReclaimTx
  <2>1. /\ queue' = [queue EXCEPT ![TX] = Collect(@)] /\ guest' = guest
        /\ queue[TX].lastUsed # queue[TX].usedIdx /\ TX \in Queues
    BY <1>3, QueueNames DEF ReclaimTx, HasUsed
  <2>2. GuestOK(guest') /\ guest'.phase = guest.phase /\ guest'.step = "slot"
    BY <1>2, <2>1 DEF Sound
  <2> QED
    BY <1>2, <2>1, <2>2, TakesBack
<1>4. CASE WriteBuffer
  <2>1. queue' = queue /\ guest' = [guest EXCEPT !.todo = <<Offer(TX, Head(guest.outbox))>>, !.outbox = Tail(@)]
    BY <1>4 DEF WriteBuffer
  <2>2. OfferList(<<Offer(TX, Head(guest.outbox))>>, Queues)
    BY QueueNames, OfferListOne
  <2>3. GuestOK(guest') /\ guest'.phase = guest.phase /\ guest'.step = guest.step
    BY <1>2, <2>1, <2>2 DEF GuestOK, Shape
  <2>4. Fresh(queue, guest')
    BY <1>2, <2>3 DEF Fresh
  <2> QED
    BY <1>2, <2>1, <2>3, <2>4, StaysPut
<1> QED
  BY <1>1, <1>3, <1>4

-----------------------------------------------------------------------------
(* The host, and the whole                                                 *)

\* After a step: the machine is sound, and unless it was replaced the queues moved as Fifos.
LEMMA StepGoes ==
  ASSUME Inv, Next
  PROVE  Inv' /\ (Fork \/ Reset \/ \A q \in Queues : Moves(queue[q], queue'[q]))
<1> USE DEF Inv
<1>1. CASE Guest
  <2>1. snap' = snap
    BY <1>1 DEF Guest, Probe, WriteSlot, WriteIndex, Kick, Spin, TakeIrq, HandleIrq, ControlWork,
                OpenPort, ReadBuffer, FallAsleep, ProcessRequest, ReclaimTx, WriteBuffer
  <2>2. Goes
    BY <1>1, ProbeGoes, WriteSlotGoes, WriteIndexGoes, KickGoes, SpinGoes, IrqGoes, ControlWorkGoes,
       ReadBufferGoes, ProcessRequestGoes, WritesGo DEF Guest
  <2> QED
    BY <2>1, <2>2 DEF Goes
<1>2. CASE TakeSnapshot
  <2>1. /\ queue' = queue /\ guest' = guest /\ guest.todo = <<>>
        /\ snap' = [queue |-> queue, buf |-> buf,
                    guest |-> [guest EXCEPT !.phase = IF @ = "marker" THEN "loop" ELSE "uart"]]
    BY <1>2 DEF TakeSnapshot
  <2> DEFINE h == [guest EXCEPT !.phase = IF @ = "marker" THEN "loop" ELSE "uart"]
  <2>2. GuestOK(h) /\ h.phase # "probe" /\ h.step = guest.step /\ h.todo = guest.todo
    BY DEF Sound, GuestOK, Shape
  <2>3. snap'.queue = queue /\ snap'.guest = h
    BY <2>1
  <2> HIDE DEF h
  <2>4. Sound(queue, h)
    BY <2>2 DEF Sound, Fresh, StagedAs
  <2>5. \A q \in Queues : Moves(queue[q], queue'[q])
    BY <2>1 DEF Moves, Stutters
  <2> QED
    BY <2>1, <2>2, <2>3, <2>4, <2>5
<1>3. CASE Fork \/ Reset
  <2>1. queue' = snap.queue /\ guest' = snap.guest /\ snap' = snap
    BY <1>3 DEF Fork, Reset, Restore
  <2> QED
    BY <1>3, <2>1
<1>4. CASE Exec \/ ExecTurn \/ Settle
  <2>1. Stated(Now) /\ Now.queue = queue /\ \A p \in Queues : queue[p] \in Rings
    BY DEF Now, Stated, Sound, WellKept
  <2>2. snap' = snap /\ guest' = guest
    BY <1>4 DEF Exec, ExecTurn, Settle
  <2>3. Stated(PollTx(Now)) /\ Served(queue, PollTx(Now).queue, {TX})
    BY <2>1, TxServes, ServedNone DEF PollTx, Stated
  <2>4. \E Q : Served(queue, queue', Q)
    <3>1. CASE Exec
      <4> DEFINE s == [Now EXCEPT !.dev = PushInput(dev, Line(host.cmd + 1))]
      <4>1. queue' = DeliverRx(s).queue
        BY <3>1 DEF Exec, Put
      <4>2. Stated(s) /\ s.queue = queue
        BY <2>1 DEF Stated, Now
      <4> HIDE DEF s
      <4>3. Served(s.queue, DeliverRx(s).queue, {CRX, RX})
        BY <2>1, <4>2, RxServes
      <4> QED
        BY <4>1, <4>2, <4>3
    <3>2. CASE ExecTurn
      <4> DEFINE s == PollTx(Now)
                 n == LineEnd(s.dev.out)
      <4>1. CASE n > 0
        <5> DEFINE t == [s EXCEPT !.dev.out = SubSeq(@, n + 1, Len(@))]
        <5>1. queue' = t.queue
          BY <3>2, <4>1 DEF ExecTurn, Put
        <5>2. t.queue = s.queue
          <6> HIDE DEF s, n
          <6> QED
            BY <2>3 DEF Stated, s
        <5> QED
          BY <2>3, <5>1, <5>2
      <4>2. CASE ~(n > 0)
        <5>1. queue' = DeliverRx(s).queue
          BY <3>2, <4>2 DEF ExecTurn, Put
        <5> HIDE DEF s
        <5>2. \A p \in Queues : s.queue[p] \in Rings
          <6> SUFFICES ASSUME NEW p \in Queues PROVE s.queue[p] \in Rings
            OBVIOUS
          <6>1. WellKept(queue[p], StagedAs(queue, guest, p))
            BY DEF Sound
          <6>2. WellKept(s.queue[p], StagedAs(queue, guest, p))
            BY <2>3, <6>1, ServedMoves DEF s
          <6> QED
            BY <6>2 DEF WellKept
        <5>3. Served(s.queue, DeliverRx(s).queue, {CRX, RX})
          BY <2>3, <5>2, RxServes DEF s
        <5>4. {TX} \cap {CRX, RX} = {}
          BY QueueNames
        <5>5. Served(queue, DeliverRx(s).queue, {TX} \cup {CRX, RX})
          BY <2>3, <5>3, <5>4, ServedBoth DEF s
        <5> QED
          BY <5>1, <5>5
      <4> QED
        BY <4>1, <4>2
    <3>3. CASE Settle
      <4>1. queue' = PollTx(Now).queue
        BY <3>3 DEF Settle, Put
      <4> QED
        BY <2>3, <4>1
    <3> QED
      BY <1>4, <3>1, <3>2, <3>3
  <2>5. PICK Q : Served(queue, queue', Q)
    BY <2>4
  <2>6. GuestOK(guest') /\ guest' = guest
    BY <2>2 DEF Sound
  <2>7. Sound(queue', guest') /\ \A q \in Queues : Moves(queue[q], queue'[q])
    BY <2>5, <2>6, DeviceStep
  <2> QED
    BY <2>2, <2>7
<1>5. CASE SettleGivesUp \/ Timeout
  <2>1. queue' = queue /\ guest' = guest /\ snap' = snap
    BY <1>5 DEF SettleGivesUp, Timeout
  <2> QED
    BY <2>1 DEF Moves, Stutters
<1> QED
  BY <1>1, <1>2, <1>3, <1>4, <1>5 DEF Next

LEMMA InitSound ==
  ASSUME Init
  PROVE  Inv
<1>1. /\ queue = [q \in Queues |-> ResetRing]
      /\ guest.phase = "probe" /\ guest.todo = <<>> /\ guest.step = "slot"
      /\ guest.inbox = <<>> /\ guest.outbox = <<>> /\ Shape(guest)
      /\ snap.queue = queue /\ snap.guest = guest
  BY DEF Init, Shape
<1>2. WellKept(ResetRing, {}) /\ Offered(ResetRing) = <<>> /\ Returned(ResetRing) = <<>>
  BY ResetWellKept
<1>3. GuestOK(guest)
  BY <1>1, OfferListEmpty DEF GuestOK
<1>4. Sound(queue, guest)
  BY <1>1, <1>2, <1>3 DEF Sound, Fresh, Queueful, StagedAs
<1> QED
  BY <1>1, <1>4 DEF Inv

\* No queue loses, repeats or reorders a buffer, whatever the handlers serve at a time
\* and however often its indices wrap, until the machine is replaced by the snapshot.
THEOREM QueuesCorrect == Spec => QueuesAreFifos
<1>1. Init => Inv
  BY InitSound
<1>2. Inv /\ [Next]_vars
        => Inv' /\ [Fork \/ Reset \/ \A q \in Queues : [Queued(q)!Next]_<<Offered(queue[q]), Returned(queue[q])>>]_vars
  <2> SUFFICES ASSUME Inv, [Next]_vars
               PROVE  Inv' /\ [Fork \/ Reset \/ \A q \in Queues : [Queued(q)!Next]_<<Offered(queue[q]), Returned(queue[q])>>]_vars
    OBVIOUS
  <2>1. CASE Next
    <3>1. Inv' /\ (Fork \/ Reset \/ \A q \in Queues : Moves(queue[q], queue'[q]))
      BY <2>1, StepGoes
    <3>2. (\A q \in Queues : Moves(queue[q], queue'[q]))
            => \A q \in Queues : [Queued(q)!Next]_<<Offered(queue[q]), Returned(queue[q])>>
      BY MoveIsFifo
    <3> QED
      BY <3>1, <3>2
  <2>2. CASE UNCHANGED vars
    BY <2>2 DEF vars, Inv, Sound, Fresh, GuestOK, Shape, OfferList, Queueful, StagedAs
  <2> QED
    BY <2>1, <2>2
<1> QED
  BY <1>1, <1>2, PTL DEF Spec, QueuesAreFifos

-----------------------------------------------------------------------------
(* The lines, cut into chunks.  The two chunks of line c have the places   *)
(* 2c - 1 and 2c of one long stream, and what is somewhere on its way is a *)
(* segment of it.                                                          *)

Pieces == [cmd : Nat, end : BOOLEAN]
Place(x) == IF x.end THEN 2 * x.cmd ELSE 2 * x.cmd - 1

\* s is what lies between two places.
Seg(s, a, b) ==
  /\ s \in Seq(Pieces) /\ a \in Nat /\ b \in Nat
  /\ b = a + Len(s)
  /\ \A j \in 1 .. Len(s) : Place(s[j]) = a + j

\* A sequence of segments, each beginning where the one before it ends.
Chain(bufs, a, b) ==
  /\ a \in Nat /\ b \in Nat /\ Len(bufs) \in Nat /\ DOMAIN bufs = 1 .. Len(bufs)
  /\ \E P \in [0 .. Len(bufs) -> a .. b] :
       /\ P[0] = a /\ P[Len(bufs)] = b
       /\ \A k \in 1 .. Len(bufs) : Seg(bufs[k], P[k - 1], P[k])

LEMMA PlaceFacts ==
  ASSUME NEW x \in Pieces
  PROVE  /\ x.cmd \in Nat /\ x.end \in BOOLEAN /\ Place(x) \in Int
         /\ \A y \in Pieces : Place(x) = Place(y) => x = y
         /\ \A c \in Int : Place(x) = 2 * c => x.end = TRUE /\ x.cmd = c
         /\ \A c \in Int : Place(x) = 2 * c + 1 => x.end = FALSE /\ x.cmd = c + 1
<1>1. /\ x.cmd \in Nat /\ x.end \in BOOLEAN /\ Place(x) \in Int
  BY DEF Pieces, Place
<1>2. ASSUME NEW y \in Pieces, Place(x) = Place(y) PROVE x = y
  <2>1. y.cmd \in Nat /\ y.end \in BOOLEAN
    BY DEF Pieces
  <2>2. x.cmd = y.cmd /\ x.end = y.end
    <3>1. CASE x.end = y.end
      BY <1>1, <1>2, <2>1, <3>1 DEF Place
    <3>2. CASE x.end # y.end
      <4>1. 2 * x.cmd = 2 * y.cmd - 1 \/ 2 * x.cmd - 1 = 2 * y.cmd
        BY <1>1, <1>2, <2>1, <3>2 DEF Place
      <4> QED
        BY <1>1, <2>1, <4>1
    <3> QED
      BY <3>1, <3>2
  <2> QED
    BY <2>2 DEF Pieces
<1>3. ASSUME NEW c \in Int, Place(x) = 2 * c PROVE x.end = TRUE /\ x.cmd = c
  <2>1. CASE x.end = TRUE
    BY <1>1, <1>3, <2>1 DEF Place
  <2>2. CASE x.end = FALSE
    <3>1. 2 * x.cmd - 1 = 2 * c
      BY <1>3, <2>2 DEF Place
    <3> QED
      BY <1>1, <3>1
  <2> QED
    BY <1>1, <2>1, <2>2
<1>4. ASSUME NEW c \in Int, Place(x) = 2 * c + 1 PROVE x.end = FALSE /\ x.cmd = c + 1
  <2>1. CASE x.end = FALSE
    BY <1>1, <1>4, <2>1 DEF Place
  <2>2. CASE x.end = TRUE
    <3>1. 2 * x.cmd = 2 * c + 1
      BY <1>4, <2>2 DEF Place
    <3> QED
      BY <1>1, <3>1
  <2> QED
    BY <1>1, <2>1, <2>2
<1> QED
  BY <1>1, <1>2, <1>3, <1>4

\* There is one segment between two places.
LEMMA SegEqual ==
  ASSUME NEW s, NEW t, NEW a, NEW b, Seg(s, a, b), Seg(t, a, b)
  PROVE  s = t
<1>1. /\ s \in Seq(Pieces) /\ t \in Seq(Pieces) /\ Len(s) \in Nat /\ Len(t) \in Nat /\ a \in Nat
      /\ b = a + Len(s) /\ b = a + Len(t)
  BY LenProperties DEF Seg
<1>2. Len(s) = Len(t)
  BY <1>1
<1>3. ASSUME NEW j \in 1 .. Len(s) PROVE s[j] = t[j]
  <2>1. s[j] \in Pieces /\ t[j] \in Pieces
    BY <1>1, <1>2, ElementOfSeq
  <2>2. Place(s[j]) = a + j /\ Place(t[j]) = a + j
    BY <1>2 DEF Seg
  <2> QED
    BY <2>1, <2>2, PlaceFacts
<1> QED
  BY <1>1, <1>2, <1>3, SeqEqual

LEMMA SegEmpty ==
  ASSUME NEW a \in Nat
  PROVE  Seg(<<>>, a, a) /\ \A s, b : Seg(s, a, b) => (b \in Nat /\ a <= b /\ (b = a <=> s = <<>>))
<1>1. <<>> \in Seq(Pieces) /\ Len(<<>>) = 0
  BY EmptySeq
<1>2. Seg(<<>>, a, a)
  BY <1>1 DEF Seg
<1>3. ASSUME NEW s, NEW b, Seg(s, a, b) PROVE b \in Nat /\ a <= b /\ (b = a <=> s = <<>>)
  <2>1. s \in Seq(Pieces) /\ b \in Nat /\ b = a + Len(s) /\ Len(s) \in Nat
    BY <1>3, LenProperties DEF Seg
  <2>2. s # <<>> => Len(s) # 0
    BY <2>1, EmptySeq
  <2> QED
    BY <1>1, <2>1, <2>2
<1> QED
  BY <1>2, <1>3

LEMMA SegJoin ==
  ASSUME NEW s, NEW t, NEW a, NEW b, NEW c, Seg(s, a, b), Seg(t, b, c)
  PROVE  Seg(s \o t, a, c)
<1>1. /\ s \in Seq(Pieces) /\ t \in Seq(Pieces) /\ Len(s) \in Nat /\ Len(t) \in Nat /\ a \in Nat /\ c \in Nat
      /\ b = a + Len(s) /\ c = b + Len(t)
      /\ \A j \in 1 .. Len(s) : Place(s[j]) = a + j
      /\ \A j \in 1 .. Len(t) : Place(t[j]) = b + j
  BY LenProperties DEF Seg
<1>2. /\ s \o t \in Seq(Pieces) /\ Len(s \o t) = Len(s) + Len(t)
      /\ \A i \in 1 .. Len(s) + Len(t) : (s \o t)[i] = IF i <= Len(s) THEN s[i] ELSE t[i - Len(s)]
  BY <1>1, ConcatProperties
<1> DEFINE u == s \o t
<1> HIDE DEF u
<1>3. ASSUME NEW i \in 1 .. Len(s) + Len(t) PROVE Place(u[i]) = a + i
  <2>1. CASE i <= Len(s)
    BY <1>1, <1>2, <2>1 DEF u
  <2>2. CASE i > Len(s)
    <3>1. i - Len(s) \in 1 .. Len(t) /\ u[i] = t[i - Len(s)]
      BY <1>1, <1>2, <2>2 DEF u
    <3>2. Place(u[i]) = b + (i - Len(s))
      BY <1>1, <3>1
    <3> QED
      BY <1>1, <3>2
  <2> QED
    BY <1>1, <2>1, <2>2
<1>4. u \in Seq(Pieces) /\ Len(u) = Len(s) + Len(t) /\ c = a + Len(u)
  BY <1>1, <1>2 DEF u
<1>5. Seg(u, a, c)
  BY <1>1, <1>3, <1>4 DEF Seg
<1> QED
  BY <1>5 DEF u

\* A segment cut in two.
LEMMA SegCut ==
  ASSUME NEW s, NEW a, NEW b, Seg(s, a, b), NEW n \in 0 .. Len(s)
  PROVE  Seg(SubSeq(s, 1, n), a, a + n) /\ Seg(SubSeq(s, n + 1, Len(s)), a + n, b)
<1>1. /\ s \in Seq(Pieces) /\ Len(s) \in Nat /\ a \in Nat /\ b \in Nat /\ b = a + Len(s) /\ n \in Nat /\ n <= Len(s)
      /\ \A j \in 1 .. Len(s) : Place(s[j]) = a + j
      /\ \A j \in 1 .. Len(s) : s[j] \in Pieces
  BY LenProperties, ElementOfSeq DEF Seg
<1> DEFINE u == SubSeq(s, 1, n)
           v == SubSeq(s, n + 1, Len(s))
<1>2. u \in Seq(Pieces) /\ Len(u) = n /\ \A j \in 1 .. n : u[j] = s[j]
  BY <1>1, SubSeqProperties
<1>3. v \in Seq(Pieces) /\ Len(v) = Len(s) - n /\ \A j \in 1 .. Len(s) - n : v[j] = s[n + j]
  <2>1. /\ n + 1 \in Int /\ Len(s) \in Int /\ \A i \in n + 1 .. Len(s) : s[i] \in Pieces
    BY <1>1
  <2>2. /\ v \in Seq(Pieces) /\ Len(v) = IF n + 1 <= Len(s) THEN Len(s) - (n + 1) + 1 ELSE 0
        /\ \A i \in 1 .. Len(s) - (n + 1) + 1 : v[i] = s[(n + 1) + i - 1]
    BY <2>1, SubSeqProperties
  <2> HIDE DEF v
  <2>3. Len(v) = Len(s) - n
    BY <1>1, <2>2
  <2>4. ASSUME NEW j \in 1 .. Len(s) - n PROVE v[j] = s[n + j]
    <3>1. j \in 1 .. Len(s) - (n + 1) + 1 /\ (n + 1) + j - 1 = n + j
      BY <1>1
    <3> QED
      BY <2>2, <3>1
  <2> QED
    BY <2>2, <2>3, <2>4
<1> HIDE DEF u, v
<1>4. Seg(u, a, a + n)
  <2>1. a + n \in Nat /\ \A j \in 1 .. n : j \in 1 .. Len(s)
    BY <1>1
  <2>2. \A j \in 1 .. n : Place(u[j]) = a + j
    BY <1>1, <1>2, <2>1
  <2> QED
    BY <1>1, <1>2, <2>1, <2>2 DEF Seg
<1>5. ASSUME NEW j \in 1 .. Len(v) PROVE Place(v[j]) = (a + n) + j
  <2>1. n + j \in 1 .. Len(s) /\ v[j] = s[n + j]
    BY <1>1, <1>3
  <2>2. Place(v[j]) = a + (n + j)
    BY <1>1, <2>1
  <2> QED
    BY <1>1, <2>2
<1>6. Seg(v, a + n, b)
  BY <1>1, <1>3, <1>5 DEF Seg
<1> QED
  BY <1>4, <1>6 DEF u, v

\* One chunk before and after a segment.
LEMMA SegHead ==
  ASSUME NEW s, NEW a, NEW b, Seg(s, a, b), s # <<>>
  PROVE  Seg(<<Head(s)>>, a, a + 1) /\ Seg(Tail(s), a + 1, b)
<1>1. s \in Seq(Pieces) /\ Len(s) \in Nat \ {0}
  BY EmptySeq, LenProperties DEF Seg
<1>2. 1 \in 0 .. Len(s)
  BY <1>1
<1>3. Seg(SubSeq(s, 1, 1), a, a + 1) /\ Seg(SubSeq(s, 2, Len(s)), a + 1, b)
  <2>1. Seg(SubSeq(s, 1, 1), a, a + 1) /\ Seg(SubSeq(s, 1 + 1, Len(s)), a + 1, b)
    BY <1>2, SegCut
  <2>2. 1 + 1 = 2
    OBVIOUS
  <2> QED
    BY <2>1, <2>2, Zenon
<1>4. Tail(s) = SubSeq(s, 2, Len(s))
  BY <1>1, TailIsSubSeq
<1>5. SubSeq(s, 1, 1) = <<Head(s)>>
  <2>1. PICK x \in Pieces : s[1] = x /\ Head(s) = x
    BY <1>1, ElementOfSeq
  <2> DEFINE u == SubSeq(s, 1, 1)
  <2>2. u \in Seq(Pieces) /\ Len(u) = 1 /\ u[1] = x
    <3>1. 1 \in Int /\ \A i \in 1 .. 1 : s[i] \in Pieces
      BY <2>1
    <3>2. /\ u \in Seq(Pieces) /\ Len(u) = IF 1 <= 1 THEN 1 - 1 + 1 ELSE 0
          /\ \A i \in 1 .. 1 - 1 + 1 : u[i] = s[1 + i - 1]
      BY <3>1, SubSeqProperties
    <3> HIDE DEF u
    <3>3. Len(u) = 1
      BY <3>2
    <3>4. u[1] = s[1 + 1 - 1] /\ 1 + 1 - 1 = 1
      BY <3>2
    <3> QED
      BY <2>1, <3>2, <3>3, <3>4
  <2> HIDE DEF u
  <2>3. <<x>> \in Seq(Pieces) /\ Len(<<x>>) = 1 /\ <<x>>[1] = x
    BY <2>1
  <2>4. u = <<x>>
    BY <2>2, <2>3, SeqEqual
  <2> QED
    BY <2>1, <2>4 DEF u
<1> QED
  BY <1>3, <1>4, <1>5

LEMMA SegAppend ==
  ASSUME NEW s, NEW a, NEW b, NEW x, Seg(s, a, b), Seg(<<x>>, b, b + 1)
  PROVE  Seg(Append(s, x), a, b + 1)
<1>1. s \in Seq(Pieces) /\ <<x>> \in Seq(Pieces) /\ Len(<<x>>) = 1
  BY DEF Seg
<1>2. x \in Pieces
  <2>1. <<x>>[1] \in Pieces
    BY <1>1, ElementOfSeq
  <2> QED
    BY <2>1
<1>3. Append(s, x) = s \o <<x>>
  BY <1>1, <1>2
<1> QED
  BY <1>3, SegJoin

LEMMA SegLine ==
  ASSUME NEW c \in Nat
  PROVE  Seg(Line(c + 1), 2 * c, 2 * (c + 1))
<1> DEFINE x == Chunk(c + 1, FALSE)
           y == Chunk(c + 1, TRUE)
<1>1. x \in Pieces /\ y \in Pieces /\ Place(x) = 2 * c + 1 /\ Place(y) = 2 * c + 2
  BY DEF Chunk, Pieces, Place
<1>2. Line(c + 1) = <<x, y>>
  BY DEF Line
<1> HIDE DEF x, y
<1>3. <<x, y>> \in Seq(Pieces) /\ Len(<<x, y>>) = 2 /\ <<x, y>>[1] = x /\ <<x, y>>[2] = y
  BY <1>1
<1> DEFINE l == <<x, y>>
<1> HIDE DEF l
<1>4. \A j \in 1 .. Len(l) : Place(l[j]) = 2 * c + j
  <2>1. \A j \in 1 .. 2 : j = 1 \/ j = 2
    OBVIOUS
  <2> QED
    BY <1>1, <1>3, <2>1 DEF l
<1>5. l \in Seq(Pieces) /\ Len(l) = 2 /\ 2 * c \in Nat /\ 2 * (c + 1) \in Nat /\ 2 * (c + 1) = 2 * c + 2
  BY <1>3 DEF l
<1>6. Seg(l, 2 * c, 2 * (c + 1))
  BY <1>4, <1>5 DEF Seg
<1> QED
  BY <1>2, <1>6 DEF l

\* Where the first line of a segment ends that begins at one.
LEMMA SegLineEnd ==
  ASSUME NEW s, NEW c \in Nat, NEW b, Seg(s, 2 * c, b)
  PROVE  /\ LineEnd(s) > 0 <=> \E i \in DOMAIN s : s[i].end
         /\ LineEnd(s) > 0 =>
              /\ LineEnd(s) = 2 /\ 2 \in 0 .. Len(s) /\ s[2].cmd = c + 1
              /\ Seg(SubSeq(s, 2 + 1, Len(s)), 2 * (c + 1), b)
<1>1. /\ s \in Seq(Pieces) /\ Len(s) \in Nat /\ DOMAIN s = 1 .. Len(s)
      /\ \A j \in 1 .. Len(s) : Place(s[j]) = 2 * c + j
      /\ \A j \in 1 .. Len(s) : s[j] \in Pieces
  BY LenProperties, ElementOfSeq DEF Seg
<1>2. ASSUME ~\E i \in DOMAIN s : s[i].end PROVE LineEnd(s) = 0
  BY <1>2 DEF LineEnd
<1>3. ASSUME NEW i \in DOMAIN s, s[i].end
      PROVE  LineEnd(s) = 2 /\ 2 \in 0 .. Len(s) /\ s[2].cmd = c + 1
  <2>1. i \in Nat /\ 1 <= i /\ i <= Len(s)
    BY <1>1
  <2>2. 1 \in 1 .. Len(s) /\ s[1].end = FALSE
    <3>1. 1 \in 1 .. Len(s)
      BY <1>1, <2>1
    <3>2. s[1] \in Pieces /\ Place(s[1]) = 2 * c + 1 /\ c \in Int
      BY <1>1, <3>1
    <3> QED
      BY <3>1, <3>2, PlaceFacts
  <2>3. 2 \in 1 .. Len(s)
    <3>1. i # 1
      BY <1>3, <2>2
    <3> QED
      BY <1>1, <2>1, <3>1
  <2>4. s[2].end = TRUE /\ s[2].cmd = c + 1
    <3>1. s[2] \in Pieces /\ Place(s[2]) = 2 * (c + 1) /\ c + 1 \in Int
      BY <1>1, <2>3
    <3> QED
      BY <3>1, PlaceFacts
  <2> DEFINE S == {j \in DOMAIN s : s[j].end}
  <2>5. 2 \in S /\ \A y \in S : 2 <= y
    <3>1. ASSUME NEW y \in S PROVE 2 <= y
      <4>1. y \in 1 .. Len(s) /\ s[y].end
        BY <1>1
      <4>2. y # 1
        BY <2>2, <4>1
      <4> QED
        BY <1>1, <4>1, <4>2
    <3> QED
      BY <1>1, <2>3, <2>4, <3>1
  <2>6. \A y \in S : y \in Int
    BY <1>1
  <2> HIDE DEF S
  <2>7. Min(S) = 2
    <3>1. \E x \in S : \A y \in S : x =< y
      BY <2>5
    <3>2. Min(S) \in S /\ \A y \in S : Min(S) =< y
      BY <3>1 DEF Min
    <3>3. Min(S) <= 2 /\ 2 <= Min(S) /\ Min(S) \in Int
      BY <2>5, <2>6, <3>2
    <3> QED
      BY <3>3
  <2>8. LineEnd(s) = Min(S)
    BY <1>3 DEF LineEnd, S
  <2> QED
    BY <1>1, <2>3, <2>4, <2>7, <2>8
<1>4. ASSUME LineEnd(s) > 0 PROVE \E i \in DOMAIN s : s[i].end
  <2>1. LineEnd(s) # 0
    BY <1>4
  <2> QED
    BY <1>2, <2>1
<1>5. ASSUME 2 \in 0 .. Len(s) PROVE Seg(SubSeq(s, 2 + 1, Len(s)), 2 * (c + 1), b)
  <2>1. Seg(SubSeq(s, 2 + 1, Len(s)), 2 * c + 2, b)
    BY <1>5, SegCut
  <2>2. 2 * c + 2 = 2 * (c + 1)
    OBVIOUS
  <2> QED
    BY <2>1, <2>2, Zenon
<1>6. ASSUME \E i \in DOMAIN s : s[i].end
      PROVE  LineEnd(s) = 2 /\ 2 \in 0 .. Len(s) /\ s[2].cmd = c + 1 /\ LineEnd(s) > 0
  BY <1>3, <1>6
<1> QED
  BY <1>4, <1>5, <1>6

LEMMA LeastOf ==
  ASSUME NEW S \in SUBSET Nat, S # {}
  PROVE  \E n \in S : \A m \in S : n <= m
<1> DEFINE R == {ss \in Nat \X Nat : ss[1] < ss[2]}
<1>1. IsWellFoundedOn(R, Nat)
  BY NatLessThanWellFounded DEF OpToRel
<1>2. PICK n \in S : \A m \in S : ~(<<m, n>> \in R)
  <2> HIDE DEF R
  <2> QED BY <1>1, WFMin, Zenon
<1>3. \A m \in S : m \in Nat /\ n \in Nat /\ (n <= m \/ m < n)
  OBVIOUS
<1>4. \A m \in S : m < n => <<m, n>> \in R
  OBVIOUS
<1> QED BY <1>2, <1>3, <1>4

-----------------------------------------------------------------------------
(* Chains of segments.                                                     *)

\* The places at which the n segments of a chain meet.
Joints(bufs, a, b, n, P) ==
  /\ a \in Nat /\ b \in Nat /\ a <= b
  /\ n \in Nat /\ P \in [0 .. n -> a .. b]
  /\ Len(bufs) = n /\ DOMAIN bufs = 1 .. n
  /\ P[0] = a /\ P[n] = b
  /\ \A k \in 1 .. n : Seg(bufs[k], P[k - 1], P[k])

LEMMA ChainParts ==
  ASSUME NEW bufs, NEW a, NEW b, Chain(bufs, a, b)
  PROVE  \E n, P : Joints(bufs, a, b, n, P)
<1>1. a \in Nat /\ b \in Nat /\ Len(bufs) \in Nat /\ DOMAIN bufs = 1 .. Len(bufs)
  BY DEF Chain
<1>2. PICK P \in [0 .. Len(bufs) -> a .. b] :
             P[0] = a /\ P[Len(bufs)] = b /\ \A k \in 1 .. Len(bufs) : Seg(bufs[k], P[k - 1], P[k])
  BY DEF Chain
<1>3. a <= b
  <2>1. P[0] \in a .. b
    BY <1>1, <1>2
  <2> QED
    BY <1>1, <2>1
<1>4. Joints(bufs, a, b, Len(bufs), P)
  BY <1>1, <1>2, <1>3 DEF Joints
<1> QED
  BY <1>4

LEMMA ChainEmpty ==
  ASSUME NEW a \in Nat
  PROVE  Chain(<<>>, a, a)
<1> DEFINE P == [k \in 0 .. 0 |-> a]
<1>1. Len(<<>>) = 0 /\ DOMAIN <<>> = 1 .. 0 /\ 1 .. 0 = {}
  OBVIOUS
<1>2. P \in [0 .. 0 -> a .. a] /\ P[0] = a
  OBVIOUS
<1> HIDE DEF P
<1> QED
  BY <1>1, <1>2 DEF Chain

\* An empty chain ends where it begins.
LEMMA ChainEnds ==
  ASSUME NEW bufs, NEW a, NEW b, Chain(bufs, a, b)
  PROVE  a \in Nat /\ b \in Nat /\ a <= b /\ Len(bufs) \in Nat /\ DOMAIN bufs = 1 .. Len(bufs)
         /\ (Len(bufs) = 0 => a = b)
<1>1. PICK n, P : Joints(bufs, a, b, n, P)
  BY ChainParts
<1> QED
  BY <1>1 DEF Joints

LEMMA ChainHead ==
  ASSUME NEW bufs, NEW a, NEW b, Chain(bufs, a, b), NEW rest, Len(bufs) # 0,
         Len(rest) = Len(bufs) - 1, DOMAIN rest = 1 .. Len(bufs) - 1,
         \A k \in 1 .. Len(bufs) - 1 : rest[k] = bufs[k + 1]
  PROVE  \E c \in Nat : Seg(bufs[1], a, c) /\ Chain(rest, c, b)
<1>1. PICK n, P : Joints(bufs, a, b, n, P)
  BY ChainParts
<1>2. /\ a \in Nat /\ b \in Nat /\ a <= b
      /\ n \in Nat /\ P \in [0 .. n -> a .. b]
      /\ Len(bufs) = n /\ DOMAIN bufs = 1 .. n
      /\ P[0] = a /\ P[n] = b
      /\ \A k \in 1 .. n : Seg(bufs[k], P[k - 1], P[k])
  BY <1>1 DEF Joints
<1>3. n - 1 \in Nat /\ 1 \in 1 .. n /\ 1 - 1 = 0
  BY <1>2
<1>4. Seg(bufs[1], a, P[1])
  <2>1. Seg(bufs[1], P[1 - 1], P[1])
    BY <1>2, <1>3
  <2> QED
    BY <1>2, <1>3, <2>1
<1> DEFINE c == P[1]
           R == [k \in 0 .. n - 1 |-> P[k + 1]]
<1>5. c \in Nat /\ c <= b /\ a <= c
  <2>1. c \in a .. b
    BY <1>2, <1>3
  <2> QED
    BY <1>2, <2>1
<1>6. ASSUME NEW k \in 1 .. n PROVE P[k] \in c .. b
  <2> DEFINE S == {j \in Nat : j \in 1 .. n /\ ~(c <= P[j])}
  <2>1. \A j \in 1 .. n : P[j] \in a .. b
    BY <1>2
  <2>2. S = {}
    <3> SUFFICES ASSUME S # {} PROVE FALSE
      OBVIOUS
    <3>1. S \in SUBSET Nat
      OBVIOUS
    <3> HIDE DEF S
    <3>2. PICK j \in S : \A i \in S : j <= i
      BY <3>1, LeastOf
    <3>3. j \in 1 .. n /\ ~(c <= P[j]) /\ j # 1
      BY <1>5, <3>2 DEF S
    <3>4. j - 1 \in 1 .. n /\ j - 1 \in Nat /\ ~(j <= j - 1)
      BY <1>2, <3>3
    <3>5. j - 1 \notin S
      BY <3>2, <3>4
    <3>6. c <= P[j - 1]
      BY <3>4, <3>5 DEF S
    <3>7. Seg(bufs[j], P[j - 1], P[j])
      BY <1>2, <3>3
    <3>8. P[j - 1] \in Nat /\ P[j] \in Nat /\ P[j - 1] <= P[j]
      BY <3>7, SegEmpty DEF Seg
    <3> QED
      BY <1>5, <3>3, <3>6, <3>8
  <2>3. c <= P[k]
    <3>0. k \in Nat /\ k \in 1 .. n
      BY <1>2
    <3>1. k \notin S
      BY <1>2, <2>2
    <3> QED
      BY <3>1
  <2>4. P[k] \in a .. b
    BY <2>1
  <2> QED
    BY <1>2, <1>5, <2>3, <2>4
<1>7. R \in [0 .. n - 1 -> c .. b] /\ R[0] = c /\ R[n - 1] = b
  <2>1. \A k \in 0 .. n - 1 : k + 1 \in 1 .. n
    BY <1>2, <1>3
  <2>2. \A k \in 0 .. n - 1 : P[k + 1] \in c .. b
    BY <1>6, <2>1
  <2>3. 0 \in 0 .. n - 1 /\ n - 1 \in 0 .. n - 1 /\ 0 + 1 = 1 /\ (n - 1) + 1 = n
    BY <1>2, <1>3
  <2>4. R[0] = P[0 + 1] /\ R[n - 1] = P[(n - 1) + 1]
    BY <2>3, Zenon
  <2>5. R[0] = c /\ R[n - 1] = b
    BY <1>2, <2>3, <2>4
  <2>6. R \in [0 .. n - 1 -> c .. b]
    BY <2>2
  <2> QED
    BY <2>5, <2>6
<1>8. ASSUME NEW k \in 1 .. n - 1 PROVE Seg(rest[k], R[k - 1], R[k])
  <2>1. k + 1 \in 1 .. n /\ (k + 1) - 1 = k /\ k - 1 \in 0 .. n - 1 /\ k \in 0 .. n - 1 /\ (k - 1) + 1 = k
    BY <1>2, <1>3
  <2>2. Seg(bufs[k + 1], P[(k + 1) - 1], P[k + 1])
    BY <1>2, <2>1
  <2>3. R[k - 1] = P[(k - 1) + 1] /\ R[k] = P[k + 1]
    BY <2>1, Zenon
  <2>4. rest[k] = bufs[k + 1]
    BY <1>2
  <2> HIDE DEF R
  <2> QED
    BY <2>1, <2>2, <2>3, <2>4
<1> HIDE DEF R
<1>9. Len(rest) = n - 1 /\ DOMAIN rest = 1 .. n - 1
  BY <1>2
<1>10. Chain(rest, c, b)
  BY <1>2, <1>3, <1>5, <1>7, <1>8, <1>9 DEF Chain
<1> QED
  BY <1>4, <1>5, <1>10

LEMMA ChainAppend ==
  ASSUME NEW bufs, NEW a, NEW b, NEW c, Chain(bufs, a, b), NEW more, NEW s, Seg(s, b, c),
         Len(more) = Len(bufs) + 1, DOMAIN more = 1 .. Len(bufs) + 1,
         \A k \in 1 .. Len(bufs) : more[k] = bufs[k], more[Len(bufs) + 1] = s
  PROVE  Chain(more, a, c)
<1>1. PICK n, P : Joints(bufs, a, b, n, P)
  BY ChainParts
<1>2. /\ a \in Nat /\ b \in Nat /\ a <= b
      /\ n \in Nat /\ P \in [0 .. n -> a .. b]
      /\ Len(bufs) = n /\ DOMAIN bufs = 1 .. n
      /\ P[0] = a /\ P[n] = b
      /\ \A k \in 1 .. n : Seg(bufs[k], P[k - 1], P[k])
  BY <1>1 DEF Joints
<1>3. c \in Nat /\ b <= c
  BY <1>2, SegEmpty
<1> DEFINE R == [k \in 0 .. n + 1 |-> IF k <= n THEN P[k] ELSE c]
<1>4. R \in [0 .. n + 1 -> a .. c]
  <2>1. ASSUME NEW k \in 0 .. n + 1 PROVE (IF k <= n THEN P[k] ELSE c) \in a .. c
    <3>1. CASE k <= n
      <4>1. P[k] \in a .. b
        BY <1>2, <3>1
      <4> QED
        BY <1>2, <1>3, <3>1, <4>1
    <3>2. CASE ~(k <= n)
      BY <1>2, <1>3, <3>2
    <3> QED
      BY <3>1, <3>2
  <2> QED
    BY <2>1
<1>5. R[n + 1] = c /\ \A k \in 0 .. n : R[k] = P[k]
  <2>1. n + 1 \in 0 .. n + 1 /\ ~(n + 1 <= n)
    BY <1>2
  <2>2. \A k \in 0 .. n : k \in 0 .. n + 1 /\ k <= n
    BY <1>2
  <2> QED
    BY <2>1, <2>2
<1> HIDE DEF R
<1>6. R[0] = a
  BY <1>2, <1>5
<1>7. ASSUME NEW k \in 1 .. n + 1 PROVE Seg(more[k], R[k - 1], R[k])
  <2>1. CASE k <= n
    <3>1. k \in 1 .. n /\ k \in 0 .. n /\ k - 1 \in 0 .. n
      BY <1>2, <2>1
    <3>2. Seg(bufs[k], P[k - 1], P[k]) /\ more[k] = bufs[k] /\ R[k - 1] = P[k - 1] /\ R[k] = P[k]
      BY <1>2, <1>5, <3>1
    <3> QED
      BY <3>2
  <2>2. CASE ~(k <= n)
    <3>1. k = n + 1 /\ k - 1 = n /\ n \in 0 .. n
      BY <1>2, <2>2
    <3>2. R[k - 1] = b /\ R[k] = c /\ more[k] = s
      BY <1>2, <1>5, <3>1
    <3> QED
      BY <3>2
  <2> QED
    BY <2>1, <2>2
<1>8. Len(more) = n + 1 /\ DOMAIN more = 1 .. n + 1 /\ n + 1 \in Nat
  BY <1>2
<1> QED
  BY <1>2, <1>3, <1>4, <1>5, <1>6, <1>7, <1>8 DEF Chain

-----------------------------------------------------------------------------
(* What a chain is when it is put together.                                *)

PieceAt(x) == CHOOSE p \in Pieces : Place(p) = x
Between(a, b) == [j \in 1 .. b - a |-> PieceAt(a + j)]

LEMMA BetweenSeg ==
  ASSUME NEW a \in Nat, NEW b \in Nat, a <= b
  PROVE  Seg(Between(a, b), a, b)
<1>1. ASSUME NEW x \in Nat, x > 0 PROVE PieceAt(x) \in Pieces /\ Place(PieceAt(x)) = x
  <2>1. \E c \in Nat : x = 2 * c + 1 \/ x = 2 * (c + 1)
    <3> DEFINE m == x % 2
               h == x \div 2
    <3>1. m \in 0 .. 1 /\ h \in Int /\ x = 2 * h + m
      OBVIOUS
    <3> HIDE DEF m, h
    <3>2. CASE m = 1
      <4>1. h \in Nat /\ x = 2 * h + 1
        BY <1>1, <3>1, <3>2
      <4> QED
        BY <4>1
    <3>3. CASE m = 0
      <4>1. h - 1 \in Nat /\ x = 2 * ((h - 1) + 1)
        BY <1>1, <3>1, <3>3
      <4> QED
        BY <4>1
    <3> QED
      BY <3>1, <3>2, <3>3
  <2>2. PICK c \in Nat : x = 2 * c + 1 \/ x = 2 * (c + 1)
    BY <2>1
  <2>3. \E p \in Pieces : Place(p) = x
    <3>1. CASE x = 2 * c + 1
      <4>1. Chunk(c + 1, FALSE) \in Pieces /\ Place(Chunk(c + 1, FALSE)) = x
        BY <3>1 DEF Chunk, Pieces, Place
      <4> QED
        BY <4>1
    <3>2. CASE x = 2 * (c + 1)
      <4>1. Chunk(c + 1, TRUE) \in Pieces /\ Place(Chunk(c + 1, TRUE)) = x
        BY <3>2 DEF Chunk, Pieces, Place
      <4> QED
        BY <4>1
    <3> QED
      BY <2>2, <3>1, <3>2
  <2> QED
    BY <2>3 DEF PieceAt
<1> DEFINE s == Between(a, b)
<1>2. b - a \in Nat /\ \A j \in 1 .. b - a : a + j \in Nat /\ a + j > 0
  OBVIOUS
<1>3. \A j \in 1 .. b - a : PieceAt(a + j) \in Pieces /\ Place(PieceAt(a + j)) = a + j
  BY <1>1, <1>2
<1>4. s \in [1 .. b - a -> Pieces] /\ \A j \in 1 .. b - a : s[j] = PieceAt(a + j)
  BY <1>3 DEF Between
<1>5. s \in Seq(Pieces) /\ Len(s) = b - a
  BY <1>2, <1>4, SeqDef
<1> HIDE DEF s
<1>6. \A j \in 1 .. Len(s) : Place(s[j]) = a + j
  BY <1>3, <1>4, <1>5
<1>7. Seg(s, a, b)
  BY <1>5, <1>6 DEF Seg
<1> QED
  BY <1>7 DEF s

\* A function on 1 .. n that says of each value how it comes from the one before is the only one.
Flattens(f, seqs, n) == \A i \in 1 .. n : f[i] = IF i = 1 THEN seqs[i] ELSE f[i - 1] \o seqs[i]

LEMMA OneFlattening ==
  ASSUME NEW n \in Nat, n > 0, NEW seqs, NEW f, NEW g, Flattens(f, seqs, n), Flattens(g, seqs, n)
  PROVE  f[n] = g[n]
<1> DEFINE S == {i \in Nat : i \in 1 .. n /\ f[i] # g[i]}
<1>1. S = {}
  <2> SUFFICES ASSUME S # {} PROVE FALSE
    OBVIOUS
  <2>1. S \in SUBSET Nat
    OBVIOUS
  <2> HIDE DEF S
  <2>2. PICK i \in S : \A j \in S : i <= j
    BY <2>1, LeastOf
  <2>3. i \in 1 .. n /\ f[i] # g[i]
    BY <2>2 DEF S
  <2>4. i # 1
    BY <2>3 DEF Flattens
  <2>5. i - 1 \in 1 .. n /\ i - 1 \in Nat /\ ~(i <= i - 1)
    BY <2>3, <2>4
  <2>6. i - 1 \notin S
    BY <2>2, <2>5
  <2>7. f[i - 1] = g[i - 1]
    BY <2>5, <2>6 DEF S
  <2>8. f[i] = f[i - 1] \o seqs[i] /\ g[i] = g[i - 1] \o seqs[i]
    BY <2>3, <2>4 DEF Flattens
  <2> QED
    BY <2>3, <2>7, <2>8
<1>2. n \in 1 .. n
  OBVIOUS
<1> QED
  BY <1>1, <1>2

LEMMA ChainFlat ==
  ASSUME NEW bufs, NEW a, NEW b, Chain(bufs, a, b)
  PROVE  Len(bufs) # 0 => Seg(FlattenSeq(bufs), a, b)
<1> SUFFICES ASSUME Len(bufs) # 0 PROVE Seg(FlattenSeq(bufs), a, b)
  OBVIOUS
<1>1. PICK n, P : Joints(bufs, a, b, n, P)
  BY ChainParts
<1>2. /\ a \in Nat /\ b \in Nat /\ a <= b
      /\ n \in Nat /\ P \in [0 .. n -> a .. b]
      /\ Len(bufs) = n /\ DOMAIN bufs = 1 .. n
      /\ P[0] = a /\ P[n] = b
      /\ \A k \in 1 .. n : Seg(bufs[k], P[k - 1], P[k])
  BY <1>1 DEF Joints
<1>3. n > 0
  BY <1>2
<1> DEFINE g == [i \in 1 .. n |-> Between(a, P[i])]
<1>4. \A i \in 0 .. n : P[i] \in Nat /\ a <= P[i]
  <2>1. \A i \in 0 .. n : P[i] \in a .. b
    BY <1>2
  <2> QED
    BY <1>2, <2>1
<1>5. \A i \in 1 .. n : g[i] = Between(a, P[i]) /\ Seg(g[i], a, P[i])
  <2>1. ASSUME NEW i \in 1 .. n PROVE g[i] = Between(a, P[i]) /\ Seg(g[i], a, P[i])
    <3>1. i \in 0 .. n
      BY <1>2
    <3>2. Seg(Between(a, P[i]), a, P[i])
      BY <1>2, <1>4, <3>1, BetweenSeg
    <3> QED
      BY <3>2
  <2> QED
    BY <2>1
<1>6. ASSUME NEW i \in 1 .. n PROVE g[i] = IF i = 1 THEN bufs[i] ELSE g[i - 1] \o bufs[i]
  <2>1. Seg(bufs[i], P[i - 1], P[i]) /\ Seg(g[i], a, P[i])
    BY <1>2, <1>5
  <2>2. CASE i = 1
    <3>1. Seg(bufs[i], a, P[i])
      BY <1>2, <2>1, <2>2
    <3>2. g[i] = bufs[i]
      BY <2>1, <3>1, SegEqual
    <3> QED
      BY <2>2, <3>2
  <2>3. CASE i # 1
    <3>1. i - 1 \in 1 .. n
      BY <1>2, <2>3
    <3>2. Seg(g[i - 1], a, P[i - 1])
      BY <1>5, <3>1
    <3> HIDE DEF g
    <3>3. Seg(g[i - 1] \o bufs[i], a, P[i])
      BY <2>1, <3>2, SegJoin
    <3>4. g[i] = g[i - 1] \o bufs[i]
      BY <2>1, <3>3, SegEqual
    <3> QED
      BY <2>3, <3>4
  <2> QED
    BY <2>2, <2>3
<1> DEFINE Eqn(h) == h = [i \in 1 .. Len(bufs) |-> IF i = 1 THEN bufs[i] ELSE h[i - 1] \o bufs[i]]
<1>8. Eqn(g)
  <2>1. g = [i \in 1 .. n |-> g[i]]
    OBVIOUS
  <2> HIDE DEF g
  <2>2. g = [i \in 1 .. n |-> IF i = 1 THEN bufs[i] ELSE g[i - 1] \o bufs[i]]
    BY <1>6, <2>1
  <2> QED
    BY <1>2, <2>2
<1> DEFINE f == CHOOSE h : Eqn(h)
<1>9. FlattenSeq(bufs) = f[Len(bufs)]
  BY DEF FlattenSeq
<1> HIDE DEF g
<1>10. Eqn(f)
  <2> HIDE DEF Eqn
  <2> QED
    BY <1>8, Zenon
<1> HIDE DEF f
<1>11. \A i \in 1 .. n : f[i] = IF i = 1 THEN bufs[i] ELSE f[i - 1] \o bufs[i]
  <2>2. ASSUME NEW i \in 1 .. n PROVE f[i] = IF i = 1 THEN bufs[i] ELSE f[i - 1] \o bufs[i]
    <3>1. i \in 1 .. Len(bufs)
      BY <1>2
    <3> DEFINE h == [j \in 1 .. Len(bufs) |-> IF j = 1 THEN bufs[j] ELSE f[j - 1] \o bufs[j]]
    <3>2. f = h
      BY <1>10, Zenon
    <3>3. h[i] = IF i = 1 THEN bufs[i] ELSE f[i - 1] \o bufs[i]
      BY <3>1, Zenon
    <3> HIDE DEF h
    <3> QED
      BY <3>2, <3>3, Zenon
  <2> QED
    BY <2>2
<1> HIDE DEF Eqn
<1>12. f[n] = g[n]
  <2>1. Flattens(f, bufs, n)
    BY <1>11 DEF Flattens
  <2>2. Flattens(g, bufs, n)
    BY <1>6 DEF Flattens
  <2> QED
    BY <1>2, <1>3, <2>1, <2>2, OneFlattening
<1>13. n \in 1 .. n
  BY <1>2, <1>3
<1>14. Seg(g[n], a, b)
  BY <1>2, <1>5, <1>13
<1> QED
  BY <1>2, <1>9, <1>12, <1>14

\* The lines after the first a, up to the first b.
LEMMA LinesSeg ==
  ASSUME NEW a \in Nat, NEW b \in Nat, a <= b
  PROVE  Seg(FlattenSeq([k \in 1 .. b - a |-> Line(a + k)]), 2 * a, 2 * b)
<1> DEFINE n == b - a
           ls == [k \in 1 .. b - a |-> Line(a + k)]
           P == [k \in 0 .. n |-> 2 * (a + k)]
<1>1. n \in Nat /\ b = a + n
  OBVIOUS
<1>2. ASSUME NEW k \in 1 .. n PROVE Seg(ls[k], P[k - 1], P[k])
  <2>1. (a + k) - 1 \in Nat /\ ((a + k) - 1) + 1 = a + k /\ k - 1 \in 0 .. n /\ k \in 0 .. n /\ a + (k - 1) = (a + k) - 1
    BY <1>1
  <2>2. Seg(Line(((a + k) - 1) + 1), 2 * ((a + k) - 1), 2 * (((a + k) - 1) + 1))
    BY <2>1, SegLine
  <2>3. Seg(Line(a + k), 2 * (a + (k - 1)), 2 * (a + k))
    BY <2>1, <2>2, Zenon
  <2>4. P[k - 1] = 2 * (a + (k - 1)) /\ P[k] = 2 * (a + k)
    BY <2>1, Zenon
  <2>5. ls[k] = Line(a + k)
    OBVIOUS
  <2> QED
    BY <2>3, <2>4, <2>5, Zenon
<1>3. P \in [0 .. n -> 2 * a .. 2 * b] /\ P[0] = 2 * a /\ P[n] = 2 * b
  BY <1>1
<1>4. DOMAIN ls = 1 .. n
  OBVIOUS
<1>5. Len(ls) = n
  <2> DEFINE V == {ls[k] : k \in 1 .. n}
  <2>1. ls \in [1 .. n -> V]
    OBVIOUS
  <2> HIDE DEF V, ls
  <2>2. ls \in Seq(V)
    BY <1>1, <2>1, SeqDef
  <2>3. DOMAIN ls = 1 .. Len(ls) /\ Len(ls) \in Nat
    BY <2>2, LenProperties
  <2> QED
    BY <1>1, <1>4, <2>3
<1>6. n = 0 => ls = <<>>
  OBVIOUS
<1>7. 2 * a \in Nat /\ 2 * b \in Nat
  OBVIOUS
<1> HIDE DEF ls, P, n
<1>8. Chain(ls, 2 * a, 2 * b)
  BY <1>1, <1>2, <1>3, <1>4, <1>5, <1>7 DEF Chain
<1>9. CASE n = 0
  <2>1. FlattenSeq(ls) = <<>> /\ 2 * a = 2 * b
    BY <1>1, <1>5, <1>6, <1>9 DEF FlattenSeq
  <2>2. Seg(<<>>, 2 * a, 2 * a)
    BY <1>7, SegEmpty
  <2>3. Seg(FlattenSeq(ls), 2 * a, 2 * b)
    BY <2>1, <2>2, Zenon
  <2> QED
    BY <2>3 DEF ls
<1>10. CASE n # 0
  <2>1. Seg(FlattenSeq(ls), 2 * a, 2 * b)
    BY <1>5, <1>8, <1>10, ChainFlat
  <2> QED
    BY <2>1 DEF ls
<1> QED
  BY <1>9, <1>10

-----------------------------------------------------------------------------
(* The way of a line: from the host's input into a receive buffer, to init, *)
(* which answers it, into a buffer to send and to the host's output.        *)

Answers(out, held, unsent, outbox, x, y) ==
  \E a, b, c \in Nat : Seg(out, x, a) /\ Seg(held, a, b) /\ Seg(unsent, b, c) /\ Seg(outbox, c, y)

Inputs(inbox, back, inp, y, z) ==
  \E e, f \in Nat : Seg(inbox, y, e) /\ Chain(back, e, f) /\ Seg(inp, f, z)

LEMMA AnswersWrite ==
  ASSUME NEW out, NEW held, NEW outbox, NEW x, NEW y, Answers(out, held, <<>>, outbox, x, y), outbox # <<>>
  PROVE  Answers(out, held, <<Head(outbox)>>, Tail(outbox), x, y)
<1>1. PICK a \in Nat, b \in Nat, c \in Nat : Seg(out, x, a) /\ Seg(held, a, b) /\ Seg(<<>>, b, c) /\ Seg(outbox, c, y)
  BY DEF Answers
<1>2. b = c
  BY <1>1, SegEmpty
<1>3. Seg(<<Head(outbox)>>, c, c + 1) /\ Seg(Tail(outbox), c + 1, y) /\ c + 1 \in Nat
  BY <1>1, SegHead
<1> QED
  BY <1>1, <1>2, <1>3 DEF Answers

LEMMA AnswersExpose ==
  ASSUME NEW out, NEW held, NEW o, NEW outbox, NEW x, NEW y, Answers(out, held, <<o>>, outbox, x, y)
  PROVE  Answers(out, Append(held, o), <<>>, outbox, x, y)
<1>1. PICK a \in Nat, b \in Nat, c \in Nat : Seg(out, x, a) /\ Seg(held, a, b) /\ Seg(<<o>>, b, c) /\ Seg(outbox, c, y)
  BY DEF Answers
<1>2. c = b + 1
  BY <1>1 DEF Seg
<1>3. Seg(Append(held, o), a, c)
  BY <1>1, <1>2, SegAppend
<1>4. Seg(<<>>, c, c)
  BY SegEmpty
<1> QED
  BY <1>1, <1>3, <1>4 DEF Answers

LEMMA AnswersServe ==
  ASSUME NEW out, NEW held, NEW unsent, NEW outbox, NEW x, NEW y, Answers(out, held, unsent, outbox, x, y)
  PROVE  Answers(out \o held, <<>>, unsent, outbox, x, y)
<1>1. PICK a \in Nat, b \in Nat, c \in Nat : Seg(out, x, a) /\ Seg(held, a, b) /\ Seg(unsent, b, c) /\ Seg(outbox, c, y)
  BY DEF Answers
<1>2. Seg(out \o held, x, b) /\ Seg(<<>>, b, b)
  BY <1>1, SegJoin, SegEmpty
<1> QED
  BY <1>1, <1>2 DEF Answers

\* The host takes the first line of what came out.
LEMMA AnswersLine ==
  ASSUME NEW out, NEW held, NEW unsent, NEW outbox, NEW base \in Nat, NEW y,
         Answers(out, held, unsent, outbox, 2 * base, y), LineEnd(out) > 0
  PROVE  /\ LineEnd(out) = 2 /\ out[2].cmd = base + 1
         /\ Answers(SubSeq(out, 2 + 1, Len(out)), held, unsent, outbox, 2 * (base + 1), y)
<1>1. PICK a \in Nat, b \in Nat, c \in Nat : Seg(out, 2 * base, a) /\ Seg(held, a, b) /\ Seg(unsent, b, c) /\ Seg(outbox, c, y)
  BY DEF Answers
<1>2. LineEnd(out) = 2 /\ out[2].cmd = base + 1 /\ Seg(SubSeq(out, 2 + 1, Len(out)), 2 * (base + 1), a)
  BY <1>1, SegLineEnd
<1> HIDE DEF Answers
<1>3. Answers(SubSeq(out, 2 + 1, Len(out)), held, unsent, outbox, 2 * (base + 1), y)
  <2> DEFINE u == SubSeq(out, 2 + 1, Len(out))
             x == 2 * (base + 1)
  <2>1. Seg(u, x, a)
    BY <1>2
  <2> HIDE DEF u, x
  <2>2. Answers(u, held, unsent, outbox, x, y)
    BY <1>1, <2>1 DEF Answers
  <2> QED
    BY <2>2 DEF u, x
<1> QED
  BY <1>2, <1>3

\* init answers a line.
LEMMA AnswersRequest ==
  ASSUME NEW out, NEW held, NEW unsent, NEW x, NEW m \in Nat, Answers(out, held, unsent, <<>>, x, 2 * m)
  PROVE  Answers(out, held, unsent, Line(m + 1), x, 2 * (m + 1))
<1>1. PICK a \in Nat, b \in Nat, c \in Nat : Seg(out, x, a) /\ Seg(held, a, b) /\ Seg(unsent, b, c) /\ Seg(<<>>, c, 2 * m)
  BY DEF Answers
<1>2. c = 2 * m
  BY <1>1, SegEmpty
<1>3. Seg(Line(m + 1), 2 * m, 2 * (m + 1))
  BY SegLine
<1> DEFINE l == Line(m + 1)
           y == 2 * (m + 1)
<1>4. Seg(l, c, y)
  BY <1>2, <1>3
<1> HIDE DEF l, y
<1>5. Answers(out, held, unsent, l, x, y)
  BY <1>1, <1>4 DEF Answers
<1> QED
  BY <1>5 DEF l, y

LEMMA InputsRequest ==
  ASSUME NEW inbox, NEW back, NEW inp, NEW m \in Nat, NEW z, Inputs(inbox, back, inp, 2 * m, z),
         \E i \in DOMAIN inbox : inbox[i].end
  PROVE  /\ LineEnd(inbox) = 2 /\ inbox[2].cmd = m + 1
         /\ Inputs(SubSeq(inbox, 2 + 1, Len(inbox)), back, inp, 2 * (m + 1), z)
<1>1. PICK e \in Nat, f \in Nat : Seg(inbox, 2 * m, e) /\ Chain(back, e, f) /\ Seg(inp, f, z)
  BY DEF Inputs
<1>2. LineEnd(inbox) > 0
  BY <1>1, SegLineEnd
<1>3. LineEnd(inbox) = 2 /\ inbox[2].cmd = m + 1 /\ Seg(SubSeq(inbox, 2 + 1, Len(inbox)), 2 * (m + 1), e)
  BY <1>1, <1>2, SegLineEnd
<1> DEFINE u == SubSeq(inbox, 2 + 1, Len(inbox))
           y == 2 * (m + 1)
<1>4. Seg(u, y, e)
  BY <1>3
<1> HIDE DEF u, y
<1>5. Inputs(u, back, inp, y, z)
  BY <1>1, <1>4 DEF Inputs
<1> QED
  BY <1>3, <1>5 DEF u, y

\* init reads the oldest buffer given back.
LEMMA InputsTake ==
  ASSUME NEW inbox, NEW back, NEW inp, NEW y, NEW z, Inputs(inbox, back, inp, y, z), Len(back) # 0,
         NEW rest, Len(rest) = Len(back) - 1, DOMAIN rest = 1 .. Len(back) - 1,
         \A k \in 1 .. Len(back) - 1 : rest[k] = back[k + 1]
  PROVE  Inputs(inbox \o back[1], rest, inp, y, z)
<1>1. PICK e \in Nat, f \in Nat : Seg(inbox, y, e) /\ Chain(back, e, f) /\ Seg(inp, f, z)
  BY DEF Inputs
<1>2. PICK c \in Nat : Seg(back[1], e, c) /\ Chain(rest, c, f)
  BY <1>1, ChainHead
<1>3. Seg(inbox \o back[1], y, c)
  BY <1>1, <1>2, SegJoin
<1> QED
  BY <1>1, <1>2, <1>3 DEF Inputs

\* The device puts what fits of its input into a buffer and gives it back.
LEMMA InputsDeliver ==
  ASSUME NEW inbox, NEW back, NEW inp, NEW y, NEW z, Inputs(inbox, back, inp, y, z), NEW n \in 0 .. Len(inp),
         NEW more, Len(more) = Len(back) + 1, DOMAIN more = 1 .. Len(back) + 1,
         \A k \in 1 .. Len(back) : more[k] = back[k], more[Len(back) + 1] = SubSeq(inp, 1, n)
  PROVE  Inputs(inbox, more, SubSeq(inp, n + 1, Len(inp)), y, z)
<1>1. PICK e \in Nat, f \in Nat : Seg(inbox, y, e) /\ Chain(back, e, f) /\ Seg(inp, f, z)
  BY DEF Inputs
<1>2. Seg(SubSeq(inp, 1, n), f, f + n) /\ Seg(SubSeq(inp, n + 1, Len(inp)), f + n, z)
  BY <1>1, SegCut
<1>3. Chain(more, e, f + n)
  BY <1>1, <1>2, ChainAppend
<1>4. f + n \in Nat
  BY <1>2 DEF Seg
<1> QED
  BY <1>1, <1>2, <1>3, <1>4 DEF Inputs

LEMMA InputsPush ==
  ASSUME NEW inbox, NEW back, NEW inp, NEW y, NEW c \in Nat, Inputs(inbox, back, inp, y, 2 * c)
  PROVE  Inputs(inbox, back, inp \o Line(c + 1), y, 2 * (c + 1))
<1>1. PICK e \in Nat, f \in Nat : Seg(inbox, y, e) /\ Chain(back, e, f) /\ Seg(inp, f, 2 * c)
  BY DEF Inputs
<1>2. Seg(Line(c + 1), 2 * c, 2 * (c + 1))
  BY SegLine
<1> DEFINE u == inp \o Line(c + 1)
           z == 2 * (c + 1)
<1>3. Seg(u, f, z)
  BY <1>1, <1>2, SegJoin
<1> HIDE DEF u, z
<1>4. Inputs(inbox, back, u, y, z)
  BY <1>1, <1>3 DEF Inputs
<1> QED
  BY <1>4 DEF u, z

\* Everything between the answers the host has read, up to base, and the commands it
\* has sent, up to cmd; init has answered m.
Flow(out, held, unsent, outbox, inbox, back, inp, base, cmd) ==
  \E m \in Nat : Answers(out, held, unsent, outbox, 2 * base, 2 * m) /\ Inputs(inbox, back, inp, 2 * m, 2 * cmd)

LEMMA ChainMoves ==
  ASSUME NEW bufs, NEW a, Chain(bufs, a, a), NEW w \in Nat
  PROVE  Chain(bufs, w, w)
<1>1. PICK n, P : Joints(bufs, a, a, n, P)
  BY ChainParts
<1>2. /\ a \in Nat /\ n \in Nat /\ P \in [0 .. n -> a .. a]
      /\ Len(bufs) = n /\ DOMAIN bufs = 1 .. n
      /\ \A k \in 1 .. n : Seg(bufs[k], P[k - 1], P[k])
  BY <1>1 DEF Joints
<1> DEFINE R == [k \in 0 .. n |-> w]
<1>3. ASSUME NEW k \in 1 .. n PROVE Seg(bufs[k], w, w)
  <2>1. k - 1 \in 0 .. n /\ k \in 0 .. n
    BY <1>2
  <2>2. P[k - 1] \in a .. a /\ P[k] \in a .. a
    BY <1>2, <2>1
  <2>3. P[k - 1] = a /\ P[k] = a
    BY <1>2, <2>2
  <2>4. Seg(bufs[k], a, a)
    BY <1>2, <2>3
  <2>5. bufs[k] = <<>>
    BY <1>2, <2>4, SegEmpty
  <2> QED
    BY <2>5, SegEmpty
<1>4. R \in [0 .. n -> w .. w] /\ R[0] = w /\ R[n] = w /\ \A k \in 1 .. n : R[k - 1] = w /\ R[k] = w
  <2>1. w \in w .. w /\ 0 \in 0 .. n /\ n \in 0 .. n /\ \A k \in 1 .. n : k - 1 \in 0 .. n /\ k \in 0 .. n
    BY <1>2
  <2> QED
    BY <2>1
<1> HIDE DEF R
<1>5. \A k \in 1 .. n : Seg(bufs[k], R[k - 1], R[k])
  BY <1>3, <1>4
<1> QED
  BY <1>2, <1>4, <1>5 DEF Chain

LEMMA FlowBounds ==
  ASSUME NEW out, NEW held, NEW unsent, NEW outbox, NEW inbox, NEW back, NEW inp, NEW base \in Nat, NEW cmd \in Nat,
         Flow(out, held, unsent, outbox, inbox, back, inp, base, cmd)
  PROVE  base <= cmd
<1>1. PICK m \in Nat : Answers(out, held, unsent, outbox, 2 * base, 2 * m) /\ Inputs(inbox, back, inp, 2 * m, 2 * cmd)
  BY DEF Flow
<1>2. PICK a \in Nat, b \in Nat, c \in Nat : Seg(out, 2 * base, a) /\ Seg(held, a, b) /\ Seg(unsent, b, c) /\ Seg(outbox, c, 2 * m)
  BY <1>1 DEF Answers
<1>3. PICK e \in Nat, f \in Nat : Seg(inbox, 2 * m, e) /\ Chain(back, e, f) /\ Seg(inp, f, 2 * cmd)
  BY <1>1 DEF Inputs
<1>4. 2 * base \in Nat /\ 2 * m \in Nat
  OBVIOUS
<1>5. 2 * base <= a /\ a <= b /\ b <= c /\ c <= 2 * m /\ 2 * m <= e /\ f <= 2 * cmd
  BY <1>2, <1>3, <1>4, SegEmpty
<1>6. e <= f
  BY <1>3, ChainEnds
<1> QED
  BY <1>5, <1>6

\* When all that was sent is answered nothing is on its way, and the machine may go
\* on as if it had answered any number of commands.
LEMMA FlowRests ==
  ASSUME NEW out, NEW held, NEW unsent, NEW outbox, NEW inbox, NEW back, NEW inp, NEW c \in Nat, NEW d \in Nat,
         Flow(out, held, unsent, outbox, inbox, back, inp, c, c)
  PROVE  Flow(<<>>, held, unsent, outbox, inbox, back, <<>>, d, d)
<1>1. PICK m \in Nat : Answers(out, held, unsent, outbox, 2 * c, 2 * m) /\ Inputs(inbox, back, inp, 2 * m, 2 * c)
  BY DEF Flow
<1>2. PICK p \in Nat, q \in Nat, r \in Nat : Seg(out, 2 * c, p) /\ Seg(held, p, q) /\ Seg(unsent, q, r) /\ Seg(outbox, r, 2 * m)
  BY <1>1 DEF Answers
<1>3. PICK e \in Nat, f \in Nat : Seg(inbox, 2 * m, e) /\ Chain(back, e, f) /\ Seg(inp, f, 2 * c)
  BY <1>1 DEF Inputs
<1>4. 2 * c \in Nat /\ 2 * m \in Nat /\ 2 * d \in Nat
  OBVIOUS
<1>5. 2 * c <= p /\ p <= q /\ q <= r /\ r <= 2 * m /\ 2 * m <= e /\ f <= 2 * c
  BY <1>2, <1>3, <1>4, SegEmpty
<1>6. e <= f
  BY <1>3, ChainEnds
<1>7. p = 2 * c /\ q = p /\ r = q /\ 2 * m = r /\ e = 2 * m /\ f = e
  BY <1>4, <1>5, <1>6
<1>8. held = <<>> /\ unsent = <<>> /\ outbox = <<>> /\ inbox = <<>>
  BY <1>2, <1>3, <1>4, <1>7, SegEmpty
<1>9. Chain(back, 2 * d, 2 * d)
  BY <1>3, <1>4, <1>7, ChainMoves
<1>10. Seg(<<>>, 2 * d, 2 * d)
  BY <1>4, SegEmpty
<1> DEFINE x == 2 * d
<1> HIDE DEF x
<1>11. x \in Nat /\ Chain(back, x, x) /\ Seg(<<>>, x, x)
  BY <1>4, <1>9, <1>10 DEF x
<1>12. Answers(<<>>, held, unsent, outbox, x, x) /\ Inputs(inbox, back, <<>>, x, x)
  BY <1>8, <1>11 DEF Answers, Inputs
<1>13. Answers(<<>>, held, unsent, outbox, 2 * d, 2 * d) /\ Inputs(inbox, back, <<>>, 2 * d, 2 * d)
  BY <1>12 DEF x
<1> HIDE DEF Answers, Inputs
<1> QED
  BY <1>13 DEF Flow

\* What is on the way, end to end, and the lines it has to be.
Together(out, held, unsent, outbox, inbox, back, inp) ==
  out \o held \o unsent \o outbox \o inbox \o FlattenSeq(back) \o inp
LinesOf(base, cmd) == FlattenSeq([k \in 1 .. cmd - base |-> Line(base + k)])

LEMMA FlowWhole ==
  ASSUME NEW out, NEW held, NEW unsent, NEW outbox, NEW inbox, NEW back, NEW inp, NEW base \in Nat, NEW cmd \in Nat,
         Flow(out, held, unsent, outbox, inbox, back, inp, base, cmd), Len(back) = 0 => back = <<>>
  PROVE  Together(out, held, unsent, outbox, inbox, back, inp) = LinesOf(base, cmd)
<1>1. PICK m \in Nat : Answers(out, held, unsent, outbox, 2 * base, 2 * m) /\ Inputs(inbox, back, inp, 2 * m, 2 * cmd)
  BY DEF Flow
<1>2. PICK a \in Nat, b \in Nat, c \in Nat : Seg(out, 2 * base, a) /\ Seg(held, a, b) /\ Seg(unsent, b, c) /\ Seg(outbox, c, 2 * m)
  BY <1>1 DEF Answers
<1>3. PICK e \in Nat, f \in Nat : Seg(inbox, 2 * m, e) /\ Chain(back, e, f) /\ Seg(inp, f, 2 * cmd)
  BY <1>1 DEF Inputs
<1>4. Seg(FlattenSeq(back), e, f)
  <2>1. CASE Len(back) = 0
    <3>1. back = <<>> /\ e = f /\ FlattenSeq(back) = <<>>
      BY <1>3, <2>1, ChainEnds DEF FlattenSeq
    <3> QED
      BY <1>3, <3>1, SegEmpty
  <2>2. CASE Len(back) # 0
    BY <1>3, <2>2, ChainFlat
  <2> QED
    BY <2>1, <2>2
<1> DEFINE s1 == out \o held
           s2 == s1 \o unsent
           s3 == s2 \o outbox
           s4 == s3 \o inbox
           s5 == s4 \o FlattenSeq(back)
           s6 == s5 \o inp
           x == 2 * base
           y == 2 * m
           z == 2 * cmd
<1> HIDE DEF x, y, z
<1>5. Seg(s1, x, b)
  BY <1>2, SegJoin DEF x
<1> HIDE DEF s1
<1>6. Seg(s2, x, c)
  BY <1>2, <1>5, SegJoin
<1> HIDE DEF s2
<1>7. Seg(s3, x, y)
  BY <1>2, <1>6, SegJoin DEF y
<1> HIDE DEF s3
<1>8. Seg(s4, x, e)
  BY <1>3, <1>7, SegJoin DEF y
<1> HIDE DEF s4
<1>9. Seg(s5, x, f)
  BY <1>4, <1>8, SegJoin
<1> HIDE DEF s5
<1>10. Seg(s6, x, z)
  BY <1>3, <1>9, SegJoin DEF z
<1> HIDE DEF s6
<1>11. base <= cmd
  BY FlowBounds
<1>12. Seg(FlattenSeq([k \in 1 .. cmd - base |-> Line(base + k)]), x, z)
  BY <1>11, LinesSeg DEF x, z
<1>13. s6 = FlattenSeq([k \in 1 .. cmd - base |-> Line(base + k)])
  BY <1>10, <1>12, SegEqual
<1> QED
  BY <1>13 DEF s1, s2, s3, s4, s5, s6, Together, LinesOf

-----------------------------------------------------------------------------
(* What the buffers of a list hold.                                        *)

Through(list, b) == [i \in DOMAIN list |-> b[list[i]]]
Stored(b) == {b[d] : d \in Desc}

LEMMA ThroughFacts ==
  ASSUME NEW list \in Seq(Desc), NEW b
  PROVE  /\ Len(list) \in Nat /\ DOMAIN list = 1 .. Len(list) /\ \A i \in 1 .. Len(list) : list[i] \in Desc
         /\ Len(Through(list, b)) = Len(list) /\ DOMAIN Through(list, b) = 1 .. Len(list)
         /\ \A i \in 1 .. Len(list) : Through(list, b)[i] = b[list[i]]
         /\ Through(list, b) \in Seq(Stored(b))
         /\ Len(list) = 0 => Through(list, b) = <<>>
<1>1. Len(list) \in Nat /\ DOMAIN list = 1 .. Len(list) /\ \A i \in 1 .. Len(list) : list[i] \in Desc
  BY LenProperties, ElementOfSeq
<1> DEFINE n == Len(list)
           V == Stored(b)
           t == Through(list, b)
<1>2. t \in [1 .. n -> V] /\ \A i \in 1 .. n : t[i] = b[list[i]]
  BY <1>1 DEF Through, Stored
<1> HIDE DEF t, V, n
<1>3. n \in Nat
  BY <1>1 DEF n
<1>4. t \in Seq(V)
  BY <1>2, <1>3, SeqDef
<1>5. Len(t) = n
  <2>1. DOMAIN t = 1 .. Len(t) /\ Len(t) \in Nat
    BY <1>4, LenProperties
  <2> QED
    BY <1>2, <1>3, <2>1
<1>6. n = 0 => t = <<>>
  BY <1>4, <1>5, EmptySeq
<1> QED
  BY <1>1, <1>2, <1>4, <1>5, <1>6 DEF t, V, n

LEMMA ThroughSame ==
  ASSUME NEW list, NEW b, NEW c, \A i \in DOMAIN list : b[list[i]] = c[list[i]]
  PROVE  Through(list, b) = Through(list, c)
BY DEF Through

LEMMA ThroughAppend ==
  ASSUME NEW list \in Seq(Desc), NEW d \in Desc, NEW b
  PROVE  Through(Append(list, d), b) = Append(Through(list, b), b[d])
<1> DEFINE V == Stored(b)
           s == Through(list, b)
           t == Through(Append(list, d), b)
           u == Append(s, b[d])
           n == Len(list)
<1>1. /\ Append(list, d) \in Seq(Desc) /\ Len(Append(list, d)) = n + 1 /\ n \in Nat
      /\ Append(list, d)[n + 1] = d /\ \A i \in 1 .. n : Append(list, d)[i] = list[i]
  BY AppendProperties, LenProperties
<1>2. s \in Seq(V) /\ Len(s) = n /\ \A i \in 1 .. n : s[i] = b[list[i]]
  BY ThroughFacts
<1>3. t \in Seq(V) /\ Len(t) = n + 1 /\ \A i \in 1 .. n + 1 : t[i] = b[Append(list, d)[i]]
  <2> DEFINE more == Append(list, d)
  <2>1. more \in Seq(Desc) /\ Len(more) = n + 1
    BY <1>1
  <2> HIDE DEF more, n
  <2>2. /\ Len(Through(more, b)) = Len(more) /\ Through(more, b) \in Seq(Stored(b))
        /\ \A i \in 1 .. Len(more) : Through(more, b)[i] = b[more[i]]
    BY <2>1, ThroughFacts
  <2>3. /\ Len(Through(more, b)) = n + 1 /\ \A i \in 1 .. n + 1 : Through(more, b)[i] = b[more[i]]
    BY <2>1, <2>2
  <2> QED
    BY <2>2, <2>3 DEF more
<1>4. b[d] \in V
  BY DEF Stored
<1> HIDE DEF s, t, V, n
<1>5. u \in Seq(V) /\ Len(u) = n + 1 /\ u[n + 1] = b[d] /\ \A i \in 1 .. n : u[i] = s[i]
  BY <1>1, <1>2, <1>4, AppendProperties
<1>6. ASSUME NEW i \in 1 .. n + 1 PROVE t[i] = u[i]
  <2>1. CASE i = n + 1
    BY <1>1, <1>3, <1>5, <2>1
  <2>2. CASE i # n + 1
    <3>1. i \in 1 .. n
      BY <1>1, <2>2
    <3> QED
      BY <1>1, <1>2, <1>3, <1>5, <3>1
  <2> QED
    BY <2>1, <2>2
<1> HIDE DEF u
<1>7. t = u
  BY <1>3, <1>5, <1>6, SeqEqual
<1> QED
  BY <1>7 DEF s, t, u

-----------------------------------------------------------------------------
(* The stream in a state of the machine.                                   *)

\* The chunk the driver is writing.
UnsentOf(g) ==
  IF g.todo # <<>> /\ g.step \in {"slot", "index"} /\ Head(g.todo).q = TX
  THEN <<Head(g.todo).what>> ELSE <<>>

Stream(out, inp, qs, bf, g, base, cmd) ==
  Flow(out, Through(Offered(qs[TX]), bf[TX]), UnsentOf(g), g.outbox, g.inbox, Through(Returned(qs[RX]), bf[RX]), inp,
       base, cmd)

\* The memory has a place for what each buffer holds.
BufOK(bf) == DOMAIN bf = Queues /\ \A q \in Queues : DOMAIN bf[q] = Desc

\* A chunk that is written and not yet shown to the device.
StagedHolds(qs, bf, g) ==
  g.step = "index" /\ Head(g.todo).q = TX
    => bf[TX][qs[TX].avail[Slot(qs[TX].availIdx)]] = Head(g.todo).what

LEMMA QueueLists ==
  ASSUME NEW qs, NEW g, Sound(qs, g), NEW q \in Queues
  PROVE  /\ qs[q] \in Rings /\ WellKept(qs[q], StagedAs(qs, g, q))
         /\ Offered(qs[q]) \in Seq(Desc) /\ Len(Offered(qs[q])) \in Nat
         /\ DOMAIN Offered(qs[q]) = 1 .. Len(Offered(qs[q]))
         /\ \A k \in 1 .. Len(Offered(qs[q])) : Offered(qs[q])[k] \in Desc
         /\ Returned(qs[q]) \in Seq(Desc) /\ Len(Returned(qs[q])) \in Nat
         /\ DOMAIN Returned(qs[q]) = 1 .. Len(Returned(qs[q]))
         /\ \A k \in 1 .. Len(Returned(qs[q])) : Returned(qs[q])[k] \in Desc
<1>1. WellKept(qs[q], StagedAs(qs, g, q))
  BY DEF Sound
<1>2. qs[q] \in Rings
  BY <1>1 DEF WellKept
<1> DEFINE r == qs[q]
<1> HIDE DEF r
<1>3. r \in Rings
  BY <1>2 DEF r
<1>4. Offered(r) \in Seq(Desc) /\ Returned(r) \in Seq(Desc)
  BY <1>3, Lists
<1>5. /\ Len(Offered(r)) \in Nat /\ DOMAIN Offered(r) = 1 .. Len(Offered(r))
      /\ Len(Returned(r)) \in Nat /\ DOMAIN Returned(r) = 1 .. Len(Returned(r))
      /\ \A k \in 1 .. Len(Offered(r)) : Offered(r)[k] \in Desc
      /\ \A k \in 1 .. Len(Returned(r)) : Returned(r)[k] \in Desc
  BY <1>4, LenProperties, ElementOfSeq
<1> QED
  BY <1>1, <1>2, <1>4, <1>5 DEF r

\* What is on the way is the same when the lists and what their buffers hold are.
LEMMA StreamSame ==
  ASSUME NEW out, NEW inp, NEW qs, NEW bf, NEW g, NEW base, NEW cmd, Stream(out, inp, qs, bf, g, base, cmd),
         NEW qt, NEW bt, NEW h,
         Offered(qt[TX]) = Offered(qs[TX]), Returned(qt[RX]) = Returned(qs[RX]),
         \A i \in DOMAIN Offered(qs[TX]) : bf[TX][Offered(qs[TX])[i]] = bt[TX][Offered(qs[TX])[i]],
         \A i \in DOMAIN Returned(qs[RX]) : bf[RX][Returned(qs[RX])[i]] = bt[RX][Returned(qs[RX])[i]],
         UnsentOf(h) = UnsentOf(g), h.inbox = g.inbox, h.outbox = g.outbox
  PROVE  Stream(out, inp, qt, bt, h, base, cmd)
<1>1. /\ Through(Offered(qs[TX]), bf[TX]) = Through(Offered(qt[TX]), bt[TX])
      /\ Through(Returned(qs[RX]), bf[RX]) = Through(Returned(qt[RX]), bt[RX])
  BY ThroughSame
<1> QED
  BY <1>1 DEF Stream

\* The device reads all that is offered to it.
LEMMA StreamServes ==
  ASSUME NEW out, NEW inp, NEW qs, NEW bf, NEW g, NEW base, NEW cmd, Stream(out, inp, qs, bf, g, base, cmd),
         Sound(qs, g), NEW qt, qt[TX] = Serve(qs[TX], Pending(qs[TX])), qt[RX] = qs[RX]
  PROVE  Stream(out \o Through(Offered(qs[TX]), bf[TX]), inp, qt, bf, g, base, cmd)
<1>1. TX \in Queues
  BY QueueNames
<1> DEFINE r == qs[TX]
           t == qt[TX]
           n == Pending(r)
<1>2. /\ r \in Rings /\ WellKept(r, StagedAs(qs, g, TX)) /\ Offered(r) \in Seq(Desc) /\ Len(Offered(r)) \in Nat
      /\ DOMAIN Offered(r) = 1 .. Len(Offered(r))
  BY <1>1, QueueLists
<1> HIDE DEF r
<1>3. n \in 0 .. n /\ n = Len(Offered(r))
  BY <1>2, PendingType, Lists DEF Pending
<1>4. Offered(t) = SubSeq(Offered(r), n + 1, Len(Offered(r)))
  <2>1. t = Serve(r, n)
    BY DEF r
  <2> HIDE DEF n, t
  <2> QED
    BY <1>2, <1>3, <2>1, ServeStep DEF n
<1> HIDE DEF n, t
<1>5. SubSeq(Offered(r), n + 1, Len(Offered(r))) = <<>>
  <2>1. n + 1 \in Int /\ Len(Offered(r)) \in Int /\ Len(Offered(r)) < n + 1
    BY <1>2, <1>3
  <2> QED
    BY <2>1, SubSeqEmpty
<1>6. Through(Offered(t), bf[TX]) = <<>>
  <2>1. Offered(t) = <<>>
    BY <1>4, <1>5
  <2>2. <<>> \in Seq(Desc) /\ Len(<<>>) = 0
    BY EmptySeq
  <2>3. Through(<<>>, bf[TX]) = <<>>
    BY <2>2, ThroughFacts
  <2> QED
    BY <2>1, <2>3
<1>7. PICK m \in Nat : /\ Answers(out, Through(Offered(r), bf[TX]), UnsentOf(g), g.outbox, 2 * base, 2 * m)
                       /\ Inputs(g.inbox, Through(Returned(qs[RX]), bf[RX]), inp, 2 * m, 2 * cmd)
  BY DEF Stream, Flow, r
<1>8. Answers(out \o Through(Offered(r), bf[TX]), <<>>, UnsentOf(g), g.outbox, 2 * base, 2 * m)
  BY <1>7, AnswersServe
<1> QED
  BY <1>6, <1>7, <1>8 DEF Stream, Flow, r, t

\* The oldest buffer offered to receive gets the first n chunks of the input.
LEMMA StreamDelivers ==
  ASSUME NEW out, NEW inp, NEW qs, NEW bf, NEW g, NEW base, NEW cmd, Stream(out, inp, qs, bf, g, base, cmd),
         Sound(qs, g), BufOK(bf), NEW n \in 0 .. Len(inp), HasOffer(qs[RX]),
         NEW qt, qt[RX] = Serve(qs[RX], 1), qt[TX] = qs[TX],
         NEW bt, bt[TX] = bf[TX], bt[RX] = [bf[RX] EXCEPT ![FirstOffer(qs[RX])] = SubSeq(inp, 1, n)]
  PROVE  Stream(out, SubSeq(inp, n + 1, Len(inp)), qt, bt, g, base, cmd)
<1>1. RX \in Queues
  BY QueueNames
<1> DEFINE r == qs[RX]
           t == qt[RX]
           d == FirstOffer(r)
           s == SubSeq(inp, 1, n)
           k == Len(Returned(r))
<1>2. /\ r \in Rings /\ WellKept(r, StagedAs(qs, g, RX)) /\ Offered(r) \in Seq(Desc) /\ Len(Offered(r)) \in Nat
      /\ DOMAIN Offered(r) = 1 .. Len(Offered(r))
      /\ Returned(r) \in Seq(Desc) /\ k \in Nat /\ DOMAIN Returned(r) = 1 .. k
      /\ \A i \in 1 .. k : Returned(r)[i] \in Desc
  BY <1>1, QueueLists
<1> HIDE DEF r
<1>3. 1 \in 0 .. Pending(r) /\ Pending(r) = Len(Offered(r)) /\ Len(Offered(r)) > 0
  <2>1. 1 \in 0 .. Pending(r)
    BY <1>2, PendingType DEF HasOffer, r
  <2>2. Pending(r) = Len(Offered(r))
    BY <1>2, Lists DEF Pending
  <2> QED
    BY <1>2, <2>1, <2>2
<1>4. Offered(r)[1] = d /\ d \in Desc
  <2>1. 1 \in 1 .. Len(Offered(r))
    BY <1>2, <1>3
  <2>2. Offered(r)[1] = r.avail[Slot(Plus(r.lastAvail, 1 - 1))]
    BY <1>2, <2>1, Lists
  <2>3. Plus(r.lastAvail, 1 - 1) = r.lastAvail
    <3>1. 1 - 1 = 0
      OBVIOUS
    <3>2. r.lastAvail \in Index
      BY <1>2, RingFields
    <3> QED
      BY <3>1, <3>2, PlusZero
  <2>4. Offered(r)[1] \in Desc
    BY <1>2, <2>1, ElementOfSeq
  <2> QED
    BY <2>2, <2>3, <2>4 DEF FirstOffer
<1>5. Returned(t) = Returned(r) \o SubSeq(Offered(r), 1, 1)
  <2>1. t = Serve(r, 1)
    BY DEF r
  <2> HIDE DEF t
  <2> QED
    BY <1>2, <1>3, <2>1, ServeStep
<1> HIDE DEF t, d, k
<1>6. /\ Returned(t) \in Seq(Desc) /\ Len(Returned(t)) = k + 1
      /\ Returned(t)[k + 1] = d /\ \A i \in 1 .. k : Returned(t)[i] = Returned(r)[i]
  <2> DEFINE u == SubSeq(Offered(r), 1, 1)
  <2>1. u \in Seq(Desc) /\ Len(u) = 1 /\ u[1] = d
    <3>1. 1 \in Int /\ \A i \in 1 .. 1 : Offered(r)[i] \in Desc
      BY <1>4
    <3>2. /\ u \in Seq(Desc) /\ Len(u) = IF 1 <= 1 THEN 1 - 1 + 1 ELSE 0
          /\ \A i \in 1 .. 1 - 1 + 1 : u[i] = Offered(r)[1 + i - 1]
      BY <3>1, SubSeqProperties
    <3> HIDE DEF u
    <3>3. Len(u) = 1
      BY <3>2
    <3>4. u[1] = Offered(r)[1 + 1 - 1] /\ 1 + 1 - 1 = 1
      BY <3>2
    <3> QED
      BY <1>4, <3>2, <3>3, <3>4
  <2> HIDE DEF u
  <2>2. /\ Returned(r) \o u \in Seq(Desc) /\ Len(Returned(r) \o u) = Len(Returned(r)) + Len(u)
        /\ \A i \in 1 .. Len(Returned(r)) + Len(u) :
             (Returned(r) \o u)[i] = IF i <= Len(Returned(r)) THEN Returned(r)[i] ELSE u[i - Len(Returned(r))]
    <3> DEFINE w == Returned(r)
    <3> HIDE DEF w
    <3>1. w \in Seq(Desc)
      BY <1>2 DEF w
    <3>2. /\ w \o u \in Seq(Desc) /\ Len(w \o u) = Len(w) + Len(u)
          /\ \A i \in 1 .. Len(w) + Len(u) : (w \o u)[i] = IF i <= Len(w) THEN w[i] ELSE u[i - Len(w)]
      <4>1. w \in Seq(Desc) /\ u \in Seq(Desc)
        BY <2>1, <3>1
      <4> QED
        BY ONLY <4>1, ConcatProperties
    <3> QED
      BY <3>2 DEF w
  <2> DEFINE v == Returned(r) \o u
  <2> HIDE DEF v
  <2>3. /\ v \in Seq(Desc) /\ Len(v) = k + 1
        /\ \A i \in 1 .. k + 1 : v[i] = IF i <= k THEN Returned(r)[i] ELSE u[i - k]
    BY <2>1, <2>2 DEF k, v
  <2>4. k + 1 \in 1 .. k + 1 /\ ~(k + 1 <= k) /\ (k + 1) - k = 1 /\ \A i \in 1 .. k : i \in 1 .. k + 1 /\ i <= k
    BY <1>2
  <2>5. v[k + 1] = d /\ \A i \in 1 .. k : v[i] = Returned(r)[i]
    BY <2>1, <2>3, <2>4
  <2> QED
    BY <1>5, <2>3, <2>5 DEF v, u
<1>7. \A i \in 1 .. k : Returned(r)[i] # d
  <2>1. 1 \in DOMAIN Offered(r)
    BY <1>2, <1>3
  <2> QED
    BY <1>2, <1>4, <2>1 DEF WellKept
<1>8. bt[RX][d] = s /\ \A e \in Desc : e # d => bt[RX][e] = bf[RX][e]
  <2>1. DOMAIN bf[RX] = Desc
    BY <1>1 DEF BufOK
  <2> QED
    BY <1>4, <2>1 DEF d, r
<1> HIDE DEF s
<1> DEFINE back == Through(Returned(r), bf[RX])
           more == Through(Returned(t), bt[RX])
<1>9. Len(back) = k /\ DOMAIN back = 1 .. k /\ \A i \in 1 .. k : back[i] = bf[RX][Returned(r)[i]]
  BY <1>2, ThroughFacts DEF k
<1>10. Len(more) = k + 1 /\ DOMAIN more = 1 .. k + 1 /\ \A i \in 1 .. k + 1 : more[i] = bt[RX][Returned(t)[i]]
  <2> DEFINE l == Returned(t)
  <2> HIDE DEF l
  <2>1. l \in Seq(Desc) /\ Len(l) = k + 1
    BY <1>6 DEF l
  <2>2. /\ Len(Through(l, bt[RX])) = Len(l) /\ DOMAIN Through(l, bt[RX]) = 1 .. Len(l)
        /\ \A i \in 1 .. Len(l) : Through(l, bt[RX])[i] = bt[RX][l[i]]
    BY <2>1, ThroughFacts
  <2>3. /\ Len(Through(l, bt[RX])) = k + 1 /\ DOMAIN Through(l, bt[RX]) = 1 .. k + 1
        /\ \A i \in 1 .. k + 1 : Through(l, bt[RX])[i] = bt[RX][l[i]]
    BY <2>1, <2>2
  <2> QED
    BY <2>3 DEF l
<1> HIDE DEF back, more
<1>11. \A i \in 1 .. k : more[i] = back[i]
  <2>1. ASSUME NEW i \in 1 .. k PROVE more[i] = back[i]
    <3>1. i \in 1 .. k + 1 /\ Returned(t)[i] = Returned(r)[i] /\ Returned(r)[i] # d /\ Returned(r)[i] \in Desc
      BY <1>2, <1>6, <1>7
    <3>2. PICK e \in Desc : e = Returned(r)[i] /\ e = Returned(t)[i] /\ e # d
      BY <3>1
    <3>3. more[i] = bt[RX][e] /\ back[i] = bf[RX][e]
      BY <1>9, <1>10, <3>1, <3>2
    <3>4. bt[RX][e] = bf[RX][e]
      BY <1>8, <3>2
    <3> QED
      BY <3>3, <3>4
  <2> QED
    BY <2>1
<1>12. more[k + 1] = s
  <2>1. k + 1 \in 1 .. k + 1
    BY <1>2
  <2> QED
    BY <1>6, <1>8, <1>10, <2>1
<1>13. PICK m \in Nat : /\ Answers(out, Through(Offered(qs[TX]), bf[TX]), UnsentOf(g), g.outbox, 2 * base, 2 * m)
                        /\ Inputs(g.inbox, back, inp, 2 * m, 2 * cmd)
  BY DEF Stream, Flow, r, back
<1>14. Inputs(g.inbox, more, SubSeq(inp, n + 1, Len(inp)), 2 * m, 2 * cmd)
  <2>1. /\ Len(more) = Len(back) + 1 /\ DOMAIN more = 1 .. Len(back) + 1
        /\ \A i \in 1 .. Len(back) : more[i] = back[i]
        /\ more[Len(back) + 1] = SubSeq(inp, 1, n)
    BY <1>9, <1>10, <1>11, <1>12 DEF s
  <2> QED
    BY <1>13, <2>1, InputsDeliver
<1> QED
  BY <1>13, <1>14 DEF Stream, Flow, t, more

-----------------------------------------------------------------------------
(* The stream through the handlers.                                        *)

DevOK(d) ==
  d = [intr |-> d.intr, out |-> d.out, in |-> d.in, rxPending |-> d.rxPending, ctrl |-> d.ctrl] /\ d.intr \in BOOLEAN

\* Device, queues and buffers as a handler finds and leaves them.
Passes(s, g, base, cmd) ==
  /\ Stated(s) /\ DevOK(s.dev) /\ BufOK(s.buf) /\ Sound(s.queue, g)
  /\ StagedHolds(s.queue, s.buf, g)
  /\ Stream(s.dev.out, s.dev.in, s.queue, s.buf, g, base, cmd)

\* The guest hears of what is given back to it.
Tells(s, t) == t.dev.intr \/ (~s.dev.intr /\ t.queue[RX] = s.queue[RX])

\* A handler that serves queues Q and leaves the chunks alone.
LEMMA HandlerStep ==
  ASSUME NEW s, NEW g, NEW base, NEW cmd, Passes(s, g, base, cmd),
         NEW t, NEW Q, Stated(t), Served(s.queue, t.queue, Q), TX \notin Q, RX \notin Q,
         DevOK(t.dev), t.dev.out = s.dev.out, t.dev.in = s.dev.in, s.dev.intr => t.dev.intr,
         BufOK(t.buf), t.buf[TX] = s.buf[TX], t.buf[RX] = s.buf[RX]
  PROVE  Passes(t, g, base, cmd) /\ Tells(s, t)
<1>1. t.queue[TX] = s.queue[TX] /\ t.queue[RX] = s.queue[RX]
  BY QueueNames DEF Served
<1>2. Sound(t.queue, g)
  <2>1. Sound(s.queue, g) /\ GuestOK(g)
    BY DEF Passes, Sound
  <2> QED
    BY <2>1, DeviceStep
<1>3. Stream(t.dev.out, t.dev.in, t.queue, t.buf, g, base, cmd)
  BY <1>1 DEF Passes, Stream
<1>4. StagedHolds(t.queue, t.buf, g)
  BY <1>1 DEF Passes, StagedHolds
<1> QED
  BY <1>1, <1>2, <1>3, <1>4 DEF Passes, Tells, DevOK

LEMMA PassesRings ==
  ASSUME NEW s, NEW g, NEW base, NEW cmd, Passes(s, g, base, cmd)
  PROVE  Stated(s) /\ \A q \in Queues : s.queue[q] \in Rings
BY DEF Passes, Sound, WellKept

\* The device with other ctrl messages and another interrupt status.
CtrlOf(d, c, i) == [d EXCEPT !.ctrl = c, !.intr = i]

DevShape(d) == d = [intr |-> d.intr, out |-> d.out, in |-> d.in, rxPending |-> d.rxPending, ctrl |-> d.ctrl]

LEMMA CtrlOfFields ==
  ASSUME NEW d, DevShape(d), NEW i, NEW c, NEW e, e = CtrlOf(d, c, i)
  PROVE  DevShape(e) /\ e.intr = i /\ e.out = d.out /\ e.in = d.in
BY DEF DevShape, CtrlOf

LEMMA DevSet ==
  ASSUME NEW d, DevOK(d), NEW i \in BOOLEAN, NEW c, d.intr => i
  PROVE  /\ DevOK(CtrlOf(d, c, i)) /\ CtrlOf(d, c, i).out = d.out /\ CtrlOf(d, c, i).in = d.in
         /\ d.intr => CtrlOf(d, c, i).intr
<1>1. DevShape(d)
  BY Zenon DEF DevShape, DevOK
<1> DEFINE e == CtrlOf(d, c, i)
<1> HIDE DEF e
<1>2. DevShape(e) /\ e.intr = i /\ e.out = d.out /\ e.in = d.in
  <2>1. e = CtrlOf(d, c, i)
    BY DEF e
  <2> QED
    BY <1>1, <2>1, CtrlOfFields
<1>3. DevOK(e) /\ e.out = d.out /\ e.in = d.in /\ (d.intr => e.intr)
  BY <1>2, Zenon DEF DevOK, DevShape
<1> QED
  BY <1>3, Zenon DEF e

LEMMA CtrlRxPasses ==
  ASSUME NEW s, NEW g, NEW base, NEW cmd, Passes(s, g, base, cmd)
  PROVE  /\ Passes(DeliverCtrlRx(s), g, base, cmd) /\ Tells(s, DeliverCtrlRx(s))
         /\ DeliverCtrlRx(s).queue[TX] = s.queue[TX] /\ DeliverCtrlRx(s).queue[RX] = s.queue[RX]
         /\ DeliverCtrlRx(s).buf[TX] = s.buf[TX]
         /\ DeliverCtrlRx(s).dev.out = s.dev.out /\ DeliverCtrlRx(s).dev.in = s.dev.in
<1> DEFINE q == s.queue[CRX]
           n == IF q.ready THEN Cardinality(DOMAIN s.dev.ctrl \cap (1 .. Pending(q))) ELSE 0
           d2 == [s.dev EXCEPT !.ctrl = SubSeq(@, n + 1, Len(@)), !.intr = @ \/ n > 0]
           cells == [d \in Desc |->
                       IF \E i \in 1 .. n : Offered(q)[i] = d
                       THEN s.dev.ctrl[CHOOSE i \in 1 .. n : Offered(q)[i] = d]
                       ELSE s.buf[CRX][d]]
           b2 == [s.buf EXCEPT ![CRX] = cells]
           q2 == [s.queue EXCEPT ![CRX] = Serve(@, n)]
           t == DeliverCtrlRx(s)
<1>1. Stated(t) /\ Served(s.queue, t.queue, {CRX})
  BY PassesRings, CtrlRxServes
<1>2. s = [dev |-> s.dev, queue |-> s.queue, buf |-> s.buf]
  BY DEF Passes, Stated
<1>3. t = [s EXCEPT !.dev = d2, !.buf = b2, !.queue = q2]
  <2>1. [s.buf EXCEPT ![CRX] = [d \in Desc |->
                                IF \E i \in 1 .. n : Offered(q)[i] = d
                                THEN s.dev.ctrl[CHOOSE i \in 1 .. n : Offered(q)[i] = d]
                                ELSE @[d]]] = b2
    <3> HIDE DEF n, q
    <3> QED
      OBVIOUS
  <2>2. t = [s EXCEPT !.dev = d2,
                      !.buf = [s.buf EXCEPT ![CRX] = [d \in Desc |->
                                IF \E i \in 1 .. n : Offered(q)[i] = d
                                THEN s.dev.ctrl[CHOOSE i \in 1 .. n : Offered(q)[i] = d]
                                ELSE @[d]]],
                      !.queue = q2]
    BY <1>2, Zenon DEF DeliverCtrlRx
  <2> HIDE DEF t, b2, d2, q2, n, q
  <2> QED
    BY <2>1, <2>2
<1> HIDE DEF q2, t
<1>4. t.dev = d2 /\ t.buf = b2
  <2> HIDE DEF d2, b2
  <2> QED
    BY <1>2, <1>3
<1>5. DevOK(d2) /\ d2.out = s.dev.out /\ d2.in = s.dev.in /\ (s.dev.intr => d2.intr)
  <2>1. DevOK(s.dev)
    BY DEF Passes
  <2> DEFINE c == SubSeq(s.dev.ctrl, n + 1, Len(s.dev.ctrl))
             i == s.dev.intr \/ n > 0
  <2>2. d2 = CtrlOf(s.dev, c, i)
    BY Zenon DEF CtrlOf
  <2> HIDE DEF n
  <2>3. i \in BOOLEAN /\ (s.dev.intr => i)
    OBVIOUS
  <2> HIDE DEF c, i, d2
  <2>4. \E i2 \in BOOLEAN : \E c2 : d2 = CtrlOf(s.dev, c2, i2) /\ (s.dev.intr => i2)
    BY <2>2, <2>3, Zenon
  <2>5. PICK i2 \in BOOLEAN : \E c2 : d2 = CtrlOf(s.dev, c2, i2) /\ (s.dev.intr => i2)
    BY <2>4
  <2> QED
    BY <2>1, <2>5, DevSet
<1>6. BufOK(b2) /\ b2[TX] = s.buf[TX] /\ b2[RX] = s.buf[RX]
  <2>1. BufOK(s.buf) /\ DOMAIN cells = Desc
    BY DEF Passes
  <2> HIDE DEF cells
  <2> QED
    BY <2>1, QueueNames DEF BufOK
<1> HIDE DEF d2, b2
<1>7. /\ DevOK(t.dev) /\ t.dev.out = s.dev.out /\ t.dev.in = s.dev.in /\ (s.dev.intr => t.dev.intr)
      /\ BufOK(t.buf) /\ t.buf[TX] = s.buf[TX] /\ t.buf[RX] = s.buf[RX]
  BY <1>4, <1>5, <1>6
<1>8. TX \notin {CRX} /\ RX \notin {CRX}
  BY QueueNames
<1>9. Passes(t, g, base, cmd) /\ Tells(s, t)
  BY <1>1, <1>7, <1>8, HandlerStep
<1>10. t.queue[TX] = s.queue[TX] /\ t.queue[RX] = s.queue[RX]
  BY <1>1, QueueNames DEF Served
<1> QED
  BY <1>7, <1>9, <1>10 DEF t

LEMMA CtrlTxPasses ==
  ASSUME NEW s, NEW g, NEW base, NEW cmd, Passes(s, g, base, cmd)
  PROVE  Passes(ProcessCtrlTx(s), g, base, cmd) /\ Tells(s, ProcessCtrlTx(s))
<1> DEFINE t == ProcessCtrlTx(s)
<1>1. Stated(t) /\ Served(s.queue, t.queue, {CTX})
  BY PassesRings, CtrlTxServes
<1>2. TX \notin {CTX} /\ RX \notin {CTX}
  BY QueueNames
<1>3. /\ DevOK(t.dev) /\ t.dev.out = s.dev.out /\ t.dev.in = s.dev.in /\ (s.dev.intr => t.dev.intr)
      /\ t.buf = s.buf
  <2>1. CASE ~s.queue[CTX].ready
    <3>1. t = s
      BY <2>1 DEF ProcessCtrlTx
    <3> QED
      BY <3>1 DEF Passes
  <2>2. CASE s.queue[CTX].ready
    <3> DEFINE more == FlattenSeq([i \in 1 .. Pending(s.queue[CTX]) |-> Reply(Contents(CTX)[i])])
               some == Pending(s.queue[CTX]) > 0
               d2 == [s.dev EXCEPT !.ctrl = @ \o more, !.intr = @ \/ some]
               q2 == [s.queue EXCEPT ![CTX] = Serve(@, Pending(@))]
    <3>1. s = [dev |-> s.dev, queue |-> s.queue, buf |-> s.buf] /\ DevOK(s.dev)
      BY DEF Passes, Stated
    <3>2. t = [s EXCEPT !.dev = d2, !.queue = q2]
      BY <2>2, <3>1, Zenon DEF ProcessCtrlTx
    <3>3. DevOK(d2) /\ d2.out = s.dev.out /\ d2.in = s.dev.in /\ (s.dev.intr => d2.intr)
      <4> DEFINE c == s.dev.ctrl \o more
                 i == s.dev.intr \/ some
      <4>1. d2 = CtrlOf(s.dev, c, i)
        BY Zenon DEF CtrlOf
      <4> HIDE DEF more, some
      <4>2. i \in BOOLEAN /\ (s.dev.intr => i)
        OBVIOUS
      <4> HIDE DEF c, i, d2
      <4>3. \E i2 \in BOOLEAN : \E c2 : d2 = CtrlOf(s.dev, c2, i2) /\ (s.dev.intr => i2)
        BY <4>1, <4>2, Zenon
      <4>4. PICK i2 \in BOOLEAN : \E c2 : d2 = CtrlOf(s.dev, c2, i2) /\ (s.dev.intr => i2)
        BY <4>3
      <4> QED
        BY <3>1, <4>4, DevSet
    <3> HIDE DEF d2, q2, t
    <3>4. t.dev = d2 /\ t.buf = s.buf
      BY <3>1, <3>2
    <3> QED
      BY <3>3, <3>4
  <2> QED
    BY <2>1, <2>2
<1> HIDE DEF t
<1>4. BufOK(t.buf) /\ t.buf[TX] = s.buf[TX] /\ t.buf[RX] = s.buf[RX]
  BY <1>3 DEF Passes
<1>5. Passes(t, g, base, cmd) /\ Tells(s, t)
  BY <1>1, <1>2, <1>3, <1>4, HandlerStep
<1> QED
  BY <1>5 DEF t

\* Without a ready queue nothing is offered on it.
LEMMA TxPasses ==
  ASSUME NEW g, NEW base, NEW cmd, Passes(Now, g, base, cmd)
  PROVE  Passes(ProcessTx(Now), g, base, cmd) /\ Tells(Now, ProcessTx(Now))
<1> DEFINE t == ProcessTx(Now)
           s == Now
<1>1. Stated(t) /\ Served(s.queue, t.queue, {TX}) /\ Stated(s)
  BY PassesRings, TxServes
<1>2. Now.queue = queue /\ Now.buf = buf /\ Now.dev = dev
  BY DEF Now
<1>3. CASE ~s.queue[TX].ready
  <2>1. t = s
    BY <1>3 DEF ProcessTx
  <2>2. Tells(s, s)
    BY DEF Tells, Passes, DevOK
  <2> QED
    BY <2>1, <2>2
<1>4. CASE s.queue[TX].ready
  <2> DEFINE more == Contents(TX)
             d2 == [s.dev EXCEPT !.out = @ \o more, !.intr = TRUE]
             q2 == [s.queue EXCEPT ![TX] = Serve(@, Pending(@))]
  <2>1. s = [dev |-> s.dev, queue |-> s.queue, buf |-> s.buf]
    BY <1>1 DEF Stated
  <2>2. t = [s EXCEPT !.dev = d2, !.queue = q2]
    <3>1. t = [s EXCEPT !.dev.out = @ \o Contents(TX), !.dev.intr = TRUE, !.queue[TX] = Serve(@, Pending(@))]
      BY <1>4, Zenon DEF ProcessTx
    <3> HIDE DEF more
    <3>2. [s EXCEPT !.dev.out = @ \o more, !.dev.intr = TRUE, !.queue[TX] = Serve(@, Pending(@))]
            = [s EXCEPT !.dev = d2, !.queue = q2]
      <4> HIDE DEF s, t
      <4> QED
        BY <2>1
    <3> QED
      BY <3>1, <3>2, Zenon DEF more
  <2>3. DevOK(d2) /\ d2.out = s.dev.out \o more /\ d2.in = s.dev.in /\ d2.intr = TRUE
    <3>1. DevShape(s.dev)
      BY Zenon DEF Passes, DevOK, DevShape
    <3> HIDE DEF more, s
    <3>2. PICK e : e = d2
      OBVIOUS
    <3>3. DevShape(e) /\ e.out = s.dev.out \o more /\ e.in = s.dev.in /\ e.intr = TRUE
      BY ONLY <3>1, <3>2 DEF DevShape
    <3> HIDE DEF d2
    <3> QED
      BY <3>2, <3>3, Zenon DEF DevOK, DevShape
  <2>4. more = Through(Offered(s.queue[TX]), s.buf[TX])
    <3>1. DOMAIN Offered(queue[TX]) = 1 .. Pending(queue[TX])
      BY DEF Offered, Window, Pending
    <3> QED
      BY <1>2, <3>1 DEF Contents, Through
  <2> HIDE DEF more, d2, q2, t, s
  <2>5. t.dev = d2 /\ t.queue = q2 /\ t.buf = s.buf
    BY <2>1, <2>2
  <2>6. Sound(s.queue, g) /\ GuestOK(g) /\ Stream(s.dev.out, s.dev.in, s.queue, s.buf, g, base, cmd)
        /\ StagedHolds(s.queue, s.buf, g) /\ BufOK(s.buf)
    BY DEF Passes, Sound, s
  <2>7. Sound(t.queue, g)
    BY <1>1, <2>6, DeviceStep
  <2>8. q2[TX] = Serve(s.queue[TX], Pending(s.queue[TX])) /\ q2[RX] = s.queue[RX]
    BY <2>6, QueueNames DEF Sound, Queueful, q2
  <2>9. Stream(t.dev.out, t.dev.in, t.queue, t.buf, g, base, cmd)
    <3>1. Stream(s.dev.out \o Through(Offered(s.queue[TX]), s.buf[TX]), s.dev.in, q2, s.buf, g, base, cmd)
      BY <2>6, <2>8, StreamServes
    <3> QED
      BY <2>3, <2>4, <2>5, <3>1
  <2>10. StagedHolds(t.queue, t.buf, g)
    <3>1. WellKept(s.queue[TX], StagedAs(s.queue, g, TX)) /\ s.queue[TX] \in Rings
      BY <2>6, QueueNames DEF Sound, WellKept
    <3>2. t.queue[TX].avail = s.queue[TX].avail /\ t.queue[TX].availIdx = s.queue[TX].availIdx
      BY <1>1, <3>1, QueueNames, ServedMoves
    <3> QED
      BY <2>5, <2>6, <3>2 DEF StagedHolds
  <2>11. Passes(t, g, base, cmd)
    BY <1>1, <2>3, <2>5, <2>6, <2>7, <2>9, <2>10 DEF Passes
  <2>12. Tells(s, t)
    BY <2>3, <2>5 DEF Tells
  <2> QED
    BY <2>11, <2>12 DEF s, t
<1> QED
  BY <1>3, <1>4

LEMMA PollPasses ==
  ASSUME NEW g, NEW base, NEW cmd, Passes(Now, g, base, cmd)
  PROVE  Passes(PollTx(Now), g, base, cmd) /\ Tells(Now, PollTx(Now))
<1>1. Tells(Now, Now)
  BY DEF Tells, Passes, DevOK
<1> QED
  BY <1>1, TxPasses DEF PollTx

LEMMA RxPasses ==
  ASSUME NEW s, NEW g, NEW base, NEW cmd, Passes(s, g, base, cmd)
  PROVE  Passes(DeliverRx(s), g, base, cmd) /\ Tells(s, DeliverRx(s)) /\ DeliverRx(s).dev.out = s.dev.out
<1> DEFINE t == DeliverCtrlRx(s)
           u == DeliverRx(s)
           q == t.queue[RX]
           n == Min({Room, Len(t.dev.in)})
<1>1. /\ Passes(t, g, base, cmd) /\ Tells(s, t) /\ t.dev.out = s.dev.out
  BY CtrlRxPasses
<1>2. Stated(u) /\ Served(s.queue, u.queue, {CRX, RX}) /\ Stated(t)
  BY <1>1, PassesRings, RxServes
<1>3. CASE ~t.dev.rxPending \/ t.dev.in = <<>> \/ ~HasOffer(q)
  <2>1. u = t
    BY <1>3 DEF DeliverRx
  <2> QED
    BY <1>1, <2>1
<1>4. CASE ~(~t.dev.rxPending \/ t.dev.in = <<>> \/ ~HasOffer(q))
  <2> DEFINE cut == SubSeq(t.dev.in, 1, n)
             d2 == [t.dev EXCEPT !.in = SubSeq(@, n + 1, Len(@)), !.rxPending = n < Len(t.dev.in), !.intr = TRUE]
             b2 == [t.buf EXCEPT ![RX] = [@ EXCEPT ![FirstOffer(q)] = cut]]
             q2 == [t.queue EXCEPT ![RX] = Serve(@, 1)]
  <2>1. t = [dev |-> t.dev, queue |-> t.queue, buf |-> t.buf]
    BY <1>2 DEF Stated
  <2>2. u = [t EXCEPT !.dev = d2, !.buf = b2, !.queue = q2]
    <3>1. u = [t EXCEPT !.buf[RX][FirstOffer(q)] = SubSeq(t.dev.in, 1, n),
                        !.dev.in = SubSeq(@, n + 1, Len(@)),
                        !.dev.rxPending = n < Len(t.dev.in),
                        !.dev.intr = TRUE,
                        !.queue[RX] = Serve(@, 1)]
      BY <1>4, Zenon DEF DeliverRx
    <3> HIDE DEF t, n, q
    <3>2. PICK p : p = (n < Len(t.dev.in))
      OBVIOUS
    <3>3. [t EXCEPT !.buf[RX][FirstOffer(q)] = SubSeq(t.dev.in, 1, n),
                        !.dev.in = SubSeq(@, n + 1, Len(@)),
                        !.dev.rxPending = p,
                        !.dev.intr = TRUE,
                        !.queue[RX] = Serve(@, 1)]
            = [t EXCEPT !.dev = [t.dev EXCEPT !.in = SubSeq(@, n + 1, Len(@)), !.rxPending = p, !.intr = TRUE],
                        !.buf = b2, !.queue = q2]
      BY <2>1
    <3> QED
      BY <3>1, <3>2, <3>3, Zenon
  <2> HIDE DEF u
  <2>3. DevOK(d2) /\ d2.out = t.dev.out /\ d2.in = SubSeq(t.dev.in, n + 1, Len(t.dev.in)) /\ d2.intr = TRUE
    <3>1. DevShape(t.dev)
      BY <1>1, Zenon DEF Passes, DevOK, DevShape
    <3> HIDE DEF t, n
    <3>2. PICK p : p = (n < Len(t.dev.in))
      OBVIOUS
    <3> DEFINE e == [t.dev EXCEPT !.in = SubSeq(@, n + 1, Len(@)), !.rxPending = p, !.intr = TRUE]
    <3>3. PICK h : h = e
      OBVIOUS
    <3>4. DevShape(h) /\ h.out = t.dev.out /\ h.in = SubSeq(t.dev.in, n + 1, Len(t.dev.in)) /\ h.intr = TRUE
      BY ONLY <3>1, <3>3 DEF DevShape
    <3>5. d2 = e
      BY <3>2, Zenon
    <3> HIDE DEF d2, e
    <3> QED
      BY <3>3, <3>4, <3>5, Zenon DEF DevOK, DevShape
  <2>4. /\ Sound(t.queue, g) /\ GuestOK(g) /\ Stream(t.dev.out, t.dev.in, t.queue, t.buf, g, base, cmd)
        /\ StagedHolds(t.queue, t.buf, g) /\ BufOK(t.buf)
    BY <1>1 DEF Passes, Sound
  <2>5. BufOK(b2) /\ b2[TX] = t.buf[TX] /\ b2[RX] = [t.buf[RX] EXCEPT ![FirstOffer(q)] = cut]
    <3> HIDE DEF t, q, cut
    <3> QED
      BY <2>4, QueueNames DEF BufOK
  <2>6. q2[RX] = Serve(t.queue[RX], 1) /\ q2[TX] = t.queue[TX]
    <3> HIDE DEF t
    <3> QED
      BY <2>4, QueueNames DEF Sound, Queueful
  <2> HIDE DEF d2, b2, q2, t
  <2>7. u.dev = d2 /\ u.queue = q2 /\ u.buf = b2
    BY <2>1, <2>2
  <2>8. n \in 0 .. Len(t.dev.in)
    <3>1. PICK m \in Nat : m \in Nat /\ Seg(t.dev.in, m, 2 * cmd)
      BY <2>4 DEF Stream, Flow, Inputs
    <3>2. Len(t.dev.in) \in Nat
      BY <3>1, LenProperties DEF Seg
    <3>3. PICK l \in Nat : l = Len(t.dev.in)
      BY <3>2
    <3>4. Room \in Nat
      BY ConsoleAssumption
    <3>5. \E x \in {Room, l} : \A y \in {Room, l} : x =< y
      BY <3>4
    <3>6. Min({Room, l}) \in {Room, l} /\ \A y \in {Room, l} : Min({Room, l}) =< y
      BY <3>5 DEF Min
    <3> QED
      BY <3>3, <3>4, <3>6
  <2> HIDE DEF n
  <2>9. Stream(u.dev.out, u.dev.in, u.queue, u.buf, g, base, cmd)
    <3>1. HasOffer(t.queue[RX])
      BY <1>4
    <3>2. Stream(t.dev.out, SubSeq(t.dev.in, n + 1, Len(t.dev.in)), q2, b2, g, base, cmd)
      BY <2>4, <2>5, <2>6, <2>8, <3>1, StreamDelivers
    <3> QED
      BY <2>3, <2>7, <3>2
  <2>10. Sound(s.queue, g) /\ Sound(u.queue, g)
    <3>1. Sound(s.queue, g)
      BY DEF Passes
    <3> QED
      BY <1>2, <2>4, <3>1, DeviceStep
  <2>11. StagedHolds(u.queue, u.buf, g)
    BY <2>4, <2>5, <2>6, <2>7 DEF StagedHolds
  <2>12. Passes(u, g, base, cmd)
    BY <1>2, <2>3, <2>5, <2>7, <2>9, <2>10, <2>11 DEF Passes
  <2>13. Tells(s, u) /\ u.dev.out = s.dev.out
    BY <1>1, <2>3, <2>7 DEF Tells
  <2> QED
    BY <2>12, <2>13 DEF u
<1> QED
  BY <1>3, <1>4

-----------------------------------------------------------------------------
(* The stream through the steps of the guest.                              *)

\* The driver sends one chunk at a time.
TodoOK(g) == g.todo # <<>> => OfferList(Tail(g.todo), Queues \ {TX})

Carries(out, inp, qs, bf, g, base, cmd) ==
  BufOK(bf) /\ StagedHolds(qs, bf, g) /\ TodoOK(g) /\ Stream(out, inp, qs, bf, g, base, cmd)

LEMMA QuietTodo ==
  ASSUME NEW g, OfferList(g.todo, Queues \ {TX})
  PROVE  TodoOK(g) /\ UnsentOf(g) = <<>>
<1>1. CASE g.todo = <<>>
  BY <1>1 DEF TodoOK, UnsentOf
<1>2. CASE g.todo # <<>>
  <2>1. Head(g.todo).q \in Queues \ {TX} /\ OfferList(Tail(g.todo), Queues \ {TX})
    BY <1>2, OfferListTail
  <2> QED
    BY <2>1 DEF TodoOK, UnsentOf
<1> QED
  BY <1>1, <1>2

\* Neither end moves a chunk.
LEMMA QuietStep ==
  ASSUME NEW out, NEW inp, NEW qs, NEW bf, NEW g, NEW base, NEW cmd, Stream(out, inp, qs, bf, g, base, cmd), BufOK(bf),
         NEW qt, NEW h, Offered(qt[TX]) = Offered(qs[TX]), Returned(qt[RX]) = Returned(qs[RX]),
         h.inbox = g.inbox, h.outbox = g.outbox, g.todo = <<>> \/ g.step \notin {"slot", "index"},
         h.step # "index", TodoOK(h), UnsentOf(h) = <<>>
  PROVE  Carries(out, inp, qt, bf, h, base, cmd)
<1>1. UnsentOf(h) = UnsentOf(g)
  BY DEF UnsentOf
<1>2. Stream(out, inp, qt, bf, h, base, cmd)
  BY <1>1, StreamSame
<1>3. StagedHolds(qt, bf, h)
  BY DEF StagedHolds
<1> QED
  BY <1>2, <1>3 DEF Carries

CarriesNow == DevOK(dev) /\ Carries(dev.out, dev.in, queue, buf, guest, host.base, host.cmd)

LEMMA ProbeCarries ==
  ASSUME Sound(queue, guest), CarriesNow, Probe
  PROVE  CarriesNow'
<1> DEFINE z == [ResetRing EXCEPT !.ready = TRUE]
<1>1. /\ guest.todo = <<>> /\ guest.step = "slot" /\ Shape(guest)
      /\ Offered(queue[TX]) = <<>> /\ Returned(queue[RX]) = <<>>
  BY QueueNames DEF Probe, Sound, GuestOK, Fresh
<1>2. /\ queue' = [q \in Queues |-> z] /\ dev' = [dev EXCEPT !.intr = FALSE, !.ctrl = <<>>]
      /\ guest' = [guest EXCEPT !.phase = "open", !.todo = Append(Refill(CRX), Offer(CTX, "DEVICE_READY"))]
      /\ buf' = buf /\ host' = host
  BY DEF Probe
<1>3. Offered(z) = <<>> /\ Returned(z) = <<>>
  BY NewWellKept
<1> HIDE DEF z
<1>4. queue'[TX] = z /\ queue'[RX] = z
  BY <1>2, QueueNames
<1>5. OfferList(Append(Refill(CRX), Offer(CTX, "DEVICE_READY")), Queues \ {TX})
  BY QueueNames, OfferListRefill, OfferListAppend
<1>6. /\ guest'.todo = Append(Refill(CRX), Offer(CTX, "DEVICE_READY")) /\ guest'.step = "slot"
      /\ guest'.inbox = guest.inbox /\ guest'.outbox = guest.outbox
  BY <1>1, <1>2 DEF Shape
<1>7. TodoOK(guest') /\ UnsentOf(guest') = <<>>
  BY <1>5, <1>6, QuietTodo
<1>8. DevOK(dev') /\ dev'.out = dev.out /\ dev'.in = dev.in
  <2>1. DevShape(dev)
    BY Zenon DEF CarriesNow, DevOK, DevShape
  <2>2. DevShape(dev') /\ dev'.out = dev.out /\ dev'.in = dev.in /\ dev'.intr = FALSE
    BY ONLY <1>2, <2>1 DEF DevShape
  <2> QED
    BY <2>2, Zenon DEF DevOK, DevShape
<1>9. Stream(dev.out, dev.in, queue, buf, guest, host.base, host.cmd) /\ BufOK(buf)
  BY DEF CarriesNow, Carries
<1>10. Offered(queue'[TX]) = Offered(queue[TX]) /\ Returned(queue'[RX]) = Returned(queue[RX])
  BY <1>1, <1>3, <1>4
<1>11. Carries(dev.out, dev.in, queue', buf, guest', host.base, host.cmd)
  <2>1. guest'.step # "index"
    BY <1>6
  <2> QED
    BY <1>1, <1>6, <1>7, <1>9, <1>10, <2>1, QuietStep
<1> QED
  BY <1>2, <1>8, <1>11 DEF CarriesNow

LEMMA WriteSlotCarries ==
  ASSUME Sound(queue, guest), CarriesNow, WriteSlot
  PROVE  CarriesNow'
<1> DEFINE o == Head(guest.todo)
           q == o.q
           r == queue[q]
           d == FreeOne(r)
           t == Stage(r, d)
<1>1. /\ guest.todo # <<>> /\ guest.step = "slot" /\ r.free # {}
      /\ queue' = [queue EXCEPT ![q] = t]
      /\ buf' = [buf EXCEPT ![q][d] = o.what]
      /\ guest' = [guest EXCEPT !.step = "index"]
      /\ dev' = dev /\ host' = host
  BY DEF WriteSlot
<1>2. q \in Queues /\ Shape(guest) /\ Queueful(queue)
  BY <1>1, OfferListTail DEF Sound, GuestOK
<1>3. WellKept(r, {}) /\ r \in Rings
  BY <1>1, <1>2 DEF Sound, StagedAs, WellKept
<1>4. d \in r.free /\ d \in Desc
  BY <1>1, <1>3 DEF WellKept, Rings, FreeOne
<1>5. /\ guest'.todo = guest.todo /\ guest'.step = "index" /\ guest'.inbox = guest.inbox /\ guest'.outbox = guest.outbox
  BY <1>1, <1>2 DEF Shape
<1> HIDE DEF d, t, r, q, o
<1>6. /\ Offered(t) = Offered(r) /\ Returned(t) = Returned(r) /\ t.avail[Slot(t.availIdx)] = d
  BY <1>3, <1>4, StageStep DEF t
<1>7. /\ queue'[q] = t /\ \A p \in Queues : p # q => queue'[p] = queue[p]
  BY <1>1, <1>2 DEF Queueful
<1>8. BufOK(buf) /\ TodoOK(guest) /\ Stream(dev.out, dev.in, queue, buf, guest, host.base, host.cmd)
  BY DEF CarriesNow, Carries
<1>9. /\ BufOK(buf') /\ buf'[q][d] = o.what /\ \A e \in Desc : e # d => buf'[q][e] = buf[q][e]
      /\ \A p \in Queues : p # q => buf'[p] = buf[p]
  BY <1>1, <1>2, <1>4, <1>8 DEF BufOK
<1>10. Offered(queue'[TX]) = Offered(queue[TX]) /\ Returned(queue'[RX]) = Returned(queue[RX])
  BY <1>6, <1>7, QueueNames DEF r
<1>11. ASSUME NEW p \in Queues
       PROVE  /\ \A i \in DOMAIN Offered(queue[p]) : buf[p][Offered(queue[p])[i]] = buf'[p][Offered(queue[p])[i]]
              /\ \A i \in DOMAIN Returned(queue[p]) : buf[p][Returned(queue[p])[i]] = buf'[p][Returned(queue[p])[i]]
  <2>1. CASE p # q
    BY <1>9, <2>1
  <2>2. CASE p = q
    <3>1. /\ \A i \in DOMAIN Offered(r) : Offered(r)[i] \in Desc /\ Offered(r)[i] # d
          /\ \A i \in DOMAIN Returned(r) : Returned(r)[i] \in Desc /\ Returned(r)[i] # d
      <4>1. queue[p] = r /\ Sound(queue, guest)
        BY <2>2 DEF r
      <4>2. /\ \A i \in DOMAIN Offered(r) : Offered(r)[i] \in Desc
            /\ \A i \in DOMAIN Returned(r) : Returned(r)[i] \in Desc
        BY <4>1, QueueLists
      <4> QED
        BY <1>3, <1>4, <4>2 DEF WellKept
    <3>2. \A e \in Desc : e # d => buf[q][e] = buf'[q][e]
      BY <1>9
    <3> QED
      BY <2>2, <3>1, <3>2 DEF r
  <2> QED
    BY <2>1, <2>2
<1>12. UnsentOf(guest') = UnsentOf(guest)
  BY <1>1, <1>5 DEF UnsentOf
<1>13. Stream(dev.out, dev.in, queue', buf', guest', host.base, host.cmd)
  <2>1. /\ \A i \in DOMAIN Offered(queue[TX]) : buf[TX][Offered(queue[TX])[i]] = buf'[TX][Offered(queue[TX])[i]]
        /\ \A i \in DOMAIN Returned(queue[RX]) : buf[RX][Returned(queue[RX])[i]] = buf'[RX][Returned(queue[RX])[i]]
    BY <1>11, QueueNames
  <2> QED
    BY <1>5, <1>8, <1>10, <1>12, <2>1, StreamSame
<1>14. StagedHolds(queue', buf', guest')
  BY <1>5, <1>6, <1>7, <1>9 DEF StagedHolds, q, o
<1>15. TodoOK(guest')
  BY <1>5, <1>8 DEF TodoOK
<1>16. Carries(dev.out, dev.in, queue', buf', guest', host.base, host.cmd)
  BY <1>9, <1>13, <1>14, <1>15 DEF Carries
<1> QED
  BY <1>1, <1>16 DEF CarriesNow

LEMMA WriteIndexCarries ==
  ASSUME Sound(queue, guest), CarriesNow, WriteIndex
  PROVE  CarriesNow'
<1> DEFINE o == Head(guest.todo)
           q == o.q
           r == queue[q]
           d == r.avail[Slot(r.availIdx)]
           t == Expose(r)
<1>1. /\ guest.todo # <<>> /\ guest.step = "index"
      /\ queue' = [queue EXCEPT ![q] = t]
      /\ guest' = [guest EXCEPT !.step = "kick"]
      /\ dev' = dev /\ host' = host /\ buf' = buf
  BY DEF WriteIndex, Sound, GuestOK
<1>2. q \in Queues /\ Shape(guest) /\ Queueful(queue)
  BY <1>1, OfferListTail DEF Sound, GuestOK
<1>3. WellKept(r, {d}) /\ d \in Desc
  <2>1. WellKept(r, {d})
    BY <1>1, <1>2 DEF Sound, StagedAs
  <2> QED
    BY <2>1 DEF WellKept
<1>4. Offered(r) \in Seq(Desc)
  BY <1>2, QueueLists
<1>5. /\ guest'.todo = guest.todo /\ guest'.step = "kick" /\ guest'.inbox = guest.inbox /\ guest'.outbox = guest.outbox
  BY <1>1, <1>2 DEF Shape
<1>6. /\ BufOK(buf) /\ TodoOK(guest) /\ Stream(dev.out, dev.in, queue, buf, guest, host.base, host.cmd)
      /\ StagedHolds(queue, buf, guest)
  BY DEF CarriesNow, Carries
<1>7. q = TX => buf[TX][d] = o.what
  BY <1>1, <1>6 DEF StagedHolds
<1> HIDE DEF t, r, q, o
<1>8. Offered(t) = Append(Offered(r), d) /\ Returned(t) = Returned(r)
  BY <1>3, ExposeStep DEF t
<1> HIDE DEF d
<1>9. /\ queue'[q] = t /\ \A p \in Queues : p # q => queue'[p] = queue[p]
  BY <1>1, <1>2 DEF Queueful
<1>10. Returned(queue'[RX]) = Returned(queue[RX])
  BY <1>8, <1>9, QueueNames DEF r
<1>11. UnsentOf(guest') = <<>> /\ UnsentOf(guest) = IF q = TX THEN <<o.what>> ELSE <<>>
  BY <1>1, <1>5 DEF UnsentOf, q, o
<1>12. ASSUME q # TX PROVE Stream(dev.out, dev.in, queue', buf, guest', host.base, host.cmd)
  <2>1. Offered(queue'[TX]) = Offered(queue[TX]) /\ UnsentOf(guest') = UnsentOf(guest)
    BY <1>9, <1>11, <1>12, QueueNames
  <2> QED
    BY <1>5, <1>6, <1>10, <2>1, StreamSame
<1>13. ASSUME q = TX PROVE Stream(dev.out, dev.in, queue', buf, guest', host.base, host.cmd)
  <2>1. Through(Offered(queue'[TX]), buf[TX]) = Append(Through(Offered(queue[TX]), buf[TX]), o.what)
    <3>1. Offered(queue'[TX]) = Append(Offered(r), d) /\ queue[TX] = r /\ buf[TX][d] = o.what
      BY <1>7, <1>8, <1>9, <1>13 DEF r
    <3>2. Through(Append(Offered(r), d), buf[TX]) = Append(Through(Offered(r), buf[TX]), buf[TX][d])
      BY <1>3, <1>4, ThroughAppend
    <3> QED
      BY <3>1, <3>2
  <2> DEFINE held == Through(Offered(queue[TX]), buf[TX])
             back == Through(Returned(queue[RX]), buf[RX])
  <2>2. PICK m \in Nat : /\ Answers(dev.out, held, UnsentOf(guest), guest.outbox, 2 * host.base, 2 * m)
                         /\ Inputs(guest.inbox, back, dev.in, 2 * m, 2 * host.cmd)
    BY <1>6 DEF Stream, Flow
  <2> HIDE DEF held, back
  <2>3. Answers(dev.out, held, <<o.what>>, guest.outbox, 2 * host.base, 2 * m)
    BY <1>11, <1>13, <2>2
  <2>4. Answers(dev.out, Append(held, o.what), <<>>, guest.outbox, 2 * host.base, 2 * m)
    BY <2>3, AnswersExpose
  <2>5. Flow(dev.out, Append(held, o.what), <<>>, guest.outbox, guest.inbox, back, dev.in, host.base, host.cmd)
    BY <2>2, <2>4 DEF Flow
  <2> QED
    BY <1>5, <1>10, <1>11, <2>1, <2>5 DEF Stream, held, back
<1>14. Stream(dev.out, dev.in, queue', buf, guest', host.base, host.cmd)
  BY <1>12, <1>13
<1>15. StagedHolds(queue', buf, guest') /\ TodoOK(guest')
  BY <1>5, <1>6 DEF StagedHolds, TodoOK
<1>16. Carries(dev.out, dev.in, queue', buf, guest', host.base, host.cmd)
  BY <1>6, <1>14, <1>15 DEF Carries
<1> QED
  BY <1>1, <1>16 DEF CarriesNow

\* The driver and init at work on something else.
LEMMA GuestCarries ==
  ASSUME CarriesNow, buf' = buf, host' = host, DevOK(dev'), dev'.out = dev.out, dev'.in = dev.in,
         Offered(queue'[TX]) = Offered(queue[TX]), Returned(queue'[RX]) = Returned(queue[RX]),
         guest'.inbox = guest.inbox, guest'.outbox = guest.outbox,
         guest.todo = <<>> \/ guest.step \notin {"slot", "index"}, guest'.step # "index",
         TodoOK(guest'), UnsentOf(guest') = <<>>
  PROVE  CarriesNow'
<1>1. Stream(dev.out, dev.in, queue, buf, guest, host.base, host.cmd) /\ BufOK(buf)
  BY DEF CarriesNow, Carries
<1>2. Carries(dev.out, dev.in, queue', buf, guest', host.base, host.cmd)
  BY <1>1, QuietStep
<1> QED
  BY <1>2 DEF CarriesNow

\* What the handlers find.
LEMMA NowPasses ==
  ASSUME Sound(queue, guest), CarriesNow
  PROVE  Passes(Now, guest, host.base, host.cmd) /\ Tells(Now, Now)
<1>1. Now.queue = queue /\ Now.buf = buf /\ Now.dev = dev /\ Stated(Now)
  BY DEF Now, Stated, Sound
<1>2. Tells(Now, Now)
  BY <1>1 DEF Tells, CarriesNow, DevOK
<1> QED
  BY <1>1, <1>2 DEF Passes, CarriesNow, Carries

LEMMA TellsBoth ==
  ASSUME NEW s, NEW t, NEW u, Tells(s, t), Tells(t, u)
  PROVE  Tells(s, u)
BY DEF Tells

\* What the handlers leave.
TellsNow == dev'.intr \/ (~dev.intr /\ queue'[RX] = queue[RX])

LEMMA PassesNow ==
  ASSUME NEW s, NEW base, NEW cmd, Passes(s, guest, base, cmd), Tells(Now, s), Put(s), TodoOK(guest)
  PROVE  /\ TellsNow /\ DevOK(dev') /\ Sound(queue', guest) /\ BufOK(buf')
         /\ Carries(dev'.out, dev'.in, queue', buf', guest, base, cmd)
BY DEF Passes, Tells, Put, TellsNow, Carries, Now

LEMMA KickCarries ==
  ASSUME Sound(queue, guest), CarriesNow, Kick
  PROVE  CarriesNow' /\ TellsNow
<1> DEFINE q == Head(guest.todo).q
           s == ProcessNotify(Now, q)
<1>1. /\ guest.step = "kick" /\ guest.todo # <<>> /\ host' = host
      /\ guest' = IF q = CTX THEN [guest EXCEPT !.step = "spin"]
                  ELSE [guest EXCEPT !.step = "slot", !.todo = Tail(@)]
  BY DEF Kick, Sound, GuestOK
<1>2. Shape(guest) /\ TodoOK(guest)
  BY DEF Sound, GuestOK, CarriesNow, Carries
<1>3. Passes(Now, guest, host.base, host.cmd) /\ Tells(Now, Now)
  BY NowPasses
<1>4. Passes(s, guest, host.base, host.cmd) /\ Tells(Now, s)
  BY <1>3, TxPasses, CtrlTxPasses DEF ProcessNotify
<1>5. \E t : Passes(t, guest, host.base, host.cmd) /\ Tells(Now, t) /\ Put(t)
  <2> HIDE DEF s
  <2>1. CASE noKick[q]
    <3>1. Put(Now)
      BY <2>1 DEF Kick, Put, Now
    <3> QED
      BY <1>3, <3>1
  <2>2. CASE ~noKick[q] /\ host.phase = "boot"
    <3>1. Put(DeliverCtrlRx(s))
      BY <2>2 DEF Kick, s
    <3>2. Passes(DeliverCtrlRx(s), guest, host.base, host.cmd) /\ Tells(s, DeliverCtrlRx(s))
      BY <1>4, CtrlRxPasses
    <3>3. Tells(Now, DeliverCtrlRx(s))
      BY <1>4, <3>2, TellsBoth
    <3> QED
      BY <3>1, <3>2, <3>3
  <2>3. CASE ~noKick[q] /\ host.phase # "boot"
    <3>1. Put(s)
      BY <2>3 DEF Kick, s
    <3> QED
      BY <1>4, <3>1
  <2> QED
    BY <2>1, <2>2, <2>3
<1>6. PICK t : Passes(t, guest, host.base, host.cmd) /\ Tells(Now, t) /\ Put(t)
  BY <1>5
<1>7. /\ TellsNow /\ DevOK(dev') /\ BufOK(buf')
      /\ Carries(dev'.out, dev'.in, queue', buf', guest, host.base, host.cmd)
  BY <1>2, <1>6, PassesNow
<1>8. /\ guest'.inbox = guest.inbox /\ guest'.outbox = guest.outbox /\ guest'.step \in {"spin", "slot"}
      /\ TodoOK(guest') /\ UnsentOf(guest') = <<>>
  <2>1. CASE q = CTX
    <3>1. /\ guest'.inbox = guest.inbox /\ guest'.outbox = guest.outbox /\ guest'.step = "spin"
          /\ guest'.todo = guest.todo
      BY <1>1, <1>2, <2>1 DEF Shape
    <3> QED
      BY <1>2, <3>1 DEF TodoOK, UnsentOf
  <2>2. CASE q # CTX
    <3>1. /\ guest'.inbox = guest.inbox /\ guest'.outbox = guest.outbox /\ guest'.step = "slot"
          /\ guest'.todo = Tail(guest.todo)
      BY <1>1, <1>2, <2>2 DEF Shape
    <3>2. OfferList(guest'.todo, Queues \ {TX})
      BY <1>1, <1>2, <3>1 DEF TodoOK
    <3> QED
      BY <3>1, <3>2, QuietTodo
  <2> QED
    BY <2>1, <2>2
<1>9. Carries(dev'.out, dev'.in, queue', buf', guest', host.base, host.cmd)
  <2>1. Stream(dev'.out, dev'.in, queue', buf', guest, host.base, host.cmd)
    BY <1>7 DEF Carries
  <2>2. guest.step \notin {"slot", "index"} /\ guest'.step # "index"
    BY <1>1, <1>8
  <2> QED
    BY ONLY <1>7, <1>8, <2>1, <2>2, QuietStep
<1> QED
  BY <1>1, <1>7, <1>9 DEF CarriesNow

LEMMA SpinCarries ==
  ASSUME Sound(queue, guest), CarriesNow, Spin
  PROVE  CarriesNow'
<1>1. /\ guest.step = "spin" /\ guest.todo # <<>> /\ buf' = buf /\ dev' = dev /\ host' = host
      /\ queue' = [queue EXCEPT ![CTX] = Collect(@)]
      /\ guest' = [guest EXCEPT !.step = "slot", !.todo = Tail(@)]
  BY DEF Spin, Sound, GuestOK
<1>2. Shape(guest) /\ TodoOK(guest) /\ DevOK(dev) /\ Queueful(queue)
  BY DEF Sound, GuestOK, CarriesNow, Carries
<1>3. queue'[TX] = queue[TX] /\ queue'[RX] = queue[RX]
  BY <1>1, <1>2, QueueNames DEF Queueful
<1>4. /\ guest'.inbox = guest.inbox /\ guest'.outbox = guest.outbox /\ guest'.step = "slot"
      /\ guest'.todo = Tail(guest.todo)
  BY <1>1, <1>2 DEF Shape
<1>5. OfferList(guest'.todo, Queues \ {TX})
  BY <1>1, <1>2, <1>4 DEF TodoOK
<1>6. TodoOK(guest') /\ UnsentOf(guest') = <<>>
  BY <1>5, QuietTodo
<1> QED
  BY <1>1, <1>2, <1>3, <1>4, <1>6, GuestCarries

\* The guest with nothing to offer.
LEMMA ReadyQuiet ==
  ASSUME Sound(queue, guest), CarriesNow, Ready
  PROVE  /\ guest.todo = <<>> /\ guest.step = "slot" /\ Shape(guest) /\ UnsentOf(guest) = <<>>
         /\ TodoOK(guest) /\ OfferList(<<>>, Queues \ {TX})
<1>1. guest.todo = <<>> /\ guest.step = "slot" /\ Shape(guest)
  BY ReadyFacts
<1>2. OfferList(<<>>, Queues \ {TX})
  BY OfferListEmpty
<1> QED
  BY <1>1, <1>2, QuietTodo

LEMMA IrqCarries ==
  ASSUME Sound(queue, guest), CarriesNow, TakeIrq \/ HandleIrq \/ FallAsleep \/ OpenPort
  PROVE  CarriesNow'
<1>1. Ready /\ queue' = queue /\ buf' = buf /\ host' = host
  BY DEF TakeIrq, HandleIrq, FallAsleep, OpenPort, AtRead
<1>2. guest.todo = <<>> /\ guest.step = "slot" /\ Shape(guest) /\ OfferList(guest.todo, Queues \ {TX})
  BY <1>1, ReadyQuiet
<1>3. DevOK(dev') /\ dev'.out = dev.out /\ dev'.in = dev.in
  <2>1. DevShape(dev) /\ DevOK(dev)
    BY Zenon DEF CarriesNow, DevOK, DevShape
  <2>2. CASE TakeIrq
    <3>1. dev' = [dev EXCEPT !.intr = FALSE]
      BY <2>2 DEF TakeIrq
    <3>2. DevShape(dev') /\ dev'.out = dev.out /\ dev'.in = dev.in /\ dev'.intr = FALSE
      BY ONLY <2>1, <3>1 DEF DevShape
    <3> QED
      BY <3>2, Zenon DEF DevOK, DevShape
  <2>3. CASE HandleIrq \/ FallAsleep \/ OpenPort
    <3>1. dev' = dev
      BY <2>3 DEF HandleIrq, FallAsleep, OpenPort
    <3> QED
      BY <2>1, <3>1
  <2> QED
    BY <2>2, <2>3
<1>4. /\ guest'.step = "slot" /\ guest'.inbox = guest.inbox /\ guest'.outbox = guest.outbox
      /\ OfferList(guest'.todo, Queues \ {TX})
  <2>1. OfferList(<<Offer(CTX, "PORT_OPEN")>>, Queues \ {TX})
    BY OfferListOne, QueueNames
  <2>2. CASE TakeIrq
    BY <1>2, <2>1, <2>2 DEF TakeIrq, Shape
  <2>3. CASE HandleIrq
    BY <1>2, <2>1, <2>3 DEF HandleIrq, Shape
  <2>4. CASE FallAsleep
    BY <1>2, <2>1, <2>4 DEF FallAsleep, Shape
  <2>5. CASE OpenPort
    <3>1. CASE guest.connected
      <4>1. guest' = [guest EXCEPT !.phase = "marker", !.todo = <<Offer(CTX, "PORT_OPEN")>>]
        BY <2>5, <3>1 DEF OpenPort
      <4> QED
        BY <1>2, <2>1, <4>1 DEF Shape
    <3>2. CASE ~guest.connected /\ guest.tries + 1 = MaxTries
      <4>1. guest' = [guest EXCEPT !.phase = "nomarker", !.tries = MaxTries]
        BY <2>5, <3>2 DEF OpenPort
      <4> QED
        BY <1>2, <2>1, <4>1 DEF Shape
    <3>3. CASE ~guest.connected /\ guest.tries + 1 # MaxTries
      <4>1. guest' = [guest EXCEPT !.tries = @ + 1]
        BY <2>5, <3>3 DEF OpenPort
      <4> QED
        BY <1>2, <2>1, <4>1 DEF Shape
    <3> QED
      BY <3>1, <3>2, <3>3
  <2> QED
    BY <2>2, <2>3, <2>4, <2>5
<1>5. TodoOK(guest') /\ UnsentOf(guest') = <<>>
  BY <1>4, QuietTodo
<1> QED
  BY <1>1, <1>2, <1>3, <1>4, <1>5, GuestCarries

LEMMA ControlWorkCarries ==
  ASSUME Sound(queue, guest), CarriesNow, ControlWork
  PROVE  CarriesNow'
<1>1. Ready /\ buf' = buf /\ host' = host /\ dev' = dev
  BY DEF ControlWork
<1>2. guest.todo = <<>> /\ guest.step = "slot" /\ Shape(guest) /\ OfferList(guest.todo, Queues \ {TX})
  BY <1>1, ReadyQuiet
<1>3. DevOK(dev) /\ Queueful(queue)
  BY DEF CarriesNow, Sound
<1>4. queue'[TX] = queue[TX] /\ queue'[RX] = queue[RX]
  <2>1. queue' = queue \/ queue' = [queue EXCEPT ![CRX] = Collect(@)]
    BY DEF ControlWork
  <2> QED
    BY <1>3, <2>1, QueueNames DEF Queueful
<1>5. /\ guest'.step = "slot" /\ guest'.inbox = guest.inbox /\ guest'.outbox = guest.outbox
      /\ OfferList(guest'.todo, Queues \ {TX})
  <2>1. CASE ~HasUsed(CRX)
    <3>1. guest' = [guest EXCEPT !.work = FALSE]
      BY <2>1 DEF ControlWork
    <3> QED
      BY <1>2, <3>1 DEF Shape
  <2>2. CASE HasUsed(CRX)
    <3> DEFINE event == buf[CRX][Oldest(queue[CRX])]
               again == <<Offer(CRX, Empty)>>
    <3>1. guest' = CASE event = "PORT_ADD"  -> [guest EXCEPT !.todo = again \o Refill(RX) \o <<Offer(CTX, "PORT_READY")>>]
                     [] event = "PORT_OPEN" -> [guest EXCEPT !.todo = again, !.connected = TRUE]
                     [] OTHER               -> [guest EXCEPT !.todo = again]
      BY <2>2 DEF ControlWork
    <3> DEFINE Q == Queues \ {TX}
    <3>2. OfferList(again, Q) /\ OfferList(again \o Refill(RX) \o <<Offer(CTX, "PORT_READY")>>, Q)
      <4>1. CRX \in Q /\ RX \in Q /\ CTX \in Q
        BY QueueNames
      <4> HIDE DEF Q
      <4> QED
        BY <4>1, OfferListOne, OfferListRefill, OfferListJoin
    <3> HIDE DEF again, event
    <3>3. CASE event = "PORT_ADD"
      BY <1>2, <3>1, <3>2, <3>3 DEF Shape
    <3>4. CASE event # "PORT_ADD" /\ event = "PORT_OPEN"
      BY <1>2, <3>1, <3>2, <3>4 DEF Shape
    <3>5. CASE event # "PORT_ADD" /\ event # "PORT_OPEN"
      BY <1>2, <3>1, <3>2, <3>5 DEF Shape
    <3> QED
      BY <3>3, <3>4, <3>5
  <2> QED
    BY <2>1, <2>2
<1>6. TodoOK(guest') /\ UnsentOf(guest') = <<>>
  BY <1>5, QuietTodo
<1> QED
  BY <1>1, <1>2, <1>3, <1>4, <1>5, <1>6, GuestCarries

LEMMA ReclaimTxCarries ==
  ASSUME Sound(queue, guest), CarriesNow, ReclaimTx
  PROVE  CarriesNow'
<1>1. /\ Ready /\ buf' = buf /\ host' = host /\ dev' = dev /\ guest' = guest
      /\ queue' = [queue EXCEPT ![TX] = Collect(@)] /\ queue[TX].lastUsed # queue[TX].usedIdx
  BY DEF ReclaimTx, HasUsed
<1>2. /\ guest.todo = <<>> /\ guest.step = "slot" /\ Shape(guest) /\ UnsentOf(guest) = <<>>
      /\ TodoOK(guest) /\ DevOK(dev) /\ Queueful(queue)
  BY <1>1, ReadyQuiet DEF CarriesNow, Sound
<1>3. queue'[TX] = Collect(queue[TX]) /\ queue'[RX] = queue[RX]
  BY <1>1, <1>2, QueueNames DEF Queueful
<1>4. Offered(queue'[TX]) = Offered(queue[TX])
  <2> DEFINE r == queue[TX]
  <2>1. WellKept(r, {}) /\ r.lastUsed # r.usedIdx
    BY <1>1, <1>2, QueueNames DEF Sound, StagedAs
  <2> HIDE DEF r
  <2>2. Offered(Collect(r)) = Offered(r)
    BY <2>1, CollectStep
  <2> QED
    BY <1>3, <2>2 DEF r
<1> QED
  BY <1>1, <1>2, <1>3, <1>4, GuestCarries

LEMMA WriteBufferCarries ==
  ASSUME Sound(queue, guest), CarriesNow, WriteBuffer
  PROVE  CarriesNow'
<1>1. /\ Ready /\ queue' = queue /\ buf' = buf /\ host' = host /\ dev' = dev /\ guest.outbox # <<>>
      /\ guest' = [guest EXCEPT !.todo = <<Offer(TX, Head(guest.outbox))>>, !.outbox = Tail(@)]
  BY DEF WriteBuffer
<1>2. /\ guest.todo = <<>> /\ guest.step = "slot" /\ Shape(guest) /\ UnsentOf(guest) = <<>>
      /\ OfferList(<<>>, Queues \ {TX})
  BY <1>1, ReadyQuiet
<1>3. /\ guest'.step = "slot" /\ guest'.inbox = guest.inbox /\ guest'.outbox = Tail(guest.outbox)
      /\ guest'.todo = <<Offer(TX, Head(guest.outbox))>>
  BY <1>1, <1>2 DEF Shape
<1>4. TodoOK(guest') /\ UnsentOf(guest') = <<Head(guest.outbox)>>
  <2> DEFINE o == Offer(TX, Head(guest.outbox))
  <2>1. o.q = TX /\ o.what = Head(guest.outbox)
    BY DEF Offer
  <2> HIDE DEF o
  <2>2. guest'.todo = <<o>>
    BY <1>3 DEF o
  <2>3. guest'.todo # <<>> /\ Head(guest'.todo) = o /\ Tail(guest'.todo) = <<>>
    BY <2>2
  <2> QED
    BY <1>2, <1>3, <2>1, <2>3 DEF TodoOK, UnsentOf
<1>5. Stream(dev.out, dev.in, queue, buf, guest, host.base, host.cmd) /\ BufOK(buf) /\ DevOK(dev)
  BY DEF CarriesNow, Carries
<1> DEFINE held == Through(Offered(queue[TX]), buf[TX])
           back == Through(Returned(queue[RX]), buf[RX])
<1>6. PICK m \in Nat : /\ Answers(dev.out, held, <<>>, guest.outbox, 2 * host.base, 2 * m)
                       /\ Inputs(guest.inbox, back, dev.in, 2 * m, 2 * host.cmd)
  BY <1>2, <1>5 DEF Stream, Flow
<1> HIDE DEF held, back
<1>7. Answers(dev.out, held, <<Head(guest.outbox)>>, Tail(guest.outbox), 2 * host.base, 2 * m)
  BY <1>1, <1>6, AnswersWrite
<1>8. Flow(dev.out, held, UnsentOf(guest'), guest'.outbox, guest'.inbox, back, dev.in, host.base, host.cmd)
  BY <1>3, <1>4, <1>6, <1>7 DEF Flow
<1>9. Stream(dev.out, dev.in, queue, buf, guest', host.base, host.cmd)
  BY <1>8 DEF Stream, held, back
<1>10. StagedHolds(queue, buf, guest')
  BY <1>3 DEF StagedHolds
<1> QED
  BY <1>1, <1>4, <1>5, <1>9, <1>10 DEF CarriesNow, Carries

LEMMA ProcessRequestCarries ==
  ASSUME Sound(queue, guest), CarriesNow, ProcessRequest
  PROVE  CarriesNow'
<1> DEFINE n == LineEnd(guest.inbox)
           l == Line(guest.inbox[n].cmd)
           rest == SubSeq(guest.inbox, n + 1, Len(guest.inbox))
<1>1. /\ Ready /\ HasLine /\ queue' = queue /\ buf' = buf /\ host' = host /\ dev' = dev /\ guest.outbox = <<>>
      /\ guest' = [guest EXCEPT !.outbox = l, !.inbox = rest]
  BY DEF ProcessRequest
<1>2. /\ guest.todo = <<>> /\ guest.step = "slot" /\ Shape(guest) /\ UnsentOf(guest) = <<>> /\ TodoOK(guest)
  BY <1>1, ReadyQuiet
<1>3. Stream(dev.out, dev.in, queue, buf, guest, host.base, host.cmd) /\ BufOK(buf) /\ DevOK(dev)
  BY DEF CarriesNow, Carries
<1> DEFINE held == Through(Offered(queue[TX]), buf[TX])
           back == Through(Returned(queue[RX]), buf[RX])
<1>4. PICK m \in Nat : /\ Answers(dev.out, held, <<>>, <<>>, 2 * host.base, 2 * m)
                       /\ Inputs(guest.inbox, back, dev.in, 2 * m, 2 * host.cmd)
  BY <1>1, <1>2, <1>3 DEF Stream, Flow
<1> HIDE DEF held, back
<1>5. /\ n = 2 /\ guest.inbox[2].cmd = m + 1
      /\ Inputs(SubSeq(guest.inbox, 2 + 1, Len(guest.inbox)), back, dev.in, 2 * (m + 1), 2 * host.cmd)
  BY <1>1, <1>4, InputsRequest DEF HasLine
<1>6. Answers(dev.out, held, <<>>, Line(m + 1), 2 * host.base, 2 * (m + 1))
  BY <1>4, AnswersRequest
<1>7. l = Line(m + 1) /\ Inputs(rest, back, dev.in, 2 * (m + 1), 2 * host.cmd)
  BY <1>5
<1> HIDE DEF n, l, rest
<1>8. guest'.todo = guest.todo /\ guest'.step = "slot" /\ guest'.outbox = l /\ guest'.inbox = rest
  BY <1>1, <1>2 DEF Shape
<1>9. UnsentOf(guest') = <<>> /\ TodoOK(guest') /\ StagedHolds(queue, buf, guest')
  BY <1>2, <1>8 DEF UnsentOf, TodoOK, StagedHolds
<1>10. Flow(dev.out, held, UnsentOf(guest'), guest'.outbox, guest'.inbox, back, dev.in, host.base, host.cmd)
  <2>1. m + 1 \in Nat
    OBVIOUS
  <2>2. Answers(dev.out, held, <<>>, l, 2 * host.base, 2 * (m + 1))
    BY <1>6, <1>7
  <2>3. Flow(dev.out, held, <<>>, l, rest, back, dev.in, host.base, host.cmd)
    BY <1>7, <2>1, <2>2 DEF Flow
  <2> QED
    BY <1>8, <1>9, <2>3
<1>11. Stream(dev.out, dev.in, queue, buf, guest', host.base, host.cmd)
  BY <1>10 DEF Stream, held, back
<1> QED
  BY <1>1, <1>3, <1>9, <1>11 DEF CarriesNow, Carries

LEMMA ReadBufferCarries ==
  ASSUME Sound(queue, guest), CarriesNow, ReadBuffer
  PROVE  CarriesNow'
<1> DEFINE r == queue[RX]
           x == buf[RX][Oldest(r)]
<1>1. /\ Ready /\ buf' = buf /\ host' = host /\ dev' = dev /\ r.lastUsed # r.usedIdx
      /\ queue' = [queue EXCEPT ![RX] = Collect(r)]
      /\ guest' = [guest EXCEPT !.inbox = @ \o x, !.todo = <<Offer(RX, Empty)>>]
  BY DEF ReadBuffer, AtRead, HasUsed
<1>2. guest.todo = <<>> /\ guest.step = "slot" /\ Shape(guest) /\ UnsentOf(guest) = <<>>
  BY <1>1, ReadyQuiet
<1>3. /\ Stream(dev.out, dev.in, queue, buf, guest, host.base, host.cmd) /\ BufOK(buf) /\ DevOK(dev)
      /\ Queueful(queue)
  BY DEF CarriesNow, Carries, Sound
<1>4. guest'.step = "slot" /\ guest'.inbox = guest.inbox \o x /\ guest'.outbox = guest.outbox
      /\ guest'.todo = <<Offer(RX, Empty)>>
  BY <1>1, <1>2 DEF Shape
<1>5. TodoOK(guest') /\ UnsentOf(guest') = <<>> /\ StagedHolds(queue', buf, guest')
  <2>1. OfferList(<<Offer(RX, Empty)>>, Queues \ {TX})
    BY OfferListOne, QueueNames
  <2> QED
    BY <1>4, <2>1, QuietTodo DEF StagedHolds
<1>6. queue'[RX] = Collect(r) /\ queue'[TX] = queue[TX]
  BY <1>1, <1>3, QueueNames DEF Queueful
<1>7. WellKept(r, {}) /\ r \in Rings
  BY <1>2, QueueNames DEF Sound, StagedAs, WellKept
<1> HIDE DEF r
<1>8. Returned(Collect(r)) = Tail(Returned(r)) /\ Returned(r) # <<>>
  BY <1>1, <1>7, CollectStep
<1>9. Returned(r) \in Seq(Desc) /\ Returned(r)[1] = Oldest(r) /\ Len(Returned(r)) \in Nat /\ Len(Returned(r)) # 0
  <2>1. /\ Returned(r) \in Seq(Desc) /\ Len(Returned(r)) \in Nat
        /\ \A k \in 1 .. Len(Returned(r)) : Returned(r)[k] = r.used[Slot(Plus(r.lastUsed, k - 1))]
    BY <1>7, Lists
  <2>2. Len(Returned(r)) # 0
    BY <1>8, <2>1, EmptySeq
  <2>3. 1 \in 1 .. Len(Returned(r)) /\ 1 - 1 = 0
    BY <2>1, <2>2
  <2>4. Plus(r.lastUsed, 0) = r.lastUsed
    <3>1. r.lastUsed \in Index
      BY <1>7, RingFields
    <3> QED
      BY <3>1, PlusZero
  <2>5. Returned(r)[1] = r.used[Slot(Plus(r.lastUsed, 1 - 1))]
    BY <2>1, <2>3
  <2> QED
    BY <2>1, <2>2, <2>3, <2>4, <2>5 DEF Oldest
<1> DEFINE list == Returned(r)
           held == Through(Offered(queue[TX]), buf[TX])
           back == Through(list, buf[RX])
           rest == Through(Tail(list), buf[RX])
<1>10. /\ Len(back) = Len(list) /\ \A i \in 1 .. Len(list) : back[i] = buf[RX][list[i]]
  BY <1>9, ThroughFacts
<1>11. /\ Tail(list) \in Seq(Desc) /\ Len(Tail(list)) = Len(list) - 1
       /\ \A i \in 1 .. Len(list) - 1 : Tail(list)[i] = list[i + 1]
  BY <1>8, <1>9, HeadTailProperties
<1>12. /\ Len(rest) = Len(list) - 1 /\ DOMAIN rest = 1 .. Len(list) - 1
       /\ \A i \in 1 .. Len(list) - 1 : rest[i] = buf[RX][Tail(list)[i]]
  <2> DEFINE more == Tail(list)
  <2>1. more \in Seq(Desc) /\ Len(more) = Len(list) - 1
    BY <1>11
  <2> HIDE DEF more, list
  <2>2. /\ Len(Through(more, buf[RX])) = Len(more) /\ DOMAIN Through(more, buf[RX]) = 1 .. Len(more)
        /\ \A i \in 1 .. Len(more) : Through(more, buf[RX])[i] = buf[RX][more[i]]
    BY <2>1, ThroughFacts
  <2> QED
    BY <2>1, <2>2 DEF more
<1>13. PICK m \in Nat : /\ Answers(dev.out, held, <<>>, guest.outbox, 2 * host.base, 2 * m)
                        /\ Inputs(guest.inbox, back, dev.in, 2 * m, 2 * host.cmd)
  BY <1>2, <1>3 DEF Stream, Flow, r
<1> HIDE DEF held, back, rest, list
<1>14. Inputs(guest.inbox \o back[1], rest, dev.in, 2 * m, 2 * host.cmd)
  <2>1. Len(list) \in Nat /\ Len(list) # 0
    BY <1>9 DEF list
  <2>2. Len(back) # 0 /\ Len(rest) = Len(back) - 1 /\ DOMAIN rest = 1 .. Len(back) - 1
    BY <1>10, <1>12, <2>1
  <2>3. \A k \in 1 .. Len(back) - 1 : rest[k] = back[k + 1]
    <3> SUFFICES ASSUME NEW k \in 1 .. Len(back) - 1 PROVE rest[k] = back[k + 1]
      OBVIOUS
    <3>1. k \in 1 .. Len(list) - 1 /\ k + 1 \in 1 .. Len(list)
      BY <1>10, <2>1
    <3> QED
      BY <1>10, <1>11, <1>12, <3>1
  <2> QED
    BY <1>13, <2>2, <2>3, InputsTake
<1>15. back[1] = x
  <2>1. 1 \in 1 .. Len(list) /\ list[1] = Oldest(r)
    BY <1>9 DEF list
  <2> QED
    BY <1>10, <2>1 DEF r
<1> HIDE DEF x
<1>16. Flow(dev.out, held, UnsentOf(guest'), guest'.outbox, guest'.inbox, rest, dev.in, host.base, host.cmd)
  BY <1>4, <1>5, <1>13, <1>14, <1>15 DEF Flow
<1>17. Stream(dev.out, dev.in, queue', buf, guest', host.base, host.cmd)
  BY <1>6, <1>8, <1>16 DEF Stream, held, rest, list
<1> QED
  BY <1>1, <1>3, <1>5, <1>17 DEF CarriesNow, Carries

-----------------------------------------------------------------------------
(* The stream through the steps of the host.                               *)

\* The host's counters.  Until a command times out it has one command on the way at
\* most, and what it returned last is the answer to the last command or nothing.
HostInv(h) ==
  /\ h = [phase |-> h.phase, cmd |-> h.cmd, result |-> h.result, base |-> h.base, late |-> h.late, resets |-> h.resets]
  /\ h.cmd \in Nat /\ h.base \in Nat
  /\ h.phase \in {"boot", "saved"} => h.cmd = 0 /\ h.base = 0 /\ h.result = 0
  /\ h.phase = "exec" => h.result = 0 /\ (~h.late => h.cmd = h.base + 1)
  /\ h.phase \notin {"boot", "saved", "exec"} /\ ~h.late => h.base = h.cmd /\ h.result \in {0, h.cmd}

\* The stream as a machine forked from the snapshot has it.
CarriesSnap == Carries(<<>>, <<>>, snap.queue, snap.buf, snap.guest, 0, 0)

LEMMA DevPush ==
  ASSUME NEW d, DevShape(d), NEW l, NEW e, e = PushInput(d, l)
  PROVE  DevShape(e) /\ e.intr = d.intr /\ e.out = d.out /\ e.in = d.in \o l
BY DEF DevShape, PushInput

LEMMA ExecCarries ==
  ASSUME Sound(queue, guest), CarriesNow, HostInv(host), Exec
  PROVE  CarriesNow' /\ TellsNow /\ HostInv(host')
<1> DEFINE l == Line(host.cmd + 1)
           e == PushInput(dev, l)
           s == [Now EXCEPT !.dev = e]
           c == host.cmd + 1
<1>1. /\ host.phase = "idle" /\ Put(DeliverRx(s)) /\ guest' = guest
      /\ host' = [host EXCEPT !.phase = "exec", !.cmd = c, !.result = 0]
  BY DEF Exec
<1>2. host.cmd \in Nat /\ c \in Nat
  BY DEF HostInv
<1>3. /\ Stream(dev.out, dev.in, queue, buf, guest, host.base, host.cmd) /\ BufOK(buf) /\ DevOK(dev)
      /\ TodoOK(guest) /\ StagedHolds(queue, buf, guest) /\ Queueful(queue)
  BY DEF CarriesNow, Carries, Sound
<1>4. DevOK(e) /\ e.intr = dev.intr /\ e.out = dev.out /\ e.in = dev.in \o l
  <2>1. DevShape(dev) /\ dev.intr \in BOOLEAN
    BY <1>3, Zenon DEF DevOK, DevShape
  <2> HIDE DEF l
  <2>2. DevShape(e) /\ e.intr = dev.intr /\ e.out = dev.out /\ e.in = dev.in \o l
    <3>1. PICK x : x = PushInput(dev, l)
      OBVIOUS
    <3>2. DevShape(x) /\ x.intr = dev.intr /\ x.out = dev.out /\ x.in = dev.in \o l
      BY ONLY <2>1, <3>1, DevPush
    <3> QED
      BY <3>1, <3>2
  <2> QED
    BY <2>1, <2>2, Zenon DEF DevOK, DevShape
<1> DEFINE held == Through(Offered(queue[TX]), buf[TX])
           back == Through(Returned(queue[RX]), buf[RX])
<1>5. Stream(dev.out, dev.in \o l, queue, buf, guest, host.base, c)
  <2>1. PICK m \in Nat : /\ Answers(dev.out, held, UnsentOf(guest), guest.outbox, 2 * host.base, 2 * m)
                         /\ Inputs(guest.inbox, back, dev.in, 2 * m, 2 * host.cmd)
    BY <1>3 DEF Stream, Flow
  <2> HIDE DEF held, back
  <2>2. Inputs(guest.inbox, back, dev.in \o l, 2 * m, 2 * c)
    BY <1>2, <2>1, InputsPush
  <2> HIDE DEF l, c
  <2>3. Flow(dev.out, held, UnsentOf(guest), guest.outbox, guest.inbox, back, dev.in \o l, host.base, c)
    BY <2>1, <2>2 DEF Flow
  <2> QED
    BY <2>3 DEF Stream, held, back
<1> HIDE DEF l, e
<1>6. s.dev = e /\ s.queue = queue /\ s.buf = buf /\ Stated(s)
  BY <1>3 DEF Now, Stated
<1>7. Tells(Now, s)
  BY <1>3, <1>4, <1>6, Zenon DEF Tells, DevOK, Now
<1> HIDE DEF s, c
<1>8. Passes(s, guest, host.base, c)
  BY <1>3, <1>4, <1>5, <1>6 DEF Passes
<1>9. Passes(DeliverRx(s), guest, host.base, c) /\ Tells(s, DeliverRx(s))
  BY <1>8, RxPasses
<1>10. Tells(Now, DeliverRx(s))
  BY <1>7, <1>9, TellsBoth
<1>11. TellsNow /\ DevOK(dev') /\ Carries(dev'.out, dev'.in, queue', buf', guest, host.base, c)
  BY <1>1, <1>3, <1>9, <1>10, PassesNow
<1>12. HostInv(host') /\ host'.base = host.base /\ host'.cmd = c
  <2>1. /\ host'.phase = "exec" /\ host'.cmd = c /\ host'.result = 0 /\ host'.base = host.base /\ host'.late = host.late
        /\ host' = [phase |-> host'.phase, cmd |-> host'.cmd, result |-> host'.result, base |-> host'.base,
                    late |-> host'.late, resets |-> host'.resets]
    BY <1>1 DEF HostInv
  <2>2. ~host.late => host.base = host.cmd
    BY <1>1 DEF HostInv
  <2>3. host.base \in Nat
    BY DEF HostInv
  <2> QED
    BY <1>2, <2>1, <2>2, <2>3 DEF HostInv, c
<1> QED
  BY <1>1, <1>11, <1>12 DEF CarriesNow

LEMMA DevRead ==
  ASSUME NEW d, DevShape(d), NEW o, NEW e, e = [d EXCEPT !.out = o]
  PROVE  DevShape(e) /\ e.intr = d.intr /\ e.out = o /\ e.in = d.in
BY DEF DevShape

LEMMA ExecTurnCarries ==
  ASSUME Sound(queue, guest), CarriesNow, HostInv(host), ExecTurn
  PROVE  CarriesNow' /\ TellsNow /\ HostInv(host')
<1> DEFINE s == PollTx(Now)
           n == LineEnd(s.dev.out)
<1>1. host.phase = "exec" /\ guest' = guest /\ host.base \in Nat /\ host.cmd \in Nat /\ TodoOK(guest)
  BY DEF ExecTurn, HostInv, CarriesNow, Carries
<1>2. Passes(s, guest, host.base, host.cmd) /\ Tells(Now, s)
  BY NowPasses, PollPasses
<1>3. CASE ~(n > 0)
  <2>1. Put(DeliverRx(s)) /\ host' = host
    BY <1>3 DEF ExecTurn
  <2> HIDE DEF s
  <2>2. Passes(DeliverRx(s), guest, host.base, host.cmd) /\ Tells(s, DeliverRx(s))
    BY <1>2, RxPasses
  <2>3. Tells(Now, DeliverRx(s))
    BY <1>2, <2>2, TellsBoth
  <2>4. TellsNow /\ DevOK(dev') /\ Carries(dev'.out, dev'.in, queue', buf', guest, host.base, host.cmd)
    BY <1>1, <2>1, <2>2, <2>3, PassesNow
  <2> QED
    BY <1>1, <2>1, <2>4 DEF CarriesNow
<1>4. CASE n > 0
  <2> DEFINE rest == SubSeq(s.dev.out, n + 1, Len(s.dev.out))
             e == [s.dev EXCEPT !.out = rest]
             t == [s EXCEPT !.dev.out = rest]
             b == s.dev.out[n].cmd
  <2>1. /\ Put(t) /\ host' = [host EXCEPT !.phase = "settle", !.result = b, !.base = b]
    BY <1>4 DEF ExecTurn
  <2> HIDE DEF s
  <2>2. t = [s EXCEPT !.dev = e]
    BY Zenon DEF t, e
  <2>3. Stated(s) /\ DevOK(s.dev) /\ BufOK(s.buf) /\ Sound(s.queue, guest) /\ StagedHolds(s.queue, s.buf, guest)
        /\ Stream(s.dev.out, s.dev.in, s.queue, s.buf, guest, host.base, host.cmd)
    BY <1>2 DEF Passes
  <2> DEFINE held == Through(Offered(s.queue[TX]), s.buf[TX])
             back == Through(Returned(s.queue[RX]), s.buf[RX])
  <2>4. PICK m \in Nat : /\ Answers(s.dev.out, held, UnsentOf(guest), guest.outbox, 2 * host.base, 2 * m)
                         /\ Inputs(guest.inbox, back, s.dev.in, 2 * m, 2 * host.cmd)
    BY <2>3 DEF Stream, Flow
  <2> HIDE DEF held, back
  <2>5. /\ n = 2 /\ s.dev.out[2].cmd = host.base + 1
        /\ Answers(SubSeq(s.dev.out, 2 + 1, Len(s.dev.out)), held, UnsentOf(guest), guest.outbox, 2 * (host.base + 1), 2 * m)
    BY <1>1, <1>4, <2>4, AnswersLine
  <2>6. b = host.base + 1 /\ b \in Nat
    BY <1>1, <2>5
  <2>7. Answers(rest, held, UnsentOf(guest), guest.outbox, 2 * b, 2 * m)
    <3>1. rest = SubSeq(s.dev.out, 2 + 1, Len(s.dev.out))
      BY <2>5
    <3> HIDE DEF rest, n, b
    <3> QED
      BY <2>5, <2>6, <3>1
  <2> HIDE DEF rest, t, b, n
  <2>8. Stream(rest, s.dev.in, s.queue, s.buf, guest, b, host.cmd)
    <3>1. Flow(rest, held, UnsentOf(guest), guest.outbox, guest.inbox, back, s.dev.in, b, host.cmd)
      BY <2>4, <2>7 DEF Flow
    <3> QED
      BY <3>1 DEF Stream, held, back
  <2>9. DevOK(e) /\ e.intr = s.dev.intr /\ e.out = rest /\ e.in = s.dev.in
    <3>1. DevShape(s.dev) /\ s.dev.intr \in BOOLEAN
      BY <2>3, Zenon DEF DevOK, DevShape
    <3>2. DevShape(e) /\ e.intr = s.dev.intr /\ e.out = rest /\ e.in = s.dev.in
      BY ONLY <3>1, DevRead
    <3> QED
      BY <3>1, <3>2, Zenon DEF DevOK, DevShape
  <2> HIDE DEF e
  <2>10. t.dev = e /\ t.queue = s.queue /\ t.buf = s.buf /\ Stated(t)
    BY <2>2, <2>3 DEF Stated
  <2>11. Tells(Now, t)
    BY <1>2, <2>9, <2>10, Zenon DEF Tells
  <2>12. Passes(t, guest, b, host.cmd)
    BY <2>3, <2>8, <2>9, <2>10 DEF Passes
  <2>13. TellsNow /\ DevOK(dev') /\ Carries(dev'.out, dev'.in, queue', buf', guest, b, host.cmd)
    BY <1>1, <2>1, <2>11, <2>12, PassesNow
  <2>14. HostInv(host') /\ host'.base = b /\ host'.cmd = host.cmd
    <3>1. /\ host'.phase = "settle" /\ host'.cmd = host.cmd /\ host'.result = b /\ host'.base = b /\ host'.late = host.late
          /\ host' = [phase |-> host'.phase, cmd |-> host'.cmd, result |-> host'.result, base |-> host'.base,
                      late |-> host'.late, resets |-> host'.resets]
      BY <2>1 DEF HostInv
    <3>2. ~host.late => host.cmd = host.base + 1
      BY <1>1 DEF HostInv
    <3> QED
      BY <1>1, <2>6, <3>1, <3>2 DEF HostInv
  <2> QED
    BY <1>1, <2>13, <2>14 DEF CarriesNow
<1> QED
  BY <1>3, <1>4

LEMMA SettleCarries ==
  ASSUME Sound(queue, guest), CarriesNow, HostInv(host), Settle
  PROVE  CarriesNow' /\ TellsNow /\ HostInv(host')
<1> DEFINE s == PollTx(Now)
<1>1. /\ host.phase = "settle" /\ guest' = guest /\ TodoOK(guest) /\ Put(s)
      /\ host' = host \/ host' = [host EXCEPT !.phase = "idle"]
  BY DEF Settle, CarriesNow, Carries
<1>2. Passes(s, guest, host.base, host.cmd) /\ Tells(Now, s)
  BY NowPasses, PollPasses
<1> HIDE DEF s
<1>3. TellsNow /\ DevOK(dev') /\ Carries(dev'.out, dev'.in, queue', buf', guest, host.base, host.cmd)
  BY <1>1, <1>2, PassesNow
<1>4. HostInv(host') /\ host'.base = host.base /\ host'.cmd = host.cmd
  <2>1. CASE host' = host
    BY <2>1
  <2>2. CASE host' = [host EXCEPT !.phase = "idle"]
    BY <1>1, <2>2 DEF HostInv
  <2> QED
    BY <1>1, <2>1, <2>2
<1> QED
  BY <1>1, <1>3, <1>4 DEF CarriesNow

\* A command that is given up, and a machine that does not settle.
LEMMA GivesUpCarries ==
  ASSUME CarriesNow, HostInv(host), SettleGivesUp \/ Timeout
  PROVE  CarriesNow' /\ HostInv(host')
<1>1. queue' = queue /\ buf' = buf /\ dev' = dev /\ guest' = guest
  BY DEF SettleGivesUp, Timeout
<1>2. HostInv(host') /\ host'.base = host.base /\ host'.cmd = host.cmd
  <2>1. CASE SettleGivesUp
    BY <2>1 DEF SettleGivesUp, HostInv
  <2>2. CASE Timeout
    <3>1. host.phase = "exec" /\ host' = [host EXCEPT !.phase = "idle", !.late = TRUE]
      BY <2>2 DEF Timeout
    <3>2. /\ host'.phase = "idle" /\ host'.cmd = host.cmd /\ host'.base = host.base /\ host'.late = TRUE
          /\ host' = [phase |-> host'.phase, cmd |-> host'.cmd, result |-> host'.result, base |-> host'.base,
                      late |-> host'.late, resets |-> host'.resets]
      BY <3>1 DEF HostInv
    <3> QED
      BY <3>2 DEF HostInv
  <2> QED
    BY <2>1, <2>2
<1> QED
  BY <1>1, <1>2 DEF CarriesNow

\* A machine that is given the snapshot has nothing on its way.
LEMMA RestCarries ==
  ASSUME NEW out, NEW inp, NEW qs, NEW bf, NEW g, NEW c \in Nat, Carries(out, inp, qs, bf, g, c, c), NEW d \in Nat
  PROVE  Carries(<<>>, <<>>, qs, bf, g, d, d)
<1>1. Stream(out, inp, qs, bf, g, c, c)
  BY DEF Carries
<1>2. Stream(<<>>, <<>>, qs, bf, g, d, d)
  BY <1>1, FlowRests DEF Stream
<1> QED
  BY <1>2 DEF Carries

LEMMA RestoreCarries ==
  ASSUME CarriesSnap, HostInv(host), Fork \/ Reset
  PROVE  CarriesNow' /\ HostInv(host')
<1>1. /\ queue' = snap.queue /\ buf' = snap.buf /\ guest' = snap.guest /\ dev' = NewDevice
      /\ host.phase \in {"saved", "idle"}
  BY DEF Fork, Reset, Restore
<1>2. HostInv(host') /\ host'.base = host.cmd /\ host'.cmd = host.cmd /\ host.cmd \in Nat
  <2>1. CASE Fork
    BY <2>1 DEF Fork, HostInv
  <2>2. CASE Reset
    <3>1. /\ host.phase = "idle"
          /\ host' = [host EXCEPT !.resets = @ + 1, !.late = FALSE, !.result = 0, !.base = host.cmd]
      BY <2>2 DEF Reset
    <3>2. /\ host'.phase = "idle" /\ host'.cmd = host.cmd /\ host'.base = host.cmd /\ host'.late = FALSE
          /\ host'.result = 0
          /\ host' = [phase |-> host'.phase, cmd |-> host'.cmd, result |-> host'.result, base |-> host'.base,
                      late |-> host'.late, resets |-> host'.resets]
      BY <3>1 DEF HostInv
    <3>3. host.cmd \in Nat
      BY DEF HostInv
    <3> QED
      BY <3>2, <3>3 DEF HostInv
  <2> QED
    BY <2>1, <2>2
<1>3. DevOK(dev') /\ dev'.out = <<>> /\ dev'.in = <<>>
  BY <1>1 DEF NewDevice, DevOK
<1>4. Carries(<<>>, <<>>, snap.queue, snap.buf, snap.guest, host.cmd, host.cmd)
  <2>1. 0 \in Nat
    OBVIOUS
  <2> QED
    BY <1>2, <2>1, RestCarries DEF CarriesSnap
<1> QED
  BY <1>1, <1>2, <1>3, <1>4 DEF CarriesNow

LEMMA SnapshotCarries ==
  ASSUME Sound(queue, guest), CarriesNow, HostInv(host), TakeSnapshot
  PROVE  CarriesNow' /\ CarriesSnap' /\ HostInv(host')
<1> DEFINE h == [guest EXCEPT !.phase = IF @ = "marker" THEN "loop" ELSE "uart"]
<1>1. /\ host.phase = "boot" /\ guest.todo = <<>> /\ queue' = queue /\ buf' = buf /\ dev' = dev /\ guest' = guest
      /\ snap' = [queue |-> queue, buf |-> buf, guest |-> h]
      /\ host' = [host EXCEPT !.phase = "saved"]
  BY DEF TakeSnapshot
<1>2. /\ host.cmd = 0 /\ host.base = 0 /\ host.result = 0 /\ HostInv(host')
      /\ host'.cmd = host.cmd /\ host'.base = host.base
  <2>1. host.cmd = 0 /\ host.base = 0 /\ host.result = 0
    BY <1>1 DEF HostInv
  <2> QED
    BY <1>1, <2>1 DEF HostInv
<1>3. Carries(dev.out, dev.in, queue, buf, guest, 0, 0)
  BY <1>2 DEF CarriesNow
<1>4. /\ h.todo = guest.todo /\ h.step = guest.step /\ h.inbox = guest.inbox /\ h.outbox = guest.outbox
  BY DEF Sound, GuestOK, Shape
<1>5. guest.step = "slot"
  BY <1>1 DEF Sound, GuestOK
<1> HIDE DEF h
<1>6. Carries(dev.out, dev.in, queue, buf, h, 0, 0)
  <2>1. UnsentOf(h) = <<>> /\ TodoOK(h)
    BY <1>1, <1>4 DEF UnsentOf, TodoOK
  <2>2. Stream(dev.out, dev.in, queue, buf, guest, 0, 0) /\ BufOK(buf)
    BY <1>3 DEF Carries
  <2>3. h.step # "index"
    BY <1>4, <1>5
  <2> QED
    BY <1>1, <1>4, <2>1, <2>2, <2>3, QuietStep
<1>7. Carries(<<>>, <<>>, queue, buf, h, 0, 0)
  BY <1>6, RestCarries
<1>8. snap'.queue = queue /\ snap'.buf = buf /\ snap'.guest = h
  BY <1>1
<1>9. CarriesSnap'
  BY <1>7, <1>8 DEF CarriesSnap
<1> QED
  BY <1>1, <1>2, <1>9 DEF CarriesNow

-----------------------------------------------------------------------------
(* The guest that sleeps.                                                  *)

\* Only the loop that reads requests sleeps, and it is awake when the snapshot is taken.
SleepInv ==
  SleeperIsWoken /\ (guest.phase # "loop" => guest.awake) /\ snap.guest.awake

\* The device changes what it has given back only with an interrupt.
LEMMA DeviceTells ==
  ASSUME SleepInv, TellsNow, snap' = snap,
         guest'.phase = guest.phase, guest'.awake = guest.awake, guest'.irq = guest.irq
  PROVE  SleepInv'
BY DEF SleepInv, SleeperIsWoken, HasUsed, TellsNow

\* What was given back and not read is as before.
LEMMA SleepsOn ==
  ASSUME SleepInv, snap' = snap, dev'.intr = dev.intr,
         queue'[RX].lastUsed = queue[RX].lastUsed, queue'[RX].usedIdx = queue[RX].usedIdx,
         guest'.phase = guest.phase, guest'.awake = guest.awake, guest'.irq = guest.irq
  PROVE  SleepInv'
BY DEF SleepInv, SleeperIsWoken, HasUsed

\* A guest that is awake.
LEMMA StaysAwake ==
  ASSUME SleepInv, snap' = snap, guest'.awake
  PROVE  SleepInv'
BY DEF SleepInv, SleeperIsWoken

LEMMA GuestSleeps ==
  ASSUME Sound(queue, guest), CarriesNow, SleepInv, Guest
  PROVE  SleepInv'
<1>1. snap' = snap /\ Shape(guest) /\ Queueful(queue)
  BY DEF Guest, Probe, WriteSlot, WriteIndex, Kick, Spin, TakeIrq, HandleIrq, ControlWork,
         OpenPort, ReadBuffer, FallAsleep, ProcessRequest, ReclaimTx, WriteBuffer, Sound, GuestOK
<1>2. CASE Probe
  <2>1. /\ guest.phase = "probe"
        /\ guest' = [guest EXCEPT !.phase = "open", !.todo = Append(Refill(CRX), Offer(CTX, "DEVICE_READY"))]
    BY <1>2 DEF Probe
  <2>2. guest'.awake = guest.awake
    BY <1>1, <2>1 DEF Shape
  <2>3. guest.awake
    BY <2>1, Zenon DEF SleepInv
  <2> QED
    BY <1>1, <2>2, <2>3, StaysAwake
<1>3. CASE WriteSlot \/ WriteIndex
  <2> DEFINE q == Head(guest.todo).q
  <2>1. \E t : /\ queue' = [queue EXCEPT ![q] = t] /\ dev' = dev
               /\ t.lastUsed = queue[q].lastUsed /\ t.usedIdx = queue[q].usedIdx
    <3>1. q \in Queues
      BY <1>3, OfferListTail DEF WriteSlot, WriteIndex, Sound, GuestOK
    <3>2. queue[q] \in Rings
      BY <3>1, QueueLists
    <3>3. CASE WriteSlot
      <4> DEFINE t == Stage(queue[q], FreeOne(queue[q]))
      <4>1. queue' = [queue EXCEPT ![q] = t] /\ dev' = dev
        BY <3>3 DEF WriteSlot
      <4>2. t.lastUsed = queue[q].lastUsed /\ t.usedIdx = queue[q].usedIdx
        BY <3>2 DEF Stage, Rings
      <4> QED
        BY <4>1, <4>2
    <3>4. CASE WriteIndex
      <4> DEFINE t == Expose(queue[q])
      <4>1. queue' = [queue EXCEPT ![q] = t] /\ dev' = dev
        BY <3>4 DEF WriteIndex
      <4>2. t.lastUsed = queue[q].lastUsed /\ t.usedIdx = queue[q].usedIdx
        BY <3>2 DEF Expose, Rings
      <4> QED
        BY <4>1, <4>2
    <3> QED
      BY <1>3, <3>3, <3>4
  <2>2. queue'[RX].lastUsed = queue[RX].lastUsed /\ queue'[RX].usedIdx = queue[RX].usedIdx /\ dev' = dev
    BY <1>1, <2>1, QueueNames DEF Queueful
  <2>3. guest'.phase = guest.phase /\ guest'.awake = guest.awake /\ guest'.irq = guest.irq
    <3>1. guest' = [guest EXCEPT !.step = "index"] \/ guest' = [guest EXCEPT !.step = "kick"]
      BY <1>3 DEF WriteSlot, WriteIndex
    <3> QED
      BY <1>1, <3>1 DEF Shape
  <2> QED
    BY <1>1, <2>2, <2>3, SleepsOn
<1>4. CASE Kick
  <2>1. TellsNow
    BY <1>4, KickCarries
  <2>2. guest'.phase = guest.phase /\ guest'.awake = guest.awake /\ guest'.irq = guest.irq
    <3>1. guest' = [guest EXCEPT !.step = "spin"] \/ guest' = [guest EXCEPT !.step = "slot", !.todo = Tail(@)]
      BY <1>4 DEF Kick
    <3> QED
      BY <1>1, <3>1 DEF Shape
  <2> QED
    BY <1>1, <2>1, <2>2, DeviceTells
<1>5. CASE Spin \/ ReclaimTx
  <2>1. dev' = dev /\ queue'[RX] = queue[RX]
    <3>1. \E q \in Queues \ {RX} : queue' = [queue EXCEPT ![q] = Collect(@)]
      BY <1>5, QueueNames DEF Spin, ReclaimTx
    <3> QED
      BY <1>1, <1>5, <3>1, QueueNames DEF Queueful, Spin, ReclaimTx
  <2>2. guest'.phase = guest.phase /\ guest'.awake = guest.awake /\ guest'.irq = guest.irq
    <3>1. guest' = guest \/ guest' = [guest EXCEPT !.step = "slot", !.todo = Tail(@)]
      BY <1>5 DEF Spin, ReclaimTx
    <3> QED
      BY <1>1, <3>1 DEF Shape
  <2> QED
    BY <1>1, <2>1, <2>2, SleepsOn
<1>6. CASE TakeIrq
  <2>1. guest' = [guest EXCEPT !.irq = TRUE]
    BY <1>6 DEF TakeIrq
  <2>2. guest'.phase = guest.phase /\ guest'.awake = guest.awake /\ guest'.irq
    BY <1>1, <2>1 DEF Shape
  <2> QED
    BY <1>1, <2>2 DEF SleepInv, SleeperIsWoken
<1>7. CASE HandleIrq
  <2>1. /\ queue' = queue
        /\ guest' = [guest EXCEPT !.irq = FALSE, !.awake = @ \/ HasUsed(RX), !.work = @ \/ HasUsed(CRX)]
    BY <1>7 DEF HandleIrq
  <2>2. guest'.phase = guest.phase /\ guest'.awake = (guest.awake \/ HasUsed(RX))
    <3>1. PICK a, w : a = (guest.awake \/ HasUsed(RX)) /\ w = (guest.work \/ HasUsed(CRX))
      OBVIOUS
    <3>2. guest' = [guest EXCEPT !.irq = FALSE, !.awake = a, !.work = w]
      BY <2>1, <3>1, Zenon
    <3>3. guest'.phase = guest.phase /\ guest'.awake = a
      BY ONLY <1>1, <3>2 DEF Shape
    <3> QED
      BY <3>1, <3>3
  <2>3. HasUsed(RX)' = HasUsed(RX)
    BY <2>1 DEF HasUsed
  <2> HIDE DEF HasUsed
  <2> QED
    BY <1>1, <2>2, <2>3, Zenon DEF SleepInv, SleeperIsWoken
<1>8. CASE ControlWork
  <2>1. dev' = dev /\ queue'[RX] = queue[RX]
    <3>1. queue' = queue \/ queue' = [queue EXCEPT ![CRX] = Collect(@)]
      BY <1>8 DEF ControlWork
    <3> QED
      BY <1>1, <1>8, <3>1, QueueNames DEF Queueful, ControlWork
  <2>2. guest'.phase = guest.phase /\ guest'.awake = guest.awake /\ guest'.irq = guest.irq
    <3> DEFINE event == buf[CRX][Oldest(queue[CRX])]
               again == <<Offer(CRX, Empty)>>
               more == again \o Refill(RX) \o <<Offer(CTX, "PORT_READY")>>
    <3>1. CASE ~HasUsed(CRX)
      <4>1. guest' = [guest EXCEPT !.work = FALSE]
        BY <1>8, <3>1 DEF ControlWork
      <4> QED
        BY <1>1, <4>1 DEF Shape
    <3>2. CASE HasUsed(CRX)
      <4>1. guest' = CASE event = "PORT_ADD"  -> [guest EXCEPT !.todo = more]
                       [] event = "PORT_OPEN" -> [guest EXCEPT !.todo = again, !.connected = TRUE]
                       [] OTHER               -> [guest EXCEPT !.todo = again]
        BY <1>8, <3>2 DEF ControlWork
      <4> HIDE DEF event, again, more
      <4>2. CASE event = "PORT_ADD"
        BY <1>1, <4>1, <4>2 DEF Shape
      <4>3. CASE event # "PORT_ADD" /\ event = "PORT_OPEN"
        BY <1>1, <4>1, <4>3 DEF Shape
      <4>4. CASE event # "PORT_ADD" /\ event # "PORT_OPEN"
        BY <1>1, <4>1, <4>4 DEF Shape
      <4> QED
        BY <4>2, <4>3, <4>4
    <3> QED
      BY <3>1, <3>2
  <2> QED
    BY <1>1, <2>1, <2>2, SleepsOn
<1>9. CASE OpenPort
  <2>1. guest.phase = "open"
    BY <1>9 DEF OpenPort
  <2>2. guest'.awake = guest.awake
    <3>1. CASE guest.connected
      <4>1. guest' = [guest EXCEPT !.phase = "marker", !.todo = <<Offer(CTX, "PORT_OPEN")>>]
        BY <1>9, <3>1 DEF OpenPort
      <4> QED
        BY <1>1, <4>1 DEF Shape
    <3>2. CASE ~guest.connected /\ guest.tries + 1 = MaxTries
      <4>1. guest' = [guest EXCEPT !.phase = "nomarker", !.tries = MaxTries]
        BY <1>9, <3>2 DEF OpenPort
      <4> QED
        BY <1>1, <4>1 DEF Shape
    <3>3. CASE ~guest.connected /\ guest.tries + 1 # MaxTries
      <4>1. guest' = [guest EXCEPT !.tries = @ + 1]
        BY <1>9, <3>3 DEF OpenPort
      <4> QED
        BY <1>1, <4>1 DEF Shape
    <3> QED
      BY <3>1, <3>2, <3>3
  <2>3. guest.awake
    BY <2>1, Zenon DEF SleepInv
  <2> QED
    BY <1>1, <2>2, <2>3, StaysAwake
<1>10. CASE ReadBuffer
  <2> DEFINE x == buf[RX][Oldest(queue[RX])]
             o == <<Offer(RX, Empty)>>
  <2>1. guest.awake /\ guest' = [guest EXCEPT !.inbox = @ \o x, !.todo = o]
    BY <1>10 DEF ReadBuffer, AtRead
  <2> HIDE DEF x, o
  <2>2. guest'.awake = guest.awake
    BY <1>1, <2>1 DEF Shape
  <2> QED
    BY <1>1, <2>1, <2>2, StaysAwake
<1>11. CASE FallAsleep
  <2>1. guest' = [guest EXCEPT !.awake = FALSE] /\ ~HasUsed(RX) /\ queue' = queue /\ guest.phase = "loop"
    BY <1>11 DEF FallAsleep, AtRead
  <2>2. guest'.phase = "loop"
    BY <1>1, <2>1 DEF Shape
  <2> QED
    BY <1>1, <2>1, <2>2 DEF SleepInv, SleeperIsWoken, HasUsed
<1>12. CASE ProcessRequest \/ WriteBuffer
  <2>1. dev' = dev /\ queue' = queue
    BY <1>12 DEF ProcessRequest, WriteBuffer
  <2>2. guest'.phase = guest.phase /\ guest'.awake = guest.awake /\ guest'.irq = guest.irq
    <3>1. (\E l, rest : guest' = [guest EXCEPT !.outbox = l, !.inbox = rest])
            \/ (\E l, rest : guest' = [guest EXCEPT !.todo = l, !.outbox = rest])
      BY <1>12 DEF ProcessRequest, WriteBuffer
    <3>2. CASE \E l, rest : guest' = [guest EXCEPT !.outbox = l, !.inbox = rest]
      BY <1>1, <3>2 DEF Shape
    <3>3. CASE \E l, rest : guest' = [guest EXCEPT !.todo = l, !.outbox = rest]
      BY <1>1, <3>3 DEF Shape
    <3> QED
      BY <3>1, <3>2, <3>3
  <2> QED
    BY <1>1, <2>1, <2>2, SleepsOn
<1> QED
  BY <1>2, <1>3, <1>4, <1>5, <1>6, <1>7, <1>8, <1>9, <1>10, <1>11, <1>12 DEF Guest

LEMMA GuestCarriesOn ==
  ASSUME Sound(queue, guest), CarriesNow, Guest
  PROVE  CarriesNow'
BY ProbeCarries, WriteSlotCarries, WriteIndexCarries, KickCarries, SpinCarries, IrqCarries, ControlWorkCarries,
   ReadBufferCarries, ProcessRequestCarries, ReclaimTxCarries, WriteBufferCarries DEF Guest

\* The whole machine: its queues, what is on its way, the host's counters and the sleeper.
StreamInv == Inv /\ CarriesNow /\ CarriesSnap /\ HostInv(host) /\ SleepInv

LEMMA InitCarries ==
  ASSUME Init
  PROVE  CarriesNow /\ CarriesSnap /\ HostInv(host) /\ SleepInv
<1>1. /\ queue = [q \in Queues |-> ResetRing] /\ buf = [q \in Queues |-> [d \in Desc |-> Empty]]
      /\ dev = NewDevice
      /\ guest.phase = "probe" /\ guest.todo = <<>> /\ guest.step = "slot" /\ guest.awake = TRUE
      /\ guest.inbox = <<>> /\ guest.outbox = <<>>
      /\ host = [phase |-> "boot", cmd |-> 0, result |-> 0, base |-> 0, late |-> FALSE, resets |-> 0]
      /\ snap.queue = queue /\ snap.guest = guest /\ snap.buf = buf
  BY DEF Init
<1>2. Offered(queue[TX]) = <<>> /\ Returned(queue[RX]) = <<>>
  BY <1>1, ResetWellKept, QueueNames
<1>3. \A b : Through(<<>>, b) = <<>>
  <2>1. <<>> \in Seq(Desc) /\ Len(<<>>) = 0
    BY EmptySeq
  <2> QED
    BY <2>1, ThroughFacts
<1>4. Flow(<<>>, <<>>, <<>>, <<>>, <<>>, <<>>, <<>>, 0, 0)
  <2>1. 0 \in Nat /\ 2 * 0 = 0
    OBVIOUS
  <2>2. Seg(<<>>, 0, 0) /\ Chain(<<>>, 0, 0)
    BY <2>1, SegEmpty, ChainEmpty
  <2>3. Answers(<<>>, <<>>, <<>>, <<>>, 0, 0) /\ Inputs(<<>>, <<>>, <<>>, 0, 0)
    BY <2>1, <2>2 DEF Answers, Inputs
  <2>4. Answers(<<>>, <<>>, <<>>, <<>>, 2 * 0, 2 * 0) /\ Inputs(<<>>, <<>>, <<>>, 2 * 0, 2 * 0)
    BY <2>1, <2>3
  <2> QED
    BY <2>1, <2>4 DEF Flow
<1>5. TodoOK(guest) /\ UnsentOf(guest) = <<>> /\ StagedHolds(queue, buf, guest)
  BY <1>1 DEF TodoOK, UnsentOf, StagedHolds
<1>6. BufOK(buf)
  BY <1>1 DEF BufOK
<1>7. Stream(<<>>, <<>>, queue, buf, guest, 0, 0)
  BY <1>1, <1>2, <1>3, <1>4, <1>5 DEF Stream
<1>8. Carries(<<>>, <<>>, queue, buf, guest, 0, 0)
  BY <1>5, <1>6, <1>7 DEF Carries
<1>9. DevOK(dev) /\ dev.out = <<>> /\ dev.in = <<>>
  BY <1>1 DEF NewDevice, DevOK
<1>10. HostInv(host) /\ host.base = 0 /\ host.cmd = 0
  BY <1>1 DEF HostInv
<1>11. SleepInv
  BY <1>1 DEF SleepInv, SleeperIsWoken
<1> QED
  BY <1>1, <1>8, <1>9, <1>10, <1>11 DEF CarriesNow, CarriesSnap

LEMMA NextCarries ==
  ASSUME StreamInv, Next
  PROVE  StreamInv'
<1>1. Inv' /\ Sound(queue, guest) /\ CarriesNow /\ CarriesSnap /\ HostInv(host) /\ SleepInv
  BY StepGoes DEF StreamInv, Inv
<1>2. CASE Guest
  <2>1. snap' = snap /\ host' = host
    BY <1>2 DEF Guest, Probe, WriteSlot, WriteIndex, Kick, Spin, TakeIrq, HandleIrq, ControlWork,
                OpenPort, ReadBuffer, FallAsleep, ProcessRequest, ReclaimTx, WriteBuffer
  <2>2. CarriesNow' /\ SleepInv'
    BY <1>1, <1>2, GuestCarriesOn, GuestSleeps
  <2> QED
    BY <1>1, <2>1, <2>2 DEF StreamInv, CarriesSnap
<1>3. CASE TakeSnapshot
  <2>1. CarriesNow' /\ CarriesSnap' /\ HostInv(host')
    BY <1>1, <1>3, SnapshotCarries
  <2>2. SleepInv'
    <3> DEFINE h == [guest EXCEPT !.phase = IF @ = "marker" THEN "loop" ELSE "uart"]
    <3>1. /\ guest.phase \in {"marker", "nomarker"} /\ queue' = queue /\ dev' = dev /\ guest' = guest
          /\ snap' = [queue |-> queue, buf |-> buf, guest |-> h]
      BY <1>3 DEF TakeSnapshot
    <3>2. h.awake = guest.awake
      BY <1>1 DEF Sound, GuestOK, Shape
    <3> HIDE DEF h
    <3>3. snap'.guest = h
      BY <3>1
    <3>4. guest.phase # "loop"
      BY <3>1
    <3>5. guest.awake /\ snap'.guest.awake /\ guest'.awake
      BY <1>1, <3>1, <3>2, <3>3, <3>4 DEF SleepInv
    <3> QED
      BY <3>5 DEF SleepInv, SleeperIsWoken
  <2> QED
    BY <1>1, <2>1, <2>2 DEF StreamInv
<1>4. CASE Fork \/ Reset
  <2>1. CarriesNow' /\ HostInv(host')
    BY <1>1, <1>4, RestoreCarries
  <2>2. snap' = snap /\ guest' = snap.guest
    BY <1>4 DEF Fork, Reset, Restore
  <2>3. guest'.awake
    BY <1>1, <2>2 DEF SleepInv
  <2>4. SleepInv'
    BY <1>1, <2>2, <2>3, StaysAwake
  <2> QED
    BY <1>1, <2>1, <2>2, <2>4 DEF StreamInv, CarriesSnap
<1>5. CASE Exec \/ ExecTurn \/ Settle
  <2>1. CarriesNow' /\ TellsNow /\ HostInv(host')
    BY <1>1, <1>5, ExecCarries, ExecTurnCarries, SettleCarries
  <2>2. snap' = snap /\ guest' = guest
    BY <1>5 DEF Exec, ExecTurn, Settle
  <2>3. SleepInv'
    BY <1>1, <2>1, <2>2, DeviceTells
  <2> QED
    BY <1>1, <2>1, <2>2, <2>3 DEF StreamInv, CarriesSnap
<1>6. CASE SettleGivesUp \/ Timeout
  <2>1. CarriesNow' /\ HostInv(host')
    BY <1>1, <1>6, GivesUpCarries
  <2>2. snap' = snap /\ guest' = guest /\ queue' = queue /\ dev' = dev
    BY <1>6 DEF SettleGivesUp, Timeout
  <2>3. SleepInv'
    BY <1>1, <2>2, SleepsOn
  <2> QED
    BY <1>1, <2>1, <2>2, <2>3 DEF StreamInv, CarriesSnap
<1> QED
  BY <1>2, <1>3, <1>4, <1>5, <1>6 DEF Next

LEMMA StreamAlways == Spec => []StreamInv
<1>1. Init => StreamInv
  BY InitSound, InitCarries DEF StreamInv
<1>2. StreamInv /\ [Next]_vars => StreamInv'
  <2>1. ASSUME StreamInv, UNCHANGED vars PROVE StreamInv'
    <3>1. /\ queue' = queue /\ noKick' = noKick /\ buf' = buf /\ dev' = dev /\ guest' = guest /\ host' = host
          /\ snap' = snap
      BY <2>1 DEF vars
    <3>2. Inv'
      BY <2>1, <3>1 DEF StreamInv, Inv, Sound, Fresh, GuestOK, Shape, OfferList, Queueful, StagedAs
    <3>3. CarriesNow' /\ CarriesSnap' /\ HostInv(host')
      BY <2>1, <3>1 DEF StreamInv, CarriesNow, CarriesSnap
    <3>4. SleepInv'
      BY <2>1, <3>1 DEF StreamInv, SleepInv, SleeperIsWoken, HasUsed
    <3> QED
      BY <3>1, <3>2, <3>3, <3>4 DEF StreamInv
  <2> QED
    BY <2>1, NextCarries
<1> QED
  BY <1>1, <1>2, PTL DEF Spec

\* Nothing is lost, repeated or overtaken between the first byte the host pushes and the
\* last line it reads, whatever was cut into buffers, timed out or left over.
THEOREM StreamKept == Spec => []StreamIntact
<1>1. StreamInv => StreamIntact
  <2> SUFFICES ASSUME StreamInv PROVE StreamIntact
    OBVIOUS
  <2>1. /\ Sound(queue, guest) /\ Stream(dev.out, dev.in, queue, buf, guest, host.base, host.cmd)
        /\ host.base \in Nat /\ host.cmd \in Nat
    BY DEF StreamInv, Inv, CarriesNow, Carries, HostInv
  <2> DEFINE list == Offered(queue[TX])
             given == Returned(queue[RX])
             held == Through(list, buf[TX])
             back == Through(given, buf[RX])
  <2>2. Flow(dev.out, held, UnsentOf(guest), guest.outbox, guest.inbox, back, dev.in, host.base, host.cmd)
    BY <2>1 DEF Stream
  <2>3. /\ DOMAIN list = 1 .. Pending(queue[TX]) /\ given \in Seq(Desc)
    <3>1. queue[TX] \in Rings /\ queue[RX] \in Rings
      BY <2>1, QueueNames, QueueLists
    <3>2. PICK r \in Rings : r = queue[TX]
      BY <3>1
    <3>3. DOMAIN Offered(r) = 1 .. Pending(r)
      BY Lists DEF Pending
    <3> QED
      BY <3>1, <3>2, <3>3, Lists
  <2>4. Contents(TX) = held
    BY <2>3 DEF Contents, Through
  <2>5. Unsent = UnsentOf(guest)
    BY DEF Unsent, UnsentOf
  <2>6. back = [i \in DOMAIN Returned(queue[RX]) |-> buf[RX][Returned(queue[RX])[i]]]
    BY DEF Through
  <2>7. Len(back) = 0 => back = <<>>
    BY <2>3, ThroughFacts
  <2> HIDE DEF list, given, held, back
  <2>8. dev.out \o held \o UnsentOf(guest) \o guest.outbox \o guest.inbox \o FlattenSeq(back) \o dev.in
          = FlattenSeq([k \in 1 .. host.cmd - host.base |-> Line(host.base + k)])
    <3> DEFINE out == dev.out
               inp == dev.in
               u == UnsentOf(guest)
               ob == guest.outbox
               ib == guest.inbox
               b == host.base
               c == host.cmd
    <3>1. Flow(out, held, u, ob, ib, back, inp, b, c) /\ b \in Nat /\ c \in Nat
      BY <2>1, <2>2
    <3> HIDE DEF out, inp, u, ob, ib, b, c
    <3>2. Together(out, held, u, ob, ib, back, inp) = LinesOf(b, c)
      BY ONLY <2>7, <3>1, FlowWhole
    <3> QED
      BY <3>2 DEF out, inp, u, ob, ib, b, c, Together, LinesOf
  <2>9. InFlight = dev.out \o held \o UnsentOf(guest) \o guest.outbox \o guest.inbox \o FlattenSeq(back) \o dev.in
    BY <2>4, <2>5, <2>6 DEF InFlight
  <2> QED
    BY <2>8, <2>9 DEF StreamIntact
<1> QED
  BY <1>1, StreamAlways, PTL

\* exec() returns the answer to its own command, unless one before it timed out.
THEOREM AnswersAreOwn == Spec => []AnswerIsOwn
<1>1. StreamInv => AnswerIsOwn
  BY DEF StreamInv, HostInv, AnswerIsOwn
<1> QED
  BY <1>1, StreamAlways, PTL

\* No guest sleeps on input without an interrupt that is coming or being handled.
THEOREM SleepersWoken == Spec => []SleeperIsWoken
<1>1. StreamInv => SleeperIsWoken
  BY DEF StreamInv, SleepInv
<1> QED
  BY <1>1, StreamAlways, PTL
=============================================================================
