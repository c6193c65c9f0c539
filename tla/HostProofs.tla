----------------------------- MODULE HostProofs -----------------------------
(***************************************************************************)
(* What the host promises the guest's kernel and the processes of a user.  *)
(***************************************************************************)
EXTENDS MCHost, FiniteSetTheorems, SequenceTheorems, WellFoundedInduction, TLAPS

-----------------------------------------------------------------------------
(* Functions on the numbers.                                               *)

LEMMA LeastOf ==
  ASSUME NEW S \in SUBSET Nat, S # {}
  PROVE  \E n \in S : \A m \in S : n <= m
<1> DEFINE R == {ss \in Nat \X Nat : ss[1] < ss[2]}
<1>1. IsWellFoundedOn(R, Nat)
  BY NatLessThanWellFounded DEF OpToRel
<1>2. PICK n \in S : \A m \in S : ~(<<m, n>> \in R)
  <2> HIDE DEF R
  <2> QED BY <1>1, WFMin, Zenon
<1>3. \A m \in S : m \in Nat /\ n \in Nat /\ (n <= m \/ m < n)
  OBVIOUS
<1>4. \A m \in S : m < n => <<m, n>> \in R
  OBVIOUS
<1> QED BY <1>2, <1>3, <1>4

LEMMA Induction ==
  ASSUME NEW S \in SUBSET Nat, 0 \in S, \A n \in S : n + 1 \in S
  PROVE  S = Nat
<1> SUFFICES ASSUME Nat \ S # {} PROVE FALSE
  OBVIOUS
<1>1. PICK n \in Nat \ S : \A m \in Nat \ S : n <= m
  BY LeastOf
<1>2. n # 0 /\ n - 1 \in Nat
  BY <1>1
<1>3. n - 1 \in S
  BY <1>1, <1>2
<1> QED BY <1>1, <1>2, <1>3

Recursed(V, v, step, n) ==
  {g \in [0 .. n -> V] : g[0] = v /\ \A k \in 0 .. n - 1 : g[k + 1] = step[<<k, g[k]>>]}

Steps(V, v, step) == v \in V /\ step \in [Nat \X V -> V]
Follows(V, v, step, f) == f \in [Nat -> V] /\ f[0] = v /\ \A n \in Nat : f[n + 1] = step[<<n, f[n]>>]

\* A function on the numbers given by its first value and the step to the next one exists.
LEMMA Recursion ==
  ASSUME NEW V, NEW v, NEW step, Steps(V, v, step)
  PROVE  \E f : Follows(V, v, step, f)
<1>0. v \in V /\ step \in [Nat \X V -> V]
  BY DEF Steps
<1> DEFINE R(n) == Recursed(V, v, step, n)
<1>1. \A n \in Nat : R(n) # {}
  <2> DEFINE S == {n \in Nat : R(n) # {}}
  <2>1. 0 \in S
    <3>1. [k \in 0 .. 0 |-> v] \in R(0)
      BY <1>0 DEF Recursed
    <3> QED
      BY <3>1
  <2>2. ASSUME NEW n \in S PROVE n + 1 \in S
    <3>1. PICK g : g \in R(n)
      BY <2>2
    <3>2. n \in Nat /\ g \in [0 .. n -> V] /\ g[0] = v /\ \A k \in 0 .. n - 1 : g[k + 1] = step[<<k, g[k]>>]
      BY <3>1, <2>2 DEF Recursed
    <3> DEFINE h == [k \in 0 .. n + 1 |-> IF k <= n THEN g[k] ELSE step[<<n, g[n]>>]]
    <3>3. g[n] \in V /\ step[<<n, g[n]>>] \in V
      BY <1>0, <3>2
    <3>4. h \in [0 .. n + 1 -> V]
      BY <3>2, <3>3
    <3>5. h[0] = v
      BY <3>2
    <3>6. ASSUME NEW k \in 0 .. n PROVE h[k + 1] = step[<<k, h[k]>>]
      <4>1. CASE k < n
        BY <3>2, <4>1
      <4>2. CASE k = n
        <5>1. h[n] = g[n] /\ h[n + 1] = step[<<n, g[n]>>]
          BY <3>2
        <5> QED
          BY <4>2, <5>1
      <4> QED
        BY <3>2, <4>1, <4>2
    <3> HIDE DEF h
    <3>7. h \in R(n + 1)
      BY <3>2, <3>4, <3>5, <3>6 DEF Recursed
    <3> QED
      BY <3>2, <3>7
  <2> HIDE DEF S
  <2>3. S \in SUBSET Nat
    BY DEF S
  <2>4. S = Nat
    BY <2>1, <2>2, <2>3, Induction
  <2> QED
    BY <2>4 DEF S
<1>2. ASSUME NEW n \in Nat, NEW g \in R(n), NEW h \in R(n + 1) PROVE g[n] = h[n]
  <2>1. /\ g \in [0 .. n -> V] /\ g[0] = v /\ \A k \in 0 .. n - 1 : g[k + 1] = step[<<k, g[k]>>]
        /\ h \in [0 .. n + 1 -> V] /\ h[0] = v /\ \A k \in 0 .. n : h[k + 1] = step[<<k, h[k]>>]
    BY DEF Recursed
  <2> DEFINE S == {k \in Nat : k <= n => g[k] = h[k]}
  <2>2. 0 \in S
    BY <2>1
  <2>3. ASSUME NEW k \in S PROVE k + 1 \in S
    <3>1. k \in Nat /\ (k <= n => g[k] = h[k])
      BY <2>3
    <3>2. CASE k + 1 <= n
      <4>1. k \in 0 .. n - 1 /\ k \in 0 .. n /\ g[k] = h[k]
        BY <3>1, <3>2
      <4>2. g[k + 1] = step[<<k, g[k]>>] /\ h[k + 1] = step[<<k, h[k]>>]
        BY <2>1, <4>1
      <4> QED
        BY <3>1, <4>1, <4>2
    <3> QED
      BY <3>1, <3>2
  <2> HIDE DEF S
  <2>4. S = Nat
    <3>1. S \in SUBSET Nat
      BY DEF S
    <3> QED
      BY <2>2, <2>3, <3>1, Induction
  <2> QED
    BY <2>4 DEF S
<1>8. \A n \in Nat : \A g \in R(n + 1) : g[n + 1] = step[<<n, g[n]>>]
  BY DEF Recursed
<1> HIDE DEF R
<1> DEFINE G(n) == CHOOSE g : g \in R(n)
           f == [n \in Nat |-> G(n)[n]]
<1>3. \A n \in Nat : G(n) \in R(n)
  BY <1>1
<1>4. \A n \in Nat : G(n) \in [0 .. n -> V] /\ G(n)[0] = v
  BY <1>3 DEF R, Recursed
<1>5. f \in [Nat -> V]
  BY <1>4
<1>6. f[0] = v
  BY <1>4
<1>7. ASSUME NEW n \in Nat PROVE f[n + 1] = step[<<n, f[n]>>]
  <2>1. G(n + 1) \in R(n + 1) /\ G(n) \in R(n)
    BY <1>3
  <2>2. G(n)[n] = G(n + 1)[n]
    BY <1>2, <2>1
  <2>3. G(n + 1)[n + 1] = step[<<n, G(n + 1)[n]>>]
    BY <1>8, <2>1
  <2> HIDE DEF G
  <2> QED
    BY <2>2, <2>3
<1> HIDE DEF f
<1>9. Follows(V, v, step, f)
  BY <1>5, <1>6, <1>7 DEF Follows
<1> QED
  BY <1>9

-----------------------------------------------------------------------------
(* Boot: the kernel's file.                                                *)

Opens == {"image", "extracting", "fetching"}
Places == Opens \cup {"idle", "download", "extracted", "unzip", "unlink", "load", "tools", "fetched",
                     "place", "create", "check", "running"}

Writes(i) == \E q \in Procs : my[q].fd = i

BootTypes ==
  /\ dir \in [Machine!FileNames -> {Machine!None} \cup Machine!Inodes]
  /\ content \in [Machine!Inodes -> Machine!Contents]
  /\ pc \in [Procs -> Places]
  /\ DOMAIN my = Procs
  /\ \A q \in Procs : /\ my[q].fd \in {Machine!None} \cup Machine!Inodes
                      /\ DOMAIN my[q] = {"fd", "kernel", "line", "plan"}
  /\ cutShort \in BOOLEAN

\* Nothing but Image is the inode of Image; whoever writes Image has it open, whoever
\* unpacks an archive has another, and nobody else has a file open.
ImageInv ==
  /\ \A n \in Machine!FileNames \ {Machine!Image} :
       dir[n] # Machine!None => dir[n] # dir[Machine!Image]
  /\ \A q \in Procs :
       /\ pc[q] = "image" => my[q].fd = dir[Machine!Image] /\ my[q].fd # Machine!None
       /\ pc[q] \in {"extracting", "fetching"} =>
            my[q].fd # dir[Machine!Image] /\ my[q].fd # Machine!None
       /\ pc[q] \notin {"image", "extracting", "fetching"} => my[q].fd = Machine!None
  /\ Machine!ImageWhole

BootInv == BootTypes /\ ImageInv

\* The instance has its own copy of what its module extends.
LEMMA SameSets ==
  /\ \A S : Machine!IsFiniteSet(S) = IsFiniteSet(S)
  /\ \A S : Machine!Cardinality(S) = Cardinality(S)
<1>1. \A S : Machine!IsFiniteSet(S) = IsFiniteSet(S)
  BY DEF Machine!IsFiniteSet, IsFiniteSet
<1>2. \A S : Machine!Cardinality(S) = Cardinality(S)
  BY DEF Machine!Cardinality, Cardinality
<1> QED
  BY <1>1, <1>2

LEMMA BootConstants ==
  /\ Machine!None = 0 /\ Machine!None \notin Machine!Inodes
  /\ {Machine!Custom, Machine!Image, Machine!Vmlinuz, Machine!Busybox} \subseteq Machine!FileNames
  /\ Machine!Extracted(Machine!Vmlinuz) \in Machine!FileNames \ {Machine!Image}
  /\ Machine!Extracted(Machine!Busybox) \in Machine!FileNames \ {Machine!Image}
  /\ Machine!Image \notin {Machine!Vmlinuz, Machine!Busybox, Machine!Custom}
  /\ "cut" \in Machine!Contents /\ "whole" \in Machine!Contents
  /\ Machine!Fresh.fd = Machine!None /\ DOMAIN Machine!Fresh = {"fd", "kernel", "line", "plan"}
BY DEF Machine!None, Machine!Inodes, Machine!Custom, Machine!Image, Machine!Vmlinuz, Machine!Busybox,
       Machine!FileNames, Machine!Extracted, Machine!Contents, Machine!Fresh

LEMMA FewNames ==
  /\ IsFiniteSet(Machine!FileNames) /\ Cardinality(Machine!FileNames) \in Nat \ {0}
  /\ IsFiniteSet(Procs) /\ Cardinality(Procs) \in Nat
  /\ Machine!Inodes = 1 .. Cardinality(Machine!FileNames) + Cardinality(Procs)
<1> DEFINE Kernels == {Machine!Custom, Machine!Image, Machine!Vmlinuz}
           Rest == {Machine!Busybox, "boot/vmlinuz-virt", "bin/busybox.static"}
<1>1. \A a, b, c : IsFiniteSet({a, b, c})
  <2> TAKE a, b, c
  <2>1. IsFiniteSet({a}) /\ IsFiniteSet({b}) /\ IsFiniteSet({c})
    BY FS_Singleton
  <2>2. IsFiniteSet({a} \cup {b})
    BY <2>1, FS_Union
  <2>3. IsFiniteSet(({a} \cup {b}) \cup {c})
    BY <2>1, <2>2, FS_Union
  <2>4. ({a} \cup {b}) \cup {c} = {a, b, c}
    OBVIOUS
  <2> QED
    BY <2>3, <2>4, Zenon
<1>2. IsFiniteSet(Kernels) /\ IsFiniteSet(Rest)
  BY <1>1
<1>3. Machine!FileNames = Kernels \cup Rest /\ Machine!FileNames # {}
  BY DEF Machine!FileNames
<1> HIDE DEF Kernels, Rest
<1>4. IsFiniteSet(Machine!FileNames)
  BY <1>2, <1>3, FS_Union
<1>5. Cardinality(Machine!FileNames) \in Nat \ {0}
  BY <1>3, <1>4, FS_CardinalityType, FS_EmptySet
<1>6. IsFiniteSet(Procs) /\ Cardinality(Procs) \in Nat
  BY BootAssumption, SameSets, FS_CardinalityType DEF Machine!BootAssumption
<1> QED
  BY <1>4, <1>5, <1>6, SameSets DEF Machine!Inodes

\* There are more inodes than names and open files.
LEMMA UnusedInode ==
  ASSUME BootTypes, NEW p \in Procs, my[p].fd = Machine!None
  PROVE  /\ Machine!Unused \in Machine!Inodes
         /\ \A n \in Machine!FileNames : dir[n] # Machine!Unused
         /\ \A q \in Procs : my[q].fd # Machine!Unused
<1> DEFINE Names2 == Machine!FileNames
           Others == Procs \ {p}
           Named == {dir[n] : n \in Names2}
           Opened == {my[q].fd : q \in Others}
<1>1. IsFiniteSet(Procs) /\ Cardinality(Procs) \in Nat
  BY FewNames
<1>2. IsFiniteSet(Names2) /\ Cardinality(Names2) \in Nat
  BY FewNames DEF Names2
<1>3. IsFiniteSet(Others) /\ Cardinality(Others) = Cardinality(Procs) - 1
  BY <1>1, FS_RemoveElement
<1> HIDE DEF Names2, Others
<1>4. IsFiniteSet(Named) /\ Cardinality(Named) <= Cardinality(Names2) /\ Cardinality(Named) \in Nat
  <2> DEFINE f == [n \in Names2 |-> dir[n]]
  <2>1. f \in Surjection(Names2, Named)
    BY DEF Surjection
  <2> HIDE DEF f, Named
  <2> QED
    BY <1>2, <2>1, FS_Surjection, FS_CardinalityType
<1>5. IsFiniteSet(Opened) /\ Cardinality(Opened) <= Cardinality(Others) /\ Cardinality(Opened) \in Nat
  <2> DEFINE f == [q \in Others |-> my[q].fd]
  <2>1. f \in Surjection(Others, Opened)
    BY DEF Surjection
  <2> HIDE DEF f, Opened
  <2> QED
    BY <1>3, <2>1, FS_Surjection, FS_CardinalityType
<1>6. Cardinality(Machine!Inodes) = Cardinality(Names2) + Cardinality(Procs)
  <2>1. Machine!Inodes = 1 .. Cardinality(Names2) + Cardinality(Procs)
    BY FewNames DEF Names2
  <2> QED
    BY <1>1, <1>2, <2>1, FS_Interval
<1>7. ~(Machine!Inodes \subseteq Named \cup Opened)
  <2> HIDE DEF Named, Opened
  <2> SUFFICES ASSUME Machine!Inodes \subseteq Named \cup Opened PROVE FALSE
    OBVIOUS
  <2>1. /\ IsFiniteSet(Named \cup Opened)
        /\ Cardinality(Named \cup Opened) = Cardinality(Named) + Cardinality(Opened) - Cardinality(Named \cap Opened)
    BY <1>4, <1>5, FS_Union
  <2>2. Cardinality(Named \cap Opened) \in Nat
    BY <1>4, FS_Intersection, FS_CardinalityType
  <2>3. Cardinality(Machine!Inodes) <= Cardinality(Named \cup Opened)
    BY <2>1, FS_Subset
  <2> QED
    BY <1>1, <1>2, <1>3, <1>4, <1>5, <1>6, <2>1, <2>2, <2>3
<1>8. PICK i \in Machine!Inodes : i \notin Named /\ i \notin Opened
  BY <1>7
<1>9. /\ \A n \in Machine!FileNames : dir[n] # i
      /\ \A q \in Procs : my[q].fd # i
  BY <1>8, BootConstants DEF Names2, Others
<1> QED
  BY <1>9 DEF Machine!Unused


\* A step that leaves the files alone and who has them open.
LEMMA QuietBoot ==
  ASSUME BootInv, dir' = dir, content' = content, cutShort' = cutShort,
         pc' \in [Procs -> Places], DOMAIN my' = Procs,
         \A q \in Procs : my'[q].fd = my[q].fd /\ DOMAIN my'[q] = {"fd", "kernel", "line", "plan"},
         \A q \in Procs : pc'[q] = pc[q] \/ (pc[q] \notin Opens /\ pc'[q] \notin Opens)
  PROVE  BootInv'
<1>1. BootTypes'
  BY DEF BootInv, BootTypes
<1>2. \A q \in Procs :
        /\ pc'[q] = "image" => my'[q].fd = dir[Machine!Image] /\ my'[q].fd # Machine!None
        /\ pc'[q] \in {"extracting", "fetching"} =>
             my'[q].fd # dir[Machine!Image] /\ my'[q].fd # Machine!None
        /\ pc'[q] \notin {"image", "extracting", "fetching"} => my'[q].fd = Machine!None
  <2> SUFFICES ASSUME NEW q \in Procs
               PROVE  /\ pc'[q] = "image" => my'[q].fd = dir[Machine!Image] /\ my'[q].fd # Machine!None
                      /\ pc'[q] \in {"extracting", "fetching"} =>
                           my'[q].fd # dir[Machine!Image] /\ my'[q].fd # Machine!None
                      /\ pc'[q] \notin {"image", "extracting", "fetching"} => my'[q].fd = Machine!None
    OBVIOUS
  <2>1. my'[q].fd = my[q].fd
    OBVIOUS
  <2> QED
    BY <2>1 DEF BootInv, ImageInv, Opens
<1>3. Machine!ImageWhole'
  BY DEF BootInv, ImageInv, Machine!ImageWhole
<1> QED
  BY <1>1, <1>2, <1>3 DEF BootInv, ImageInv

\* The end of a boot, by success, error or kill.
LEMMA LeaveBoot ==
  ASSUME BootInv, NEW p \in Procs, Machine!Leave(p), dir' = dir, content' = content,
         cutShort' = (cutShort \/ pc[p] = "image") \/ (cutShort' = cutShort /\ pc[p] # "image")
  PROVE  BootInv'
<1>1. /\ pc' = [pc EXCEPT ![p] = "idle"] /\ my' = [my EXCEPT ![p] = Machine!Fresh]
      /\ DOMAIN my = Procs /\ pc \in [Procs -> Places]
  BY DEF Machine!Leave, Machine!Goto, BootInv, BootTypes
<1>2. /\ my'[p].fd = Machine!None /\ pc'[p] = "idle"
      /\ \A q \in Procs \ {p} : my'[q] = my[q] /\ pc'[q] = pc[q]
  BY <1>1, BootConstants
<1>3. cutShort' \in BOOLEAN /\ (cutShort => cutShort') /\ (pc[p] = "image" => cutShort')
  BY DEF BootInv, BootTypes
<1>4. BootTypes'
  <2>1. pc' \in [Procs -> Places] /\ DOMAIN my' = Procs
    BY <1>1 DEF Places
  <2>2. \A q \in Procs : /\ my'[q].fd \in {Machine!None} \cup Machine!Inodes
                         /\ DOMAIN my'[q] = {"fd", "kernel", "line", "plan"}
    <3>1. DOMAIN my'[p] = {"fd", "kernel", "line", "plan"}
      BY <1>1, BootConstants
    <3> QED
      BY <1>2, <3>1 DEF BootInv, BootTypes
  <2> QED
    BY <1>3, <2>1, <2>2 DEF BootInv, BootTypes
<1>5. \A q \in Procs :
        /\ pc'[q] = "image" => my'[q].fd = dir[Machine!Image] /\ my'[q].fd # Machine!None
        /\ pc'[q] \in {"extracting", "fetching"} =>
             my'[q].fd # dir[Machine!Image] /\ my'[q].fd # Machine!None
        /\ pc'[q] \notin {"image", "extracting", "fetching"} => my'[q].fd = Machine!None
  BY <1>2 DEF BootInv, ImageInv
<1>6. ~cutShort' => \A q \in Procs : my[q].fd = dir[Machine!Image] /\ dir[Machine!Image] # Machine!None
                                       => my'[q].fd = dir[Machine!Image]
  BY <1>2, <1>3 DEF BootInv, ImageInv
<1>7. Machine!ImageWhole'
  BY <1>3, <1>6 DEF BootInv, ImageInv, Machine!ImageWhole
<1> QED
  BY <1>4, <1>5, <1>7 DEF BootInv, ImageInv

LEMMA PutFd ==
  ASSUME BootTypes, NEW p \in Procs, NEW i, Machine!Put(p, "fd", i)
  PROVE  /\ DOMAIN my' = Procs
         /\ my'[p].fd = i /\ DOMAIN my'[p] = {"fd", "kernel", "line", "plan"}
         /\ \A q \in Procs \ {p} : my'[q] = my[q]
BY DEF BootTypes, Machine!Put

\* A step that puts p at `at' with the file i open, or none, leaves Image under its inode,
\* or puts it under one that nothing else has.
LEMMA FileStep ==
  ASSUME BootInv, NEW p \in Procs, NEW l \in Places, NEW i \in {Machine!None} \cup Machine!Inodes,
         Machine!Goto(p, l), my'[p].fd = i, DOMAIN my'[p] = {"fd", "kernel", "line", "plan"},
         DOMAIN my' = Procs, \A q \in Procs \ {p} : my'[q] = my[q], cutShort' = cutShort,
         dir' \in [Machine!FileNames -> {Machine!None} \cup Machine!Inodes],
         content' \in [Machine!Inodes -> Machine!Contents],
         \A n \in Machine!FileNames \ {Machine!Image} :
           dir'[n] # Machine!None => dir'[n] # dir'[Machine!Image],
         \A q \in Procs \ {p} :
           /\ pc[q] = "image" => my[q].fd = dir'[Machine!Image]
           /\ pc[q] \in {"extracting", "fetching"} => my[q].fd # dir'[Machine!Image],
         l = "image" => i = dir'[Machine!Image] /\ i # Machine!None,
         l \in {"extracting", "fetching"} => i # dir'[Machine!Image] /\ i # Machine!None,
         l \notin Opens => i = Machine!None,
         Machine!ImageWhole'
  PROVE  BootInv'
<1>1. pc' = [pc EXCEPT ![p] = l] /\ pc \in [Procs -> Places]
  BY DEF Machine!Goto, BootInv, BootTypes
<1>2. pc'[p] = l /\ pc' \in [Procs -> Places] /\ \A q \in Procs \ {p} : pc'[q] = pc[q]
  BY <1>1
<1>3. BootTypes'
  <2>1. \A q \in Procs : /\ my'[q].fd \in {Machine!None} \cup Machine!Inodes
                         /\ DOMAIN my'[q] = {"fd", "kernel", "line", "plan"}
    BY DEF BootInv, BootTypes
  <2> QED
    BY <1>2, <2>1 DEF BootInv, BootTypes
<1>4. ASSUME NEW q \in Procs
      PROVE  /\ pc'[q] = "image" => my'[q].fd = dir'[Machine!Image] /\ my'[q].fd # Machine!None
             /\ pc'[q] \in {"extracting", "fetching"} =>
                  my'[q].fd # dir'[Machine!Image] /\ my'[q].fd # Machine!None
             /\ pc'[q] \notin {"image", "extracting", "fetching"} => my'[q].fd = Machine!None
  <2>1. CASE q = p
    BY <1>2, <2>1 DEF Opens
  <2>2. CASE q # p
    BY <1>2, <2>2 DEF BootInv, ImageInv
  <2> QED
    BY <2>1, <2>2
<1> QED
  BY <1>3, <1>4 DEF BootInv, ImageInv

LEMMA ImageIsWhole ==
  BootInv => (dir[Machine!Image] # Machine!None /\ ~Writes(dir[Machine!Image])
                => content[dir[Machine!Image]] = "whole" \/ cutShort)
BY DEF BootInv, ImageInv, Machine!ImageWhole, Writes

\* tar makes a file of its own.
LEMMA TarStarts ==
  ASSUME BootInv, NEW p \in Procs, NEW n \in {Machine!Vmlinuz, Machine!Busybox}, Machine!StartTar(p, n),
         NEW l \in {"extracting", "fetching"}, Machine!Goto(p, l), cutShort' = cutShort, pc[p] \notin Opens
  PROVE  BootInv'
<1> DEFINE i == Machine!Unused
           name == Machine!Extracted(n)
<1>1. my[p].fd = Machine!None /\ BootTypes
  BY DEF BootInv, ImageInv, Opens
<1>2. /\ i \in Machine!Inodes /\ \A m \in Machine!FileNames : dir[m] # i
      /\ \A q \in Procs : my[q].fd # i
  BY <1>1, UnusedInode
<1>3. /\ dir' = [dir EXCEPT ![name] = i] /\ content' = [content EXCEPT ![i] = "cut"]
      /\ Machine!Put(p, "fd", i)
  BY DEF Machine!StartTar
<1>4. name \in Machine!FileNames \ {Machine!Image} /\ Machine!Image \in Machine!FileNames
  BY BootConstants
<1> HIDE DEF i, name
<1>5. /\ dir' \in [Machine!FileNames -> {Machine!None} \cup Machine!Inodes]
      /\ dir'[Machine!Image] = dir[Machine!Image] /\ dir'[name] = i
      /\ \A m \in Machine!FileNames \ {name} : dir'[m] = dir[m]
      /\ content' \in [Machine!Inodes -> Machine!Contents]
      /\ \A k \in Machine!Inodes \ {i} : content'[k] = content[k]
  BY <1>1, <1>2, <1>3, <1>4, BootConstants DEF BootTypes
<1>6. /\ DOMAIN my' = Procs
      /\ my'[p].fd = i /\ DOMAIN my'[p] = {"fd", "kernel", "line", "plan"}
      /\ \A q \in Procs \ {p} : my'[q] = my[q]
  BY <1>1, <1>3, PutFd
<1>7. Machine!ImageWhole'
  <2> SUFFICES ASSUME dir[Machine!Image] # Machine!None, \A q \in Procs : my'[q].fd # dir[Machine!Image]
               PROVE  content'[dir[Machine!Image]] = "whole" \/ cutShort
    BY <1>5 DEF Machine!ImageWhole
  <2>1. ~Writes(dir[Machine!Image])
    BY <1>1, <1>6 DEF Writes
  <2>2. dir[Machine!Image] \in Machine!Inodes \ {i}
    BY <1>1, <1>2, <1>4 DEF BootTypes
  <2> QED
    BY <1>5, <2>1, <2>2, ImageIsWhole
<1>8. \A m \in Machine!FileNames \ {Machine!Image} : dir'[m] # Machine!None => dir'[m] # dir'[Machine!Image]
  BY <1>2, <1>4, <1>5 DEF BootInv, ImageInv
<1>9. i # dir'[Machine!Image] /\ i # Machine!None /\ i \in {Machine!None} \cup Machine!Inodes
  BY <1>2, <1>4, <1>5, BootConstants
<1>10. \A q \in Procs \ {p} :
         /\ pc[q] = "image" => my[q].fd = dir'[Machine!Image]
         /\ pc[q] \in {"extracting", "fetching"} => my[q].fd # dir'[Machine!Image]
  BY <1>5 DEF BootInv, ImageInv
<1>11. l # "image" /\ l \in Opens /\ l \in Places
  BY DEF Opens, Places
<1> QED
  BY <1>5, <1>6, <1>7, <1>8, <1>9, <1>10, <1>11, FileStep

LEMMA TarEnds ==
  ASSUME BootInv, NEW p \in Procs, pc[p] \in {"extracting", "fetching"}, Machine!FinishTar(p),
         NEW l \in Places \ Opens, Machine!Goto(p, l), cutShort' = cutShort
  PROVE  BootInv'
<1> DEFINE i == my[p].fd
<1>1. /\ BootTypes /\ i \in Machine!Inodes /\ i # dir[Machine!Image]
  BY DEF BootInv, ImageInv, BootTypes
<1>2. /\ dir' = dir /\ content' = [content EXCEPT ![i] = "whole"] /\ Machine!Put(p, "fd", Machine!None)
  BY DEF Machine!FinishTar
<1> HIDE DEF i
<1>3. /\ content' \in [Machine!Inodes -> Machine!Contents]
      /\ \A k \in Machine!Inodes \ {i} : content'[k] = content[k]
  BY <1>1, <1>2, BootConstants DEF BootTypes
<1>4. /\ DOMAIN my' = Procs
      /\ my'[p].fd = Machine!None /\ DOMAIN my'[p] = {"fd", "kernel", "line", "plan"}
      /\ \A q \in Procs \ {p} : my'[q] = my[q]
  BY <1>1, <1>2, PutFd
<1>5. Machine!ImageWhole'
  <2> SUFFICES ASSUME dir[Machine!Image] # Machine!None, \A q \in Procs : my'[q].fd # dir[Machine!Image]
               PROVE  content'[dir[Machine!Image]] = "whole" \/ cutShort
    BY <1>2 DEF Machine!ImageWhole
  <2>1. ~Writes(dir[Machine!Image])
    BY <1>1, <1>4 DEF Writes, i
  <2>2. dir[Machine!Image] \in Machine!Inodes \ {i}
    BY <1>1, BootConstants DEF BootTypes
  <2> QED
    BY <1>3, <2>1, <2>2, ImageIsWhole
<1>6. dir' \in [Machine!FileNames -> {Machine!None} \cup Machine!Inodes]
  BY <1>1, <1>2 DEF BootTypes
<1>7. /\ \A m \in Machine!FileNames \ {Machine!Image} : dir'[m] # Machine!None => dir'[m] # dir'[Machine!Image]
      /\ \A q \in Procs \ {p} :
           /\ pc[q] = "image" => my[q].fd = dir'[Machine!Image]
           /\ pc[q] \in {"extracting", "fetching"} => my[q].fd # dir'[Machine!Image]
  BY <1>2 DEF BootInv, ImageInv
<1> QED
  BY <1>3, <1>4, <1>5, <1>6, <1>7, FileStep DEF Opens

\* A rename of what tar has left; what is at the name goes.
LEMMA Moved ==
  ASSUME BootInv, NEW p \in Procs, pc[p] \notin Opens, NEW n \in {Machine!Vmlinuz, Machine!Busybox},
         Machine!MoveTo(n), my' = my, NEW l \in Places \ Opens, Machine!Goto(p, l), cutShort' = cutShort
  PROVE  BootInv'
<1> DEFINE from == Machine!Extracted(n)
<1>1. /\ BootTypes /\ my[p].fd = Machine!None
  BY DEF BootInv, ImageInv, Opens
<1>2. /\ dir' = [dir EXCEPT ![n] = dir[from], ![from] = Machine!None] /\ content' = content
      /\ dir[from] # Machine!None
  BY DEF Machine!MoveTo
<1>3. /\ from \in Machine!FileNames \ {Machine!Image} /\ n \in Machine!FileNames \ {Machine!Image}
      /\ from # n /\ Machine!Image \in Machine!FileNames
  BY BootConstants DEF Machine!Extracted, Machine!Vmlinuz, Machine!Busybox
<1> HIDE DEF from
<1>4. /\ dir' \in [Machine!FileNames -> {Machine!None} \cup Machine!Inodes]
      /\ dir'[Machine!Image] = dir[Machine!Image]
      /\ dir'[n] = dir[from] /\ dir'[from] = Machine!None
      /\ \A m \in Machine!FileNames \ {from, n} : dir'[m] = dir[m]
  BY <1>1, <1>2, <1>3, BootConstants DEF BootTypes
<1>5. \A m \in Machine!FileNames \ {Machine!Image} : dir'[m] # Machine!None => dir'[m] # dir'[Machine!Image]
  BY <1>3, <1>4 DEF BootInv, ImageInv
<1>6. Machine!ImageWhole'
  BY <1>2, <1>4 DEF BootInv, ImageInv, Machine!ImageWhole
<1>7. \A q \in Procs \ {p} :
        /\ pc[q] = "image" => my[q].fd = dir'[Machine!Image]
        /\ pc[q] \in {"extracting", "fetching"} => my[q].fd # dir'[Machine!Image]
  BY <1>4 DEF BootInv, ImageInv
<1> QED
  BY <1>1, <1>2, <1>4, <1>5, <1>6, <1>7, FileStep DEF Opens, BootTypes

LEMMA ImageOpens ==
  ASSUME BootInv, NEW p \in Procs, Machine!OpenImage(p), pc[p] = "unzip", cutShort' = cutShort
  PROVE  BootInv'
<1> DEFINE i == IF dir[Machine!Image] = Machine!None THEN Machine!Unused ELSE dir[Machine!Image]
<1>1. /\ BootTypes /\ my[p].fd = Machine!None
  BY DEF BootInv, ImageInv
<1>2. /\ i \in Machine!Inodes
      /\ \A m \in Machine!FileNames \ {Machine!Image} : dir[m] # i
      /\ \A q \in Procs : pc[q] \in {"extracting", "fetching"} => my[q].fd # i
      /\ \A q \in Procs : pc[q] = "image" => my[q].fd = i
  <2>1. CASE dir[Machine!Image] = Machine!None
    BY <1>1, <2>1, UnusedInode DEF BootInv, ImageInv
  <2>2. CASE dir[Machine!Image] # Machine!None
    <3>1. i = dir[Machine!Image] /\ Machine!Image \in Machine!FileNames
      BY <2>2, BootConstants
    <3>2. i \in Machine!Inodes
      BY <1>1, <2>2, <3>1 DEF BootTypes
    <3> QED
      BY <2>2, <3>1, <3>2, BootConstants DEF BootInv, ImageInv
  <2> QED
    BY <2>1, <2>2
<1>3. /\ dir' = [dir EXCEPT ![Machine!Image] = i] /\ content' = [content EXCEPT ![i] = "cut"]
      /\ Machine!Put(p, "fd", i) /\ Machine!Goto(p, "image")
  BY DEF Machine!OpenImage
<1> HIDE DEF i
<1>4. /\ dir' \in [Machine!FileNames -> {Machine!None} \cup Machine!Inodes]
      /\ dir'[Machine!Image] = i /\ \A m \in Machine!FileNames \ {Machine!Image} : dir'[m] = dir[m]
      /\ content' \in [Machine!Inodes -> Machine!Contents]
  BY <1>1, <1>2, <1>3, BootConstants DEF BootTypes
<1>5. /\ DOMAIN my' = Procs
      /\ my'[p].fd = i /\ DOMAIN my'[p] = {"fd", "kernel", "line", "plan"}
      /\ \A q \in Procs \ {p} : my'[q] = my[q]
  BY <1>1, <1>3, PutFd
<1>6. Machine!ImageWhole'
  BY <1>4, <1>5 DEF Machine!ImageWhole
<1>7. i \in {Machine!None} \cup Machine!Inodes /\ i # Machine!None /\ "image" \in Places
  BY <1>2, BootConstants DEF Places, Opens
<1>8. /\ \A m \in Machine!FileNames \ {Machine!Image} : dir'[m] # Machine!None => dir'[m] # dir'[Machine!Image]
      /\ \A q \in Procs \ {p} :
           /\ pc[q] = "image" => my[q].fd = dir'[Machine!Image]
           /\ pc[q] \in {"extracting", "fetching"} => my[q].fd # dir'[Machine!Image]
  BY <1>2, <1>4
<1> QED
  BY <1>3, <1>4, <1>5, <1>6, <1>7, <1>8, FileStep DEF Opens

LEMMA ImageWritten ==
  ASSUME BootInv, NEW p \in Procs, Machine!WriteImage(p)
  PROVE  BootInv'
<1> DEFINE i == my[p].fd
<1>1. /\ pc[p] = "image" /\ dir' = dir /\ cutShort' = cutShort
      /\ content' = [content EXCEPT ![i] = IF \E q \in Procs \ {p} : my[q].fd = i THEN "cut" ELSE "whole"]
      /\ Machine!Put(p, "fd", Machine!None) /\ Machine!Goto(p, "unlink")
  BY DEF Machine!WriteImage, Machine!At
<1>2. BootTypes /\ i \in Machine!Inodes /\ i = dir[Machine!Image]
  BY <1>1 DEF BootInv, ImageInv, BootTypes
<1> HIDE DEF i
<1>3. /\ content' \in [Machine!Inodes -> Machine!Contents]
      /\ (\A q \in Procs \ {p} : my[q].fd # i) => content'[i] = "whole"
  BY <1>1, <1>2, BootConstants DEF BootTypes
<1>4. /\ DOMAIN my' = Procs
      /\ my'[p].fd = Machine!None /\ DOMAIN my'[p] = {"fd", "kernel", "line", "plan"}
      /\ \A q \in Procs \ {p} : my'[q] = my[q]
  BY <1>1, <1>2, PutFd
<1>5. Machine!ImageWhole'
  BY <1>1, <1>2, <1>3, <1>4 DEF Machine!ImageWhole
<1>6. /\ dir' \in [Machine!FileNames -> {Machine!None} \cup Machine!Inodes]
      /\ "unlink" \in Places /\ "unlink" \notin Opens
  BY <1>1, <1>2 DEF BootTypes, Places, Opens
<1>7. /\ \A m \in Machine!FileNames \ {Machine!Image} : dir'[m] # Machine!None => dir'[m] # dir'[Machine!Image]
      /\ \A q \in Procs \ {p} :
           /\ pc[q] = "image" => my[q].fd = dir'[Machine!Image]
           /\ pc[q] \in {"extracting", "fetching"} => my[q].fd # dir'[Machine!Image]
  BY <1>1 DEF BootInv, ImageInv
<1> QED
  BY <1>1, <1>3, <1>4, <1>5, <1>6, <1>7, FileStep DEF Opens

LEMMA Unlinked ==
  ASSUME BootInv, NEW p \in Procs, Machine!Unlink(p)
  PROVE  BootInv'
<1>1. /\ pc[p] = "unlink" /\ dir' = [dir EXCEPT ![Machine!Vmlinuz] = Machine!None]
      /\ content' = content /\ my' = my /\ cutShort' = cutShort /\ Machine!Goto(p, "load")
  BY DEF Machine!Unlink, Machine!At
<1>2. BootTypes /\ my[p].fd = Machine!None
  BY <1>1 DEF BootInv, ImageInv
<1>3. /\ dir' \in [Machine!FileNames -> {Machine!None} \cup Machine!Inodes]
      /\ dir'[Machine!Image] = dir[Machine!Image]
      /\ \A m \in Machine!FileNames : dir'[m] \in {dir[m], Machine!None}
  BY <1>1, <1>2, BootConstants DEF BootTypes
<1>4. Machine!ImageWhole'
  BY <1>1, <1>3 DEF BootInv, ImageInv, Machine!ImageWhole
<1>5. /\ "load" \in Places /\ "load" \notin Opens
  BY DEF Places, Opens
<1>6. /\ \A m \in Machine!FileNames \ {Machine!Image} : dir'[m] # Machine!None => dir'[m] # dir'[Machine!Image]
      /\ \A q \in Procs \ {p} :
           /\ pc[q] = "image" => my[q].fd = dir'[Machine!Image]
           /\ pc[q] \in {"extracting", "fetching"} => my[q].fd # dir'[Machine!Image]
  BY <1>3 DEF BootInv, ImageInv
<1> QED
  BY <1>1, <1>2, <1>3, <1>4, <1>5, <1>6, FileStep DEF Opens, BootTypes

\* A step of p outside the places that have a file open, that sets another local or none.
LEMMA LocalStep ==
  ASSUME BootInv, NEW p \in Procs, pc[p] \notin Opens, NEW l \in Places \ Opens, Machine!Goto(p, l),
         dir' = dir, content' = content, cutShort' = cutShort,
         \/ my' = my
         \/ \E v : Machine!Put(p, "kernel", v) \/ Machine!Put(p, "line", v) \/ Machine!Put(p, "plan", v)
  PROVE  BootInv'
<1>1. BootTypes
  BY DEF BootInv
<1>2. /\ DOMAIN my' = Procs
      /\ \A q \in Procs : my'[q].fd = my[q].fd /\ DOMAIN my'[q] = {"fd", "kernel", "line", "plan"}
  <2>1. CASE my' = my
    BY <1>1, <2>1 DEF BootTypes
  <2>2. ASSUME NEW v, Machine!Put(p, "kernel", v) PROVE <1>2!:
    BY <1>1, <2>2 DEF BootTypes, Machine!Put
  <2>3. ASSUME NEW v, Machine!Put(p, "line", v) PROVE <1>2!:
    BY <1>1, <2>3 DEF BootTypes, Machine!Put
  <2>4. ASSUME NEW v, Machine!Put(p, "plan", v) PROVE <1>2!:
    BY <1>1, <2>4 DEF BootTypes, Machine!Put
  <2> QED
    BY <2>1, <2>2, <2>3, <2>4
<1>3. pc' \in [Procs -> Places] /\ pc'[p] = l /\ \A q \in Procs \ {p} : pc'[q] = pc[q]
  BY <1>1 DEF Machine!Goto, BootTypes
<1> QED
  BY <1>2, <1>3, QuietBoot

LEMMA BootStep ==
  ASSUME BootInv, NEW p \in Procs,
         \/ Machine!EnsureKernel(p) \/ Machine!Host(p)
         \/ Machine!TimeIsUp(p) \/ Machine!WatchdogFires(p)
         \/ Machine!GuestExits(p) \/ Machine!GuestPrints(p) \/ Machine!GuestEndsLine(p)
         \/ Machine!Kill(p)
  PROVE  BootInv'
<1> USE DEF Machine!At, Machine!files, Machine!loop, Machine!counts
<1>0. /\ {"load", "download", "extracted", "unzip", "tools", "place", "create", "check", "running", "fetched"}
           \subseteq Places \ Opens
      /\ {"idle", "load", "download", "extracted", "unzip", "tools", "place", "create", "check", "running",
          "fetched"} \cap Opens = {}
  BY DEF Places, Opens
<1>1. CASE Machine!EnsureKernel(p)
  <2>1. PICK l \in {"load", "download"} : Machine!Goto(p, l)
    BY <1>1 DEF Machine!EnsureKernel
  <2> QED
    BY <1>0, <1>1, <2>1, LocalStep DEF Machine!EnsureKernel
<1>2. CASE Machine!DownloadKernel(p)
  <2>1. CASE pc[p] = "download" /\ Machine!StartTar(p, Machine!Vmlinuz) /\ Machine!Goto(p, "extracting")
    BY <1>0, <1>2, <2>1, TarStarts DEF Machine!DownloadKernel
  <2>2. CASE pc[p] = "extracting" /\ Machine!FinishTar(p) /\ Machine!Goto(p, "extracted")
    BY <1>0, <1>2, <2>2, TarEnds DEF Machine!DownloadKernel
  <2>3. CASE pc[p] = "extracted" /\ Machine!MoveTo(Machine!Vmlinuz) /\ Machine!Goto(p, "unzip") /\ UNCHANGED my
    BY <1>0, <1>2, <2>3, Moved DEF Machine!DownloadKernel
  <2> QED
    BY <1>2, <2>1, <2>2, <2>3 DEF Machine!DownloadKernel
<1>3. CASE Machine!DownloadFails(p)
  BY <1>3, LeaveBoot DEF Machine!DownloadFails
<1>4. CASE Machine!Unzip(p)
  BY <1>4, ImageOpens DEF Machine!Unzip
<1>5. CASE Machine!UnzipFails(p)
  BY <1>5, LeaveBoot DEF Machine!UnzipFails
<1>6. CASE Machine!WriteImage(p)
  BY <1>6, ImageWritten
<1>7. CASE Machine!WriteFails(p)
  BY <1>7, LeaveBoot DEF Machine!WriteFails, Machine!StopsWriting
<1>8. CASE Machine!Unlink(p)
  BY <1>8, Unlinked
<1>9. CASE Machine!LoadKernel(p)
  BY <1>0, <1>9, LocalStep DEF Machine!LoadKernel
<1>10. CASE Machine!LoadBusybox(p)
  <2>1. CASE pc[p] = "tools" /\ Machine!Goto(p, "place") /\ UNCHANGED <<dir, content, my>>
    BY <1>0, <1>10, <2>1, LocalStep DEF Machine!LoadBusybox
  <2>2. CASE pc[p] = "tools" /\ Machine!StartTar(p, Machine!Busybox) /\ Machine!Goto(p, "fetching")
    BY <1>0, <1>10, <2>2, TarStarts DEF Machine!LoadBusybox
  <2>3. CASE pc[p] = "fetching" /\ Machine!FinishTar(p) /\ Machine!Goto(p, "fetched")
    BY <1>0, <1>10, <2>3, TarEnds DEF Machine!LoadBusybox
  <2>4. CASE pc[p] = "fetched" /\ Machine!MoveTo(Machine!Busybox) /\ Machine!Goto(p, "tools") /\ UNCHANGED my
    BY <1>0, <1>10, <2>4, Moved DEF Machine!LoadBusybox
  <2> QED
    BY <1>10, <2>1, <2>2, <2>3, <2>4 DEF Machine!LoadBusybox
<1>11. CASE Machine!NoBusybox(p)
  <2>1. /\ dir' = dir /\ content' = content /\ cutShort' = cutShort
        /\ Machine!Put(p, "fd", Machine!None) /\ Machine!Goto(p, "place") /\ pc[p] # "image"
    BY <1>11 DEF Machine!NoBusybox
  <2>2. BootTypes
    BY DEF BootInv
  <2>3. /\ DOMAIN my' = Procs
        /\ my'[p].fd = Machine!None /\ DOMAIN my'[p] = {"fd", "kernel", "line", "plan"}
        /\ \A q \in Procs \ {p} : my'[q] = my[q]
    BY <2>1, <2>2, PutFd
  <2>4. my[p].fd # dir[Machine!Image] \/ dir[Machine!Image] = Machine!None
    BY <2>1 DEF BootInv, ImageInv
  <2>5. Machine!ImageWhole'
    BY <2>1, <2>3, <2>4 DEF BootInv, ImageInv, Machine!ImageWhole
  <2>6. /\ \A m \in Machine!FileNames \ {Machine!Image} : dir'[m] # Machine!None => dir'[m] # dir'[Machine!Image]
        /\ \A q \in Procs \ {p} :
             /\ pc[q] = "image" => my[q].fd = dir'[Machine!Image]
             /\ pc[q] \in {"extracting", "fetching"} => my[q].fd # dir'[Machine!Image]
    BY <2>1 DEF BootInv, ImageInv
  <2> QED
    BY <1>0, <2>1, <2>2, <2>3, <2>5, <2>6, FileStep DEF BootTypes, Opens
<1>12. CASE Machine!Place(p)
  <2>1. CASE Machine!Leave(p)
    BY <1>12, <2>1, LeaveBoot DEF Machine!Place
  <2>2. ASSUME NEW plan, Machine!Put(p, "plan", plan), Machine!Goto(p, "create") PROVE BootInv'
    BY <1>0, <1>12, <2>2, LocalStep DEF Machine!Place
  <2> QED
    BY <1>12, <2>1, <2>2 DEF Machine!Place
<1>13. CASE Machine!CreateMachine(p)
  <2>1. CASE Machine!Leave(p)
    BY <1>13, <2>1, LeaveBoot DEF Machine!CreateMachine
  <2>2. CASE Machine!Goto(p, "check") /\ Machine!Put(p, "plan", Machine!NoPlan)
    BY <1>0, <1>13, <2>2, LocalStep DEF Machine!CreateMachine
  <2> QED
    BY <1>13, <2>1, <2>2 DEF Machine!CreateMachine
<1>14. CASE Machine!TimeIsUp(p)
  BY <1>14, QuietBoot DEF Machine!TimeIsUp, BootInv, BootTypes
<1>15. CASE Machine!WatchdogFires(p)
  BY <1>15, QuietBoot DEF Machine!WatchdogFires, BootInv, BootTypes
<1>16. CASE Machine!Check(p)
  <2>1. CASE Machine!Leave(p)
    BY <1>16, <2>1, LeaveBoot DEF Machine!Check
  <2>2. CASE Machine!Goto(p, "running") /\ UNCHANGED my
    BY <1>0, <1>16, <2>2, LocalStep DEF Machine!Check
  <2> QED
    BY <1>16, <2>1, <2>2 DEF Machine!Check
<1>17. CASE Machine!GuestExits(p)
  <2>1. CASE Machine!Leave(p)
    BY <1>17, <2>1, LeaveBoot DEF Machine!GuestExits
  <2>2. CASE Machine!Goto(p, "check") /\ UNCHANGED my
    BY <1>0, <1>17, <2>2, LocalStep DEF Machine!GuestExits
  <2> QED
    BY <1>17, <2>1, <2>2 DEF Machine!GuestExits
<1>18. CASE Machine!GuestPrints(p)
  BY <1>0, <1>18, LocalStep DEF Machine!GuestPrints
<1>19. CASE Machine!GuestEndsLine(p)
  <2>1. CASE Machine!Leave(p)
    BY <1>19, <2>1, LeaveBoot DEF Machine!GuestEndsLine
  <2>2. CASE Machine!Put(p, "line", "") /\ Machine!Goto(p, "check")
    BY <1>0, <1>19, <2>2, LocalStep DEF Machine!GuestEndsLine
  <2> QED
    BY <1>19, <2>1, <2>2 DEF Machine!GuestEndsLine
<1>20. CASE Machine!Cancelled(p)
  BY <1>0, <1>20, LocalStep DEF Machine!Cancelled
<1>21. CASE Machine!Kill(p)
  BY <1>21, LeaveBoot DEF Machine!Kill, Machine!StopsWriting
<1> QED
  BY <1>1, <1>2, <1>3, <1>4, <1>5, <1>6, <1>7, <1>8, <1>9, <1>10, <1>11, <1>12, <1>13, <1>14, <1>15, <1>16,
     <1>17, <1>18, <1>19, <1>20, <1>21 DEF Machine!Host

LEMMA BootStart == Machine!Init => BootInv
<1> SUFFICES ASSUME Machine!Init PROVE BootInv
  OBVIOUS
<1>1. PICK ready \in BOOLEAN :
        /\ dir = [n \in Machine!FileNames |-> IF ready /\ n = Machine!Custom THEN 1 ELSE Machine!None]
        /\ content = [i \in Machine!Inodes |-> IF ready /\ i = 1 THEN "whole" ELSE "free"]
  BY DEF Machine!Init
<1>2. 1 \in Machine!Inodes
  BY FewNames
<1>3. dir[Machine!Image] = Machine!None /\ "idle" \in Places /\ "idle" \notin Opens
  BY <1>1, BootConstants DEF Places, Opens
<1>4. BootTypes
  BY <1>1, <1>2, <1>3, BootConstants DEF BootTypes, Machine!Init, Machine!Contents
<1> QED
  BY <1>3, <1>4, BootConstants DEF BootInv, ImageInv, Machine!ImageWhole, Machine!Init

\* Downloads of several processes share their temporary names and take files from each
\* other; an Image nobody is writing is whole all the same, unless writing it was cut short
\* (boot.rs:47, 217).
THEOREM KernelWhole == GuestSpec => []ImageWhole
<1>1. GuestInit => BootInv
  BY BootStart DEF GuestInit, HostInit
<1>2. BootInv /\ [GuestNext]_host => BootInv'
  <2> SUFFICES ASSUME BootInv, [GuestNext]_host PROVE BootInv'
    OBVIOUS
  <2>1. CASE UNCHANGED boot
    BY <2>1, QuietBoot DEF host, boot, BootInv, BootTypes
  <2>2. CASE Machine!Next
    BY <2>2, BootStep DEF Machine!Next
  <2> QED
    BY <2>1, <2>2 DEF GuestNext, host
<1>3. BootInv => ImageWhole
  BY DEF BootInv, ImageInv, ImageWhole
<1> QED
  BY <1>1, <1>2, <1>3, PTL DEF GuestSpec

-----------------------------------------------------------------------------
(* Boot: what is placed in memory.                                         *)

LEMMA DivisionBound ==
  ASSUME NEW n \in Nat, NEW d \in Nat \ {0}
  PROVE  n \div d \in Nat /\ n < d * (n \div d) + d
OBVIOUS

\* The next multiple of a page.
LEMMA Aligned ==
  ASSUME NEW x \in Nat
  PROVE  Machine!Align(x) \in Nat /\ Machine!Align(x) >= x
<1> DEFINE d == PageBytes
           q == (x + d - 1) \div d
<1>1. d \in Nat \ {0} /\ x + d - 1 \in Nat
  BY BootAssumption DEF Machine!BootAssumption
<1>2. q \in Nat /\ x + d - 1 < d * q + d
  BY <1>1, DivisionBound
<1>3. PICK m : m = q * d
  OBVIOUS
<1> HIDE DEF q, d
<1>4. m = d * q /\ m \in Nat
  BY <1>1, <1>2, <1>3
<1>5. m >= x
  BY <1>1, <1>2, <1>4
<1> QED
  BY <1>3, <1>4, <1>5 DEF Machine!Align, q, d

Apart(plan) ==
  plan # Machine!NoPlan =>
    /\ plan.kernel <= plan.tree[1] /\ plan.tree[2] <= Ram
    /\ plan.initrd # <<0, 0>> =>
         plan.kernel <= plan.initrd[1] /\ plan.initrd[2] <= plan.tree[1]

PlacedInv ==
  /\ DOMAIN my = Procs
  /\ \A q \in Procs : DOMAIN my[q] = {"fd", "kernel", "line", "plan"} /\ Apart(my[q].plan)

\* Whatever the sizes, what does not fit is left out or makes the boot fail.
LEMMA LayoutApart ==
  ASSUME NEW file \in Nat, NEW image \in Nat, NEW archive \in Nat, NEW t \in Nat,
         Machine!Layout(file, image, archive, t).tree[2] <= Ram
  PROVE  Apart(Machine!Layout(file, image, archive, t))
<1> DEFINE last  == IF image > file THEN image ELSE file
           start == Machine!Align(last)
           fits  == archive > 0 /\ start + archive <= Ram
           base  == Machine!Align(IF fits THEN start + archive ELSE last)
           plan  == [kernel |-> last,
                     initrd |-> IF fits THEN <<start, start + archive>> ELSE <<0, 0>>,
                     tree |-> <<base, base + t>>]
<1>1. Machine!Layout(file, image, archive, t) = plan
  BY DEF Machine!Layout
<1>2. last \in Nat /\ start \in Nat /\ start >= last
  BY Aligned
<1>3. CASE fits
  <2>1. start + archive \in Nat /\ base = Machine!Align(start + archive)
    BY <1>2, <1>3
  <2>2. base \in Nat /\ base >= start + archive
    BY <2>1, Aligned
  <2>3. /\ plan.kernel = last /\ plan.initrd = <<start, start + archive>>
        /\ plan.tree[1] = base /\ plan.tree[2] <= Ram
    BY <1>1, <1>3
  <2> HIDE DEF plan, base, start, last
  <2>4. last <= base /\ last <= start /\ plan.initrd[1] = start /\ plan.initrd[2] = start + archive
    BY <1>2, <2>2, <2>3
  <2> QED
    BY <1>1, <2>2, <2>3, <2>4 DEF Apart
<1>4. CASE ~fits
  <2>1. base = start
    BY <1>4
  <2>2. /\ plan.kernel = last /\ plan.initrd = <<0, 0>>
        /\ plan.tree[1] = start /\ plan.tree[2] <= Ram
    BY <1>1, <1>4, <2>1
  <2> HIDE DEF plan, base, start, last
  <2> QED
    BY <1>1, <1>2, <2>2 DEF Apart
<1> QED
  BY <1>3, <1>4

LEMMA PlacedStep ==
  ASSUME PlacedInv, NEW p \in Procs,
         \/ Machine!EnsureKernel(p) \/ Machine!Host(p)
         \/ Machine!TimeIsUp(p) \/ Machine!WatchdogFires(p)
         \/ Machine!GuestExits(p) \/ Machine!GuestPrints(p) \/ Machine!GuestEndsLine(p)
         \/ Machine!Kill(p)
  PROVE  PlacedInv'
<1>1. Apart(Machine!NoPlan) /\ Machine!Fresh.plan = Machine!NoPlan
      /\ DOMAIN Machine!Fresh = {"fd", "kernel", "line", "plan"}
  BY DEF Apart, Machine!Fresh
<1>2. ASSUME my' = my PROVE PlacedInv'
  BY <1>2 DEF PlacedInv
<1>3. ASSUME my' = [my EXCEPT ![p] = Machine!Fresh] PROVE PlacedInv'
  BY <1>1, <1>3 DEF PlacedInv
<1>4. ASSUME NEW f \in {"fd", "kernel", "line"}, NEW v, Machine!Put(p, f, v) PROVE PlacedInv'
  BY <1>4 DEF PlacedInv, Machine!Put
<1>5. ASSUME NEW plan, Apart(plan), Machine!Put(p, "plan", plan) PROVE PlacedInv'
  BY <1>5 DEF PlacedInv, Machine!Put
<1>6. ASSUME Machine!Leave(p) PROVE PlacedInv'
  BY <1>3, <1>6 DEF Machine!Leave
<1>7. CASE Machine!Place(p)
  <2>1. PICK file \in FileSizes, image \in ImageSizes, archive \in ArchiveSizes, t \in TreeSizes :
          LET plan == Machine!Layout(file, image, archive, t) IN
            IF file <= Ram /\ plan.tree[2] <= Ram
            THEN Machine!Put(p, "plan", plan) /\ Machine!Goto(p, "create") /\ UNCHANGED Machine!loop
            ELSE Machine!Leave(p)
    BY <1>7 DEF Machine!Place
  <2>2. file \in Nat /\ image \in Nat /\ archive \in Nat /\ t \in Nat
    BY BootAssumption DEF Machine!BootAssumption
  <2> DEFINE plan == Machine!Layout(file, image, archive, t)
  <2>3. CASE file <= Ram /\ plan.tree[2] <= Ram
    <3>1. Apart(plan)
      BY <2>2, <2>3, LayoutApart
    <3>2. Machine!Put(p, "plan", plan)
      BY <2>1, <2>3
    <3> QED
      BY <3>1, <3>2, <1>5
  <2>4. CASE ~(file <= Ram /\ plan.tree[2] <= Ram)
    BY <1>6, <2>1, <2>4
  <2> QED
    BY <2>3, <2>4
<1>8. CASE Machine!CreateMachine(p)
  BY <1>1, <1>5, <1>6, <1>8 DEF Machine!CreateMachine
<1>9. CASE Machine!DownloadKernel(p)
  BY <1>2, <1>4, <1>9 DEF Machine!DownloadKernel, Machine!StartTar, Machine!FinishTar
<1>10. CASE Machine!LoadBusybox(p)
  BY <1>2, <1>4, <1>10 DEF Machine!LoadBusybox, Machine!StartTar, Machine!FinishTar
<1>11. CASE Machine!DownloadFails(p) \/ Machine!UnzipFails(p) \/ Machine!WriteFails(p) \/ Machine!Kill(p)
  BY <1>6, <1>11 DEF Machine!DownloadFails, Machine!UnzipFails, Machine!WriteFails, Machine!Kill
<1>12. CASE Machine!Unzip(p) \/ Machine!WriteImage(p) \/ Machine!NoBusybox(p) \/ Machine!LoadKernel(p)
  BY <1>4, <1>12 DEF Machine!Unzip, Machine!OpenImage, Machine!WriteImage, Machine!NoBusybox, Machine!LoadKernel
<1>13. CASE Machine!EnsureKernel(p) \/ Machine!Unlink(p) \/ Machine!TimeIsUp(p) \/ Machine!WatchdogFires(p)
            \/ Machine!Cancelled(p)
  BY <1>2, <1>13 DEF Machine!EnsureKernel, Machine!Unlink, Machine!TimeIsUp, Machine!WatchdogFires,
       Machine!Cancelled
<1>14. CASE Machine!Check(p) \/ Machine!GuestExits(p)
  BY <1>2, <1>6, <1>14 DEF Machine!Check, Machine!GuestExits
<1>15. CASE Machine!GuestPrints(p) \/ Machine!GuestEndsLine(p)
  BY <1>4, <1>6, <1>15 DEF Machine!GuestPrints, Machine!GuestEndsLine
<1> QED
  BY <1>7, <1>8, <1>9, <1>10, <1>11, <1>12, <1>13, <1>14, <1>15 DEF Machine!Host

\* Kernel with its BSS, initramfs and device tree lie in memory, in this order and apart,
\* whatever their sizes (boot.rs:291, 319).
THEOREM NothingOverlaps == GuestSpec => []PlacedApart
<1>1. GuestInit => PlacedInv
  <2>1. Machine!Fresh.plan = Machine!NoPlan /\ DOMAIN Machine!Fresh = {"fd", "kernel", "line", "plan"}
    BY DEF Machine!Fresh
  <2>2. Apart(Machine!NoPlan)
    BY DEF Apart
  <2>3. GuestInit => my = [q \in Procs |-> Machine!Fresh]
    BY DEF GuestInit, HostInit, Machine!Init
  <2> QED
    BY <2>1, <2>2, <2>3 DEF PlacedInv
<1>2. PlacedInv /\ [GuestNext]_host => PlacedInv'
  <2> SUFFICES ASSUME PlacedInv, [GuestNext]_host PROVE PlacedInv'
    OBVIOUS
  <2>1. CASE UNCHANGED boot
    BY <2>1 DEF boot, PlacedInv
  <2>2. CASE Machine!Next
    BY <2>2, PlacedStep DEF Machine!Next
  <2> QED
    BY <2>1, <2>2 DEF GuestNext, host
<1>3. PlacedInv => PlacedApart
  BY DEF PlacedInv, PlacedApart, Machine!PlacedApart, Apart
<1> QED
  BY <1>1, <1>2, <1>3, PTL DEF GuestSpec

-----------------------------------------------------------------------------
(* The installed skills.                                                   *)

SkillParts == {"SKILL.md"} \cup UNION {FilesAt[v] : v \in Store!Revisions}
Sources    == [SkillNames -> Store!Repos \cup {Store!None}]
Clones     == [by : Procs \cup {Store!None}, revision : Store!Revisions \cup {0}, files : SUBSET SkillParts]
SkillDirs  == [there : BOOLEAN, files : SUBSET (SkillParts \X Store!Repos \X Store!Revisions)]
Jobs       == [job : {Store!None, "add", "remove", "update"}, scope : Store!Scopes,
               repo : Store!Repos \cup {Store!None}, revision : Store!Revisions \cup {0},
               filter : SkillNames \cup {Store!None}, names : SUBSET SkillNames,
               name : SkillNames \cup {Store!None}, list : SUBSET SkillParts,
               entries : Sources, source : Sources, todo : SUBSET SkillNames,
               done : SUBSET (Store!Scopes \X SkillNames \X Store!Repos \X Store!Revisions)]

WithRepo == {"clear", "git", "checkout", "discover", "next skill", "copy"}
Cloned   == {"discover", "next skill", "copy"}
Locking  == {"read", "truncate", "write"}
Stages   == {"idle", "next", "remove", "done"} \cup WithRepo \cup Locking

Adds(p) == own[p].job # "remove"

\* What a command has in its locals where it is.
Placing(p) ==
  /\ at[p] \in WithRepo => own[p].job \in {"add", "update"} /\ own[p].repo \in Store!Repos
  /\ at[p] \in Locking /\ Adds(p) =>
       own[p].job \in {"add", "update"} /\ own[p].repo \in Store!Repos /\ own[p].revision \in Store!Revisions
  /\ at[p] \in {"checkout"} \cup Cloned => own[p].revision \in Store!Revisions
  /\ at[p] \in {"remove", "copy"} \cup Locking => own[p].name \in SkillNames
  /\ at[p] = "remove" => own[p].job = "remove"
  /\ at[p] = "next" => own[p].job = "update"
  /\ own[p].job = "update" => \A n \in own[p].todo : own[p].source[n] \in Store!Repos

StoreTypes ==
  /\ revision \in [Store!Repos -> Store!Revisions]
  /\ clone \in [Store!Repos -> Clones]
  /\ \A r \in Store!Repos : clone[r] = Store!NoClone \/ clone[r].revision \in Store!Revisions
  /\ installed \in [Store!Scopes -> [SkillNames -> SkillDirs]]
  /\ lock \in [torn : BOOLEAN, entries : Sources]
  /\ at \in [Procs -> Stages]
  /\ own \in [Procs -> Jobs]
  /\ alone \subseteq Procs
  /\ \A p \in Procs : Placing(p)

FilesOf(r, v) == {<<f, r, v>> : f \in FilesAt[v]}

\* What a command reports as installed is, and in the lock file, or in what it writes there.
Reported(p) ==
  \A d \in own[p].done :
    /\ installed[d[1]][d[2]].files = FilesOf(d[3], d[4])
    /\ d[1] = own[p].scope
    /\ at[p] # "write" => ~lock.torn /\ lock.entries[d[2]] = d[3]
    /\ at[p] \in {"truncate", "write"} => own[p].entries[d[2]] = d[3]

\* It does every name once.
Once(p) ==
  /\ own[p].job = "remove" => own[p].done = {} /\ own[p].names = {}
  /\ own[p].job = "add" => own[p].filter = Store!None /\ (at[p] \in {"clear", "git", "checkout", "discover"} => own[p].done = {})
  /\ own[p].job = "update" /\ at[p] \in WithRepo \cup Locking => own[p].filter # Store!None
  /\ \A d \in own[p].done :
       /\ own[p].job = "update" => d[2] \notin own[p].todo
       /\ own[p].job = "update" /\ at[p] \in {"clear", "git", "checkout", "discover"} => d[2] # own[p].filter
       /\ at[p] \in {"next skill", "copy"} \cup Locking => d[2] \notin own[p].names
       /\ at[p] \in {"copy"} \cup Locking => d[2] # own[p].name
  /\ own[p].job = "update" /\ at[p] \in {"clear", "git", "checkout", "discover"} => own[p].filter \notin own[p].todo
  /\ own[p].job = "update" /\ at[p] \in {"next skill", "copy"} \cup Locking => own[p].names \cap own[p].todo = {}
  /\ own[p].job = "update" /\ at[p] \in {"copy"} \cup Locking => own[p].name \notin own[p].todo
  /\ at[p] \in {"copy"} \cup Locking => own[p].name \notin own[p].names

\* The clone is of the revision it found; what is copied of it is complete but for the list.
Copied(p) ==
  /\ at[p] = "checkout" => clone[own[p].repo].by = p /\ clone[own[p].repo].revision = own[p].revision
  /\ at[p] \in Cloned \/ (at[p] \in Locking /\ Adds(p)) =>
       /\ clone[own[p].repo].revision = own[p].revision
       /\ clone[own[p].repo].files = FilesAt[own[p].revision]
  /\ at[p] = "copy" =>
       /\ own[p].list \subseteq FilesAt[own[p].revision]
       /\ installed[own[p].scope][own[p].name].files =
            {<<f, own[p].repo, own[p].revision>> : f \in FilesAt[own[p].revision] \ own[p].list}
  /\ at[p] \in Locking /\ Adds(p) =>
       installed[own[p].scope][own[p].name].files = FilesOf(own[p].repo, own[p].revision)
  /\ at[p] \in {"truncate", "write"} /\ Adds(p) => own[p].entries[own[p].name] = own[p].repo

AloneInv ==
  \A p \in alone :
    /\ \A q \in Procs \ {p} : at[q] = "idle"
    /\ Reported(p) /\ Once(p) /\ Copied(p)

StoreInv == StoreTypes /\ AloneInv

LEMMA FreshJob ==
  /\ Store!Fresh \in Jobs /\ Store!Fresh.done = {} /\ Store!Fresh.job = Store!None
  /\ Store!Fresh.names = {} /\ Store!Fresh.filter = Store!None
  /\ Store!NoEntries \in Sources /\ Store!None = "none"
BY DEF Store!Fresh, Jobs, Store!NoEntries, Sources, Store!None, Store!Scopes

\* A step of one command.
LEMMA CommandStep ==
  ASSUME StoreInv, NEW p \in Procs, NEW l \in Stages, NEW m \in Jobs,
         at[p] # "idle", at' = [at EXCEPT ![p] = l], own' = [own EXCEPT ![p] = m],
         revision' = revision, alone' \in {alone, {}},
         clone' \in [Store!Repos -> Clones],
         \A r \in Store!Repos : clone'[r] = Store!NoClone \/ clone'[r].revision \in Store!Revisions,
         installed' \in [Store!Scopes -> [SkillNames -> SkillDirs]],
         lock' \in [torn : BOOLEAN, entries : Sources],
         Placing(p)',
         p \in alone' => Reported(p)' /\ Once(p)' /\ Copied(p)'
  PROVE  StoreInv'
<1>1. /\ at' \in [Procs -> Stages] /\ own' \in [Procs -> Jobs]
      /\ \A q \in Procs \ {p} : at'[q] = at[q] /\ own'[q] = own[q]
  BY DEF StoreInv, StoreTypes
<1>2. ASSUME NEW q \in Procs PROVE Placing(q)'
  <2>1. CASE q = p
    BY <2>1
  <2>2. CASE q # p
    BY <1>1, <2>2 DEF StoreInv, StoreTypes, Placing, Adds
  <2> QED
    BY <2>1, <2>2
<1>3. StoreTypes'
  BY <1>1, <1>2 DEF StoreInv, StoreTypes
<1>4. AloneInv'
  <2>1. alone' \subseteq {p}
    BY DEF StoreInv, StoreTypes, AloneInv
  <2>2. \A q \in Procs \ {p} : p \in alone' => at'[q] = "idle"
    BY <1>1 DEF StoreInv, AloneInv
  <2> QED
    BY <2>1, <2>2 DEF AloneInv
<1> QED
  BY <1>3, <1>4 DEF StoreInv

\* What holds of a command on its own.
LEMMA OfCommand ==
  ASSUME StoreInv, NEW p \in Procs
  PROVE  /\ own[p] \in Jobs /\ at[p] \in Stages /\ Placing(p) /\ own \in [Procs -> Jobs] /\ at \in [Procs -> Stages]
         /\ clone \in [Store!Repos -> Clones]
         /\ \A r \in Store!Repos : clone[r] = Store!NoClone \/ clone[r].revision \in Store!Revisions
         /\ installed \in [Store!Scopes -> [SkillNames -> SkillDirs]]
         /\ lock \in [torn : BOOLEAN, entries : Sources]
         /\ revision \in [Store!Repos -> Store!Revisions]
         /\ own[p] = own[p] /\ own = [own EXCEPT ![p] = own[p]] /\ at = [at EXCEPT ![p] = at[p]]
         /\ own[p].scope \in Store!Scopes /\ own[p].names \subseteq SkillNames /\ own[p].list \subseteq SkillParts
         /\ own[p].todo \subseteq SkillNames /\ own[p].entries \in Sources /\ own[p].source \in Sources
         /\ own[p].done \subseteq Store!Scopes \X SkillNames \X Store!Repos \X Store!Revisions
         /\ p \in alone => Reported(p) /\ Once(p) /\ Copied(p)
<1>1. /\ own[p] \in Jobs /\ at[p] \in Stages /\ Placing(p) /\ own \in [Procs -> Jobs] /\ at \in [Procs -> Stages]
      /\ clone \in [Store!Repos -> Clones]
      /\ \A r \in Store!Repos : clone[r] = Store!NoClone \/ clone[r].revision \in Store!Revisions
      /\ installed \in [Store!Scopes -> [SkillNames -> SkillDirs]]
      /\ lock \in [torn : BOOLEAN, entries : Sources]
      /\ revision \in [Store!Repos -> Store!Revisions]
      /\ p \in alone => Reported(p) /\ Once(p) /\ Copied(p)
  BY DEF StoreInv, StoreTypes, AloneInv
<1>2. /\ own[p].scope \in Store!Scopes /\ own[p].names \subseteq SkillNames /\ own[p].list \subseteq SkillParts
      /\ own[p].todo \subseteq SkillNames /\ own[p].entries \in Sources /\ own[p].source \in Sources
      /\ own[p].done \subseteq Store!Scopes \X SkillNames \X Store!Repos \X Store!Revisions
  BY <1>1 DEF Jobs
<1> QED
  BY <1>1, <1>2

\* A command that ends, by success, error or kill.
LEMMA StopStep ==
  ASSUME StoreInv, NEW p \in Procs, at[p] # "idle", Store!Stop(p),
         revision' = revision, alone' \in {alone, {}},
         clone' \in [Store!Repos -> Clones],
         \A r \in Store!Repos : clone'[r] = Store!NoClone \/ clone'[r].revision \in Store!Revisions,
         installed' \in [Store!Scopes -> [SkillNames -> SkillDirs]],
         lock' \in [torn : BOOLEAN, entries : Sources]
  PROVE  StoreInv'
<1>1. at' = [at EXCEPT ![p] = "idle"] /\ own' = [own EXCEPT ![p] = Store!Fresh]
  BY DEF Store!Stop, Store!Goto, Store!Set
<1>2. at'[p] = "idle" /\ own'[p] = Store!Fresh
  BY <1>1, OfCommand
<1>3. Placing(p)'
  BY <1>2, FreshJob DEF Placing, WithRepo, Cloned, Locking
<1>4. Reported(p)' /\ Once(p)' /\ Copied(p)'
  BY <1>2, FreshJob DEF Reported, Once, Copied, WithRepo, Cloned, Locking
<1>5. "idle" \in Stages
  BY DEF Stages
<1> QED
  BY <1>1, <1>3, <1>4, <1>5, FreshJob, CommandStep

\* A failure ends `add' and lets `update' go on with the next name.
LEMMA FailsStep ==
  ASSUME StoreInv, NEW p \in Procs, at[p] # "idle", Store!Fails(p),
         revision' = revision, alone' \in {alone, {}},
         clone' \in [Store!Repos -> Clones],
         \A r \in Store!Repos : clone'[r] = Store!NoClone \/ clone'[r].revision \in Store!Revisions,
         installed' \in [Store!Scopes -> [SkillNames -> SkillDirs]],
         lock' \in [torn : BOOLEAN, entries : Sources],
         p \in alone' =>
           /\ at[p] # "write" /\ lock' = lock
           /\ \A d \in own[p].done : installed'[d[1]][d[2]] = installed[d[1]][d[2]]
  PROVE  StoreInv'
<1>1. CASE own[p].job # "update"
  BY <1>1, StopStep DEF Store!Fails
<1>2. CASE own[p].job = "update"
  <2>1. at' = [at EXCEPT ![p] = "next"] /\ own' = [own EXCEPT ![p] = own[p]]
    BY <1>2, OfCommand DEF Store!Fails, Store!Goto
  <2>2. at'[p] = "next" /\ own'[p] = own[p] /\ own[p] \in Jobs /\ "next" \in Stages
    BY <2>1, OfCommand DEF Stages
  <2>3. Placing(p)'
    <3>1. own[p].job = "update" => \A n \in own[p].todo : own[p].source[n] \in Store!Repos
      BY OfCommand DEF Placing
    <3>2. "next" \notin WithRepo \cup Cloned \cup Locking \cup {"checkout", "remove", "copy"}
      BY DEF WithRepo, Cloned, Locking
    <3>3. Store!Repos' = Store!Repos
      BY DEF Store!Repos
    <3> QED
      BY <1>2, <2>2, <3>1, <3>2, <3>3 DEF Placing
  <2>4. ASSUME p \in alone' PROVE Reported(p)' /\ Once(p)' /\ Copied(p)'
    <3>1. Reported(p) /\ Once(p)
      BY <2>4, OfCommand
    <3>2. Reported(p)'
      BY <2>2, <2>4, <3>1 DEF Reported
    <3>3. Once(p)'
      <4>1. "next" \notin WithRepo \cup Locking \cup {"clear", "git", "checkout", "discover", "next skill", "copy"}
        BY DEF WithRepo, Locking
      <4>2. \A d \in own[p].done : d[2] \notin own[p].todo
        BY <1>2, <3>1 DEF Once
      <4> QED
        BY <1>2, <2>2, <4>1, <4>2 DEF Once
    <3>4. Copied(p)'
      BY <2>2 DEF Copied, Cloned, Locking
    <3> QED
      BY <3>2, <3>3, <3>4
  <2> QED
    BY <2>1, <2>2, <2>3, <2>4, CommandStep
<1> QED
  BY <1>1, <1>2

\* Cloning.
LEMMA CloneStep ==
  ASSUME StoreInv, NEW p \in Procs,
         Store!ClearClone(p) \/ Store!StartGit(p) \/ Store!FinishGit(p)
  PROVE  StoreInv'
<1> DEFINE r == own[p].repo
<1>1. CASE Store!ClearClone(p)
  <2>1. /\ at[p] = "clear" /\ at' = [at EXCEPT ![p] = "git"] /\ own' = [own EXCEPT ![p] = own[p]]
        /\ clone' = [clone EXCEPT ![r] = Store!NoClone]
        /\ revision' = revision /\ installed' = installed /\ lock' = lock /\ alone' = alone
    BY <1>1, OfCommand DEF Store!ClearClone, Store!At, Store!Goto
  <2>2. at'[p] = "git" /\ own'[p] = own[p] /\ own[p] \in Jobs /\ "git" \in Stages
    BY <2>1, OfCommand DEF Stages, WithRepo
  <2>3. r \in Store!Repos /\ Store!NoClone \in Clones
    BY <2>1, OfCommand DEF Placing, WithRepo, Store!NoClone, Clones
  <2>4. /\ clone' \in [Store!Repos -> Clones]
        /\ \A s \in Store!Repos : clone'[s] = Store!NoClone \/ clone'[s].revision \in Store!Revisions
    <3> HIDE DEF r
    <3> QED
      BY <2>1, <2>3, OfCommand
  <2>5. Placing(p)'
    BY <2>1, <2>2, OfCommand DEF Placing, WithRepo, Cloned, Locking, Store!Repos, Adds
  <2>6. ASSUME p \in alone' PROVE Reported(p)' /\ Once(p)' /\ Copied(p)'
    <3>1. Reported(p) /\ Once(p)
      BY <2>1, <2>6, OfCommand
    <3>2. Reported(p)'
      BY <2>1, <2>2, <3>1 DEF Reported
    <3>3. Once(p)'
      BY <2>1, <2>2, <3>1 DEF Once, WithRepo, Locking
    <3>4. Copied(p)'
      BY <2>2 DEF Copied, Cloned, Locking
    <3> QED
      BY <3>2, <3>3, <3>4
  <2> QED
    BY <2>1, <2>2, <2>4, <2>5, <2>6, OfCommand, CommandStep
<1>2. CASE Store!StartGit(p)
  <2> DEFINE m == [own[p] EXCEPT !.revision = revision[r]]
             c == [by |-> p, revision |-> revision[r], files |-> {"SKILL.md"}]
  <2>1. /\ at[p] = "git" /\ at' = [at EXCEPT ![p] = "checkout"] /\ own' = [own EXCEPT ![p] = m]
        /\ clone' = [clone EXCEPT ![r] = c]
        /\ revision' = revision /\ installed' = installed /\ lock' = lock /\ alone' = alone
    BY <1>2 DEF Store!StartGit, Store!At, Store!Goto, Store!Set
  <2>2. r \in Store!Repos /\ revision[r] \in Store!Revisions /\ own[p].job \in {"add", "update"}
    BY <2>1, OfCommand DEF Placing, WithRepo
  <2>3. c \in Clones
    BY <2>2 DEF Clones, SkillParts
  <2>4. /\ m \in Jobs /\ m.revision = revision[r] /\ m.repo = r /\ m.job = own[p].job
        /\ m.todo = own[p].todo /\ m.source = own[p].source /\ m.done = own[p].done /\ m.scope = own[p].scope
        /\ m.filter = own[p].filter
    <3>1. own[p] \in Jobs
      BY OfCommand
    <3> QED
      BY <2>2, <3>1 DEF Jobs
  <2>5. at'[p] = "checkout" /\ own'[p] = m /\ "checkout" \in Stages
    BY <2>1, <2>4, OfCommand DEF Stages, WithRepo
  <2>6. /\ clone' \in [Store!Repos -> Clones] /\ clone'[r] = c
        /\ \A s \in Store!Repos : clone'[s] = Store!NoClone \/ clone'[s].revision \in Store!Revisions
    <3>1. c.revision \in Store!Revisions
      BY <2>2
    <3> HIDE DEF r, c
    <3> QED
      BY <2>1, <2>2, <2>3, <3>1, OfCommand
  <2>7. Placing(p)'
    <3>1. own[p].job = "update" => \A n \in own[p].todo : own[p].source[n] \in Store!Repos
      BY OfCommand DEF Placing
    <3> HIDE DEF m, r
    <3> QED
      BY <2>2, <2>4, <2>5, <3>1 DEF Placing, WithRepo, Cloned, Locking, Store!Repos, Store!Revisions
  <2>8. ASSUME p \in alone' PROVE Reported(p)' /\ Once(p)' /\ Copied(p)'
    <3>1. Reported(p) /\ Once(p)
      BY <2>1, <2>8, OfCommand
    <3>2. c.by = p /\ c.revision = m.revision
      BY <2>4
    <3> HIDE DEF m, r, c
    <3>3. Reported(p)'
      BY <2>1, <2>4, <2>5, <3>1 DEF Reported
    <3>4. Once(p)'
      <4>1. /\ own[p].job = "add" => own[p].filter = Store!None /\ own[p].done = {}
            /\ own[p].job = "update" =>
                 /\ own[p].filter # Store!None /\ own[p].filter \notin own[p].todo
                 /\ \A d \in own[p].done : d[2] \notin own[p].todo /\ d[2] # own[p].filter
        BY <2>1, <3>1 DEF Once, WithRepo
      <4>2. "checkout" \notin {"next skill", "copy"} \cup Locking
        BY DEF Locking
      <4> QED
        BY <2>2, <2>4, <2>5, <4>1, <4>2 DEF Once
    <3>5. Copied(p)'
      BY <2>4, <2>5, <2>6, <3>2 DEF Copied, Cloned, Locking
    <3> QED
      BY <3>3, <3>4, <3>5
  <2> HIDE DEF m, r, c
  <2> QED
    BY <2>1, <2>4, <2>5, <2>6, <2>7, <2>8, OfCommand, CommandStep
<1>3. CASE Store!FinishGit(p)
  <2> DEFINE c == [clone[r] EXCEPT !.files = FilesAt[clone[r].revision]]
  <2>1. /\ at[p] = "checkout" /\ at' = [at EXCEPT ![p] = "discover"] /\ own' = [own EXCEPT ![p] = own[p]]
        /\ clone' = [clone EXCEPT ![r] = c] /\ clone[r].by = p
        /\ revision' = revision /\ installed' = installed /\ lock' = lock /\ alone' = alone
    BY <1>3, OfCommand DEF Store!FinishGit, Store!At, Store!Goto
  <2>2. r \in Store!Repos /\ own[p].job \in {"add", "update"} /\ own[p].revision \in Store!Revisions
    BY <2>1, OfCommand DEF Placing, WithRepo
  <2>3. clone[r] \in Clones /\ clone[r].revision \in Store!Revisions
    BY <2>1, <2>2, OfCommand, SkillStoreAssumption DEF Store!NoClone, Store!SkillStoreAssumption
  <2>4. c \in Clones /\ c.revision = clone[r].revision /\ c.files = FilesAt[clone[r].revision]
    BY <2>3 DEF Clones, SkillParts
  <2>5. at'[p] = "discover" /\ own'[p] = own[p] /\ "discover" \in Stages
    BY <2>1, OfCommand DEF Stages, WithRepo
  <2>6. /\ clone' \in [Store!Repos -> Clones] /\ clone'[r] = c
        /\ \A s \in Store!Repos : clone'[s] = Store!NoClone \/ clone'[s].revision \in Store!Revisions
    <3> HIDE DEF r, c
    <3> QED
      BY <2>1, <2>2, <2>3, <2>4, OfCommand
  <2>7. Placing(p)'
    <3>1. own[p].job = "update" => \A n \in own[p].todo : own[p].source[n] \in Store!Repos
      BY OfCommand DEF Placing
    <3> QED
      BY <2>2, <2>5, <3>1 DEF Placing, WithRepo, Cloned, Locking, Store!Repos, Store!Revisions
  <2>8. ASSUME p \in alone' PROVE Reported(p)' /\ Once(p)' /\ Copied(p)'
    <3>1. Reported(p) /\ Once(p) /\ Copied(p)
      BY <2>1, <2>8, OfCommand
    <3>2. clone[r].revision = own[p].revision
      BY <2>1, <3>1 DEF Copied
    <3>3. Reported(p)'
      BY <2>1, <2>5, <3>1 DEF Reported
    <3>4. Once(p)'
      BY <2>1, <2>5, <3>1 DEF Once, WithRepo, Locking
    <3>5. Copied(p)'
      <4> HIDE DEF c
      <4> QED
        BY <2>4, <2>5, <2>6, <3>2 DEF Copied, Cloned, Locking
    <3> QED
      BY <3>3, <3>4, <3>5
  <2> HIDE DEF r, c
  <2> QED
    BY <2>1, <2>5, <2>6, <2>7, <2>8, OfCommand, CommandStep
<1> QED
  BY <1>1, <1>2, <1>3

LEMMA GitFailsStep ==
  ASSUME StoreInv, NEW p \in Procs, Store!GitFails(p)
  PROVE  StoreInv'
<1> DEFINE r == own[p].repo
<1>1. /\ at[p] \in {"git", "checkout"} /\ Store!Fails(p)
      /\ clone' = clone \/ clone' = [clone EXCEPT ![r] = Store!NoClone]
      /\ revision' = revision /\ installed' = installed /\ lock' = lock /\ alone' = alone
  BY DEF Store!GitFails, Store!At
<1>2. r \in Store!Repos /\ Store!NoClone \in Clones
  BY <1>1, OfCommand DEF Placing, WithRepo, Store!NoClone, Clones
<1>3. /\ clone' \in [Store!Repos -> Clones]
      /\ \A s \in Store!Repos : clone'[s] = Store!NoClone \/ clone'[s].revision \in Store!Revisions
  <2> HIDE DEF r
  <2> QED
    BY <1>1, <1>2, OfCommand
<1> QED
  BY <1>1, <1>3, OfCommand, FailsStep

LEMMA DiscoverStep ==
  ASSUME StoreInv, NEW p \in Procs, Store!Discover(p)
  PROVE  StoreInv'
<1> DEFINE r == own[p].repo
           wanted == IF own[p].filter = Store!None THEN Store!Found(p) ELSE Store!Found(p) \cap {own[p].filter}
<1>1. /\ at[p] = "discover"
      /\ revision' = revision /\ installed' = installed /\ lock' = lock /\ alone' = alone
      /\ \/ \E names \in SUBSET wanted \ {{}} :
              /\ own' = [own EXCEPT ![p] = [own[p] EXCEPT !.names = names]]
              /\ at' = [at EXCEPT ![p] = "next skill"] /\ clone' = clone
         \/ /\ clone' = clone \/ clone' = [clone EXCEPT ![r] = Store!NoClone]
            /\ Store!Fails(p)
  BY DEF Store!Discover, Store!At, Store!Goto, Store!Set
<1>2. r \in Store!Repos /\ own[p].job \in {"add", "update"} /\ own[p].revision \in Store!Revisions
  BY <1>1, OfCommand DEF Placing, WithRepo, Cloned
<1>3. Store!NoClone \in Clones
  BY DEF Store!NoClone, Clones
<1>4. wanted \subseteq SkillNames
  BY <1>2, SkillStoreAssumption DEF Store!Found, Store!SkillStoreAssumption
<1>5. own[p].filter # Store!None => wanted \subseteq {own[p].filter}
  OBVIOUS
<1> HIDE DEF r, wanted
<1>6. CASE Store!Fails(p) /\ (clone' = clone \/ clone' = [clone EXCEPT ![r] = Store!NoClone])
  <2>1. /\ clone' \in [Store!Repos -> Clones]
        /\ \A s \in Store!Repos : clone'[s] = Store!NoClone \/ clone'[s].revision \in Store!Revisions
    BY <1>2, <1>3, <1>6, OfCommand
  <2> QED
    BY <1>1, <1>6, <2>1, OfCommand, FailsStep
<1>7. ASSUME NEW names \in SUBSET wanted \ {{}},
             own' = [own EXCEPT ![p] = [own[p] EXCEPT !.names = names]],
             at' = [at EXCEPT ![p] = "next skill"], clone' = clone
      PROVE  StoreInv'
  <2> DEFINE m == [own[p] EXCEPT !.names = names]
  <2>1. /\ m \in Jobs /\ m.revision = own[p].revision /\ m.repo = r /\ m.job = own[p].job
        /\ m.todo = own[p].todo /\ m.source = own[p].source /\ m.done = own[p].done /\ m.scope = own[p].scope
        /\ m.filter = own[p].filter /\ m.names = names
    <3>1. own[p] \in Jobs /\ names \subseteq SkillNames
      BY <1>4, OfCommand
    <3> QED
      BY <3>1 DEF Jobs, r
  <2> HIDE DEF m
  <2>2. at'[p] = "next skill" /\ own'[p] = m /\ "next skill" \in Stages
    BY <1>7, <2>1, OfCommand DEF Stages, WithRepo, m
  <2>3. Placing(p)'
    <3>1. own[p].job = "update" => \A n \in own[p].todo : own[p].source[n] \in Store!Repos
      BY OfCommand DEF Placing
    <3> QED
      BY <1>2, <2>1, <2>2, <3>1 DEF Placing, WithRepo, Cloned, Locking, Store!Repos, Store!Revisions
  <2>4. ASSUME p \in alone' PROVE Reported(p)' /\ Once(p)' /\ Copied(p)'
    <3>1. Reported(p) /\ Once(p) /\ Copied(p)
      BY <1>1, <2>4, OfCommand
    <3>2. Reported(p)'
      BY <1>1, <2>1, <2>2, <3>1 DEF Reported
    <3>3. /\ m.job = "add" => m.filter = Store!None /\ m.done = {}
          /\ m.job = "update" =>
               /\ m.filter # Store!None /\ m.names \subseteq {m.filter} /\ m.filter \notin m.todo
               /\ \A d \in m.done : d[2] \notin m.todo /\ d[2] # m.filter
      BY <1>1, <1>5, <2>1, <3>1 DEF Once, WithRepo
    <3>4. Once(p)'
      BY <1>2, <2>1, <2>2, <3>3 DEF Once, WithRepo, Locking
    <3>5. Copied(p)'
      BY <1>1, <1>7, <2>1, <2>2, <3>1 DEF Copied, Cloned, Locking, r
    <3> QED
      BY <3>2, <3>4, <3>5
  <2> QED
    BY <1>1, <1>7, <2>1, <2>2, <2>3, <2>4, OfCommand, CommandStep DEF m
<1> QED
  BY <1>1, <1>6, <1>7

LEMMA InstallStep ==
  ASSUME StoreInv, NEW p \in Procs, Store!InstallSkill(p)
  PROVE  StoreInv'
<1> DEFINE r == own[p].repo
           empty == [there |-> TRUE, files |-> {}]
           M(n) == [own[p] EXCEPT !.names = @ \ {n}, !.name = n, !.list = clone[r].files]
<1>1. PICK n \in own[p].names :
        /\ at[p] = "next skill"
        /\ installed' = [installed EXCEPT ![own[p].scope][n] = empty]
        /\ \/ Store!Fails(p)
           \/ own' = [own EXCEPT ![p] = M(n)] /\ at' = [at EXCEPT ![p] = "copy"]
        /\ revision' = revision /\ clone' = clone /\ lock' = lock /\ alone' = alone
  BY DEF Store!InstallSkill, Store!At, Store!Goto, Store!Set
<1>2. r \in Store!Repos /\ own[p].job \in {"add", "update"} /\ own[p].revision \in Store!Revisions
  BY <1>1, OfCommand DEF Placing, WithRepo, Cloned
<1>3. n \in SkillNames /\ own[p].scope \in Store!Scopes /\ empty \in SkillDirs
  BY <1>1, OfCommand DEF SkillDirs
<1>4. clone[r] \in Clones /\ clone[r].files \subseteq SkillParts
  BY <1>2, OfCommand DEF Clones
<1>5. /\ installed' \in [Store!Scopes -> [SkillNames -> SkillDirs]]
      /\ installed'[own[p].scope][n] = empty
      /\ \A s \in Store!Scopes, k \in SkillNames : k # n => installed'[s][k] = installed[s][k]
  <2> HIDE DEF empty
  <2> QED
    BY <1>1, <1>3, OfCommand
<1>6. ASSUME p \in alone
      PROVE  \A d \in own[p].done : d[2] # n /\ installed'[d[1]][d[2]] = installed[d[1]][d[2]]
  <2>1. Once(p)
    BY <1>6, OfCommand
  <2>2. \A d \in own[p].done : d[1] \in Store!Scopes /\ d[2] \in SkillNames
    BY OfCommand
  <2>3. \A d \in own[p].done : d[2] # n
    BY <1>1, <2>1 DEF Once
  <2> HIDE DEF M, empty
  <2> QED
    BY <1>5, <2>2, <2>3
<1>7. CASE Store!Fails(p)
  BY <1>1, <1>5, <1>6, <1>7, OfCommand, FailsStep
<1>8. CASE own' = [own EXCEPT ![p] = M(n)] /\ at' = [at EXCEPT ![p] = "copy"]
  <2> DEFINE m == M(n)
  <2>1. /\ m \in Jobs /\ m.revision = own[p].revision /\ m.repo = r /\ m.job = own[p].job
        /\ m.todo = own[p].todo /\ m.source = own[p].source /\ m.done = own[p].done /\ m.scope = own[p].scope
        /\ m.filter = own[p].filter /\ m.names = own[p].names \ {n} /\ m.name = n /\ m.list = clone[r].files
    <3>1. own[p] \in Jobs
      BY OfCommand
    <3> QED
      BY <1>3, <1>4, <3>1 DEF Jobs
  <2>2. own' = [own EXCEPT ![p] = m]
    BY <1>8
  <2> HIDE DEF m, r, empty, M
  <2>3. at'[p] = "copy" /\ own'[p] = m /\ "copy" \in Stages
    BY <1>8, <2>1, <2>2, OfCommand DEF Stages, WithRepo
  <2>4. Placing(p)'
    <3>1. own[p].job = "update" => \A k \in own[p].todo : own[p].source[k] \in Store!Repos
      BY OfCommand DEF Placing
    <3> QED
      BY <1>2, <1>3, <2>1, <2>3, <3>1 DEF Placing, WithRepo, Cloned, Locking, Store!Repos, Store!Revisions
  <2>5. ASSUME p \in alone' PROVE Reported(p)' /\ Once(p)' /\ Copied(p)'
    <3>1. p \in alone /\ Reported(p) /\ Once(p) /\ Copied(p)
      BY <1>1, <2>5, OfCommand
    <3>2. Reported(p)'
      <4>1. \A d \in own[p].done : installed'[d[1]][d[2]] = installed[d[1]][d[2]]
        BY <1>6, <3>1
      <4>2. lock' = lock /\ at[p] = "next skill"
        BY <1>1
      <4> QED
        BY <2>1, <2>3, <3>1, <4>1, <4>2 DEF Reported
    <3>3. /\ m.job = "add" => m.filter = Store!None
          /\ m.job = "update" =>
               m.filter # Store!None /\ m.names \cap m.todo = {} /\ m.name \notin m.todo
          /\ \A d \in m.done :
               /\ m.job = "update" => d[2] \notin m.todo
               /\ d[2] \notin m.names /\ d[2] # m.name
          /\ m.name \notin m.names
      BY <1>1, <1>6, <2>1, <3>1 DEF Once, WithRepo
    <3>4. Once(p)'
      BY <1>2, <2>1, <2>3, <3>3 DEF Once, WithRepo, Locking
    <3>5. clone[r].revision = own[p].revision /\ clone[r].files = FilesAt[own[p].revision]
      BY <1>1, <3>1 DEF Copied, Cloned, r
    <3>6. installed'[m.scope][m.name].files = {}
      BY <1>5, <2>1 DEF empty
    <3>7. {<<f, m.repo, m.revision>> : f \in FilesAt[m.revision] \ m.list} = {}
      BY <2>1, <3>5
    <3>8. clone' = clone
      BY <1>1
    <3>9. Copied(p)'
      BY <2>1, <2>3, <3>5, <3>6, <3>7, <3>8 DEF Copied, Cloned, Locking
    <3> QED
      BY <3>2, <3>4, <3>9
  <2>6. /\ at[p] # "idle" /\ at' = [at EXCEPT ![p] = "copy"] /\ revision' = revision /\ clone' = clone
        /\ lock' = lock /\ alone' = alone
    BY <1>1, <1>8
  <2> QED
    BY <1>5, <2>1, <2>2, <2>3, <2>4, <2>5, <2>6, OfCommand, CommandStep
<1> QED
  BY <1>1, <1>7, <1>8

LEMMA CopyStep ==
  ASSUME StoreInv, NEW p \in Procs, Store!CopyFile(p) \/ Store!CopyFails(p)
  PROVE  StoreInv'
<1> DEFINE r == own[p].repo
           s == own[p].scope
           n == own[p].name
           M(f) == [own[p] EXCEPT !.list = @ \ {f}]
           D(f) == [installed[s][n] EXCEPT !.files = {g \in @ : g[1] # f} \cup {<<f, r, clone[r].revision>>}]
<1>1. at[p] = "copy" /\ revision' = revision /\ clone' = clone /\ lock' = lock /\ alone' = alone
  BY DEF Store!CopyFile, Store!CopyFails, Store!At
<1>2. r \in Store!Repos /\ own[p].job \in {"add", "update"} /\ own[p].revision \in Store!Revisions
      /\ n \in SkillNames /\ s \in Store!Scopes
  BY <1>1, OfCommand DEF Placing, WithRepo, Cloned
<1>3. installed[s][n] \in SkillDirs /\ clone[r] \in Clones /\ own[p] \in Jobs
  BY <1>2, OfCommand
<1>4. CASE Store!CopyFails(p)
  BY <1>1, <1>4, OfCommand, FailsStep DEF Store!CopyFails
<1>5. ASSUME NEW f \in own[p].list \cap clone[r].files,
             own' = [own EXCEPT ![p] = M(f)], at' = [at EXCEPT ![p] = at[p]],
             installed' = [installed EXCEPT ![s][n] = D(f)]
      PROVE  StoreInv'
  <2> DEFINE m == M(f)
  <2>1. /\ m \in Jobs /\ m.revision = own[p].revision /\ m.repo = r /\ m.job = own[p].job
        /\ m.todo = own[p].todo /\ m.source = own[p].source /\ m.done = own[p].done /\ m.scope = s
        /\ m.filter = own[p].filter /\ m.names = own[p].names /\ m.name = n /\ m.list = own[p].list \ {f}
    BY <1>3 DEF Jobs
  <2>2. own' = [own EXCEPT ![p] = m]
    BY <1>5
  <2>3. f \in SkillParts /\ own[p].list \subseteq SkillParts
    BY <1>3 DEF Jobs
  <2>4. clone[r].revision \in Store!Revisions
    <3>1. clone[r].files # {}
      BY <1>5
    <3>2. clone[r] # Store!NoClone
      BY <3>1 DEF Store!NoClone
    <3> QED
      BY <1>2, <3>2, OfCommand
  <2>5. D(f) \in SkillDirs /\ D(f).files = {g \in installed[s][n].files : g[1] # f} \cup {<<f, r, clone[r].revision>>}
    <3>1. {g \in installed[s][n].files : g[1] # f} \cup {<<f, r, clone[r].revision>>}
            \in SUBSET (SkillParts \X Store!Repos \X Store!Revisions)
      BY <1>2, <1>3, <2>3, <2>4 DEF SkillDirs
    <3> QED
      BY <1>3, <3>1 DEF SkillDirs
  <2> DEFINE d1 == D(f)
  <2>6. installed' = [installed EXCEPT ![s][n] = d1]
    BY <1>5
  <2>7. d1 \in SkillDirs /\ d1.files = {g \in installed[s][n].files : g[1] # f} \cup {<<f, r, clone[r].revision>>}
    BY <2>5
  <2> HIDE DEF m, M, D, d1, r, s, n
  <2>8. /\ installed' \in [Store!Scopes -> [SkillNames -> SkillDirs]] /\ installed'[s][n] = d1
        /\ \A t \in Store!Scopes, k \in SkillNames : k # n => installed'[t][k] = installed[t][k]
    BY <1>2, <2>6, <2>7, OfCommand
  <2>9. at'[p] = "copy" /\ own'[p] = m /\ "copy" \in Stages
    BY <1>1, <1>5, <2>1, <2>2, OfCommand DEF Stages, WithRepo
  <2>10. Placing(p)'
    <3>1. own[p].job = "update" => \A k \in own[p].todo : own[p].source[k] \in Store!Repos
      BY OfCommand DEF Placing
    <3> QED
      BY <1>2, <2>1, <2>9, <3>1 DEF Placing, WithRepo, Cloned, Locking, Store!Repos, Store!Revisions
  <2>11. ASSUME p \in alone' PROVE Reported(p)' /\ Once(p)' /\ Copied(p)'
    <3>1. Reported(p) /\ Once(p) /\ Copied(p)
      BY <1>1, <2>11, OfCommand
    <3>2. \A d \in own[p].done : d[1] \in Store!Scopes /\ d[2] \in SkillNames /\ d[2] # n
      <4>1. \A d \in own[p].done : d[1] \in Store!Scopes /\ d[2] \in SkillNames
        BY OfCommand
      <4> QED
        BY <1>1, <3>1, <4>1 DEF Once, n
    <3>3. Reported(p)'
      <4>1. \A d \in own[p].done : installed'[d[1]][d[2]] = installed[d[1]][d[2]]
        BY <2>8, <3>2
      <4>2. m.done = own[p].done /\ m.scope = own[p].scope
        BY <2>1 DEF s
      <4> QED
        BY <1>1, <2>9, <3>1, <4>1, <4>2 DEF Reported
    <3>4. Once(p)'
      BY <1>1, <2>1, <2>9, <3>1 DEF Once, WithRepo, Locking, n
    <3>5. /\ clone[r].revision = own[p].revision /\ clone[r].files = FilesAt[own[p].revision]
          /\ own[p].list \subseteq FilesAt[own[p].revision]
          /\ installed[s][n].files = {<<g, r, own[p].revision>> : g \in FilesAt[own[p].revision] \ own[p].list}
      BY <1>1, <3>1 DEF Copied, Cloned, r, s, n
    <3>6. d1.files = {<<g, r, own[p].revision>> : g \in FilesAt[own[p].revision] \ m.list}
      <4>1. \A x : x \in d1.files => x \in {<<g, r, own[p].revision>> : g \in FilesAt[own[p].revision] \ m.list}
        BY <1>5, <2>1, <2>7, <3>5
      <4>2. \A g \in FilesAt[own[p].revision] \ m.list : <<g, r, own[p].revision>> \in d1.files
        BY <1>5, <2>1, <2>7, <3>5
      <4> QED
        BY <4>1, <4>2
    <3>7. m.list \subseteq FilesAt[own[p].revision]
      BY <2>1, <3>5
    <3>8. Copied(p)'
      BY <1>1, <2>1, <2>8, <2>9, <3>5, <3>6, <3>7 DEF Copied, Cloned, Locking
    <3> QED
      BY <3>3, <3>4, <3>8
  <2>12. at[p] # "idle" /\ at' = [at EXCEPT ![p] = "copy"]
    BY <1>1, <1>5
  <2> QED
    BY <1>1, <2>1, <2>2, <2>8, <2>9, <2>10, <2>11, <2>12, OfCommand, CommandStep
<1>6. CASE own[p].list = {} /\ at' = [at EXCEPT ![p] = "read"] /\ UNCHANGED <<installed, own>>
  <2>1. own' = [own EXCEPT ![p] = own[p]]
    BY <1>6, OfCommand
  <2> HIDE DEF M, D
  <2>2. at'[p] = "read" /\ own'[p] = own[p] /\ "read" \in Stages
    BY <1>6, OfCommand DEF Stages, Locking
  <2>3. Placing(p)'
    <3>1. own[p].job = "update" => \A k \in own[p].todo : own[p].source[k] \in Store!Repos
      BY OfCommand DEF Placing
    <3> QED
      BY <1>2, <2>2, <3>1 DEF Placing, WithRepo, Cloned, Locking, Store!Repos, Store!Revisions
  <2>4. ASSUME p \in alone' PROVE Reported(p)' /\ Once(p)' /\ Copied(p)'
    <3>1. Reported(p) /\ Once(p) /\ Copied(p)
      BY <1>1, <2>4, OfCommand
    <3>2. Reported(p)'
      BY <1>1, <1>6, <2>2, <3>1 DEF Reported
    <3>3. Once(p)'
      BY <1>1, <2>2, <3>1 DEF Once, WithRepo, Locking
    <3>4. /\ clone[r].revision = own[p].revision /\ clone[r].files = FilesAt[own[p].revision]
          /\ installed[s][n].files = FilesOf(r, own[p].revision)
      BY <1>1, <1>6, <3>1 DEF Copied, Cloned, FilesOf
    <3>5. FilesOf(r, own[p].revision)' = FilesOf(r, own[p].revision)
      BY <2>2 DEF FilesOf
    <3>6. Copied(p)'
      BY <1>1, <1>6, <2>2, <3>4, <3>5 DEF Copied, Cloned, Locking
    <3> QED
      BY <3>2, <3>3, <3>6
  <2>5. at[p] # "idle" /\ at' = [at EXCEPT ![p] = "read"]
    BY <1>1, <1>6
  <2>6. own[p] \in Jobs /\ installed' = installed
    BY <1>3, <1>6
  <2> QED
    BY <1>1, <2>1, <2>2, <2>3, <2>4, <2>5, <2>6, OfCommand, CommandStep
<1>7. CASE Store!CopyFile(p)
  <2>1. \/ \E f \in own[p].list \cap clone[r].files :
             /\ own' = [own EXCEPT ![p] = M(f)] /\ at' = at
             /\ installed' = [installed EXCEPT ![s][n].files = {g \in @ : g[1] # f} \cup {<<f, r, clone[r].revision>>}]
        \/ own[p].list = {} /\ at' = [at EXCEPT ![p] = "read"] /\ UNCHANGED <<installed, own>>
    BY <1>7 DEF Store!CopyFile, Store!Goto, Store!Set
  <2>2. ASSUME NEW f PROVE [installed EXCEPT ![s][n].files = {g \in @ : g[1] # f} \cup {<<f, r, clone[r].revision>>}]
                           = [installed EXCEPT ![s][n] = D(f)]
    OBVIOUS
  <2>3. at = [at EXCEPT ![p] = at[p]]
    BY OfCommand
  <2> QED
    BY <1>5, <1>6, <2>1, <2>2, <2>3
<1> QED
  BY <1>4, <1>7

LEMMA FinishAddStep ==
  ASSUME StoreInv, NEW p \in Procs, Store!FinishAdd(p)
  PROVE  StoreInv'
<1> DEFINE r == own[p].repo
           l == IF own[p].job = "update" THEN "next" ELSE "done"
<1>1. /\ at[p] = "next skill" /\ own' = [own EXCEPT ![p] = own[p]] /\ at' = [at EXCEPT ![p] = l]
      /\ clone' = [clone EXCEPT ![r] = Store!NoClone]
      /\ revision' = revision /\ installed' = installed /\ lock' = lock /\ alone' = alone
  BY OfCommand DEF Store!FinishAdd, Store!At, Store!Goto
<1>2. r \in Store!Repos /\ own[p].job \in {"add", "update"} /\ own[p] \in Jobs
  BY <1>1, OfCommand DEF Placing, WithRepo
<1>3. Store!NoClone \in Clones
  BY DEF Store!NoClone, Clones
<1> HIDE DEF r
<1>4. /\ clone' \in [Store!Repos -> Clones]
      /\ \A t \in Store!Repos : clone'[t] = Store!NoClone \/ clone'[t].revision \in Store!Revisions
  BY <1>1, <1>2, <1>3, OfCommand
<1>5. at'[p] = l /\ own'[p] = own[p] /\ l \in Stages
  <2>1. l \in Stages
    BY DEF Stages
  <2> QED
    BY <1>1, <2>1, OfCommand
<1>6. l \in {"next", "done"} /\ (l = "next" => own[p].job = "update")
  OBVIOUS
<1> HIDE DEF l
<1>7. l \notin WithRepo \cup Cloned \cup Locking \cup {"clear", "git", "checkout", "discover", "remove", "next skill", "copy"}
  BY <1>6 DEF WithRepo, Cloned, Locking
<1>8. Placing(p)'
  <2>1. own[p].job = "update" => \A k \in own[p].todo : own[p].source[k] \in Store!Repos
    BY OfCommand DEF Placing
  <2> QED
    BY <1>5, <1>6, <1>7, <2>1 DEF Placing, Store!Repos
<1>9. ASSUME p \in alone' PROVE Reported(p)' /\ Once(p)' /\ Copied(p)'
  <2>1. Reported(p) /\ Once(p)
    BY <1>1, <1>9, OfCommand
  <2>2. Reported(p)'
    BY <1>1, <1>5, <1>7, <2>1 DEF Reported, Locking
  <2>3. own[p].job = "update" => \A d \in own[p].done : d[2] \notin own[p].todo
    BY <2>1 DEF Once
  <2>4. own[p].job = "add" => own[p].filter = Store!None
    BY <2>1 DEF Once
  <2>5. Once(p)'
    BY <1>2, <1>5, <1>7, <2>3, <2>4 DEF Once
  <2>6. Copied(p)'
    BY <1>5, <1>7 DEF Copied, Locking
  <2> QED
    BY <2>2, <2>5, <2>6
<1> QED
  BY <1>1, <1>2, <1>4, <1>5, <1>8, <1>9, OfCommand, CommandStep

\* The lock file is read.
LEMMA ReadLockStep ==
  ASSUME StoreInv, NEW p \in Procs, Store!ReadLock(p)
  PROVE  StoreInv'
<1> DEFINE source == IF own[p].job = "remove" THEN Store!None ELSE own[p].repo
           n == own[p].name
           m == [own[p] EXCEPT !.entries = [Store!Entries EXCEPT ![n] = source]]
<1>1. /\ at[p] = "read" /\ revision' = revision /\ installed' = installed /\ clone' = clone /\ lock' = lock
      /\ alone' = alone
      /\ \/ source = Store!None /\ at' = [at EXCEPT ![p] = "done"] /\ own' = [own EXCEPT ![p] = own[p]]
         \/ own' = [own EXCEPT ![p] = m] /\ at' = [at EXCEPT ![p] = "truncate"]
  BY OfCommand DEF Store!ReadLock, Store!At, Store!Goto, Store!Set
<1>2. n \in SkillNames /\ own[p] \in Jobs /\ (Adds(p) => own[p].repo \in Store!Repos)
  BY <1>1, OfCommand DEF Placing, Locking
<1>3. source \in Store!Repos \cup {Store!None}
  BY <1>2 DEF Adds
<1>4. Store!Entries \in Sources /\ (~lock.torn => Store!Entries = lock.entries)
  BY OfCommand, FreshJob DEF Store!Entries
<1>5. own[p].job = "update" => \A k \in own[p].todo : own[p].source[k] \in Store!Repos
  BY OfCommand DEF Placing
<1>6. CASE source = Store!None /\ at' = [at EXCEPT ![p] = "done"] /\ own' = [own EXCEPT ![p] = own[p]]
  <2>1. own[p].job = "remove"
    <3>1. Store!None \notin Store!Repos
      BY SkillStoreAssumption DEF Store!SkillStoreAssumption
    <3> QED
      BY <1>2, <1>6, <3>1 DEF Adds
  <2> HIDE DEF source, m, n
  <2>2. at'[p] = "done" /\ own'[p] = own[p] /\ "done" \in Stages
    BY <1>6, OfCommand DEF Stages
  <2>3. "done" \notin WithRepo \cup Cloned \cup Locking \cup {"clear", "git", "checkout", "discover", "remove", "next skill", "copy"}
    BY DEF WithRepo, Cloned, Locking
  <2>4. Placing(p)'
    BY <1>5, <2>2, <2>3 DEF Placing, Store!Repos
  <2>5. ASSUME p \in alone' PROVE Reported(p)' /\ Once(p)' /\ Copied(p)'
    <3>1. Once(p)
      BY <1>1, <2>5, OfCommand
    <3>2. own[p].done = {} /\ own[p].names = {}
      BY <2>1, <3>1 DEF Once
    <3>3. Reported(p)'
      BY <2>2, <3>2 DEF Reported
    <3>4. Once(p)'
      BY <2>1, <2>2, <2>3, <3>2 DEF Once
    <3>5. Copied(p)'
      BY <2>2, <2>3 DEF Copied
    <3> QED
      BY <3>3, <3>4, <3>5
  <2> QED
    BY <1>1, <1>2, <1>6, <2>2, <2>4, <2>5, OfCommand, CommandStep
<1>7. CASE own' = [own EXCEPT ![p] = m] /\ at' = [at EXCEPT ![p] = "truncate"]
  <2>1. [Store!Entries EXCEPT ![n] = source] \in Sources
    <3> HIDE DEF source, n
    <3> QED
      BY <1>2, <1>3, <1>4 DEF Sources
  <2>2. /\ m \in Jobs /\ m.revision = own[p].revision /\ m.repo = own[p].repo /\ m.job = own[p].job
        /\ m.todo = own[p].todo /\ m.source = own[p].source /\ m.done = own[p].done /\ m.scope = own[p].scope
        /\ m.filter = own[p].filter /\ m.names = own[p].names /\ m.name = n
        /\ m.entries = [Store!Entries EXCEPT ![n] = source]
    BY <1>2, <2>1 DEF Jobs
  <2>3. m.entries[n] = source /\ \A k \in SkillNames \ {n} : m.entries[k] = Store!Entries[k]
    <3> HIDE DEF m, n, source
    <3> QED
      BY <1>2, <1>4, <2>2 DEF Sources
  <2> HIDE DEF m, n
  <2>4. at'[p] = "truncate" /\ own'[p] = m /\ "truncate" \in Stages
    BY <1>7, <2>2, OfCommand DEF Stages, Locking
  <2>5. Placing(p)'
    <3>1. Adds(p) =>
            own[p].job \in {"add", "update"} /\ own[p].repo \in Store!Repos /\ own[p].revision \in Store!Revisions
      BY <1>1, OfCommand DEF Placing, Locking
    <3>2. n \in SkillNames
      BY <1>2
    <3>3. Adds(p)' <=> Adds(p)
      BY <2>2, <2>4 DEF Adds
    <3>4. "truncate" \notin WithRepo \cup Cloned \cup {"checkout", "remove", "copy", "next"}
      BY DEF WithRepo, Cloned
    <3> QED
      BY <1>5, <2>2, <2>4, <3>1, <3>2, <3>3, <3>4 DEF Placing, Store!Repos, Store!Revisions
  <2>6. ASSUME p \in alone' PROVE Reported(p)' /\ Once(p)' /\ Copied(p)'
    <3>1. Reported(p) /\ Once(p) /\ Copied(p)
      BY <1>1, <2>6, OfCommand
    <3>2. \A d \in own[p].done : d[2] \in SkillNames \ {n}
      <4>1. \A d \in own[p].done : d[2] \in SkillNames
        BY OfCommand
      <4> QED
        BY <1>1, <3>1, <4>1 DEF Once, Locking, n
    <3>3. Reported(p)'
      <4>1. \A d \in own[p].done :
              /\ installed[d[1]][d[2]].files = FilesOf(d[3], d[4]) /\ d[1] = own[p].scope
              /\ ~lock.torn /\ lock.entries[d[2]] = d[3]
        BY <1>1, <3>1 DEF Reported
      <4>2. \A d \in own[p].done : m.entries[d[2]] = d[3]
        BY <1>4, <2>3, <3>2, <4>1
      <4> QED
        BY <1>1, <2>2, <2>4, <4>1, <4>2 DEF Reported
    <3>4. Once(p)'
      BY <1>1, <2>2, <2>4, <3>1 DEF Once, WithRepo, Locking, n
    <3>5. FilesOf(own[p].repo, own[p].revision)' = FilesOf(own[p].repo, own[p].revision)
      BY <2>2, <2>4 DEF FilesOf
    <3>6. own[p].job # "remove" =>
            /\ clone[own[p].repo].revision = own[p].revision
            /\ clone[own[p].repo].files = FilesAt[own[p].revision]
            /\ installed[own[p].scope][n].files = FilesOf(own[p].repo, own[p].revision)
            /\ m.entries[n] = own[p].repo
      BY <1>1, <2>3, <3>1 DEF Copied, Locking, Adds, n
    <3>7. Copied(p)'
      BY <1>1, <2>2, <2>4, <3>5, <3>6 DEF Copied, Cloned, Locking, Adds
    <3> QED
      BY <3>3, <3>4, <3>7
  <2> HIDE DEF source
  <2>7. own' = [own EXCEPT ![p] = m]
    BY <1>7 DEF m
  <2> QED
    BY <1>1, <1>7, <2>2, <2>4, <2>5, <2>6, <2>7, OfCommand, CommandStep
<1> QED
  BY <1>1, <1>6, <1>7

\* The lock file is truncated.
LEMMA TruncateLockStep ==
  ASSUME StoreInv, NEW p \in Procs, Store!TruncateLock(p)
  PROVE  StoreInv'
<1>1. /\ at[p] = "truncate" /\ at' = [at EXCEPT ![p] = "write"] /\ own' = [own EXCEPT ![p] = own[p]]
      /\ lock' = [lock EXCEPT !.torn = TRUE]
      /\ revision' = revision /\ installed' = installed /\ clone' = clone /\ alone' = alone
  BY OfCommand DEF Store!TruncateLock, Store!At, Store!Goto
<1>2. at'[p] = "write" /\ own'[p] = own[p] /\ own[p] \in Jobs /\ "write" \in Stages
  BY <1>1, OfCommand DEF Stages, Locking
<1>3. lock' \in [torn : BOOLEAN, entries : Sources]
  BY <1>1, OfCommand
<1>4. Placing(p)'
  <2>1. own[p].job = "update" => \A k \in own[p].todo : own[p].source[k] \in Store!Repos
    BY OfCommand DEF Placing
  <2>2. /\ own[p].name \in SkillNames
        /\ Adds(p) => own[p].job \in {"add", "update"} /\ own[p].repo \in Store!Repos
                      /\ own[p].revision \in Store!Revisions
    BY <1>1, OfCommand DEF Placing, Locking
  <2>3. Adds(p)' <=> Adds(p)
    BY <1>2 DEF Adds
  <2>4. "write" \notin WithRepo \cup Cloned \cup {"checkout", "remove", "copy", "next"}
    BY DEF WithRepo, Cloned
  <2> QED
    BY <1>2, <2>1, <2>2, <2>3, <2>4 DEF Placing, Store!Repos, Store!Revisions
<1>5. ASSUME p \in alone' PROVE Reported(p)' /\ Once(p)' /\ Copied(p)'
  <2>1. Reported(p) /\ Once(p) /\ Copied(p)
    BY <1>1, <1>5, OfCommand
  <2>2. Reported(p)'
    BY <1>1, <1>2, <2>1 DEF Reported
  <2>3. Once(p)'
    BY <1>1, <1>2, <2>1 DEF Once, WithRepo, Locking
  <2>4. FilesOf(own[p].repo, own[p].revision)' = FilesOf(own[p].repo, own[p].revision)
    BY <1>2 DEF FilesOf
  <2>5. Copied(p)'
    BY <1>1, <1>2, <2>1, <2>4 DEF Copied, Cloned, Locking, Adds
  <2> QED
    BY <2>2, <2>3, <2>5
<1> QED
  BY <1>1, <1>2, <1>3, <1>4, <1>5, OfCommand, CommandStep

\* It is written, and what was installed is reported.
LEMMA WriteLockStep ==
  ASSUME StoreInv, NEW p \in Procs, Store!WriteLock(p)
  PROVE  StoreInv'
<1> DEFINE new == <<own[p].scope, own[p].name, own[p].repo, own[p].revision>>
           done == IF own[p].job = "remove" THEN own[p].done ELSE own[p].done \cup {new}
           m == [own[p] EXCEPT !.entries = Store!NoEntries, !.name = Store!None, !.done = done]
           l == IF own[p].job = "remove" THEN "done" ELSE "next skill"
<1>1. /\ at[p] = "write" /\ at' = [at EXCEPT ![p] = l] /\ own' = [own EXCEPT ![p] = m]
      /\ lock' = [torn |-> FALSE, entries |-> own[p].entries]
      /\ revision' = revision /\ installed' = installed /\ clone' = clone /\ alone' = alone
  BY DEF Store!WriteLock, Store!At, Store!Goto, Store!Set
<1>2. own[p].name \in SkillNames /\ own[p].scope \in Store!Scopes /\ own[p] \in Jobs /\ own[p].entries \in Sources
  BY <1>1, OfCommand DEF Placing, Locking
<1>3. own[p].job # "remove" =>
         own[p].job \in {"add", "update"} /\ own[p].repo \in Store!Repos /\ own[p].revision \in Store!Revisions
  BY <1>1, OfCommand DEF Placing, Locking, Adds
<1>4. done \subseteq Store!Scopes \X SkillNames \X Store!Repos \X Store!Revisions
  BY <1>2, <1>3, OfCommand
<1>5. /\ m \in Jobs /\ m.revision = own[p].revision /\ m.repo = own[p].repo /\ m.job = own[p].job
      /\ m.todo = own[p].todo /\ m.source = own[p].source /\ m.done = done /\ m.scope = own[p].scope
      /\ m.filter = own[p].filter /\ m.names = own[p].names
  <2> HIDE DEF done
  <2> QED
    BY <1>2, <1>4, FreshJob DEF Jobs
<1> HIDE DEF m
<1>6. at'[p] = l /\ own'[p] = m /\ l \in Stages
  <2>1. l \in Stages
    BY DEF Stages, WithRepo
  <2> QED
    BY <1>1, <1>5, <2>1, OfCommand
<1>7. lock' \in [torn : BOOLEAN, entries : Sources] /\ ~lock'.torn /\ lock'.entries = own[p].entries
  BY <1>1, <1>2
<1>8. /\ own[p].job = "remove" => l = "done"
      /\ own[p].job # "remove" => l = "next skill"
  OBVIOUS
<1>9. /\ "done" \notin WithRepo \cup Cloned \cup Locking \cup {"clear", "git", "checkout", "discover", "remove", "next skill", "copy", "next"}
      /\ "next skill" \notin Locking \cup {"clear", "git", "checkout", "discover", "remove", "copy", "next"}
      /\ "next skill" \in WithRepo
  BY DEF WithRepo, Cloned, Locking
<1>10. Placing(p)'
  <2>1. own[p].job = "update" => \A k \in own[p].todo : own[p].source[k] \in Store!Repos
    BY OfCommand DEF Placing
  <2>2. CASE own[p].job = "remove"
    BY <1>5, <1>6, <1>8, <1>9, <2>1, <2>2 DEF Placing, Store!Repos
  <2>3. CASE own[p].job # "remove"
    BY <1>3, <1>5, <1>6, <1>8, <1>9, <2>1, <2>3 DEF Placing, Store!Repos, Store!Revisions
  <2> QED
    BY <2>2, <2>3
<1>11. ASSUME p \in alone' PROVE Reported(p)' /\ Once(p)' /\ Copied(p)'
  <2>1. Reported(p) /\ Once(p) /\ Copied(p)
    BY <1>1, <1>11, OfCommand
  <2>2. \A d \in own[p].done :
          /\ installed[d[1]][d[2]].files = FilesOf(d[3], d[4]) /\ d[1] = own[p].scope
          /\ own[p].entries[d[2]] = d[3]
    BY <1>1, <2>1 DEF Reported
  <2>3. CASE own[p].job = "remove"
    <3>1. m.done = {} /\ m.names = {} /\ l = "done"
      BY <1>5, <2>1, <2>3 DEF Once
    <3>2. Reported(p)'
      BY <1>6, <3>1 DEF Reported
    <3> HIDE DEF l
    <3>3. Once(p)'
      BY <1>5, <1>6, <1>9, <2>3, <3>1 DEF Once
    <3>4. Copied(p)'
      BY <1>6, <1>9, <3>1 DEF Copied
    <3> QED
      BY <3>2, <3>3, <3>4
  <2>4. CASE own[p].job # "remove"
    <3>1. l = "next skill" /\ done = own[p].done \cup {new}
      BY <2>4
    <3>2. /\ clone[own[p].repo].revision = own[p].revision
          /\ clone[own[p].repo].files = FilesAt[own[p].revision]
          /\ installed[own[p].scope][own[p].name].files = FilesOf(own[p].repo, own[p].revision)
          /\ own[p].entries[own[p].name] = own[p].repo
      BY <1>1, <2>1, <2>4 DEF Copied, Locking, Adds
    <3>3. \A d \in done :
            /\ installed[d[1]][d[2]].files = FilesOf(d[3], d[4]) /\ d[1] = own[p].scope
            /\ own[p].entries[d[2]] = d[3]
      BY <2>2, <3>1, <3>2
    <3>4. /\ \A d \in own[p].done : d[2] \notin own[p].names /\ (own[p].job = "update" => d[2] \notin own[p].todo)
          /\ own[p].name \notin own[p].names
          /\ own[p].job = "update" => /\ own[p].filter # Store!None /\ own[p].name \notin own[p].todo
                                      /\ own[p].names \cap own[p].todo = {}
          /\ own[p].job = "add" => own[p].filter = Store!None
      BY <1>1, <2>1 DEF Once, Locking
    <3>5. \A d \in done : d[2] \notin own[p].names /\ (own[p].job = "update" => d[2] \notin own[p].todo)
      BY <3>1, <3>4
    <3> HIDE DEF l, done, new
    <3>6. Reported(p)'
      BY <1>1, <1>5, <1>6, <1>7, <3>1, <3>3 DEF Reported
    <3>7. Once(p)'
      BY <1>5, <1>6, <1>9, <2>4, <3>1, <3>4, <3>5 DEF Once
    <3>8. Copied(p)'
      BY <1>1, <1>5, <1>6, <1>9, <3>1, <3>2 DEF Copied
    <3> QED
      BY <3>6, <3>7, <3>8
  <2> QED
    BY <2>3, <2>4
<1> HIDE DEF l
<1> QED
  BY <1>1, <1>5, <1>6, <1>7, <1>10, <1>11, OfCommand, CommandStep

LEMMA LockFailsStep ==
  ASSUME StoreInv, NEW p \in Procs, Store!LockFails(p)
  PROVE  StoreInv'
<1>1. at[p] \in {"truncate", "write"} /\ Store!Fails(p) /\ alone' = {}
      /\ revision' = revision /\ installed' = installed /\ clone' = clone /\ lock' = lock
  BY DEF Store!LockFails
<1> QED
  BY <1>1, OfCommand, FailsStep

LEMMA RemoveDirStep ==
  ASSUME StoreInv, NEW p \in Procs, Store!RemoveDir(p)
  PROVE  StoreInv'
<1>1. /\ at[p] = "remove" /\ at' = [at EXCEPT ![p] = "read"] /\ own' = [own EXCEPT ![p] = own[p]]
      /\ installed' = [installed EXCEPT ![own[p].scope][own[p].name] = Store!NoDir]
      /\ revision' = revision /\ lock' = lock /\ clone' = clone /\ alone' = alone
  BY OfCommand DEF Store!RemoveDir, Store!At, Store!Goto
<1>2. at'[p] = "read" /\ own'[p] = own[p] /\ own[p] \in Jobs /\ "read" \in Stages
  BY <1>1, OfCommand DEF Stages, Locking
<1>3. own[p].name \in SkillNames /\ own[p].job = "remove" /\ own[p].scope \in Store!Scopes
  BY <1>1, OfCommand DEF Placing
<1>4. Store!NoDir \in SkillDirs
  BY DEF Store!NoDir, SkillDirs
<1>5. installed' \in [Store!Scopes -> [SkillNames -> SkillDirs]]
  BY <1>1, <1>3, <1>4, OfCommand
<1>6. Placing(p)'
  BY <1>2, <1>3 DEF Placing, WithRepo, Cloned, Adds
<1>7. ASSUME p \in alone' PROVE Reported(p)' /\ Once(p)' /\ Copied(p)'
  <2>1. Once(p)
    BY <1>1, <1>7, OfCommand
  <2>2. own[p].done = {} /\ own[p].names = {}
    BY <1>3, <2>1 DEF Once
  <2>3. Reported(p)'
    BY <1>2, <2>2 DEF Reported
  <2>4. Once(p)'
    BY <1>2, <1>3, <2>2 DEF Once
  <2>5. Copied(p)'
    BY <1>2, <1>3 DEF Copied, Cloned, Locking, Adds
  <2> QED
    BY <2>3, <2>4, <2>5
<1> QED
  BY <1>1, <1>2, <1>5, <1>6, <1>7, OfCommand, CommandStep

\* A command starts: it is alone if no other is there, and ends the solitude of one that is.
LEMMA BeginStep ==
  ASSUME StoreInv, NEW p \in Procs, NEW m \in Jobs, NEW l \in {"clear", "next", "remove"}, Store!Begin(p, m, l),
         l = "clear" => m.job = "add" /\ m.repo \in Store!Repos,
         l = "next" => m.job = "update" /\ \A n \in m.todo : m.source[n] \in Store!Repos,
         l = "remove" => m.job = "remove" /\ m.name \in SkillNames,
         m.done = {}, m.names = {}, m.filter = Store!None
  PROVE  StoreInv'
<1>1. /\ at[p] = "idle" /\ at' = [at EXCEPT ![p] = l] /\ own' = [own EXCEPT ![p] = m]
      /\ alone' = IF \A q \in Procs : at[q] = "idle" THEN {p} ELSE {}
      /\ revision' = revision /\ installed' = installed /\ clone' = clone /\ lock' = lock
  BY DEF Store!Begin, Store!At, Store!Goto, Store!Set
<1>2. /\ at' \in [Procs -> Stages] /\ own' \in [Procs -> Jobs] /\ at'[p] = l /\ own'[p] = m
      /\ \A q \in Procs \ {p} : at'[q] = at[q] /\ own'[q] = own[q]
  <2>1. l \in Stages
    BY DEF Stages, WithRepo
  <2> QED
    BY <1>1, <2>1, OfCommand
<1>3. l \notin Cloned \cup Locking \cup {"checkout", "copy", "next skill"} /\ (l \in WithRepo => l = "clear")
  BY DEF WithRepo, Cloned, Locking
<1>4. ASSUME NEW q \in Procs PROVE Placing(q)'
  <2>1. CASE q = p
    <3>1. m.job = "update" => l = "next"
      OBVIOUS
    <3> QED
      BY <1>2, <1>3, <2>1, <3>1 DEF Placing, Store!Repos
  <2>2. CASE q # p
    BY <1>2, <2>2 DEF StoreInv, StoreTypes, Placing, Adds
  <2> QED
    BY <2>1, <2>2
<1>5. StoreTypes'
  BY <1>1, <1>2, <1>4 DEF StoreInv, StoreTypes
<1>6. AloneInv'
  <2>1. alone' \subseteq {p} /\ (p \in alone' => \A q \in Procs \ {p} : at'[q] = "idle")
    BY <1>1, <1>2
  <2>2. Reported(p)'
    BY <1>2 DEF Reported
  <2>3. Once(p)'
    BY <1>2, <1>3 DEF Once, Locking, WithRepo
  <2>4. Copied(p)'
    BY <1>2, <1>3 DEF Copied
  <2> QED
    BY <2>1, <2>2, <2>3, <2>4 DEF AloneInv
<1> QED
  BY <1>5, <1>6 DEF StoreInv

LEMMA CommandsBegin ==
  ASSUME StoreInv, NEW p \in Procs,
         \/ \E r \in Store!Repos, scope \in Store!Scopes : Store!Add(p, r, scope)
         \/ \E n \in SkillNames, scope \in Store!Scopes : Store!Remove(p, n, scope)
         \/ Store!Update(p)
  PROVE  StoreInv'
<1>1. ASSUME NEW r \in Store!Repos, NEW scope \in Store!Scopes, Store!Add(p, r, scope) PROVE StoreInv'
  <2> DEFINE m == [Store!Fresh EXCEPT !.job = "add", !.repo = r, !.scope = scope]
  <2>1. m \in Jobs /\ m.job = "add" /\ m.repo = r /\ m.done = {} /\ m.names = {} /\ m.filter = Store!None
    BY FreshJob DEF Jobs
  <2>2. Store!Begin(p, m, "clear")
    BY <1>1 DEF Store!Add
  <2> HIDE DEF m
  <2> QED
    BY <2>1, <2>2, BeginStep
<1>2. ASSUME NEW n \in SkillNames, NEW scope \in Store!Scopes, Store!Remove(p, n, scope) PROVE StoreInv'
  <2> DEFINE m == [Store!Fresh EXCEPT !.job = "remove", !.name = n, !.scope = scope]
  <2>1. m \in Jobs /\ m.job = "remove" /\ m.name = n /\ m.done = {} /\ m.names = {} /\ m.filter = Store!None
    BY FreshJob DEF Jobs
  <2>2. Store!Begin(p, m, "remove")
    BY <1>2 DEF Store!Remove
  <2> HIDE DEF m
  <2> QED
    BY <2>1, <2>2, BeginStep
<1>3. CASE Store!Update(p)
  <2> DEFINE todo == {n \in SkillNames : Store!Entries[n] # Store!None}
             m == [Store!Fresh EXCEPT !.job = "update", !.todo = todo, !.source = Store!Entries]
  <2>1. Store!Entries \in Sources
    BY OfCommand, FreshJob DEF Store!Entries
  <2>2. todo \subseteq SkillNames /\ \A n \in todo : Store!Entries[n] \in Store!Repos
    BY <2>1 DEF Sources
  <2>3. m \in Jobs /\ m.job = "update" /\ m.todo = todo /\ m.source = Store!Entries /\ m.done = {}
        /\ m.names = {} /\ m.filter = Store!None
    <3> HIDE DEF todo
    <3> QED
      BY <2>1, <2>2, FreshJob DEF Jobs
  <2>4. Store!Begin(p, m, "next")
    BY <1>3 DEF Store!Update
  <2> HIDE DEF m, todo
  <2> QED
    BY <2>2, <2>3, <2>4, BeginStep
<1> QED
  BY <1>1, <1>2, <1>3

LEMMA UpdateNextStep ==
  ASSUME StoreInv, NEW p \in Procs, Store!UpdateNext(p)
  PROVE  StoreInv'
<1> DEFINE M(n) == [own[p] EXCEPT !.todo = @ \ {n}, !.filter = n, !.repo = own[p].source[n]]
<1>1. /\ at[p] = "next" /\ revision' = revision /\ installed' = installed /\ clone' = clone /\ lock' = lock
      /\ alone' = alone
      /\ \/ at' = [at EXCEPT ![p] = "done"] /\ own' = [own EXCEPT ![p] = own[p]]
         \/ \E n \in own[p].todo : own' = [own EXCEPT ![p] = M(n)] /\ at' = [at EXCEPT ![p] = "clear"]
  BY OfCommand DEF Store!UpdateNext, Store!At, Store!Goto, Store!Set
<1>2. own[p] \in Jobs /\ own[p].job = "update" /\ \A n \in own[p].todo : own[p].source[n] \in Store!Repos
  BY <1>1, OfCommand DEF Placing
<1>3. CASE at' = [at EXCEPT ![p] = "done"] /\ own' = [own EXCEPT ![p] = own[p]]
  <2>1. at'[p] = "done" /\ own'[p] = own[p] /\ "done" \in Stages
    BY <1>3, OfCommand DEF Stages
  <2>2. "done" \notin WithRepo \cup Cloned \cup Locking \cup {"clear", "git", "checkout", "discover", "remove", "next skill", "copy", "next"}
    BY DEF WithRepo, Cloned, Locking
  <2>3. Placing(p)'
    BY <1>2, <2>1, <2>2 DEF Placing, Store!Repos
  <2>4. ASSUME p \in alone' PROVE Reported(p)' /\ Once(p)' /\ Copied(p)'
    <3>1. Reported(p) /\ Once(p)
      BY <1>1, <2>4, OfCommand
    <3>2. Reported(p)'
      BY <1>1, <2>1, <3>1 DEF Reported
    <3>3. \A d \in own[p].done : d[2] \notin own[p].todo
      BY <1>2, <3>1 DEF Once
    <3>4. Once(p)'
      BY <1>2, <2>1, <2>2, <3>3 DEF Once
    <3>5. Copied(p)'
      BY <2>1, <2>2 DEF Copied
    <3> QED
      BY <3>2, <3>4, <3>5
  <2> QED
    BY <1>1, <1>2, <1>3, <2>1, <2>3, <2>4, OfCommand, CommandStep
<1>4. ASSUME NEW n \in own[p].todo, own' = [own EXCEPT ![p] = M(n)], at' = [at EXCEPT ![p] = "clear"]
      PROVE  StoreInv'
  <2> DEFINE m == M(n)
  <2>1. n \in SkillNames /\ own[p].source[n] \in Store!Repos /\ n # Store!None
    <3>1. n \in SkillNames
      BY <1>2 DEF Jobs
    <3> QED
      BY <1>2, <3>1, SkillStoreAssumption DEF Store!SkillStoreAssumption
  <2>2. /\ m \in Jobs /\ m.repo = own[p].source[n] /\ m.job = own[p].job
        /\ m.todo = own[p].todo \ {n} /\ m.source = own[p].source /\ m.done = own[p].done
        /\ m.scope = own[p].scope /\ m.filter = n
    BY <1>2, <2>1 DEF Jobs
  <2>3. own' = [own EXCEPT ![p] = m]
    BY <1>4
  <2> HIDE DEF m, M
  <2>4. at'[p] = "clear" /\ own'[p] = m /\ "clear" \in Stages
    BY <1>4, <2>3, <2>2, OfCommand DEF Stages, WithRepo
  <2>5. "clear" \notin Cloned \cup Locking \cup {"checkout", "remove", "next skill", "copy", "next"}
    BY DEF Cloned, Locking
  <2>6. Placing(p)'
    BY <1>2, <2>1, <2>2, <2>4, <2>5 DEF Placing, Store!Repos
  <2>7. ASSUME p \in alone' PROVE Reported(p)' /\ Once(p)' /\ Copied(p)'
    <3>1. Reported(p) /\ Once(p)
      BY <1>1, <2>7, OfCommand
    <3>2. Reported(p)'
      BY <1>1, <2>2, <2>4, <3>1 DEF Reported
    <3>3. \A d \in own[p].done : d[2] \notin own[p].todo
      BY <1>2, <3>1 DEF Once
    <3>4. Once(p)'
      BY <1>2, <2>1, <2>2, <2>4, <2>5, <3>3 DEF Once
    <3>5. Copied(p)'
      BY <2>4, <2>5 DEF Copied
    <3> QED
      BY <3>2, <3>4, <3>5
  <2> QED
    <3>1. /\ at[p] # "idle" /\ revision' = revision /\ clone' = clone /\ installed' = installed
          /\ lock' = lock /\ alone' = alone
      BY <1>1
    <3> QED
      BY <1>4, <2>2, <2>3, <2>4, <2>6, <2>7, <3>1, OfCommand, CommandStep
<1> QED
  BY <1>1, <1>3, <1>4

\* What a command that runs alone has done is not touched by what moves nothing of the store.
LEMMA StillAlone ==
  ASSUME StoreInv, UNCHANGED <<installed, clone, lock, at, own, alone>>
  PROVE  AloneInv'
<1> SUFFICES ASSUME NEW p \in alone
             PROVE (\A q \in Procs \ {p} : at'[q] = "idle") /\ Reported(p)' /\ Once(p)' /\ Copied(p)'
  BY DEF AloneInv
<1>1. (\A q \in Procs \ {p} : at[q] = "idle") /\ Reported(p) /\ Once(p) /\ Copied(p)
  BY DEF StoreInv, AloneInv
<1>2. Reported(p)'
  BY <1>1 DEF Reported, FilesOf
<1>3. Once(p)'
  BY <1>1 DEF Once
<1>4. Copied(p)'
  BY <1>1 DEF Copied, Adds, FilesOf
<1> QED
  BY <1>1, <1>2, <1>3, <1>4

LEMMA PublishStep ==
  ASSUME StoreInv, NEW r \in Store!Repos, Store!Publish(r)
  PROVE  StoreInv'
<1>1. /\ revision' = [revision EXCEPT ![r] = revision[r] + 1] /\ revision[r] + 1 \in Store!Revisions
      /\ UNCHANGED <<installed, clone, lock, at, own, alone>>
  BY DEF Store!Publish
<1>2. StoreTypes'
  BY <1>1 DEF StoreInv, StoreTypes, Placing, Adds
<1>3. AloneInv'
  BY <1>1, StillAlone
<1> QED
  BY <1>2, <1>3 DEF StoreInv

\* A command that runs alone and can write the lock file leaves every skill it reports
\* complete, of the one revision it cloned, and in the lock file (add.rs:72, 134; lock.rs:46),
\* whatever the commands before it were interrupted in.
THEOREM InstallsWhole == HomeSpec => []InstalledWhole
<1>1. HomeInit => StoreInv
  <2> SUFFICES ASSUME HomeInit PROVE StoreInv
    OBVIOUS
  <2>1. /\ revision = [r \in Store!Repos |-> 1] /\ clone = [r \in Store!Repos |-> Store!NoClone]
        /\ installed = [s \in Store!Scopes |-> [n \in SkillNames |-> Store!NoDir]]
        /\ lock = [torn |-> FALSE, entries |-> Store!NoEntries]
        /\ at = [p \in Procs |-> "idle"] /\ own = [p \in Procs |-> Store!Fresh] /\ alone = {}
    BY DEF HomeInit, HostInit, Store!Init
  <2>2. Store!NoClone \in Clones /\ Store!NoDir \in SkillDirs /\ "idle" \in Stages /\ 1 \in Store!Revisions
    BY SkillStoreAssumption DEF Store!SkillStoreAssumption, Store!NoClone, Store!NoDir, Clones, SkillDirs, Stages
  <2>3. "idle" \notin WithRepo \cup Cloned \cup Locking \cup {"checkout", "remove", "copy", "next"}
    BY DEF WithRepo, Cloned, Locking
  <2>4. \A p \in Procs : Placing(p)
    BY <2>1, <2>3, FreshJob DEF Placing
  <2>5. StoreTypes
    BY <2>1, <2>2, <2>4, FreshJob DEF StoreTypes
  <2> QED
    BY <2>1, <2>5 DEF StoreInv, AloneInv
<1>2. StoreInv /\ [HomeNext]_host => StoreInv'
  <2> SUFFICES ASSUME StoreInv, [HomeNext]_host PROVE StoreInv'
    OBVIOUS
  <2>1. CASE UNCHANGED store
    <3>1. UNCHANGED <<revision, clone, installed, lock, at, own, alone>>
      BY <2>1 DEF store
    <3>2. StoreTypes'
      BY <3>1 DEF StoreInv, StoreTypes, Placing, Adds
    <3>3. AloneInv'
      BY <3>1, StillAlone
    <3> QED
      BY <3>2, <3>3 DEF StoreInv
  <2>2. CASE Store!Next
    <3>1. CASE \E r \in Store!Repos : Store!Publish(r)
      BY <3>1, PublishStep
    <3>2. ASSUME NEW p \in Procs, Store!Return(p) \/ Store!Kill(p) PROVE StoreInv'
      <4>1. at[p] # "idle" /\ Store!Stop(p) /\ UNCHANGED <<revision, clone, installed, lock, alone>>
        BY <3>2 DEF Store!Return, Store!Kill, Store!At
      <4> QED
        BY <4>1, OfCommand, StopStep
    <3> QED
      BY <2>2, <3>1, <3>2, CommandsBegin, UpdateNextStep, RemoveDirStep, CloneStep, GitFailsStep, DiscoverStep,
         InstallStep, CopyStep, FinishAddStep, ReadLockStep, TruncateLockStep, WriteLockStep, LockFailsStep
      DEF Store!Next
  <2> QED
    BY <2>1, <2>2 DEF HomeNext, host
<1>3. StoreInv => InstalledWhole
  <2> SUFFICES ASSUME StoreInv, NEW p \in alone, at[p] = "done", NEW d \in own[p].done
               PROVE  /\ installed[d[1]][d[2]].files = {<<f, d[3], d[4]>> : f \in FilesAt[d[4]]}
                      /\ ~lock.torn /\ lock.entries[d[2]] = d[3]
    BY DEF InstalledWhole, Store!InstalledWhole, Store!At
  <2>1. Reported(p)
    BY DEF StoreInv, AloneInv
  <2> QED
    BY <2>1 DEF Reported, FilesOf
<1> QED
  BY <1>1, <1>2, <1>3, PTL DEF HomeSpec

-----------------------------------------------------------------------------
(* ConversationLog: the reader and the writers.                            *)

UptoOf(pieces, i, u) == IF Logs!Entry(pieces, i) THEN Append(u, pieces[i]) ELSE u

\* What read_log_contents() gathers line by line.
LEMMA ReadsUpTo ==
  ASSUME NEW pieces \in Seq(Nat)
  PROVE  \E u \in [Nat -> Seq(Nat)] :
           /\ u[0] = <<>>
           /\ \A n \in Nat : u[n + 1] = UptoOf(pieces, n + 1, u[n])
           /\ Logs!Readable(pieces) = u[Len(pieces)]
<1> DEFINE step == [x \in Nat \X Seq(Nat) |-> UptoOf(pieces, x[1] + 1, x[2])]
           Fn(u) == [i \in Nat |-> IF i = 0 THEN <<>>
                                  ELSE IF Logs!Entry(pieces, i) THEN Append(u[i - 1], pieces[i]) ELSE u[i - 1]]
           u == CHOOSE u : u = Fn(u)
<1>1. step \in [Nat \X Seq(Nat) -> Seq(Nat)]
  <2>1. ASSUME NEW i, NEW v \in Seq(Nat) PROVE UptoOf(pieces, i, v) \in Seq(Nat)
    BY DEF UptoOf, Logs!Entry
  <2> QED
    BY <2>1
<1>2. PICK f : Follows(Seq(Nat), <<>>, step, f)
  <2>1. Steps(Seq(Nat), <<>>, step)
    BY <1>1 DEF Steps
  <2> HIDE DEF step, Fn, u
  <2> QED
    BY <2>1, Recursion
<1>3. \A n \in Nat : f[n + 1] = UptoOf(pieces, n + 1, f[n])
  BY <1>2 DEF Follows
<1>4. f = Fn(f)
  <2>1. ASSUME NEW i \in Nat PROVE f[i] = Fn(f)[i]
    <3>1. CASE i = 0
      BY <1>2, <3>1 DEF Follows
    <3>2. CASE i # 0
      <4>1. i - 1 \in Nat /\ i = (i - 1) + 1
        BY <3>2
      <4>2. f[i] = UptoOf(pieces, i, f[i - 1])
        BY <1>3, <4>1
      <4> QED
        BY <3>2, <4>2 DEF UptoOf
    <3> QED
      BY <3>1, <3>2
  <2> QED
    BY <1>2, <2>1 DEF Follows
<1>5. u = Fn(u)
  BY <1>4
<1>6. Logs!Readable(pieces) = u[Len(pieces)]
  BY DEF Logs!Readable
<1> HIDE DEF u
<1>7. u[0] = <<>>
  BY <1>5
<1>8. ASSUME NEW n \in Nat PROVE u[n + 1] = UptoOf(pieces, n + 1, u[n])
  <2>1. n + 1 \in Nat /\ n + 1 # 0 /\ (n + 1) - 1 = n
    OBVIOUS
  <2>2. u[n + 1] = Fn(u)[n + 1]
    BY <1>5
  <2>3. Fn(u)[n + 1] = UptoOf(pieces, n + 1, u[n])
    BY <2>1 DEF UptoOf
  <2> QED
    BY <2>2, <2>3
<1>9. u \in [Nat -> Seq(Nat)]
  <2> DEFINE S == {n \in Nat : u[n] = f[n]}
  <2>1. 0 \in S
    BY <1>2, <1>7 DEF Follows
  <2>2. ASSUME NEW n \in S PROVE n + 1 \in S
    <3>1. n \in Nat /\ n + 1 \in Nat /\ u[n] = f[n]
      BY <2>2
    <3>2. u[n + 1] = f[n + 1]
      BY <1>3, <1>8, <3>1
    <3> QED
      BY <3>1, <3>2
  <2> HIDE DEF S
  <2>3. S = Nat
    <3>1. S \in SUBSET Nat
      BY DEF S
    <3> QED
      BY <2>1, <2>2, <3>1, Induction
  <2>4. \A n \in Nat : u[n] \in Seq(Nat)
    BY <1>2, <2>3 DEF S, Follows
  <2>5. u = [n \in Nat |-> u[n]]
    BY <1>5
  <2> QED
    BY <2>4, <2>5
<1> QED
  BY <1>6, <1>7, <1>8, <1>9

\* A log of whole lines, and one with an entry begun below them.
Lines(pieces, es) ==
  \A k \in 1 .. Len(es) : pieces[2 * k - 1] = es[k] /\ pieces[2 * k] = Logs!Newline
WholeLog(pieces, es) == Len(pieces) = 2 * Len(es) /\ Lines(pieces, es)
BegunLog(pieces, es, e) == Len(pieces) = 2 * Len(es) + 1 /\ Lines(pieces, es) /\ pieces[2 * Len(es) + 1] = e

LEMMA SubSeqGrows ==
  ASSUME NEW V, NEW es \in Seq(V), NEW k \in Nat, k + 1 <= Len(es)
  PROVE  Append(SubSeq(es, 1, k), es[k + 1]) = SubSeq(es, 1, k + 1)
<1> DEFINE a == SubSeq(es, 1, k)
           b == SubSeq(es, 1, k + 1)
           x == es[k + 1]
<1>1. Len(es) \in Nat /\ x \in V
  OBVIOUS
<1>2. \A i \in 1 .. k + 1 : es[i] \in V
  BY <1>1
<1>3. a \in Seq(V) /\ Len(a) = k /\ \A i \in 1 .. k : a[i] = es[i]
  BY <1>1, SubSeqProperties
<1>4. b \in Seq(V) /\ Len(b) = k + 1 /\ \A i \in 1 .. k + 1 : b[i] = es[i]
  BY <1>1, SubSeqProperties
<1> HIDE DEF a, b, x
<1>5. Append(a, x) \in Seq(V) /\ Len(Append(a, x)) = k + 1
  BY <1>1, <1>3
<1>6. \A i \in 1 .. k + 1 : Append(a, x)[i] = b[i]
  BY <1>1, <1>3, <1>4 DEF x
<1>7. Append(a, x) = b
  BY <1>4, <1>5, <1>6
<1> QED
  BY <1>7 DEF a, b, x

LEMMA ReadsLine ==
  ASSUME NEW pieces \in Seq(Nat), NEW es \in Seq(Nat \ {0}), Lines(pieces, es),
         Len(pieces) >= 2 * Len(es),
         NEW u \in [Nat -> Seq(Nat)], \A n \in Nat : u[n + 1] = UptoOf(pieces, n + 1, u[n]),
         NEW k \in Nat, k + 1 <= Len(es), u[2 * k] = SubSeq(es, 1, k)
  PROVE  u[2 * (k + 1)] = SubSeq(es, 1, k + 1)
<1>1. Len(es) \in Nat /\ Len(pieces) \in Nat /\ DOMAIN pieces = 1 .. Len(pieces)
  BY LenProperties
<1>2. /\ pieces[2 * k + 1] = es[k + 1] /\ pieces[2 * k + 2] = 0 /\ es[k + 1] # 0
      /\ k >= 1 => pieces[2 * k] = 0
  <2>1. k + 1 \in 1 .. Len(es) /\ 2 * (k + 1) - 1 = 2 * k + 1 /\ 2 * (k + 1) = 2 * k + 2
    BY <1>1
  <2>2. pieces[2 * k + 1] = es[k + 1] /\ pieces[2 * k + 2] = 0
    BY <2>1 DEF Lines, Logs!Newline
  <2>3. k >= 1 => pieces[2 * k] = 0
    BY <1>1 DEF Lines, Logs!Newline
  <2>4. es[k + 1] \in Nat \ {0}
    BY <2>1, ElementOfSeq
  <2> QED
    BY <2>2, <2>3, <2>4
<1>3. Logs!Entry(pieces, 2 * k + 1)
  <2>1. 2 * k + 1 \in DOMAIN pieces
    BY <1>1
  <2>2. 2 * k + 1 > 1 => pieces[2 * k + 1 - 1] = 0
    BY <1>1, <1>2
  <2>3. pieces[2 * k + 1 + 1] = 0
    BY <1>1, <1>2
  <2> QED
    BY <1>2, <2>1, <2>2, <2>3 DEF Logs!Entry, Logs!Newline
<1>4. u[2 * k + 1] = Append(SubSeq(es, 1, k), es[k + 1])
  <2>1. 2 * k \in Nat
    BY <1>1
  <2>2. u[2 * k + 1] = UptoOf(pieces, 2 * k + 1, u[2 * k])
    BY <2>1
  <2> QED
    BY <1>1, <1>2, <1>3, <2>2 DEF UptoOf
<1>5. ~Logs!Entry(pieces, 2 * k + 2)
  BY <1>2 DEF Logs!Entry, Logs!Newline
<1>6. u[2 * k + 2] = u[2 * k + 1]
  <2>1. 2 * k + 1 \in Nat /\ 2 * k + 1 + 1 = 2 * k + 2
    BY <1>1
  <2>2. u[2 * k + 1 + 1] = UptoOf(pieces, 2 * k + 1 + 1, u[2 * k + 1])
    BY <2>1
  <2> QED
    BY <1>5, <2>1, <2>2 DEF UptoOf
<1>7. Append(SubSeq(es, 1, k), es[k + 1]) = SubSeq(es, 1, k + 1)
  BY <1>1, SubSeqGrows
<1>8. 2 * (k + 1) = 2 * k + 2
  BY <1>1
<1> QED
  BY <1>4, <1>6, <1>7, <1>8

LEMMA ReadsLines ==
  ASSUME NEW pieces \in Seq(Nat), NEW es \in Seq(Nat \ {0}), Lines(pieces, es),
         Len(pieces) >= 2 * Len(es),
         NEW u \in [Nat -> Seq(Nat)], u[0] = <<>>, \A n \in Nat : u[n + 1] = UptoOf(pieces, n + 1, u[n])
  PROVE  u[2 * Len(es)] = es
<1> DEFINE S == {k \in Nat : k <= Len(es) => u[2 * k] = SubSeq(es, 1, k)}
<1>1. 0 \in S
  <2>1. SubSeq(es, 1, 0) = <<>> /\ 2 * 0 = 0
    OBVIOUS
  <2> QED
    BY <2>1
<1>2. SubSeq(es, 1, Len(es)) = es /\ Len(es) \in Nat
  BY SubSeqFull
<1>3. ASSUME NEW k \in S PROVE k + 1 \in S
  <2>1. k \in Nat /\ (k <= Len(es) => u[2 * k] = SubSeq(es, 1, k))
    BY <1>3
  <2>2. k + 1 <= Len(es) => u[2 * (k + 1)] = SubSeq(es, 1, k + 1)
    <3> HIDE DEF S
    <3>1. k + 1 <= Len(es) => k <= Len(es)
      BY <1>2, <2>1
    <3> QED
      BY <2>1, <3>1, ReadsLine
  <2> QED
    BY <2>1, <2>2
<1> HIDE DEF S
<1>4. S = Nat
  <2>1. S \in SUBSET Nat
    BY DEF S
  <2> QED
    BY <1>1, <1>3, <2>1, Induction
<1>5. Len(es) \in S
  BY <1>2, <1>4
<1>6. u[2 * Len(es)] = SubSeq(es, 1, Len(es))
  BY <1>2, <1>5 DEF S
<1> QED
  BY <1>2, <1>6

\* What the reader makes of the two.
LEMMA ReadsWhole ==
  ASSUME NEW pieces \in Seq(Nat), NEW es \in Seq(Nat \ {0}), WholeLog(pieces, es)
  PROVE  Logs!Readable(pieces) = es
<1>1. PICK u \in [Nat -> Seq(Nat)] : /\ u[0] = <<>>
                                     /\ \A n \in Nat : u[n + 1] = UptoOf(pieces, n + 1, u[n])
                                     /\ Logs!Readable(pieces) = u[Len(pieces)]
  BY ReadsUpTo
<1>2. Lines(pieces, es) /\ Len(pieces) = 2 * Len(es)
  BY DEF WholeLog
<1>3. Len(pieces) >= 2 * Len(es)
  BY <1>2, LenProperties
<1>4. u[2 * Len(es)] = es
  BY <1>1, <1>2, <1>3, ReadsLines
<1> QED
  BY <1>1, <1>2, <1>4

LEMMA ReadsBegun ==
  ASSUME NEW pieces \in Seq(Nat), NEW es \in Seq(Nat \ {0}), NEW e \in Nat \ {0}, BegunLog(pieces, es, e)
  PROVE  Logs!Readable(pieces) = Append(es, e)
<1> DEFINE m == 2 * Len(es)
<1>1. PICK u \in [Nat -> Seq(Nat)] : /\ u[0] = <<>>
                                     /\ \A n \in Nat : u[n + 1] = UptoOf(pieces, n + 1, u[n])
                                     /\ Logs!Readable(pieces) = u[Len(pieces)]
  BY ReadsUpTo
<1>2. Lines(pieces, es) /\ Len(pieces) = m + 1 /\ pieces[m + 1] = e /\ m \in Nat
  BY DEF BegunLog
<1>3. u[m] = es
  <2>1. Len(pieces) >= 2 * Len(es)
    BY <1>2, LenProperties
  <2> QED
    BY <1>1, <1>2, <2>1, ReadsLines
<1>4. Logs!Entry(pieces, m + 1)
  <2>1. m > 0 => pieces[m] = 0
    <3>1. m > 0 => Len(es) \in 1 .. Len(es)
      OBVIOUS
    <3> QED
      BY <1>2, <3>1 DEF Lines, Logs!Newline
  <2>2. m + 1 \in DOMAIN pieces /\ ~(m + 1 < Len(pieces)) /\ (m + 1 > 1 => m > 0) /\ m + 1 - 1 = m
    <3>1. DOMAIN pieces = 1 .. Len(pieces)
      OBVIOUS
    <3> HIDE DEF m
    <3> QED
      BY <1>2, <3>1
  <2> HIDE DEF m
  <2> QED
    BY <1>2, <2>1, <2>2 DEF Logs!Entry, Logs!Newline
<1> HIDE DEF m
<1>5. u[m + 1] = Append(es, e)
  BY <1>1, <1>2, <1>3, <1>4 DEF UptoOf
<1> QED
  BY <1>1, <1>2, <1>5

LogFiles == [gen : Nat, pieces : Seq(Nat), time : Nat]
WriterStates == [pc : {"idle", "ready", "open", "half"}, file : Logs!Files, gen : Nat, entry : Nat]
Listed   == [file : Logs!Files, size : Nat, time : Nat]
Cleanups == [phase : {"idle", "age", "capacity"}, cutoff : Nat, list : SUBSET Listed, done : SUBSET Listed,
             remaining : Int, all : BOOLEAN]

LogTypes ==
  /\ sessions \in Seq(Tasks) /\ Len(sessions) <= MaxSessions
  /\ log \in [Logs!Files -> LogFiles]
  /\ writer \in [Logs!Writers -> WriterStates]
  /\ cleaner \in [Cleaners -> Cleanups]
  /\ entries \in Nat
  /\ finished \in [Logs!Files -> Seq(Nat \ {0})]

\* A generation is the number of the entry that made it; whoever writes has one.
GenerationsInv ==
  /\ \A f \in Logs!Files :
       log[f].gen <= entries /\ (log[f].gen = 0 => log[f] = Logs!NoFile /\ finished[f] = <<>>)
  /\ \A w \in Logs!Writers :
       writer[w].pc \in {"open", "half"} => writer[w].gen \in 1 .. entries /\ writer[w].entry # 0

\* What is in the file f.
HoldsLines(f) ==
  /\ Logs!Halfway(f) = {} => WholeLog(log[f].pieces, finished[f])
  /\ \A w \in Logs!Halfway(f) :
       Logs!Halfway(f) = {w} /\ BegunLog(log[f].pieces, finished[f], writer[w].entry)

LogInv == LogTypes /\ GenerationsInv /\ \A f \in Logs!Files \ mixed : log[f].gen # 0 => HoldsLines(f)

\* What a cleanup r has done: the oldest of its listing are gone, and it has counted
\* what is left of it.
OldestGone(r) ==
  /\ IsFiniteSet(r.list) /\ r.done \subseteq r.list
  /\ r.phase = "capacity" =>
       /\ \A d \in r.done, k \in r.list \ r.done : d.time <= k.time
       /\ r.all => r.remaining = Logs!Total(r.list \ r.done)
       /\ r.all /\ r.done # {} => \E l \in r.done :
            /\ Logs!Total(r.list \ r.done) + l.size > Capacity
            /\ \A d \in r.done : d.time <= l.time

CleanInv == \A c \in Cleaners : OldestGone(cleaner[c])

LEMMA EntryBegins ==
  ASSUME NEW pieces \in Seq(Nat), NEW es \in Seq(Nat \ {0}), NEW e \in Nat, WholeLog(pieces, es)
  PROVE  BegunLog(Append(pieces, e), es, e)
<1> DEFINE new == Append(pieces, e)
<1>1. Len(es) \in Nat /\ Len(pieces) = 2 * Len(es) /\ Lines(pieces, es)
  BY LenProperties DEF WholeLog
<1>2. Len(new) = Len(pieces) + 1 /\ new[Len(pieces) + 1] = e /\ \A i \in 1 .. Len(pieces) : new[i] = pieces[i]
  BY AppendProperties
<1> HIDE DEF new
<1>3. ASSUME NEW k \in 1 .. Len(es) PROVE new[2 * k - 1] = pieces[2 * k - 1] /\ new[2 * k] = pieces[2 * k]
  <2>1. 2 * k - 1 \in 1 .. Len(pieces) /\ 2 * k \in 1 .. Len(pieces)
    BY <1>1
  <2> QED
    BY <1>2, <2>1
<1>4. Lines(new, es)
  BY <1>1, <1>3 DEF Lines
<1> QED
  BY <1>1, <1>2, <1>4 DEF BegunLog, new

LEMMA EntryEnds ==
  ASSUME NEW pieces \in Seq(Nat), NEW es \in Seq(Nat \ {0}), NEW e \in Nat \ {0}, BegunLog(pieces, es, e)
  PROVE  WholeLog(Append(pieces, Logs!Newline), Append(es, e))
<1> DEFINE new == Append(pieces, Logs!Newline)
           more == Append(es, e)
           n == Len(es)
<1>1. n \in Nat /\ Len(pieces) = 2 * n + 1 /\ Lines(pieces, es) /\ pieces[2 * n + 1] = e
  BY LenProperties DEF BegunLog
<1>2. Logs!Newline \in Nat
  BY DEF Logs!Newline
<1>3. Len(new) = Len(pieces) + 1 /\ new[Len(pieces) + 1] = Logs!Newline
      /\ \A i \in 1 .. Len(pieces) : new[i] = pieces[i]
  BY <1>2, AppendProperties
<1>4. Len(more) = n + 1 /\ more[n + 1] = e /\ \A i \in 1 .. n : more[i] = es[i]
  BY AppendProperties
<1> HIDE DEF new, more, n
<1>5. ASSUME NEW k \in 1 .. n + 1 PROVE new[2 * k - 1] = more[k] /\ new[2 * k] = Logs!Newline
  <2>1. CASE k = n + 1
    <3>1. 2 * k - 1 = 2 * n + 1 /\ 2 * k = Len(pieces) + 1 /\ 2 * n + 1 \in 1 .. Len(pieces)
      BY <1>1, <2>1
    <3>2. new[2 * n + 1] = e
      BY <1>1, <1>3, <3>1
    <3> QED
      BY <1>3, <1>4, <2>1, <3>1, <3>2
  <2>2. CASE k # n + 1
    <3>1. k \in 1 .. n /\ 2 * k - 1 \in 1 .. Len(pieces) /\ 2 * k \in 1 .. Len(pieces)
      BY <1>1, <2>2
    <3>2. pieces[2 * k - 1] = es[k] /\ pieces[2 * k] = Logs!Newline
      BY <1>1, <3>1 DEF Lines, n
    <3> QED
      BY <1>3, <1>4, <3>1, <3>2
  <2> QED
    BY <2>1, <2>2
<1>6. Lines(new, more)
  BY <1>4, <1>5 DEF Lines
<1>7. Len(new) = 2 * Len(more)
  BY <1>1, <1>3, <1>4
<1> QED
  BY <1>6, <1>7 DEF WholeLog, new, more

\* Nothing is there yet in a file that is made.
LEMMA EmptyLog == WholeLog(<<>>, <<>>)
BY DEF WholeLog, Lines

LEMMA OfWriter ==
  ASSUME LogTypes, NEW w \in Logs!Writers
  PROVE  /\ writer[w] \in WriterStates /\ writer[w].file \in Logs!Files
         /\ log[writer[w].file] \in LogFiles /\ finished[writer[w].file] \in Seq(Nat \ {0})
<1>1. writer[w] \in WriterStates /\ writer[w].file \in Logs!Files
  BY DEF LogTypes, WriterStates
<1> QED
  BY <1>1 DEF LogTypes

\* LogInv but for the types, after a step.
LogNext == GenerationsInv' /\ \A f \in Logs!Files \ mixed' : log'[f].gen # 0 => HoldsLines(f)'

LEMMA SameLines ==
  ASSUME NEW f, log'[f].pieces = log[f].pieces, finished'[f] = finished[f], HoldsLines(f),
         Logs!Halfway(f)' = Logs!Halfway(f), \A v \in Logs!Halfway(f) : writer'[v] = writer[v]
  PROVE  HoldsLines(f)'
<1>1. WholeLog(log[f].pieces, finished[f]) => WholeLog(log'[f].pieces, finished'[f])
  BY Zenon
<1>2. ASSUME NEW v \in Logs!Halfway(f), BegunLog(log[f].pieces, finished[f], writer[v].entry)
      PROVE  BegunLog(log'[f].pieces, finished'[f], writer'[v].entry)
  <2>1. writer'[v].entry = writer[v].entry
    OBVIOUS
  <2> QED
    BY <1>2, <2>1, Zenon
<1> QED
  BY <1>1, <1>2 DEF HoldsLines

\* A writer that has no entry begun in a file that is there, before and after.
LEMMA Aside ==
  ASSUME LogInv, NEW w \in Logs!Writers, NEW m \in WriterStates, m.pc # "open",
         m.pc = "half" => /\ writer[w].pc = "open" /\ m.gen = writer[w].gen /\ m.entry = writer[w].entry
                          /\ log[m.file].gen # m.gen,
         w \notin Logs!Halfway(writer[w].file),
         writer' = [writer EXCEPT ![w] = m], sessions' \in Seq(Tasks), Len(sessions') <= MaxSessions,
         UNCHANGED <<log, cleaner, entries, finished, mixed>>
  PROVE  LogTypes' /\ LogNext
<1>1. LogTypes /\ writer \in [Logs!Writers -> WriterStates]
  BY DEF LogInv, LogTypes
<1>2. writer'[w] = m /\ \A v \in Logs!Writers \ {w} : writer'[v] = writer[v]
  BY <1>1
<1>3. LogTypes'
  <2>1. writer' \in [Logs!Writers -> WriterStates]
    BY <1>1
  <2> QED
    BY <1>1, <2>1 DEF LogTypes
<1>4. GenerationsInv'
  BY <1>2 DEF LogInv, GenerationsInv, Logs!NoFile
<1>5. \A f \in Logs!Files : Logs!Halfway(f)' = Logs!Halfway(f) /\ w \notin Logs!Halfway(f)
  BY <1>2 DEF Logs!Halfway, Logs!At
<1>6. ASSUME NEW f \in Logs!Files \ mixed', log'[f].gen # 0 PROVE HoldsLines(f)'
  <2>1. HoldsLines(f) /\ log'[f].pieces = log[f].pieces /\ finished'[f] = finished[f]
    BY <1>6 DEF LogInv
  <2>2. \A v \in Logs!Halfway(f) : writer'[v] = writer[v]
    BY <1>2, <1>5 DEF Logs!Halfway
  <2> QED
    BY <1>5, <2>1, <2>2, SameLines
<1> QED
  BY <1>3, <1>4, <1>6 DEF LogNext

LEMMA OpenStep ==
  ASSUME LogInv, NEW w \in Logs!Writers, Logs!OpenLog(w)
  PROVE  LogTypes' /\ LogNext
<1> DEFINE f == writer[w].file
           gen == IF log[f].gen = 0 THEN entries + 1 ELSE log[f].gen
           c == [log[f] EXCEPT !.gen = gen, !.time = IF @ = 0 THEN entries ELSE @]
           m == [writer[w] EXCEPT !.pc = "open", !.gen = gen, !.entry = entries + 1]
<1>1. /\ writer[w].pc = "ready" /\ entries' = entries + 1
      /\ log' = [log EXCEPT ![f] = c] /\ writer' = [writer EXCEPT ![w] = m]
      /\ UNCHANGED <<sessions, cleaner, finished, mixed>>
  BY DEF Logs!OpenLog, Logs!At, Logs!Clock, Logs!history
<1>2. LogTypes /\ entries \in Nat /\ f \in Logs!Files /\ writer[w] \in WriterStates /\ log[f] \in LogFiles
  BY OfWriter DEF LogInv, LogTypes
<1>3. gen \in 1 .. entries + 1 /\ gen \in Nat
  BY <1>2 DEF LogInv, GenerationsInv, LogFiles
<1>4. c \in LogFiles /\ c.gen = gen /\ c.pieces = log[f].pieces /\ m \in WriterStates /\ m.pc = "open"
      /\ m.gen = gen /\ m.entry = entries + 1 /\ m.file = f
  <2> DEFINE r == log[f]
             o == writer[w]
  <2>1. r \in LogFiles /\ o \in WriterStates /\ o.file = f
    BY <1>2
  <2>2. c = [r EXCEPT !.gen = gen, !.time = IF @ = 0 THEN entries ELSE @]
    OBVIOUS
  <2>3. m = [o EXCEPT !.pc = "open", !.gen = gen, !.entry = entries + 1]
    OBVIOUS
  <2> HIDE DEF r, o, c, m, f, gen
  <2>4. c \in LogFiles /\ c.gen = gen /\ c.pieces = r.pieces
    BY <1>2, <1>3, <2>1, <2>2 DEF LogFiles
  <2>5. m \in WriterStates /\ m.pc = "open" /\ m.gen = gen /\ m.entry = entries + 1 /\ m.file = f
    <3>1. entries + 1 \in Nat
      BY <1>2
    <3>2. o = [pc |-> o.pc, file |-> o.file, gen |-> o.gen, entry |-> o.entry] /\ o.file = f
      BY <2>1 DEF WriterStates
    <3>3. m = [pc |-> "open", file |-> f, gen |-> gen, entry |-> entries + 1]
      BY <2>3, <3>2
    <3> QED
      BY <1>2, <1>3, <3>1, <3>3 DEF WriterStates
  <2> QED
    BY <2>4, <2>5 DEF r
<1>5. gen = IF log[f].gen = 0 THEN entries + 1 ELSE log[f].gen
  OBVIOUS
<1> HIDE DEF f, gen, c, m
<1>6. /\ writer' \in [Logs!Writers -> WriterStates] /\ writer'[w] = m
      /\ \A v \in Logs!Writers \ {w} : writer'[v] = writer[v]
      /\ log' \in [Logs!Files -> LogFiles] /\ log'[f] = c /\ \A g \in Logs!Files \ {f} : log'[g] = log[g]
  BY <1>1, <1>2, <1>4 DEF LogTypes
<1>7. LogTypes'
  BY <1>1, <1>2, <1>6 DEF LogTypes
<1>8. GenerationsInv'
  <2>1. ASSUME NEW g \in Logs!Files
        PROVE  log'[g].gen <= entries' /\ (log'[g].gen = 0 => log'[g] = Logs!NoFile /\ finished'[g] = <<>>)
    <3>1. CASE g = f
      BY <1>1, <1>2, <1>3, <1>4, <1>6, <3>1
    <3>2. CASE g # f
      <4>1. log[g].gen <= entries /\ (log[g].gen = 0 => log[g] = Logs!NoFile /\ finished[g] = <<>>)
        BY DEF LogInv, GenerationsInv
      <4>2. log[g].gen \in Nat
        BY <1>2 DEF LogTypes, LogFiles
      <4> QED
        BY <1>1, <1>2, <1>6, <3>2, <4>1, <4>2
    <3> QED
      BY <3>1, <3>2
  <2>2. ASSUME NEW v \in Logs!Writers, writer'[v].pc \in {"open", "half"}
        PROVE  writer'[v].gen \in 1 .. entries' /\ writer'[v].entry # 0
    <3>1. CASE v = w
      BY <1>1, <1>2, <1>3, <1>4, <1>6, <3>1
    <3>2. CASE v # w
      <4>1. writer[v].gen \in 1 .. entries /\ writer[v].entry # 0
        BY <1>6, <2>2, <3>2 DEF LogInv, GenerationsInv
      <4> QED
        BY <1>1, <1>2, <1>6, <3>2, <4>1
    <3> QED
      BY <3>1, <3>2
  <2>3. Logs!NoFile' = Logs!NoFile
    BY DEF Logs!NoFile
  <2> QED
    BY <2>1, <2>2, <2>3 DEF GenerationsInv
<1>9. ASSUME NEW g \in Logs!Files \ mixed', log'[g].gen # 0 PROVE HoldsLines(g)'
  <2>1. CASE g = f /\ log[f].gen = 0
    <3>1. Logs!Halfway(g)' = {}
      <4>1. \A v \in Logs!Writers : writer'[v].pc = "half" => v # w /\ writer[v].gen \in 1 .. entries
        BY <1>4, <1>6 DEF LogInv, GenerationsInv
      <4>2. \A v \in Logs!Writers : writer'[v].pc = "half" => writer'[v].gen # log'[g].gen
        BY <1>2, <1>4, <1>5, <1>6, <2>1, <4>1
      <4> QED
        BY <4>2 DEF Logs!Halfway, Logs!At
    <3>2. log[f] = Logs!NoFile /\ finished[f] = <<>>
      BY <1>2, <2>1 DEF LogInv, GenerationsInv
    <3>3. log'[g].pieces = <<>> /\ finished'[g] = <<>>
      BY <1>1, <1>4, <1>6, <2>1, <3>2 DEF Logs!NoFile
    <3> QED
      BY <3>1, <3>3, EmptyLog DEF HoldsLines
  <2>2. CASE ~(g = f /\ log[f].gen = 0)
    <3>1. log'[g].gen = log[g].gen /\ log'[g].pieces = log[g].pieces /\ log[g].gen # 0
      BY <1>4, <1>5, <1>6, <1>9, <2>2
    <3>2. Logs!Halfway(g)' = Logs!Halfway(g) /\ w \notin Logs!Halfway(g)
      BY <1>1, <1>4, <1>6, <3>1 DEF Logs!Halfway, Logs!At
    <3>3. HoldsLines(g)
      BY <1>1, <3>1 DEF LogInv
    <3>4. \A v \in Logs!Halfway(g) : writer'[v] = writer[v]
      BY <1>6, <3>2 DEF Logs!Halfway
    <3>5. finished'[g] = finished[g]
      BY <1>1
    <3> QED
      BY <3>1, <3>2, <3>3, <3>4, <3>5, SameLines
  <2> QED
    BY <2>1, <2>2
<1> QED
  BY <1>7, <1>8, <1>9 DEF LogNext

\* What a writer does to the file it has open while others keep theirs.
LEMMA WriteStep ==
  ASSUME LogInv, NEW w \in Logs!Writers, NEW f \in Logs!Files, f = writer[w].file, NEW m \in WriterStates, writer[w].pc \in {"open", "half"},
         NEW d \in LogFiles, NEW es \in Seq(Nat \ {0}),
         m.pc = "half" => m.gen = writer[w].gen /\ m.entry = writer[w].entry /\ m.file = f,
         m.pc # "open",
         writer' = [writer EXCEPT ![w] = m],
         log[f].gen = writer[w].gen, d.gen = writer[w].gen,
         log' = [log EXCEPT ![f] = d], finished' = [finished EXCEPT ![f] = es],
         UNCHANGED <<sessions, cleaner, entries>>, mixed \subseteq mixed', mixed' \subseteq mixed \cup {f},
         f \notin mixed' => HoldsLines(f)'
  PROVE  LogTypes' /\ LogNext
<1>1. LogTypes /\ entries \in Nat /\ f \in Logs!Files /\ writer[w] \in WriterStates
  BY OfWriter DEF LogInv, LogTypes
<1>2. writer[w].gen \in 1 .. entries /\ writer[w].entry # 0
  BY DEF LogInv, GenerationsInv
<1>3. /\ writer' \in [Logs!Writers -> WriterStates] /\ writer'[w] = m
      /\ \A v \in Logs!Writers \ {w} : writer'[v] = writer[v]
      /\ log' \in [Logs!Files -> LogFiles] /\ log'[f] = d /\ \A g \in Logs!Files \ {f} : log'[g] = log[g]
      /\ finished' \in [Logs!Files -> Seq(Nat \ {0})] /\ finished'[f] = es
      /\ \A g \in Logs!Files \ {f} : finished'[g] = finished[g]
  BY <1>1 DEF LogTypes
<1>4. LogTypes'
  BY <1>1, <1>3 DEF LogTypes
<1>5. GenerationsInv'
  <2>1. ASSUME NEW g \in Logs!Files
        PROVE  log'[g].gen <= entries' /\ (log'[g].gen = 0 => log'[g] = Logs!NoFile /\ finished'[g] = <<>>)
    <3>1. CASE g = f
      BY <1>1, <1>2, <1>3, <3>1
    <3>2. CASE g # f
      BY <1>3, <3>2 DEF LogInv, GenerationsInv
    <3> QED
      BY <3>1, <3>2
  <2>2. ASSUME NEW v \in Logs!Writers, writer'[v].pc \in {"open", "half"}
        PROVE  writer'[v].gen \in 1 .. entries' /\ writer'[v].entry # 0
    <3>1. CASE v = w
      BY <1>1, <1>2, <1>3, <2>2, <3>1
    <3>2. CASE v # w
      BY <1>3, <2>2, <3>2 DEF LogInv, GenerationsInv
    <3> QED
      BY <3>1, <3>2
  <2>3. Logs!NoFile' = Logs!NoFile
    BY DEF Logs!NoFile
  <2> QED
    BY <2>1, <2>2, <2>3 DEF GenerationsInv
<1>6. ASSUME NEW g \in Logs!Files \ mixed', log'[g].gen # 0 PROVE HoldsLines(g)'
  <2>1. CASE g = f
    BY <1>6, <2>1
  <2>2. CASE g # f
    <3>1. log'[g] = log[g] /\ finished'[g] = finished[g]
      BY <1>3, <2>2
    <3>2. Logs!Halfway(g)' = Logs!Halfway(g) /\ w \notin Logs!Halfway(g)
      <4> QED
        BY <1>3, <2>2, <3>1 DEF Logs!Halfway, Logs!At
    <3>3. HoldsLines(g)
      BY <1>6, <3>1 DEF LogInv
    <3>4. \A v \in Logs!Halfway(g) : writer'[v] = writer[v]
      BY <1>3, <3>2 DEF Logs!Halfway
    <3> QED
      BY <3>1, <3>2, <3>3, <3>4, SameLines
  <2> QED
    BY <2>1, <2>2
<1> QED
  BY <1>4, <1>5, <1>6 DEF LogNext

LEMMA WriteEntryStep ==
  ASSUME LogInv, NEW w \in Logs!Writers, Logs!WriteEntry(w)
  PROVE  LogTypes' /\ LogNext
<1>1. PICK f : f = writer[w].file
  OBVIOUS
<1>2. PICK o : o = writer[w]
  OBVIOUS
<1>3. LogTypes /\ entries \in Nat /\ f \in Logs!Files /\ o \in WriterStates /\ log[f] \in LogFiles
      /\ finished[f] \in Seq(Nat \ {0})
  BY <1>1, <1>2, OfWriter DEF LogInv, LogTypes
<1>4. /\ o.pc = "open" /\ o.file = f
      /\ log' = IF log[f].gen = o.gen
                  THEN [log EXCEPT ![f] = [gen |-> @.gen, pieces |-> Append(@.pieces, o.entry), time |-> entries]]
                  ELSE log
      /\ mixed' = mixed \cup (IF log[f].gen = o.gen /\ Logs!Halfway(f) # {} THEN {f} ELSE {})
      /\ writer' = [writer EXCEPT ![w].pc = "half"]
      /\ UNCHANGED <<sessions, cleaner, entries, finished>>
  BY <1>1, <1>2 DEF Logs!WriteEntry, Logs!Write, Logs!At, Logs!Goto, Logs!Clock
<1>5. PICK m : m = [pc |-> "half", file |-> f, gen |-> o.gen, entry |-> o.entry]
  OBVIOUS
<1>6. m \in WriterStates /\ writer' = [writer EXCEPT ![w] = m]
  <2>1. m \in WriterStates
    BY <1>3, <1>5 DEF WriterStates
  <2>2. m = [o EXCEPT !.pc = "half"]
    <3>1. o = [pc |-> o.pc, file |-> f, gen |-> o.gen, entry |-> o.entry]
      BY <1>3, <1>4 DEF WriterStates
    <3> QED
      BY <1>5, <3>1
  <2> QED
    BY <1>2, <1>4, <2>1, <2>2
<1>7. o.entry \in Nat \ {0} /\ o.gen \in 1 .. entries
  BY <1>2, <1>3, <1>4 DEF LogInv, GenerationsInv, WriterStates
<1>8. CASE log[f].gen # o.gen
  <2>1. w \notin Logs!Halfway(f)
    BY <1>2, <1>8 DEF Logs!Halfway
  <2>2. log' = log /\ mixed' = mixed
    BY <1>4, <1>8
  <2>3. m.pc = "half" /\ m.gen = o.gen /\ m.entry = o.entry /\ m.file = f
    BY <1>5
  <2> QED
    <3>1. m.pc # "open" /\ (m.pc = "half" => /\ writer[w].pc = "open" /\ m.gen = writer[w].gen
                                              /\ m.entry = writer[w].entry /\ log[m.file].gen # m.gen)
      BY <1>2, <1>4, <1>8, <2>3
    <3>2. w \notin Logs!Halfway(writer[w].file)
      BY <1>1, <2>1
    <3>3. UNCHANGED <<log, cleaner, entries, finished, mixed>>
      BY <1>4, <2>2
    <3>4. sessions' \in Seq(Tasks) /\ Len(sessions') <= MaxSessions
      BY <1>3, <1>4 DEF LogTypes
    <3> QED
      BY <1>6, <3>1, <3>2, <3>3, <3>4, Aside
<1>9. CASE log[f].gen = o.gen
  <2>1. PICK d : d = [gen |-> log[f].gen, pieces |-> Append(log[f].pieces, o.entry), time |-> entries]
    OBVIOUS
  <2>2. d \in LogFiles /\ log' = [log EXCEPT ![f] = d]
    <3>1. log[f].pieces \in Seq(Nat) /\ Append(log[f].pieces, o.entry) \in Seq(Nat) /\ log[f].gen \in Nat
      BY <1>3, <1>7 DEF LogFiles
    <3>2. d \in LogFiles
      BY <1>3, <2>1, <3>1 DEF LogFiles
    <3> QED
      BY <1>4, <1>9, <2>1, <3>2
  <2>3. finished' = [finished EXCEPT ![f] = finished[f]]
    BY <1>3, <1>4 DEF LogTypes
  <2>4. ASSUME f \notin mixed' PROVE HoldsLines(f)'
    <3>1. Logs!Halfway(f) = {} /\ f \notin mixed
      BY <1>4, <1>9, <2>4
    <3>2. WholeLog(log[f].pieces, finished[f])
      BY <1>3, <1>7, <1>9, <3>1 DEF LogInv, HoldsLines
    <3>3. BegunLog(Append(log[f].pieces, o.entry), finished[f], o.entry)
      BY <1>3, <1>7, <3>2, EntryBegins DEF LogFiles
    <3>4. log'[f] = d /\ finished'[f] = finished[f] /\ writer'[w] = m
      BY <1>2, <1>3, <1>4, <1>6, <2>2 DEF LogTypes
    <3>5. \A v \in Logs!Writers \ {w} : writer'[v] = writer[v]
      BY <1>3, <1>6 DEF LogTypes
    <3>6. Logs!Halfway(f)' = {w}
      BY <1>5, <1>9, <2>1, <3>1, <3>4, <3>5 DEF Logs!Halfway, Logs!At
    <3>7. log'[f].pieces = Append(log[f].pieces, o.entry) /\ writer'[w].entry = o.entry
      BY <1>5, <2>1, <3>4
    <3>8. BegunLog(log'[f].pieces, finished'[f], writer'[w].entry)
      BY <3>3, <3>4, <3>7
    <3> QED
      BY <3>6, <3>8 DEF HoldsLines
  <2>5. m.pc = "half" /\ m.gen = o.gen /\ m.entry = o.entry /\ m.file = f
    BY <1>5
  <2>6. d.gen = o.gen
    BY <1>9, <2>1
  <2>7. mixed \subseteq mixed' /\ mixed' \subseteq mixed \cup {f}
    BY <1>4
  <2>8. m.pc # "open" /\ writer[w].pc \in {"open", "half"}
    BY <1>2, <1>4, <2>5
  <2>9. f \in Logs!Files /\ finished[f] \in Seq(Nat \ {0})
    BY <1>3
  <2> QED
    <3>1. /\ log[f].gen = writer[w].gen /\ d.gen = writer[w].gen
          /\ m.pc = "half" => m.gen = writer[w].gen /\ m.entry = writer[w].entry /\ m.file = f
      BY <1>2, <1>9, <2>5, <2>6
    <3>2. UNCHANGED <<sessions, cleaner, entries>>
      BY <1>4
    <3> QED
      BY <1>1, <1>6, <2>2, <2>3, <2>4, <2>7, <2>8, <2>9, <3>1, <3>2, WriteStep
<1> QED
  BY <1>8, <1>9

LEMMA Rests ==
  ASSUME NEW w, NEW f \in Logs!Files, Logs!Return(w) \/ Logs!Start(w, f)
  PROVE  \E m \in WriterStates : m.pc \in {"idle", "ready"} /\ writer' = [writer EXCEPT ![w] = m]
<1>1. Logs!Quiet \in WriterStates /\ Logs!Quiet.pc = "idle"
  BY DEF Logs!Quiet, WriterStates, Logs!Files
<1>2. [pc |-> "ready", file |-> f, gen |-> 0, entry |-> 0] \in WriterStates
  BY DEF WriterStates
<1>3. CASE Logs!Return(w)
  BY <1>1, <1>3 DEF Logs!Return
<1>4. CASE Logs!Start(w, f)
  BY <1>2, <1>4 DEF Logs!Start
<1> QED
  BY <1>3, <1>4

LEMMA WriteNewlineStep ==
  ASSUME LogInv, NEW w \in Logs!Writers, Logs!WriteNewline(w)
  PROVE  LogTypes' /\ LogNext
<1>1. PICK f : f = writer[w].file
  OBVIOUS
<1>2. PICK o : o = writer[w]
  OBVIOUS
<1>3. LogTypes /\ entries \in Nat /\ f \in Logs!Files /\ o \in WriterStates /\ log[f] \in LogFiles
      /\ finished[f] \in Seq(Nat \ {0})
  BY <1>1, <1>2, OfWriter DEF LogInv, LogTypes
<1>4. /\ o.pc = "half" /\ o.file = f
      /\ log' = IF log[f].gen = o.gen
                  THEN [log EXCEPT ![f] = [gen |-> @.gen, pieces |-> Append(@.pieces, Logs!Newline), time |-> entries]]
                  ELSE log
      /\ finished' = IF log[f].gen = o.gen THEN [finished EXCEPT ![f] = Append(@, o.entry)] ELSE finished
      /\ Logs!Return(w) \/ Logs!Start(w, f)
      /\ UNCHANGED <<sessions, cleaner, entries, mixed>>
  BY <1>1, <1>2 DEF Logs!WriteNewline, Logs!Write, Logs!At, Logs!Clock
<1>5. PICK m \in WriterStates : m.pc \in {"idle", "ready"} /\ writer' = [writer EXCEPT ![w] = m]
  BY <1>3, <1>4, Rests
<1>6. o.entry \in Nat \ {0} /\ o.gen \in 1 .. entries
  BY <1>2, <1>3, <1>4 DEF LogInv, GenerationsInv, WriterStates
<1>7. m.pc # "open" /\ m.pc # "half"
  BY <1>5
<1>8. CASE log[f].gen # o.gen
  <2>1. w \notin Logs!Halfway(f)
    BY <1>2, <1>8 DEF Logs!Halfway
  <2>2. log' = log /\ finished' = finished
    BY <1>4, <1>8
  <2>3. sessions' \in Seq(Tasks) /\ Len(sessions') <= MaxSessions
    BY <1>3, <1>4 DEF LogTypes
  <2> QED
    BY <1>1, <1>4, <1>5, <1>7, <2>1, <2>2, <2>3, Aside
<1>9. CASE log[f].gen = o.gen
  <2>1. PICK d : d = [gen |-> log[f].gen, pieces |-> Append(log[f].pieces, Logs!Newline), time |-> entries]
    OBVIOUS
  <2>2. d \in LogFiles /\ log' = [log EXCEPT ![f] = d]
    <3>1. log[f].pieces \in Seq(Nat) /\ Append(log[f].pieces, Logs!Newline) \in Seq(Nat) /\ log[f].gen \in Nat
      BY <1>3 DEF LogFiles, Logs!Newline
    <3>2. d \in LogFiles
      BY <1>3, <2>1, <3>1 DEF LogFiles
    <3> QED
      BY <1>4, <1>9, <2>1, <3>2
  <2>3. PICK es : es = Append(finished[f], o.entry)
    OBVIOUS
  <2>4. es \in Seq(Nat \ {0}) /\ finished' = [finished EXCEPT ![f] = es]
    BY <1>3, <1>4, <1>6, <1>9, <2>3
  <2>5. ASSUME f \notin mixed' PROVE HoldsLines(f)'
    <3>1. w \in Logs!Halfway(f) /\ f \notin mixed /\ log[f].gen # 0
      BY <1>2, <1>3, <1>4, <1>6, <1>9, <2>5 DEF Logs!Halfway, Logs!At
    <3>2. Logs!Halfway(f) = {w} /\ BegunLog(log[f].pieces, finished[f], o.entry)
      BY <1>2, <1>3, <3>1 DEF LogInv, HoldsLines
    <3>3. WholeLog(Append(log[f].pieces, Logs!Newline), Append(finished[f], o.entry))
      BY <1>3, <1>6, <3>2, EntryEnds DEF LogFiles
    <3>4. log'[f] = d /\ finished'[f] = es /\ writer'[w] = m
      BY <1>2, <1>3, <1>5, <2>2, <2>4 DEF LogTypes
    <3>5. \A v \in Logs!Writers \ {w} : writer'[v] = writer[v]
      BY <1>3, <1>5 DEF LogTypes
    <3>6. d.gen = log[f].gen
      BY <2>1
    <3>7. Logs!Halfway(f)' = {}
      BY <1>7, <3>2, <3>4, <3>5, <3>6 DEF Logs!Halfway, Logs!At
    <3>8. log'[f].pieces = Append(log[f].pieces, Logs!Newline)
      BY <2>1, <3>4
    <3>9. WholeLog(log'[f].pieces, finished'[f])
      BY <2>3, <3>3, <3>4, <3>8
    <3> QED
      BY <3>7, <3>9 DEF HoldsLines
  <2>6. d.gen = o.gen
    BY <1>9, <2>1
  <2>7. mixed \subseteq mixed' /\ mixed' \subseteq mixed \cup {f}
    BY <1>4
  <2>8. writer[w].pc \in {"open", "half"}
    BY <1>2, <1>4
  <2>9. f \in Logs!Files
    BY <1>3
  <2> QED
    <3>1. log[f].gen = writer[w].gen /\ d.gen = writer[w].gen
      BY <1>2, <1>9, <2>6
    <3>2. UNCHANGED <<sessions, cleaner, entries>>
      BY <1>4
    <3> QED
      BY <1>1, <1>5, <1>7, <2>2, <2>4, <2>5, <2>7, <2>8, <2>9, <3>1, <3>2, WriteStep
<1> QED
  BY <1>8, <1>9

LEMMA TearStep ==
  ASSUME LogInv, NEW w \in Logs!Writers, Logs!Tear(w)
  PROVE  LogTypes' /\ LogNext
<1>1. PICK f : f = writer[w].file
  OBVIOUS
<1>2. LogTypes /\ f \in Logs!Files /\ log[f] \in LogFiles /\ finished[f] \in Seq(Nat \ {0})
  BY <1>1, OfWriter DEF LogInv
<1>3. /\ writer[w].pc = "half" /\ (Logs!Return(w) \/ Logs!Start(w, f))
      /\ mixed' = mixed \cup (IF w \in Logs!Halfway(f) THEN {f} ELSE {})
      /\ UNCHANGED <<sessions, log, cleaner, entries, finished>>
  BY <1>1 DEF Logs!Tear, Logs!At
<1>4. PICK m \in WriterStates : m.pc \in {"idle", "ready"} /\ writer' = [writer EXCEPT ![w] = m]
  BY <1>2, <1>3, Rests
<1>5. m.pc # "open" /\ m.pc # "half"
  BY <1>4
<1>6. CASE w \notin Logs!Halfway(f)
  <2>1. sessions' \in Seq(Tasks) /\ Len(sessions') <= MaxSessions
    BY <1>2, <1>3 DEF LogTypes
  <2> QED
    BY <1>1, <1>3, <1>4, <1>5, <1>6, <2>1, Aside
<1>7. CASE w \in Logs!Halfway(f)
  <2>1. f \in mixed' /\ mixed \subseteq mixed' /\ mixed' \subseteq mixed \cup {f}
    BY <1>3, <1>7
  <2>2. log[f].gen = writer[w].gen
    BY <1>7 DEF Logs!Halfway
  <2>3. log' = [log EXCEPT ![f] = log[f]] /\ finished' = [finished EXCEPT ![f] = finished[f]]
    BY <1>2, <1>3 DEF LogTypes
  <2> QED
    <3>1. UNCHANGED <<sessions, cleaner, entries>> /\ writer[w].pc \in {"open", "half"}
      BY <1>3
    <3> QED
      BY <1>1, <1>2, <1>4, <1>5, <2>1, <2>2, <2>3, <3>1, WriteStep
<1> QED
  BY <1>6, <1>7

LEMMA RemoveFileStep ==
  ASSUME LogInv, NEW l \in Listed, Logs!RemoveFile(l), cleaner' \in [Cleaners -> Cleanups]
  PROVE  LogTypes' /\ LogNext
<1>1. PICK f \in Logs!Files : f = l.file
  BY DEF Listed
<1>2. /\ log' = [log EXCEPT ![f] = Logs!NoFile] /\ finished' = [finished EXCEPT ![f] = <<>>]
      /\ mixed' = mixed \ {f} /\ UNCHANGED <<sessions, writer, entries>>
  BY <1>1 DEF Logs!RemoveFile
<1>3. LogTypes /\ Logs!NoFile \in LogFiles /\ Logs!NoFile.gen = 0 /\ <<>> \in Seq(Nat \ {0})
  BY DEF LogInv, Logs!NoFile, LogFiles
<1>4. /\ log' \in [Logs!Files -> LogFiles] /\ log'[f] = Logs!NoFile /\ \A g \in Logs!Files \ {f} : log'[g] = log[g]
      /\ finished' \in [Logs!Files -> Seq(Nat \ {0})] /\ finished'[f] = <<>>
      /\ \A g \in Logs!Files \ {f} : finished'[g] = finished[g]
  BY <1>2, <1>3 DEF LogTypes
<1>5. LogTypes'
  BY <1>2, <1>3, <1>4 DEF LogTypes
<1>6. GenerationsInv'
  <2>1. ASSUME NEW g \in Logs!Files
        PROVE  log'[g].gen <= entries' /\ (log'[g].gen = 0 => log'[g] = Logs!NoFile /\ finished'[g] = <<>>)
    <3>1. entries \in Nat /\ 0 <= entries
      BY <1>3 DEF LogTypes
    <3>2. CASE g = f
      BY <1>2, <1>3, <1>4, <3>1, <3>2
    <3>3. CASE g # f
      BY <1>2, <1>4, <3>3 DEF LogInv, GenerationsInv
    <3> QED
      BY <3>2, <3>3
  <2>2. Logs!NoFile' = Logs!NoFile
    BY DEF Logs!NoFile
  <2> QED
    BY <1>2, <2>1, <2>2 DEF LogInv, GenerationsInv
<1>7. ASSUME NEW g \in Logs!Files \ mixed', log'[g].gen # 0 PROVE HoldsLines(g)'
  <2>1. g # f /\ g \notin mixed
    BY <1>2, <1>3, <1>4, <1>7
  <2>2. log'[g] = log[g] /\ finished'[g] = finished[g]
    BY <1>4, <2>1
  <2>3. Logs!Halfway(g)' = Logs!Halfway(g) /\ \A v \in Logs!Halfway(g) : writer'[v] = writer[v]
    BY <1>2, <2>2 DEF Logs!Halfway, Logs!At
  <2>4. HoldsLines(g)
    BY <1>7, <2>1, <2>2 DEF LogInv
  <2> QED
    BY <2>2, <2>3, <2>4, SameLines
<1> QED
  BY <1>5, <1>6, <1>7 DEF LogNext

LEMMA ListedStep ==
  ASSUME LogInv, UNCHANGED <<sessions, log, writer, entries, finished, mixed>>, cleaner' \in [Cleaners -> Cleanups]
  PROVE  LogTypes' /\ LogNext
<1>1. LogTypes'
  BY DEF LogInv, LogTypes
<1>2. GenerationsInv'
  BY DEF LogInv, GenerationsInv, Logs!NoFile
<1>3. ASSUME NEW f \in Logs!Files \ mixed', log'[f].gen # 0 PROVE HoldsLines(f)'
  <2>1. Logs!Halfway(f)' = Logs!Halfway(f) /\ HoldsLines(f)
    BY <1>3 DEF LogInv, Logs!Halfway, Logs!At
  <2> QED
    BY <2>1, SameLines
<1> QED
  BY <1>1, <1>2, <1>3 DEF LogNext

-----------------------------------------------------------------------------
(* ConversationLog: the cleanups.                                          *)

\* What is given for each of finitely many is finitely many.
LEMMA ImageFinite ==
  ASSUME NEW S, IsFiniteSet(S), NEW f, DOMAIN f = S
  PROVE  IsFiniteSet({f[x] : x \in S})
<1> DEFINE T == {f[x] : x \in S}
<1>1. [x \in S |-> f[x]] \in Surjection(S, T)
  BY DEF Surjection
<1> QED
  BY <1>1, FS_Surjection, Zenon

LEMMA SameLogSets ==
  /\ \A S : Logs!IsFiniteSet(S) = IsFiniteSet(S)
  /\ \A S : Logs!Cardinality(S) = Cardinality(S)
<1>1. \A S : Logs!IsFiniteSet(S) = IsFiniteSet(S)
  BY DEF Logs!IsFiniteSet, IsFiniteSet
<1>2. \A S : Logs!Cardinality(S) = Cardinality(S)
  BY DEF Logs!Cardinality, Cardinality
<1> QED
  BY <1>1, <1>2

LEMMA FilesFinite == IsFiniteSet(Logs!Files)
<1> DEFINE G == {Logs!GooseId(n) : n \in 1 .. MaxSessions}
           T == {Logs!TaskId(t) : t \in Tasks}
           g == [n \in 1 .. MaxSessions |-> Logs!GooseId(n)]
           h == [t \in Tasks |-> Logs!TaskId(t)]
<1>1. MaxSessions \in Nat /\ IsFiniteSet(Tasks)
  BY ConversationLogAssumption, SameLogSets DEF Logs!ConversationLogAssumption
<1>2. IsFiniteSet(G)
  <2>1. IsFiniteSet({g[n] : n \in 1 .. MaxSessions})
    <3>1. IsFiniteSet(1 .. MaxSessions)
      BY <1>1, FS_Interval
    <3> QED
      BY <3>1, ImageFinite
  <2>2. G = {g[n] : n \in 1 .. MaxSessions}
    OBVIOUS
  <2> QED
    BY <2>1, <2>2
<1>3. IsFiniteSet(T)
  <2>1. IsFiniteSet({h[t] : t \in Tasks})
    BY <1>1, ImageFinite
  <2>2. T = {h[t] : t \in Tasks}
    OBVIOUS
  <2> QED
    BY <2>1, <2>2
<1>4. IsFiniteSet({Logs!Operators})
  BY FS_Singleton
<1>5. Logs!Files = (G \cup T) \cup {Logs!Operators}
  BY DEF Logs!Files
<1> HIDE DEF G, T
<1> QED
  BY <1>2, <1>3, <1>4, <1>5, FS_Union

LEMMA ListingFits ==
  ASSUME LogTypes
  PROVE  IsFiniteSet(Logs!Listing) /\ Logs!Listing \subseteq Listed
<1> DEFINE made == Logs!Existing
           row == [f \in made |-> [file |-> f, size |-> Len(log[f].pieces), time |-> log[f].time]]
<1>1. made \subseteq Logs!Files /\ IsFiniteSet(made)
  BY FilesFinite, FS_Subset DEF Logs!Existing
<1>2. Logs!Listing = {row[f] : f \in made}
  BY DEF Logs!Listing
<1>3. \A f \in made : row[f] \in Listed
  BY <1>1 DEF LogTypes, LogFiles, Listed
<1> HIDE DEF made
<1>4. IsFiniteSet({row[f] : f \in made})
  BY <1>1, ImageFinite
<1> QED
  BY <1>2, <1>3, <1>4

Pieces(found) == UNION {{l} \X (1 .. l.size) : l \in found}

LEMMA PiecesFinite ==
  ASSUME NEW found \in SUBSET Listed, IsFiniteSet(found)
  PROVE  IsFiniteSet(Pieces(found)) /\ Logs!Total(found) = Cardinality(Pieces(found)) /\ Logs!Total(found) \in Nat
<1>0. PICK row : row = [l \in found |-> {l} \X (1 .. l.size)]
  OBVIOUS
<1>1. IsFiniteSet({row[l] : l \in found})
  <2>1. DOMAIN row = found
    BY <1>0
  <2> QED
    BY <2>1, ImageFinite
<1>2. \A T \in {row[l] : l \in found} : IsFiniteSet(T)
  <2>1. ASSUME NEW l \in found PROVE IsFiniteSet({l} \X (1 .. l.size))
    <3>1. IsFiniteSet({l})
      BY FS_Singleton
    <3>2. IsFiniteSet(1 .. l.size)
      BY FS_Interval DEF Listed
    <3> QED
      BY <3>1, <3>2, FS_Product
  <2> QED
    BY <1>0, <2>1
<1>3. Pieces(found) = UNION {row[l] : l \in found}
  BY <1>0 DEF Pieces
<1>4. IsFiniteSet(Pieces(found))
  <2> DEFINE R == {row[l] : l \in found}
  <2>1. IsFiniteSet(R) /\ \A T \in R : IsFiniteSet(T)
    BY <1>1, <1>2
  <2>2. Pieces(found) = UNION R
    BY <1>3
  <2> HIDE DEF R
  <2> QED
    BY <2>1, <2>2, FS_UNION
<1>5. Logs!Total(found) = Cardinality(Pieces(found))
  BY SameLogSets DEF Logs!Total, Pieces
<1> QED
  BY <1>4, <1>5, FS_CardinalityType

\* The size of some found is that of one of them and the rest.
LEMMA TotalSplit ==
  ASSUME NEW found \in SUBSET Listed, IsFiniteSet(found), NEW l \in found
  PROVE  Logs!Total(found) = Logs!Total(found \ {l}) + l.size
<1> DEFINE A == Pieces(found \ {l})
           B == {l} \X (1 .. l.size)
<1>1. l.size \in Nat
  BY DEF Listed
<1>2. found \ {l} \in SUBSET Listed /\ IsFiniteSet(found \ {l})
  BY FS_Subset
<1>3. IsFiniteSet(A) /\ Logs!Total(found \ {l}) = Cardinality(A) /\ Cardinality(A) \in Nat
  BY <1>2, PiecesFinite
<1>4. IsFiniteSet(B) /\ Cardinality(B) = l.size
  <2>0. PICK n \in Nat : n = l.size
    BY <1>1
  <2>1. IsFiniteSet({l}) /\ Cardinality({l}) = 1
    BY FS_Singleton
  <2>2. IsFiniteSet(1 .. n) /\ Cardinality(1 .. n) = n - 1 + 1
    BY FS_Interval
  <2>3. Cardinality(1 .. n) = n
    BY <2>2
  <2>4. IsFiniteSet({l} \X (1 .. n)) /\ Cardinality({l} \X (1 .. n)) = Cardinality({l}) * Cardinality(1 .. n)
    BY <2>1, <2>2, FS_Product
  <2>5. Cardinality({l} \X (1 .. n)) = n
    BY <2>1, <2>3, <2>4
  <2> QED
    BY <2>0, <2>4, <2>5
<1>5. A \cup B = Pieces(found)
  BY DEF Pieces
<1>6. A \cap B = {}
  BY DEF Pieces
<1> HIDE DEF A, B
<1>7. Cardinality(A \cup B) = Cardinality(A) + Cardinality(B) - Cardinality(A \cap B)
  BY <1>3, <1>4, FS_Union
<1>8. Cardinality(A \cap B) = 0
  BY <1>6, FS_EmptySet
<1>9. Logs!Total(found) = Cardinality(Pieces(found))
  BY PiecesFinite
<1> QED
  <2> DEFINE a == Cardinality(A)
             b == Cardinality(B)
             u == Cardinality(A \cup B)
  <2>1. a \in Nat /\ b \in Nat /\ b = l.size /\ u = a + b - Cardinality(A \cap B) /\ Cardinality(A \cap B) = 0
    BY <1>1, <1>3, <1>4, <1>7, <1>8
  <2>2. Logs!Total(found) = u /\ Logs!Total(found \ {l}) = a
    BY <1>3, <1>5, <1>9
  <2> HIDE DEF a, b, u
  <2>3. u = a + b
    BY <2>1
  <2> QED
    BY <2>1, <2>2, <2>3

\* A cleanup that begins, or begins again, with what is there.
LEMMA Lists ==
  ASSUME LogTypes, NEW phase \in {"age", "capacity"}, NEW cutoff \in Nat, NEW remaining,
         remaining = IF phase = "capacity" THEN Logs!Total(Logs!Listing) ELSE 0, NEW r,
         r = Logs!Cleanup(phase, cutoff, Logs!Listing, remaining)
  PROVE  r \in Cleanups /\ OldestGone(r)
<1>1. PICK found : found = Logs!Listing
  OBVIOUS
<1>2. found \in SUBSET Listed /\ IsFiniteSet(found)
  BY <1>1, ListingFits
<1>3. Logs!Total(found) \in Nat
  BY <1>2, PiecesFinite
<1>4. r.phase = phase /\ r.list = found /\ r.done = {} /\ r.remaining = remaining /\ r.list \ r.done = found
  BY <1>1 DEF Logs!Cleanup
<1>5. r \in Cleanups
  BY <1>1, <1>2, <1>3 DEF Cleanups, Logs!Cleanup
<1>6. r.phase = "capacity" => r.remaining = Logs!Total(r.list \ r.done)
  BY <1>1, <1>4
<1> QED
  BY <1>2, <1>4, <1>5, <1>6 DEF OldestGone

LEMMA NoCleanup == Logs!Idle \in Cleanups /\ OldestGone(Logs!Idle)
<1>1. IsFiniteSet({})
  BY FS_EmptySet
<1>2. Logs!Idle = [phase |-> "idle", cutoff |-> 0, list |-> {}, done |-> {}, remaining |-> 0, all |-> TRUE]
  BY DEF Logs!Idle, Logs!Cleanup
<1>3. Logs!Idle.phase # "capacity" /\ Logs!Idle.list = {} /\ Logs!Idle.done = {}
  BY <1>2
<1>4. Logs!Idle \in Cleanups
  BY <1>2 DEF Cleanups
<1> QED
  BY <1>1, <1>3, <1>4 DEF OldestGone

\* The one after r when it has removed l for its age, or to make room.
LEMMA RemovesOld ==
  ASSUME NEW r \in Cleanups, OldestGone(r), r.phase = "age", NEW l \in r.list \ r.done, NEW q,
         q = [r EXCEPT !.done = @ \cup {l}]
  PROVE  q \in Cleanups /\ OldestGone(q)
<1>1. r = [phase |-> r.phase, cutoff |-> r.cutoff, list |-> r.list, done |-> r.done, remaining |-> r.remaining,
           all |-> r.all]
  BY DEF Cleanups
<1>2. l \in Listed
  BY DEF Cleanups
<1>3. q.phase = r.phase /\ q.list = r.list /\ q.done = r.done \cup {l} /\ q \in Cleanups
  BY <1>1, <1>2 DEF Cleanups
<1> QED
  BY <1>3 DEF OldestGone

LEMMA RemovesOldest ==
  ASSUME NEW r \in Cleanups, OldestGone(r), r.phase = "capacity", r.remaining > Capacity,
         NEW l \in Logs!Oldest(r.list \ r.done), NEW E, NEW q,
         q = [r EXCEPT !.done = @ \cup {l}, !.all = @ /\ l.file \in E, !.remaining = IF l.file \in E THEN @ - l.size ELSE @]
  PROVE  q \in Cleanups /\ OldestGone(q)
<1>1. r = [phase |-> r.phase, cutoff |-> r.cutoff, list |-> r.list, done |-> r.done, remaining |-> r.remaining,
           all |-> r.all]
  BY DEF Cleanups
<1>2. PICK left : left = r.list \ r.done
  OBVIOUS
<1>3. l \in left /\ \A k \in left : l.time <= k.time
  BY <1>2 DEF Logs!Oldest
<1>4. l \in Listed /\ l.size \in Nat /\ l.time \in Nat /\ r.remaining \in Int /\ r.all \in BOOLEAN
  BY <1>2, <1>3 DEF Cleanups, Listed
<1>5. /\ q.phase = r.phase /\ q.list = r.list /\ q.done = r.done \cup {l}
      /\ q.all = (r.all /\ l.file \in E) /\ q.remaining = IF l.file \in E THEN r.remaining - l.size ELSE r.remaining
  BY <1>1
<1>6. q \in Cleanups
  <2>1. q = [phase |-> q.phase, cutoff |-> r.cutoff, list |-> q.list, done |-> q.done, remaining |-> q.remaining,
             all |-> q.all]
    BY <1>1
  <2>2. q.done \in SUBSET Listed /\ q.remaining \in Int /\ q.all \in BOOLEAN
    BY <1>4, <1>5 DEF Cleanups
  <2> QED
    BY <1>5, <2>1, <2>2 DEF Cleanups
<1>7. q.list \ q.done = left \ {l}
  BY <1>2, <1>5
<1>8. left \in SUBSET Listed /\ IsFiniteSet(left)
  BY <1>2, FS_Subset DEF OldestGone, Cleanups
<1>9. Logs!Total(left) = Logs!Total(left \ {l}) + l.size /\ Logs!Total(left \ {l}) \in Nat
  <2>1. left \ {l} \in SUBSET Listed /\ IsFiniteSet(left \ {l})
    BY <1>8, FS_Subset
  <2> QED
    BY <1>3, <1>8, <2>1, TotalSplit, PiecesFinite
<1>10. IsFiniteSet(q.list) /\ q.done \subseteq q.list
  BY <1>2, <1>3, <1>5 DEF OldestGone
<1>11. \A d \in q.done : d.time <= l.time /\ \A k \in left \ {l} : d.time <= k.time
  BY <1>2, <1>3, <1>4, <1>5 DEF OldestGone
<1>12. ASSUME q.all
       PROVE  q.remaining = Logs!Total(left \ {l}) /\ Logs!Total(left \ {l}) + l.size > Capacity
  <2>1. r.all /\ l.file \in E
    BY <1>5, <1>12, Zenon
  <2>2. r.remaining = Logs!Total(left)
    BY <1>2, <2>1 DEF OldestGone
  <2>3. q.remaining = r.remaining - l.size
    BY <1>5, <2>1
  <2> QED
    BY <1>4, <1>9, <2>2, <2>3
<1>13. l \in q.done
  BY <1>5
<1> QED
  BY <1>6, <1>7, <1>10, <1>11, <1>12, <1>13 DEF OldestGone

LogsInv == LogInv /\ CleanInv

LEMMA CleanerGoesOn ==
  ASSUME CleanInv, LogTypes, NEW c \in Cleaners, NEW r \in Cleanups, OldestGone(r),
         cleaner' = [cleaner EXCEPT ![c] = r]
  PROVE  cleaner' \in [Cleaners -> Cleanups] /\ CleanInv'
<1>1. cleaner \in [Cleaners -> Cleanups]
  BY DEF LogTypes
<1>2. cleaner' \in [Cleaners -> Cleanups]
  BY <1>1
<1>3. ASSUME NEW k \in Cleaners PROVE OldestGone(cleaner'[k])
  <2>1. CASE k = c
    BY <1>1, <2>1
  <2>2. CASE k # c
    BY <1>1, <2>2 DEF CleanInv
  <2> QED
    BY <2>1, <2>2
<1> QED
  BY <1>2, <1>3 DEF CleanInv

LEMMA ListOldStep ==
  ASSUME LogsInv, NEW c \in Cleaners, Logs!ListOld(c)
  PROVE  LogTypes' /\ LogNext /\ CleanInv'
<1>1. PICK cutoff \in 1 .. entries + 1 : cleaner' = [cleaner EXCEPT ![c] = Logs!Cleanup("age", cutoff, Logs!Listing, 0)]
  BY DEF Logs!ListOld, Logs!Clock
<1>2. LogTypes /\ CleanInv /\ LogInv /\ UNCHANGED <<sessions, log, writer, entries, finished, mixed>>
  BY DEF LogsInv, LogInv, Logs!ListOld, Logs!history
<1>3. PICK r : r = Logs!Cleanup("age", cutoff, Logs!Listing, 0)
  OBVIOUS
<1>4. cutoff \in Nat
  BY <1>2 DEF LogTypes
<1>5. r \in Cleanups /\ OldestGone(r)
  BY <1>2, <1>3, <1>4, Lists
<1>6. cleaner' \in [Cleaners -> Cleanups] /\ CleanInv'
  BY <1>1, <1>2, <1>3, <1>5, CleanerGoesOn
<1> QED
  BY <1>2, <1>6, ListedStep

LEMMA ListAgainStep ==
  ASSUME LogsInv, NEW c \in Cleaners, Logs!ListAgain(c)
  PROVE  LogTypes' /\ LogNext /\ CleanInv'
<1>1. PICK total : total = Logs!Total(Logs!Listing)
  OBVIOUS
<1>2. LogTypes /\ CleanInv /\ LogInv /\ UNCHANGED <<sessions, log, writer, entries, finished, mixed>>
  BY DEF LogsInv, LogInv, Logs!ListAgain, Logs!history
<1>3. PICK r : r = Logs!Cleanup("capacity", 0, Logs!Listing, total)
  OBVIOUS
<1>4. cleaner' = [cleaner EXCEPT ![c] = r]
  BY <1>1, <1>3 DEF Logs!ListAgain
<1>5. r \in Cleanups /\ OldestGone(r)
  BY <1>1, <1>2, <1>3, Lists
<1>6. cleaner' \in [Cleaners -> Cleanups] /\ CleanInv'
  BY <1>2, <1>4, <1>5, CleanerGoesOn
<1> QED
  BY <1>2, <1>6, ListedStep

LEMMA EndCleanStep ==
  ASSUME LogsInv, NEW c \in Cleaners, Logs!EndClean(c)
  PROVE  LogTypes' /\ LogNext /\ CleanInv'
<1>1. /\ LogTypes /\ CleanInv /\ LogInv /\ UNCHANGED <<sessions, log, writer, entries, finished, mixed>>
      /\ cleaner' = [cleaner EXCEPT ![c] = Logs!Idle]
  BY DEF LogsInv, LogInv, Logs!EndClean, Logs!history
<1>2. cleaner' \in [Cleaners -> Cleanups] /\ CleanInv'
  BY <1>1, NoCleanup, CleanerGoesOn
<1> QED
  BY <1>1, <1>2, ListedStep

LEMMA RemoveOldStep ==
  ASSUME LogsInv, NEW c \in Cleaners, Logs!RemoveOld(c)
  PROVE  LogTypes' /\ LogNext /\ CleanInv'
<1>1. PICK r : r = cleaner[c]
  OBVIOUS
<1>2. LogTypes /\ CleanInv /\ LogInv /\ r \in Cleanups /\ OldestGone(r)
  BY <1>1 DEF LogsInv, LogInv, LogTypes, CleanInv
<1>3. r.phase = "age"
  BY <1>1 DEF Logs!RemoveOld
<1>4. PICK l \in r.list \ r.done : Logs!RemoveFile(l) /\ cleaner' = [cleaner EXCEPT ![c].done = @ \cup {l}]
  BY <1>1 DEF Logs!RemoveOld, Logs!Left
<1>5. PICK q : q = [r EXCEPT !.done = @ \cup {l}]
  OBVIOUS
<1>6. cleaner' = [cleaner EXCEPT ![c] = q]
  BY <1>1, <1>4, <1>5
<1>7. q \in Cleanups /\ OldestGone(q)
  BY <1>2, <1>3, <1>5, RemovesOld
<1>8. cleaner' \in [Cleaners -> Cleanups] /\ CleanInv'
  BY <1>2, <1>6, <1>7, CleanerGoesOn
<1>9. l \in Listed
  BY <1>2 DEF Cleanups
<1> QED
  BY <1>2, <1>4, <1>8, <1>9, RemoveFileStep

LEMMA RemoveOldestStep ==
  ASSUME LogsInv, NEW c \in Cleaners, Logs!RemoveOldest(c)
  PROVE  LogTypes' /\ LogNext /\ CleanInv'
<1>1. PICK r : r = cleaner[c]
  OBVIOUS
<1>2. LogTypes /\ CleanInv /\ LogInv /\ r \in Cleanups /\ OldestGone(r)
  BY <1>1 DEF LogsInv, LogInv, LogTypes, CleanInv
<1>3. r.phase = "capacity" /\ r.remaining > Capacity
  BY <1>1 DEF Logs!RemoveOldest
<1>4. PICK l \in Logs!Oldest(r.list \ r.done) :
        /\ Logs!RemoveFile(l)
        /\ cleaner' = [cleaner EXCEPT ![c].done = @ \cup {l}, ![c].all = @ /\ l.file \in Logs!Existing,
                                       ![c].remaining = IF l.file \in Logs!Existing THEN @ - l.size ELSE @]
  BY <1>1 DEF Logs!RemoveOldest, Logs!Left
<1>5. PICK E : E = Logs!Existing
  OBVIOUS
<1>6. PICK q : q = [r EXCEPT !.done = @ \cup {l}, !.all = @ /\ l.file \in E,
                            !.remaining = IF l.file \in E THEN @ - l.size ELSE @]
  OBVIOUS
<1>7. cleaner' = [cleaner EXCEPT ![c] = q]
  BY <1>1, <1>4, <1>5, <1>6
<1>8. q \in Cleanups /\ OldestGone(q)
  BY <1>2, <1>3, <1>6, RemovesOldest
<1>9. cleaner' \in [Cleaners -> Cleanups] /\ CleanInv'
  BY <1>2, <1>7, <1>8, CleanerGoesOn
<1>10. l \in Listed
  BY <1>2 DEF Cleanups, Logs!Oldest
<1> QED
  BY <1>2, <1>4, <1>9, <1>10, RemoveFileStep

LEMMA SessionStep ==
  ASSUME LogInv, NEW w \in Logs!Writers,
         (\E t \in Tasks : Logs!ResolveSession(w, t)) \/ Logs!ResumeChat(w) \/ Logs!EndReply(w)
  PROVE  LogTypes' /\ LogNext
<1>1. LogTypes /\ MaxSessions \in Nat
  BY ConversationLogAssumption DEF LogInv, Logs!ConversationLogAssumption
<1>2. PICK f : f = writer[w].file
  OBVIOUS
<1>3. w \notin Logs!Halfway(f)
  BY DEF Logs!ResolveSession, Logs!ResumeChat, Logs!EndReply, Logs!At, Logs!Halfway
<1>4. PICK m \in WriterStates : m.pc \in {"idle", "ready"} /\ writer' = [writer EXCEPT ![w] = m]
  <2>1. Logs!Return(w) \/ \E g \in Logs!Files : Logs!Start(w, g)
    <3>1. CASE Logs!ResumeChat(w)
      BY <3>1 DEF Logs!ResumeChat, Logs!Files
    <3>2. CASE Logs!EndReply(w)
      BY <3>2 DEF Logs!EndReply
    <3>3. ASSUME NEW t \in Tasks, Logs!ResolveSession(w, t) PROVE \E g \in Logs!Files : Logs!Start(w, g)
      <4>1. \A n \in 1 .. MaxSessions : Logs!GooseId(n) \in Logs!Files
        BY DEF Logs!Files
      <4>2. Len(sessions) \in Nat /\ Len(sessions) <= MaxSessions /\ DOMAIN sessions = 1 .. Len(sessions)
        BY <1>1, LenProperties DEF LogTypes
      <4>3. CASE \E n \in Logs!NewestNamed(t) : Logs!Start(w, Logs!GooseId(n))
        BY <1>1, <4>1, <4>2, <4>3 DEF Logs!NewestNamed
      <4>4. CASE Len(sessions) < MaxSessions /\ Logs!Start(w, Logs!GooseId(Len(sessions) + 1))
        BY <1>1, <4>1, <4>2, <4>4
      <4> QED
        BY <3>3, <4>3, <4>4 DEF Logs!ResolveSession
    <3> QED
      BY <3>1, <3>2, <3>3
  <2>2. Logs!Operators \in Logs!Files
    BY DEF Logs!Files
  <2> QED
    BY <2>1, <2>2, Rests
<1>5. UNCHANGED <<log, cleaner, entries, finished, mixed>>
  BY DEF Logs!ResolveSession, Logs!ResumeChat, Logs!EndReply, Logs!history
<1>6. sessions' \in Seq(Tasks) /\ Len(sessions') <= MaxSessions
  <2>1. sessions \in Seq(Tasks) /\ Len(sessions) <= MaxSessions /\ Len(sessions) \in Nat
    BY <1>1, LenProperties DEF LogTypes
  <2>2. CASE sessions' = sessions
    BY <2>1, <2>2
  <2>3. ASSUME NEW t \in Tasks, sessions' = Append(sessions, t), Len(sessions) < MaxSessions
        PROVE  sessions' \in Seq(Tasks) /\ Len(sessions') <= MaxSessions
    <3>1. Append(sessions, t) \in Seq(Tasks) /\ Len(Append(sessions, t)) = Len(sessions) + 1
      BY <2>1, AppendProperties
    <3> QED
      BY <1>1, <2>1, <2>3, <3>1
  <2> QED
    BY <2>2, <2>3 DEF Logs!ResolveSession, Logs!ResumeChat, Logs!EndReply
<1>7. w \notin Logs!Halfway(writer[w].file) /\ m.pc # "open" /\ m.pc # "half"
  BY <1>2, <1>3, <1>4
<1> QED
  BY <1>1, <1>4, <1>5, <1>6, <1>7, Aside

LEMMA LogsStep ==
  ASSUME LogsInv, Logs!Next
  PROVE  LogsInv'
<1>1. LogInv /\ CleanInv
  BY DEF LogsInv
<1>2. ASSUME NEW w \in Logs!Writers,
             \/ \E t \in Tasks : Logs!ResolveSession(w, t)
             \/ Logs!ResumeChat(w) \/ Logs!OpenLog(w) \/ Logs!WriteEntry(w) \/ Logs!WriteNewline(w) \/ Logs!Tear(w)
             \/ Logs!EndReply(w)
      PROVE  LogTypes' /\ LogNext /\ CleanInv'
  <2>1. cleaner' = cleaner
    BY <1>2 DEF Logs!ResolveSession, Logs!ResumeChat, Logs!OpenLog, Logs!WriteEntry, Logs!WriteNewline, Logs!Tear,
                Logs!EndReply
  <2>2. CleanInv'
    BY <1>1, <2>1 DEF CleanInv
  <2>3. LogTypes' /\ LogNext
    BY <1>1, <1>2, SessionStep, OpenStep, WriteEntryStep, WriteNewlineStep, TearStep
  <2> QED
    BY <2>2, <2>3
<1>3. ASSUME NEW c \in Cleaners,
             \/ Logs!ListOld(c) \/ Logs!RemoveOld(c) \/ Logs!ListAgain(c) \/ Logs!RemoveOldest(c)
             \/ Logs!EndClean(c)
      PROVE  LogTypes' /\ LogNext /\ CleanInv'
  BY <1>3, ListOldStep, RemoveOldStep, ListAgainStep, RemoveOldestStep, EndCleanStep
<1>4. LogTypes' /\ LogNext /\ CleanInv'
  BY <1>2, <1>3 DEF Logs!Next
<1> QED
  BY <1>4 DEF LogsInv, LogInv, LogNext

LEMMA LogsStart == ASSUME HomeInit PROVE LogsInv
<1>1. /\ sessions = <<>> /\ log = [f \in Logs!Files |-> Logs!NoFile] /\ writer = [w \in Logs!Writers |-> Logs!Quiet]
      /\ cleaner = [c \in Cleaners |-> Logs!Idle] /\ entries = 0 /\ finished = [f \in Logs!Files |-> <<>>]
      /\ mixed = {} /\ MaxSessions \in Nat
  BY ConversationLogAssumption DEF HomeInit, HostInit, Logs!Init, Logs!ConversationLogAssumption
<1>2. Logs!NoFile \in LogFiles /\ Logs!NoFile.gen = 0
  BY DEF Logs!NoFile, LogFiles
<1>3. Logs!Quiet \in WriterStates /\ Logs!Quiet.pc = "idle"
  BY DEF Logs!Quiet, WriterStates, Logs!Files
<1>4. sessions \in Seq(Tasks) /\ Len(sessions) <= MaxSessions
  BY <1>1
<1>5. LogTypes
  BY <1>1, <1>2, <1>3, <1>4, NoCleanup DEF LogTypes
<1>6. GenerationsInv
  BY <1>1, <1>2, <1>3 DEF GenerationsInv
<1>7. \A f \in Logs!Files : log[f].gen = 0
  BY <1>1, <1>2
<1>8. CleanInv
  BY <1>1, NoCleanup DEF CleanInv
<1> QED
  BY <1>5, <1>6, <1>7, <1>8 DEF LogsInv, LogInv

LEMMA LogsKept ==
  ASSUME LogsInv, [HomeNext]_host
  PROVE  LogsInv'
<1>1. CASE Logs!Next
  BY <1>1, LogsStep
<1>2. CASE UNCHANGED logs
  <2>1. UNCHANGED <<sessions, log, writer, cleaner, entries, finished, mixed>>
    BY <1>2 DEF logs
  <2>2. LogTypes /\ LogInv /\ CleanInv /\ cleaner \in [Cleaners -> Cleanups]
    BY DEF LogsInv, LogInv, LogTypes
  <2>3. LogTypes' /\ LogNext
    BY <2>1, <2>2, ListedStep
  <2>4. CleanInv'
    BY <2>1, <2>2 DEF CleanInv
  <2> QED
    BY <2>3, <2>4 DEF LogsInv, LogInv, LogNext
<1> QED
  BY <1>1, <1>2 DEF HomeNext, host

\* What a log reads as, for every number of entries, of writers and of cleanups, as
\* long as no entry of it was torn or written across another (io.rs:77, 88, 105).
THEOREM LogsRead == HomeSpec => []LogComplete
<1>1. HomeInit => LogsInv
  BY LogsStart
<1>2. LogsInv /\ [HomeNext]_host => LogsInv'
  BY LogsKept
<1>3. ASSUME LogsInv PROVE LogComplete
  <2>1. ASSUME NEW f \in Logs!Existing \ mixed
        PROVE  /\ Logs!Halfway(f) = {} => Logs!Readable(log[f].pieces) = finished[f]
               /\ \A w \in Logs!Halfway(f) :
                    Logs!Readable(log[f].pieces) = Append(finished[f], writer[w].entry)
    <3>1. f \in Logs!Files \ mixed /\ log[f].gen # 0
      BY DEF Logs!Existing
    <3>2. LogTypes /\ HoldsLines(f)
      BY <1>3, <3>1 DEF LogsInv, LogInv
    <3>3. log[f].pieces \in Seq(Nat) /\ finished[f] \in Seq(Nat \ {0})
      BY <3>1, <3>2 DEF LogTypes, LogFiles
    <3>4. CASE Logs!Halfway(f) = {}
      <4>1. WholeLog(log[f].pieces, finished[f])
        BY <3>2, <3>4 DEF HoldsLines
      <4> QED
        BY <3>3, <3>4, <4>1, ReadsWhole
    <3>5. ASSUME NEW w \in Logs!Halfway(f)
          PROVE  Logs!Readable(log[f].pieces) = Append(finished[f], writer[w].entry)
      <4>1. BegunLog(log[f].pieces, finished[f], writer[w].entry)
        BY <3>2, <3>5 DEF HoldsLines
      <4>2. writer[w].entry \in Nat \ {0}
        BY <1>3, <3>2 DEF LogTypes, WriterStates, Logs!Halfway, Logs!At, LogsInv, LogInv, GenerationsInv
      <4> QED
        BY <3>3, <4>1, <4>2, ReadsBegun
    <3> QED
      BY <3>4, <3>5
  <2> QED
    BY <2>1 DEF LogComplete, Logs!LogComplete
<1> QED
  BY <1>1, <1>2, <1>3, PTL DEF HomeSpec

\* What a cleanup leaves, however many logs there are and whatever is done to them
\* while it runs (retention.rs:63).
THEOREM CapacityIsKept == HomeSpec => []CapacityKept
<1>1. HomeInit => LogsInv
  BY LogsStart
<1>2. LogsInv /\ [HomeNext]_host => LogsInv'
  BY LogsKept
<1>3. ASSUME LogsInv PROVE CapacityKept
  <2>1. ASSUME NEW c \in Cleaners, Logs!Cleaned(c), cleaner[c].all
        PROVE  /\ Logs!Listing = Logs!Left(c) => Logs!Total(Logs!Listing) <= Capacity
               /\ cleaner[c].done # {} => \E l \in cleaner[c].done :
                    /\ Logs!Total(Logs!Left(c)) + l.size > Capacity
                    /\ \A k \in Logs!Left(c), d \in cleaner[c].done : d.time <= l.time /\ l.time <= k.time
    <3>1. PICK r : r = cleaner[c]
      OBVIOUS
    <3>2. PICK left : left = Logs!Left(c)
      OBVIOUS
    <3>3. r \in Cleanups /\ OldestGone(r) /\ left = r.list \ r.done /\ Capacity \in Nat
      BY <1>3, <3>1, <3>2, ConversationLogAssumption
         DEF LogsInv, LogInv, LogTypes, CleanInv, Logs!Left, Logs!ConversationLogAssumption
    <3>4. r.phase = "capacity" /\ (r.remaining <= Capacity \/ left = {}) /\ r.all
      BY <2>1, <3>1, <3>2 DEF Logs!Cleaned
    <3>5. r.remaining = Logs!Total(left)
      BY <3>3, <3>4 DEF OldestGone
    <3>6. Logs!Total({}) = 0
      <4>1. IsFiniteSet({}) /\ Cardinality({}) = 0
        BY FS_EmptySet
      <4>2. Pieces({}) = {}
        BY DEF Pieces
      <4>3. Logs!Total({}) = Cardinality(Pieces({}))
        BY <4>1, PiecesFinite
      <4> QED
        BY <4>1, <4>2, <4>3
    <3>7. Logs!Total(left) <= Capacity
      BY <3>3, <3>4, <3>5, <3>6
    <3>8. ASSUME r.done # {}
          PROVE  \E l \in r.done : /\ Logs!Total(left) + l.size > Capacity
                                   /\ \A k \in left, d \in r.done : d.time <= l.time /\ l.time <= k.time
      BY <3>3, <3>4, <3>8 DEF OldestGone
    <3> QED
      BY <3>1, <3>2, <3>7, <3>8
  <2> QED
    BY <2>1 DEF CapacityKept, Logs!CapacityKept
<1> QED
  BY <1>1, <1>2, <1>3, PTL DEF HomeSpec

-----------------------------------------------------------------------------
(* FuseFs: the inode table.                                                *)

InodeEntries == [path : Seq(Names), refs : Nat \ {0}]

\* The two maps of a table are inverse to each other, the root is in it, and the next
\* id n is above all it has.
MapsOK(I, P, n) ==
  /\ n \in Nat /\ DOMAIN I \subseteq 1 .. n - 1
  /\ I \in [DOMAIN I -> InodeEntries]
  /\ Root \in DOMAIN I /\ I[Root].path = Top
  /\ P \in [DOMAIN P -> DOMAIN I]
  /\ \A i \in DOMAIN I : I[i].path \in DOMAIN P /\ P[I[i].path] = i
  /\ \A p \in DOMAIN P : I[P[p]].path = p

Tables ==
  [inodes : UNION {[S -> InodeEntries] : S \in SUBSET Nat}, nextIno : Nat,
   pathIno : UNION {[S -> Nat] : S \in SUBSET Seq(Names)}]
TableOf(I, P, n) == [inodes |-> I, nextIno |-> n, pathIno |-> P]
TableOK(t) == t = TableOf(t.inodes, t.pathIno, t.nextIno) /\ MapsOK(t.inodes, t.pathIno, t.nextIno)

RefsIn(I, i) == IF i \in DOMAIN I THEN I[i].refs ELSE 0

\* The maps J and Q are I and P after a lookup of the path p.
Gains(I, P, n, J, Q, p) ==
  /\ p \in DOMAIN Q /\ Q[p] \in DOMAIN I \cup {n}
  /\ DOMAIN J = DOMAIN I \cup {Q[p]}
  /\ \A i \in DOMAIN I : J[i].path = I[i].path
  /\ \A q \in DOMAIN P : q \in DOMAIN Q /\ Q[q] = P[q]
  /\ \A i \in Nat : RefsIn(J, i) = RefsIn(I, i) + (IF i = Q[p] THEN 1 ELSE 0)

\* J is I after a FORGET of c references of ino.
Loses(I, J, ino, c) ==
  /\ DOMAIN J \subseteq DOMAIN I
  /\ \A i \in DOMAIN J : J[i].path = I[i].path
  /\ \A i \in Nat \ {ino} : RefsIn(J, i) = RefsIn(I, i)
  /\ ino # Root => RefsIn(J, ino) = IF RefsIn(I, ino) > c THEN RefsIn(I, ino) - c ELSE 0

\* Another number of references.
Recounted(I, J, i, r) ==
  /\ DOMAIN J = DOMAIN I /\ J \in [DOMAIN I -> InodeEntries]
  /\ J[i].path = I[i].path /\ J[i].refs = r
  /\ \A j \in DOMAIN I \ {i} : J[j] = I[j]

LEMMA Recount ==
  ASSUME NEW I, I \in [DOMAIN I -> InodeEntries], NEW i \in DOMAIN I, NEW r \in Nat \ {0}
  PROVE  Recounted(I, [I EXCEPT ![i].refs = r], i, r)
<1>0. PICK J : J = [I EXCEPT ![i].refs = r]
  OBVIOUS
<1>1. PICK e : e = I[i]
  OBVIOUS
<1>2. e \in InodeEntries
  BY <1>1
<1>3. PICK g : g = [path |-> e.path, refs |-> r]
  OBVIOUS
<1>4. g \in InodeEntries /\ g.path = e.path /\ g.refs = r
  BY <1>2, <1>3 DEF InodeEntries
<1>5. g = [e EXCEPT !.refs = r]
  BY <1>2, <1>3 DEF InodeEntries
<1>6. J = [I EXCEPT ![i] = g]
  BY <1>0, <1>1, <1>5
<1>7. DOMAIN J = DOMAIN I /\ J \in [DOMAIN I -> InodeEntries] /\ J[i] = g /\ \A j \in DOMAIN I \ {i} : J[j] = I[j]
  BY <1>4, <1>6
<1> QED
  BY <1>0, <1>1, <1>4, <1>7 DEF Recounted

LEMMA Recounts ==
  ASSUME NEW I, NEW P, NEW n, MapsOK(I, P, n), NEW i \in DOMAIN I, NEW r, NEW J, Recounted(I, J, i, r)
  PROVE  /\ MapsOK(J, P, n) /\ DOMAIN J = DOMAIN I /\ \A j \in DOMAIN I : J[j].path = I[j].path
         /\ \A j \in Nat : RefsIn(J, j) = IF j = i THEN r ELSE RefsIn(I, j)
<1>7. /\ DOMAIN J = DOMAIN I /\ J \in [DOMAIN I -> InodeEntries] /\ J[i].path = I[i].path /\ J[i].refs = r
      /\ \A j \in DOMAIN I \ {i} : J[j] = I[j]
  BY DEF Recounted
<1>8. \A j \in DOMAIN I : J[j].path = I[j].path
  BY <1>7
<1>9. MapsOK(J, P, n)
  <2>1. \A p \in DOMAIN P : P[p] \in DOMAIN I
    BY DEF MapsOK
  <2> QED
    BY <1>7, <1>8, <2>1 DEF MapsOK
<1>10. \A j \in Nat : RefsIn(J, j) = IF j = i THEN r ELSE RefsIn(I, j)
  BY <1>7 DEF RefsIn
<1> QED
  BY <1>7, <1>8, <1>9, <1>10

LEMMA EntryMade ==
  ASSUME NEW I, NEW P, NEW n, MapsOK(I, P, n), NEW p \in Seq(Names), p \notin DOMAIN P, NEW e,
         e = [path |-> p, refs |-> 1], NEW J, J = Put(I, n, e), NEW Q, Q = Put(P, p, n)
  PROVE  MapsOK(J, Q, n + 1) /\ Gains(I, P, n, J, Q, p)
<1>1. e \in InodeEntries /\ e.path = p /\ e.refs = 1
  BY DEF InodeEntries
<1>2. /\ I \in [DOMAIN I -> InodeEntries] /\ DOMAIN I \subseteq 1 .. n - 1 /\ n \in Nat
      /\ Root \in DOMAIN I /\ I[Root].path = Top /\ P \in [DOMAIN P -> DOMAIN I]
  BY DEF MapsOK
<1>3. /\ \A i \in DOMAIN I : I[i].path \in DOMAIN P /\ P[I[i].path] = i
      /\ \A q \in DOMAIN P : I[P[q]].path = q
  BY DEF MapsOK
<1>4. n \notin DOMAIN I /\ n \in 1 .. (n + 1) - 1 /\ DOMAIN I \subseteq 1 .. (n + 1) - 1
  BY <1>2 DEF Root
<1>5. DOMAIN J = DOMAIN I \cup {n} /\ J[n] = e /\ \A i \in DOMAIN I : J[i] = I[i]
  BY <1>4 DEF Put
<1>6. J \in [DOMAIN I \cup {n} -> InodeEntries]
  BY <1>1, <1>2 DEF Put
<1>7. DOMAIN Q = DOMAIN P \cup {p} /\ Q[p] = n /\ \A q \in DOMAIN P : Q[q] = P[q]
  BY DEF Put
<1>8. Q \in [DOMAIN P \cup {p} -> DOMAIN I \cup {n}]
  BY <1>2 DEF Put
<1>9. MapsOK(J, Q, n + 1)
  <2>1. ASSUME NEW i \in DOMAIN J PROVE J[i].path \in DOMAIN Q /\ Q[J[i].path] = i
    <3>1. CASE i = n
      BY <1>1, <1>5, <1>7, <3>1
    <3>2. CASE i \in DOMAIN I
      BY <1>3, <1>5, <1>7, <3>2
    <3> QED
      BY <1>5, <3>1, <3>2
  <2>2. ASSUME NEW q \in DOMAIN Q PROVE J[Q[q]].path = q
    <3>1. CASE q = p
      BY <1>1, <1>5, <1>7, <3>1
    <3>2. CASE q \in DOMAIN P
      BY <1>2, <1>3, <1>5, <1>7, <3>2
    <3> QED
      BY <1>7, <3>1, <3>2
  <2>3. n + 1 \in Nat /\ DOMAIN J \subseteq 1 .. (n + 1) - 1
    BY <1>2, <1>4, <1>5
  <2>4. Root \in DOMAIN J /\ J[Root].path = Top
    BY <1>2, <1>5
  <2> QED
    BY <1>5, <1>6, <1>7, <1>8, <2>1, <2>2, <2>3, <2>4 DEF MapsOK
<1>10. ASSUME NEW j \in Nat PROVE RefsIn(J, j) = RefsIn(I, j) + (IF j = Q[p] THEN 1 ELSE 0)
  BY <1>1, <1>2, <1>4, <1>5, <1>7 DEF RefsIn, InodeEntries
<1> QED
  BY <1>5, <1>7, <1>9, <1>10 DEF Gains

LEMMA EntryDropped ==
  ASSUME NEW I, NEW P, NEW n, MapsOK(I, P, n), NEW ino \in DOMAIN I \ {Root}, NEW J, NEW Q,
         J = Restrict(I, DOMAIN I \ {ino}), Q = Restrict(P, DOMAIN P \ {I[ino].path})
  PROVE  MapsOK(J, Q, n) /\ DOMAIN J = DOMAIN I \ {ino} /\ \A i \in DOMAIN J : J[i] = I[i]
<1>1. PICK p : p = I[ino].path
  OBVIOUS
<1>2. /\ I \in [DOMAIN I -> InodeEntries] /\ DOMAIN I \subseteq 1 .. n - 1 /\ n \in Nat
      /\ Root \in DOMAIN I /\ I[Root].path = Top /\ P \in [DOMAIN P -> DOMAIN I]
  BY DEF MapsOK
<1>3. /\ \A i \in DOMAIN I : I[i].path \in DOMAIN P /\ P[I[i].path] = i
      /\ \A q \in DOMAIN P : I[P[q]].path = q
  BY DEF MapsOK
<1>4. DOMAIN J = DOMAIN I \ {ino} /\ \A j \in DOMAIN J : J[j] = I[j]
  BY DEF Restrict
<1>5. J \in [DOMAIN J -> InodeEntries] /\ Root \in DOMAIN J
  BY <1>2, <1>4 DEF Restrict
<1>6. DOMAIN Q = DOMAIN P \ {p} /\ \A q \in DOMAIN Q : Q[q] = P[q]
  BY <1>1 DEF Restrict
<1>7. p \in DOMAIN P /\ P[p] = ino /\ \A q \in DOMAIN P \ {p} : P[q] # ino
  BY <1>1, <1>3
<1>8. Q \in [DOMAIN Q -> DOMAIN J]
  <2>1. \A q \in DOMAIN Q : Q[q] \in DOMAIN J
    BY <1>2, <1>4, <1>6, <1>7
  <2>2. Q = [q \in DOMAIN Q |-> Q[q]]
    BY <1>1, <1>6 DEF Restrict
  <2> QED
    BY <2>1, <2>2
<1>9. ASSUME NEW i \in DOMAIN J PROVE J[i].path \in DOMAIN Q /\ Q[J[i].path] = i
  <2>1. i \in DOMAIN I /\ i # ino /\ J[i] = I[i]
    BY <1>4
  <2>2. I[i].path \in DOMAIN P /\ P[I[i].path] = i /\ I[i].path # p
    BY <1>3, <1>7, <2>1
  <2> QED
    BY <1>6, <2>1, <2>2
<1>10. ASSUME NEW q \in DOMAIN Q PROVE J[Q[q]].path = q
  <2>1. PICK i : i = P[q]
    OBVIOUS
  <2>2. q \in DOMAIN P /\ Q[q] = i /\ i \in DOMAIN J
    BY <1>6, <1>8, <2>1
  <2>3. I[i].path = q /\ J[i] = I[i]
    BY <1>3, <1>4, <2>1, <2>2
  <2> QED
    BY <2>2, <2>3
<1>11. DOMAIN J \subseteq 1 .. n - 1 /\ J[Root].path = Top
  BY <1>2, <1>4, <1>5
<1> QED
  BY <1>2, <1>4, <1>5, <1>8, <1>9, <1>10, <1>11 DEF MapsOK

\* What the operations do to a table.
LookedUp(t, u, p) ==
  /\ TableOK(u) /\ Gains(t.inodes, t.pathIno, t.nextIno, u.inodes, u.pathIno, p)
  /\ u.nextIno \in {t.nextIno, t.nextIno + 1}
  /\ u.pathIno[p] = t.nextIno => u.nextIno = t.nextIno + 1

Forgotten(t, u, ino, c) ==
  TableOK(u) /\ Loses(t.inodes, u.inodes, ino, c) /\ u.nextIno = t.nextIno

LEMMA LooksUp ==
  ASSUME NEW t, TableOK(t), NEW parent \in DOMAIN t.inodes, NEW name \in Names, NEW p,
         p = Append(t.inodes[parent].path, name)
  PROVE  LookedUp(t, LookupIn(t, parent, name), p)
<1>1. PICK u : u = LookupIn(t, parent, name)
  OBVIOUS
<1>2. PICK I : I = t.inodes
  OBVIOUS
<1>3. PICK P : P = t.pathIno
  OBVIOUS
<1>4. PICK n : n = t.nextIno
  OBVIOUS
<1>5. MapsOK(I, P, n) /\ n \in Nat /\ DOMAIN I \subseteq 1 .. n - 1
  BY <1>2, <1>3, <1>4 DEF TableOK, MapsOK
<1>6. p \in Seq(Names)
  <2>1. I[parent] \in InodeEntries
    BY <1>2, <1>5 DEF MapsOK
  <2>2. I[parent].path \in Seq(Names)
    BY <2>1 DEF InodeEntries
  <2> QED
    BY <1>2, <2>2
<1>7. CASE p \in DOMAIN P
  <2>1. PICK i : i = P[p]
    OBVIOUS
  <2>2. i \in DOMAIN I /\ I[i] \in InodeEntries
    BY <1>5, <1>7, <2>1 DEF MapsOK
  <2>3. PICK r \in Nat \ {0} : r = I[i].refs + 1
    BY <2>2 DEF InodeEntries
  <2>4. PICK J : J = [I EXCEPT ![i].refs = r]
    OBVIOUS
  <2>5. u = [t EXCEPT !.inodes = J]
    BY <1>1, <1>2, <1>3, <1>7, <2>1, <2>3, <2>4 DEF LookupIn
  <2>6. u = TableOf(J, P, n) /\ u.inodes = J /\ u.pathIno = P /\ u.nextIno = n
    BY <1>2, <1>3, <1>4, <2>5 DEF TableOK, TableOf
  <2>7. /\ MapsOK(J, P, n) /\ DOMAIN J = DOMAIN I /\ \A j \in DOMAIN I : J[j].path = I[j].path
        /\ \A j \in Nat : RefsIn(J, j) = IF j = i THEN r ELSE RefsIn(I, j)
    <3>1. I \in [DOMAIN I -> InodeEntries]
      BY <1>5 DEF MapsOK
    <3>2. Recounted(I, J, i, r)
      BY <2>2, <2>3, <2>4, <3>1, Recount
    <3> QED
      BY <1>5, <2>2, <3>2, Recounts
  <2>8. \A j \in Nat : RefsIn(J, j) = RefsIn(I, j) + (IF j = P[p] THEN 1 ELSE 0)
    <3>1. RefsIn(I, i) = I[i].refs
      BY <2>2 DEF RefsIn
    <3>2. \A j \in Nat : RefsIn(I, j) \in Nat
      BY <1>5 DEF RefsIn, MapsOK, InodeEntries
    <3>3. ASSUME NEW j \in Nat PROVE RefsIn(J, j) = RefsIn(I, j) + (IF j = P[p] THEN 1 ELSE 0)
      <4>1. CASE j = i
        BY <2>1, <2>3, <2>7, <3>1, <4>1
      <4>2. CASE j # i
        BY <2>1, <2>7, <3>2, <4>2
      <4> QED
        BY <4>1, <4>2
    <3> QED
      BY <3>3
  <2>9. Gains(I, P, n, J, P, p)
    BY <1>7, <2>1, <2>2, <2>7, <2>8 DEF Gains
  <2>10. TableOK(u)
    BY <2>6, <2>7 DEF TableOK
  <2>11. P[p] # n
    BY <1>5, <2>1, <2>2
  <2> QED
    BY <1>1, <1>2, <1>3, <1>4, <2>6, <2>9, <2>10, <2>11 DEF LookedUp
<1>8. CASE p \notin DOMAIN P
  <2>1. PICK e : e = [path |-> p, refs |-> 1]
    OBVIOUS
  <2>2. PICK J : J = Put(I, n, e)
    OBVIOUS
  <2>3. PICK Q : Q = Put(P, p, n)
    OBVIOUS
  <2>4. u = [inodes |-> J, nextIno |-> n + 1, pathIno |-> Q]
    BY <1>1, <1>2, <1>3, <1>4, <1>8, <2>1, <2>2, <2>3 DEF LookupIn
  <2>5. u = TableOf(J, Q, n + 1) /\ u.inodes = J /\ u.pathIno = Q /\ u.nextIno = n + 1
    BY <2>4 DEF TableOf
  <2>6. MapsOK(J, Q, n + 1) /\ Gains(I, P, n, J, Q, p)
    BY <1>5, <1>6, <1>8, <2>1, <2>2, <2>3, EntryMade
  <2>7. TableOK(u)
    BY <2>5, <2>6 DEF TableOK
  <2> QED
    BY <1>1, <1>2, <1>3, <1>4, <2>5, <2>6, <2>7 DEF LookedUp
<1> QED
  BY <1>7, <1>8

LEMMA Forgets ==
  ASSUME NEW t, TableOK(t), NEW ino \in Nat, NEW c \in Nat
  PROVE  Forgotten(t, ForgetIn(t, ino, c), ino, c)
<1>1. PICK u : u = ForgetIn(t, ino, c)
  OBVIOUS
<1>2. PICK I : I = t.inodes
  OBVIOUS
<1>3. PICK P : P = t.pathIno
  OBVIOUS
<1>4. PICK n : n = t.nextIno
  OBVIOUS
<1>5. MapsOK(I, P, n) /\ I \in [DOMAIN I -> InodeEntries]
  BY <1>2, <1>3, <1>4 DEF TableOK, MapsOK
<1>6. CASE ino = Root \/ ino \notin DOMAIN I
  <2>1. u = t
    BY <1>1, <1>2, <1>6 DEF ForgetIn
  <2>2. ino # Root => RefsIn(I, ino) = 0
    BY <1>6 DEF RefsIn
  <2>3. Loses(I, I, ino, c)
    BY <2>2 DEF Loses
  <2> QED
    BY <1>1, <1>2, <2>1, <2>3 DEF Forgotten
<1>7. CASE ino # Root /\ ino \in DOMAIN I /\ I[ino].refs > c
  <2>1. PICK r \in Nat \ {0} : r = I[ino].refs - c
    BY <1>5, <1>7 DEF InodeEntries
  <2>2. PICK J : J = [I EXCEPT ![ino].refs = r]
    OBVIOUS
  <2>3. u = [t EXCEPT !.inodes = J]
    BY <1>1, <1>2, <1>7, <2>1, <2>2 DEF ForgetIn
  <2>4. u = TableOf(J, P, n) /\ u.inodes = J /\ u.pathIno = P /\ u.nextIno = n
    BY <1>2, <1>3, <1>4, <2>3 DEF TableOK, TableOf
  <2>5. /\ MapsOK(J, P, n) /\ DOMAIN J = DOMAIN I /\ \A j \in DOMAIN I : J[j].path = I[j].path
        /\ \A j \in Nat : RefsIn(J, j) = IF j = ino THEN r ELSE RefsIn(I, j)
    <3>1. Recounted(I, J, ino, r)
      BY <1>5, <1>7, <2>1, <2>2, Recount
    <3> QED
      BY <1>5, <1>7, <3>1, Recounts
  <2>6. RefsIn(I, ino) = I[ino].refs
    BY <1>7 DEF RefsIn
  <2>7. Loses(I, J, ino, c)
    BY <1>7, <2>1, <2>5, <2>6 DEF Loses
  <2>8. TableOK(u)
    BY <2>4, <2>5 DEF TableOK
  <2> QED
    BY <1>1, <1>2, <1>4, <2>4, <2>7, <2>8 DEF Forgotten
<1>8. CASE ino # Root /\ ino \in DOMAIN I /\ ~(I[ino].refs > c)
  <2>1. PICK J : J = Restrict(I, DOMAIN I \ {ino})
    OBVIOUS
  <2>2. PICK Q : Q = Restrict(P, DOMAIN P \ {I[ino].path})
    OBVIOUS
  <2>3. u = [t EXCEPT !.inodes = J, !.pathIno = Q]
    BY <1>1, <1>2, <1>3, <1>8, <2>1, <2>2 DEF ForgetIn
  <2>4. u = TableOf(J, Q, n) /\ u.inodes = J /\ u.pathIno = Q /\ u.nextIno = n
    BY <1>2, <1>3, <1>4, <2>3 DEF TableOK, TableOf
  <2>5. MapsOK(J, Q, n) /\ DOMAIN J = DOMAIN I \ {ino} /\ \A i \in DOMAIN J : J[i] = I[i]
    <3>1. ino \in DOMAIN I \ {Root}
      BY <1>8
    <3> QED
      BY <1>5, <2>1, <2>2, <3>1, EntryDropped
  <2>6. Loses(I, J, ino, c)
    <3>1. RefsIn(J, ino) = 0 /\ RefsIn(I, ino) = I[ino].refs
      BY <1>8, <2>5 DEF RefsIn
    <3>2. \A i \in Nat \ {ino} : RefsIn(J, i) = RefsIn(I, i)
      BY <2>5 DEF RefsIn
    <3> QED
      BY <1>8, <2>5, <3>1, <3>2 DEF Loses
  <2>7. TableOK(u)
    BY <2>4, <2>5 DEF TableOK
  <2> QED
    BY <1>1, <1>2, <1>4, <2>4, <2>6, <2>7 DEF Forgotten
<1> QED
  BY <1>6, <1>7, <1>8

LEMMA TableIsTyped ==
  ASSUME NEW t, TableOK(t)
  PROVE  t \in Tables
<1>1. PICK I : I = t.inodes
  OBVIOUS
<1>2. PICK P : P = t.pathIno
  OBVIOUS
<1>3. PICK n : n = t.nextIno
  OBVIOUS
<1>4. MapsOK(I, P, n) /\ t = [inodes |-> I, nextIno |-> n, pathIno |-> P]
  BY <1>1, <1>2, <1>3 DEF TableOK, TableOf
<1>5. /\ I \in [DOMAIN I -> InodeEntries] /\ DOMAIN I \subseteq 1 .. n - 1 /\ n \in Nat
      /\ P \in [DOMAIN P -> DOMAIN I] /\ \A p \in DOMAIN P : I[P[p]].path = p
  BY <1>4 DEF MapsOK
<1>6. DOMAIN I \in SUBSET Nat /\ P \in [DOMAIN P -> Nat]
  BY <1>5
<1>7. ASSUME NEW p \in DOMAIN P PROVE p \in Seq(Names)
  <2>1. PICK i : i = P[p]
    OBVIOUS
  <2>2. I[i] \in InodeEntries /\ I[i].path = p
    BY <1>5, <2>1
  <2> QED
    BY <2>2 DEF InodeEntries
<1>8. DOMAIN P \in SUBSET Seq(Names)
  BY <1>7
<1>9. I \in UNION {[S -> InodeEntries] : S \in SUBSET Nat}
  BY <1>5, <1>6
<1>10. P \in UNION {[S -> Nat] : S \in SUBSET Seq(Names)}
  BY <1>6, <1>8
<1> QED
  BY <1>4, <1>5, <1>9, <1>10 DEF Tables

-----------------------------------------------------------------------------
(* FuseFs: the table after several lookups.                                *)

StepsTo(V, v, L, step) == v \in V /\ L \in Nat /\ step \in [(0 .. L - 1) \X V -> V]
FollowsTo(V, v, L, step, f) ==
  f \in [0 .. L -> V] /\ f[0] = v /\ \A k \in 0 .. L - 1 : f[k + 1] = step[<<k, f[k]>>]

\* A function on the numbers to L given by its first value and its steps exists.
LEMMA RecursionTo ==
  ASSUME NEW V, NEW v, NEW L, NEW step, StepsTo(V, v, L, step)
  PROVE  \E f : FollowsTo(V, v, L, step, f)
<1>0. v \in V /\ L \in Nat /\ step \in [(0 .. L - 1) \X V -> V]
  BY DEF StepsTo
<1> DEFINE wide == [x \in Nat \X V |-> IF x[1] < L THEN step[<<x[1], x[2]>>] ELSE x[2]]
<1>1. wide \in [Nat \X V -> V]
  BY <1>0
<1>2. Steps(V, v, wide)
  BY <1>0, <1>1 DEF Steps
<1>3. PICK f : Follows(V, v, wide, f)
  <2> HIDE DEF wide
  <2> QED
    BY <1>2, Recursion
<1> DEFINE g == [k \in 0 .. L |-> f[k]]
<1>4. f \in [Nat -> V] /\ f[0] = v /\ \A n \in Nat : f[n + 1] = wide[<<n, f[n]>>]
  BY <1>3 DEF Follows
<1>5. g \in [0 .. L -> V] /\ g[0] = v
  BY <1>0, <1>4
<1>6. ASSUME NEW k \in 0 .. L - 1 PROVE g[k + 1] = step[<<k, g[k]>>]
  <2>1. k \in Nat /\ k < L /\ k \in 0 .. L /\ k + 1 \in 0 .. L
    BY <1>0
  <2>2. PICK x \in V : x = f[k]
    BY <1>4, <2>1
  <2>3. wide[<<k, x>>] = step[<<k, x>>]
    BY <2>1
  <2> HIDE DEF wide
  <2>4. f[k + 1] = wide[<<k, x>>]
    BY <1>4, <2>1, <2>2
  <2> QED
    BY <2>1, <2>2, <2>3, <2>4
<1> HIDE DEF g
<1>7. FollowsTo(V, v, L, step, g)
  BY <1>5, <1>6 DEF FollowsTo
<1> QED
  BY <1>7

\* u is the table t after the first k of these lookups in the directory of that path.
Batch(t, u, path, page, k) ==
  /\ TableOK(u)
  /\ \A i \in DOMAIN t.inodes : i \in DOMAIN u.inodes /\ u.inodes[i].path = t.inodes[i].path
  /\ \A i \in DOMAIN u.inodes \ DOMAIN t.inodes : i >= t.nextIno
  /\ t.nextIno <= u.nextIno
  /\ \A m \in 1 .. k : Append(path, page[m]) \in DOMAIN u.pathIno
  /\ \A i \in Nat : RefsIn(u.inodes, i) = RefsIn(t.inodes, i)
                                       + Cardinality({m \in 1 .. k : u.pathIno[Append(path, page[m])] = i})

LEMMA LooksUpMore ==
  ASSUME NEW t, TableOK(t), NEW parent \in DOMAIN t.inodes, NEW path, path = t.inodes[parent].path,
         NEW page \in Seq(Names), NEW k \in 0 .. Len(page) - 1, NEW u, Batch(t, u, path, page, k),
         NEW w, w = LookupIn(u, parent, page[k + 1])
  PROVE  Batch(t, w, path, page, k + 1)
<1>1. TableOK(u) /\ parent \in DOMAIN u.inodes /\ u.inodes[parent].path = path /\ page[k + 1] \in Names
  BY DEF Batch
<1>2. PICK p : p = Append(path, page[k + 1])
  OBVIOUS
<1>3. LookedUp(u, w, p)
  BY <1>1, <1>2, LooksUp
<1>4. PICK n : n = u.nextIno
  OBVIOUS
<1>5. PICK I : I = u.inodes
  OBVIOUS
<1>6. PICK P : P = u.pathIno
  OBVIOUS
<1>7. PICK J : J = w.inodes
  OBVIOUS
<1>8. PICK Q : Q = w.pathIno
  OBVIOUS
<1>9. /\ TableOK(w) /\ Gains(I, P, n, J, Q, p) /\ w.nextIno \in {n, n + 1}
      /\ (Q[p] = n => w.nextIno = n + 1)
  BY <1>3, <1>4, <1>5, <1>6, <1>7, <1>8 DEF LookedUp
<1>10. /\ n \in Nat /\ t.nextIno \in Nat /\ DOMAIN I \subseteq 1 .. n - 1 /\ t.nextIno <= n
       /\ \A i \in DOMAIN t.inodes : i \in DOMAIN I /\ I[i].path = t.inodes[i].path
       /\ \A i \in DOMAIN I \ DOMAIN t.inodes : i >= t.nextIno
       /\ \A m \in 1 .. k : Append(path, page[m]) \in DOMAIN P
  BY <1>1, <1>4, <1>5, <1>6 DEF Batch, TableOK, MapsOK
<1>11. /\ p \in DOMAIN Q /\ Q[p] \in DOMAIN I \cup {n} /\ DOMAIN J = DOMAIN I \cup {Q[p]}
       /\ \A i \in DOMAIN I : J[i].path = I[i].path
       /\ \A q \in DOMAIN P : q \in DOMAIN Q /\ Q[q] = P[q]
       /\ \A i \in Nat : RefsIn(J, i) = RefsIn(I, i) + (IF i = Q[p] THEN 1 ELSE 0)
  BY <1>9 DEF Gains
<1>12. \A i \in DOMAIN t.inodes : i \in DOMAIN J /\ J[i].path = t.inodes[i].path
  BY <1>10, <1>11
<1>13. \A i \in DOMAIN J \ DOMAIN t.inodes : i >= t.nextIno
  BY <1>10, <1>11
<1>14. t.nextIno <= w.nextIno
  BY <1>9, <1>10
<1>15. \A m \in 1 .. k + 1 : Append(path, page[m]) \in DOMAIN Q
  <2>1. ASSUME NEW m \in 1 .. k + 1 PROVE Append(path, page[m]) \in DOMAIN Q
    <3>1. CASE m = k + 1
      BY <1>2, <1>11, <3>1
    <3>2. CASE m \in 1 .. k
      BY <1>10, <1>11, <3>2
    <3> QED
      BY <3>1, <3>2
  <2> QED
    BY <2>1
<1>16. ASSUME NEW i \in Nat
       PROVE  RefsIn(J, i) = RefsIn(t.inodes, i) + Cardinality({m \in 1 .. k + 1 : Q[Append(path, page[m])] = i})
  <2> DEFINE A == {m \in 1 .. k : P[Append(path, page[m])] = i}
             B == {m \in 1 .. k + 1 : Q[Append(path, page[m])] = i}
  <2>1. RefsIn(I, i) = RefsIn(t.inodes, i) + Cardinality(A)
    BY <1>5, <1>6 DEF Batch
  <2>2. IsFiniteSet(A) /\ Cardinality(A) \in Nat
    <3>1. IsFiniteSet(1 .. k)
      BY FS_Interval
    <3>2. IsFiniteSet(A)
      BY <3>1, FS_Subset
    <3> QED
      BY <3>2, FS_CardinalityType
  <2>3. \A m \in 1 .. k : Q[Append(path, page[m])] = P[Append(path, page[m])]
    BY <1>10, <1>11
  <2>4. RefsIn(t.inodes, i) \in Nat
    BY DEF RefsIn, TableOK, MapsOK, InodeEntries
  <2>5. CASE Q[p] = i
    <3>1. B = A \cup {k + 1} /\ k + 1 \notin A
      BY <1>2, <2>3, <2>5
    <3>2. Cardinality(B) = Cardinality(A) + 1
      <4> HIDE DEF A, B
      <4> QED
        BY <2>2, <3>1, FS_AddElement
    <3> HIDE DEF A, B
    <3>3. RefsIn(J, i) = RefsIn(I, i) + 1
      BY <1>11, <2>5
    <3>4. RefsIn(J, i) = RefsIn(t.inodes, i) + Cardinality(B)
      BY <2>1, <2>2, <2>4, <3>2, <3>3
    <3> QED
      BY <3>4 DEF B
  <2>6. CASE Q[p] # i
    <3>1. B = A
      BY <1>2, <2>3, <2>6
    <3>2. RefsIn(J, i) = RefsIn(I, i) + 0
      BY <1>11, <2>6
    <3> HIDE DEF A, B
    <3>3. RefsIn(J, i) = RefsIn(t.inodes, i) + Cardinality(B)
      BY <2>1, <2>2, <2>4, <3>1, <3>2
    <3> QED
      BY <3>3 DEF B
  <2> QED
    BY <2>5, <2>6
<1> QED
  BY <1>7, <1>8, <1>9, <1>12, <1>13, <1>14, <1>15, <1>16 DEF Batch

\* READDIR looks up every entry of the page in turn.
LEMMA LooksUpAll ==
  ASSUME NEW t, TableOK(t), NEW parent \in DOMAIN t.inodes, NEW path, path = t.inodes[parent].path,
         NEW page \in Seq(Names)
  PROVE  Batch(t, LookupAll(t, parent, page), path, page, Len(page))
<1> DEFINE L == Len(page)
           V == {x \in Tables : TableOK(x) /\ parent \in DOMAIN x.inodes}
           step == [x \in (0 .. L - 1) \X V |-> LookupIn(x[2], parent, page[x[1] + 1])]
           Fn(u) == [k \in 0 .. Len(page) |-> IF k = 0 THEN t ELSE LookupIn(u[k - 1], parent, page[k])]
           u == CHOOSE u : u = Fn(u)
<1>1. L \in Nat /\ \A k \in 0 .. L - 1 : page[k + 1] \in Names
  OBVIOUS
<1>2. t \in V
  BY TableIsTyped
<1>3. ASSUME NEW x \in V, NEW name \in Names PROVE LookupIn(x, parent, name) \in V
  <2>1. PICK w : w = LookupIn(x, parent, name)
    OBVIOUS
  <2>2. PICK p : p = Append(x.inodes[parent].path, name)
    OBVIOUS
  <2>3. TableOK(x) /\ parent \in DOMAIN x.inodes
    OBVIOUS
  <2>4. LookedUp(x, w, p)
    BY <2>1, <2>2, <2>3, LooksUp
  <2>5. TableOK(w) /\ DOMAIN w.inodes = DOMAIN x.inodes \cup {w.pathIno[p]}
    BY <2>4 DEF LookedUp, Gains
  <2>6. w \in Tables
    BY <2>5, TableIsTyped
  <2> QED
    BY <2>1, <2>3, <2>5, <2>6
<1>4. step \in [(0 .. L - 1) \X V -> V]
  <2> HIDE DEF V
  <2> QED
    BY <1>1, <1>3
<1>5. PICK f : FollowsTo(V, t, L, step, f)
  <2> HIDE DEF step, V, L, Fn, u
  <2>1. StepsTo(V, t, L, step)
    BY <1>1, <1>2, <1>4 DEF StepsTo
  <2> QED
    BY <2>1, RecursionTo
<1>15. f \in [0 .. L -> V] /\ f[0] = t
  BY <1>5 DEF FollowsTo
<1>6. ASSUME NEW k \in 0 .. L - 1 PROVE f[k + 1] = LookupIn(f[k], parent, page[k + 1])
  <2> HIDE DEF V
  <2>0. k \in 0 .. L
    BY <1>1
  <2>1. f[k] \in V /\ f[k + 1] = step[<<k, f[k]>>]
    <3> HIDE DEF step, L
    <3> QED
      BY <1>15, <1>5, <2>0 DEF FollowsTo
  <2>2. step[<<k, f[k]>>] = LookupIn(f[k], parent, page[k + 1])
    BY <1>1, <2>1
  <2> QED
    BY <2>1, <2>2
<1>7. f = Fn(f)
  <2>1. ASSUME NEW k \in 0 .. L PROVE f[k] = Fn(f)[k]
    <3>1. CASE k = 0
      BY <1>1, <1>15, <3>1
    <3>2. CASE k # 0
      <4>1. PICK j \in 0 .. L - 1 : j = k - 1 /\ k = j + 1
        BY <1>1, <3>2
      <4>2. f[j + 1] = LookupIn(f[j], parent, page[j + 1])
        BY <1>6
      <4> QED
        BY <3>2, <4>1, <4>2
    <3> QED
      BY <3>1, <3>2
  <2>2. DOMAIN f = 0 .. L
    BY <1>15
  <2> QED
    BY <2>1, <2>2, <1>15
<1>8. u = Fn(u)
  BY <1>7
<1>9. LookupAll(t, parent, page) = u[L]
  BY DEF LookupAll
<1> HIDE DEF u
<1>10. u[0] = t
  BY <1>1, <1>8
<1>11. ASSUME NEW k \in 0 .. L - 1 PROVE u[k + 1] = LookupIn(u[k], parent, page[k + 1])
  <2>1. k + 1 \in 0 .. Len(page) /\ k + 1 # 0 /\ (k + 1) - 1 = k
    BY <1>1
  <2>2. u[k + 1] = Fn(u)[k + 1]
    BY <1>8
  <2>3. Fn(u)[k + 1] = LookupIn(u[k], parent, page[k + 1])
    BY <2>1
  <2> QED
    BY <2>2, <2>3
<1> DEFINE S == {k \in Nat : k <= L => Batch(t, u[k], path, page, k)}
<1>12. 0 \in S
  <2>1. Cardinality({}) = 0
    BY FS_EmptySet
  <2>2. \A i : {m \in 1 .. 0 : t.pathIno[Append(path, page[m])] = i} = {}
    OBVIOUS
  <2>3. \A i \in Nat : RefsIn(t.inodes, i) \in Nat
    BY DEF RefsIn, TableOK, MapsOK, InodeEntries
  <2>4. \A i \in Nat : RefsIn(t.inodes, i) = RefsIn(t.inodes, i) + Cardinality({m \in 1 .. 0 : t.pathIno[Append(path, page[m])] = i})
    BY <2>1, <2>2, <2>3
  <2>5. t.nextIno <= t.nextIno
    BY DEF TableOK, MapsOK
  <2>6. Batch(t, t, path, page, 0)
    BY <2>4, <2>5 DEF Batch
  <2> QED
    BY <1>10, <2>6
<1>13. ASSUME NEW k \in S PROVE k + 1 \in S
  <2>1. k \in Nat /\ k + 1 \in Nat /\ (k <= L => Batch(t, u[k], path, page, k))
    BY <1>13
  <2>2. CASE k + 1 <= L
    <3>1. k \in 0 .. L - 1 /\ Batch(t, u[k], path, page, k)
      BY <1>1, <2>1, <2>2
    <3>2. u[k + 1] = LookupIn(u[k], parent, page[k + 1])
      BY <1>11, <3>1
    <3>3. Batch(t, u[k + 1], path, page, k + 1)
      <4> HIDE DEF S, Fn, V, step
      <4> QED
        BY <3>1, <3>2, LooksUpMore
    <3> QED
      BY <2>1, <3>3
  <2>3. CASE ~(k + 1 <= L)
    BY <2>1, <2>3
  <2> QED
    BY <2>2, <2>3
<1>14. S = Nat
  <2> HIDE DEF S
  <2>1. S \in SUBSET Nat
    BY DEF S
  <2> QED
    BY <1>12, <1>13, <2>1, Induction
<1>16. Batch(t, u[L], path, page, L)
  <2>1. L \in S
    BY <1>1, <1>14
  <2> QED
    BY <1>1, <2>1
<1> QED
  BY <1>9, <1>16

-----------------------------------------------------------------------------
(* FuseFs: sums over the queues of answers and of FORGETs.                 *)

\* u holds the sums of the beginnings of s.
Sums(s, u) ==
  u \in [0 .. Len(s) -> Nat] /\ u[0] = 0 /\ \A k \in 0 .. Len(s) - 1 : u[k + 1] = u[k] + s[k + 1]

LEMMA SumsOf ==
  ASSUME NEW s \in Seq(Nat)
  PROVE  \E u : Sums(s, u) /\ SumOf(s) = u[Len(s)]
<1> DEFINE L == Len(s)
           step == [x \in (0 .. L - 1) \X Nat |-> x[2] + s[x[1] + 1]]
           Fn(u) == [k \in 0 .. Len(s) |-> IF k = 0 THEN 0 ELSE u[k - 1] + s[k]]
           u == CHOOSE u : u = Fn(u)
<1>1. L \in Nat /\ \A k \in 0 .. L - 1 : s[k + 1] \in Nat
  OBVIOUS
<1>2. step \in [(0 .. L - 1) \X Nat -> Nat]
  BY <1>1
<1>3. PICK f : FollowsTo(Nat, 0, L, step, f)
  <2> HIDE DEF step, L, Fn, u
  <2>1. StepsTo(Nat, 0, L, step)
    BY <1>1, <1>2 DEF StepsTo
  <2> QED
    BY <2>1, RecursionTo
<1>4. f \in [0 .. L -> Nat] /\ f[0] = 0
  BY <1>3 DEF FollowsTo
<1>5. ASSUME NEW k \in 0 .. L - 1 PROVE f[k + 1] = f[k] + s[k + 1]
  <2>1. k \in 0 .. L /\ f[k] \in Nat
    BY <1>1, <1>4
  <2>2. f[k + 1] = step[<<k, f[k]>>]
    <3> HIDE DEF step, L
    <3> QED
      BY <1>3 DEF FollowsTo
  <2>3. step[<<k, f[k]>>] = f[k] + s[k + 1]
    BY <1>1, <2>1
  <2> QED
    BY <2>2, <2>3
<1>6. f = Fn(f)
  <2>1. ASSUME NEW k \in 0 .. L PROVE f[k] = Fn(f)[k]
    <3>1. CASE k = 0
      BY <1>1, <1>4, <3>1
    <3>2. CASE k # 0
      <4>1. PICK j \in 0 .. L - 1 : j = k - 1 /\ k = j + 1
        BY <1>1, <3>2
      <4>2. f[j + 1] = f[j] + s[j + 1]
        BY <1>5
      <4> QED
        BY <3>2, <4>1, <4>2
    <3> QED
      BY <3>1, <3>2
  <2>2. DOMAIN f = 0 .. L
    BY <1>4
  <2> QED
    BY <2>1, <2>2, <1>4
<1>7. u = Fn(u)
  BY <1>6
<1>8. SumOf(s) = u[L]
  BY DEF SumOf
<1> HIDE DEF u
<1>9. u[0] = 0 /\ DOMAIN u = 0 .. L
  BY <1>1, <1>7
<1>10. ASSUME NEW k \in 0 .. L - 1 PROVE u[k + 1] = u[k] + s[k + 1]
  <2>1. k + 1 \in 0 .. Len(s) /\ k + 1 # 0 /\ (k + 1) - 1 = k
    BY <1>1
  <2>2. u[k + 1] = Fn(u)[k + 1]
    BY <1>7
  <2>3. Fn(u)[k + 1] = u[k] + s[k + 1]
    BY <2>1
  <2> QED
    BY <2>2, <2>3
<1> DEFINE S == {k \in Nat : k <= L => u[k] \in Nat}
<1>11. 0 \in S
  BY <1>9
<1>12. ASSUME NEW k \in S PROVE k + 1 \in S
  <2>1. k \in Nat /\ k + 1 \in Nat
    OBVIOUS
  <2>2. CASE k + 1 <= L
    <3>1. k \in 0 .. L - 1 /\ u[k] \in Nat
      BY <1>1, <2>1, <2>2
    <3>2. u[k + 1] = u[k] + s[k + 1] /\ s[k + 1] \in Nat
      BY <1>1, <1>10, <3>1
    <3> QED
      BY <2>1, <3>1, <3>2
  <2>3. CASE ~(k + 1 <= L)
    BY <2>1, <2>3
  <2> QED
    BY <2>2, <2>3
<1>13. S = Nat
  <2> HIDE DEF S
  <2>1. S \in SUBSET Nat
    BY DEF S
  <2> QED
    BY <1>11, <1>12, <2>1, Induction
<1>14. \A k \in 0 .. L : u[k] \in Nat
  BY <1>1, <1>13
<1>15. u = [k \in 0 .. L |-> u[k]]
  <2> HIDE DEF S, L
  <2> QED
    BY <1>7, <1>9
<1>16. u \in [0 .. L -> Nat]
  <2> HIDE DEF S, L, Fn
  <2> QED
    BY <1>14, <1>15
<1>17. Sums(s, u)
  <2> HIDE DEF S, Fn
  <2> QED
    BY <1>9, <1>10, <1>16 DEF Sums
<1> QED
  BY <1>8, <1>17

LEMMA SumIsNat ==
  ASSUME NEW s \in Seq(Nat)
  PROVE  SumOf(s) \in Nat
<1>1. PICK u : Sums(s, u) /\ SumOf(s) = u[Len(s)]
  BY SumsOf
<1>2. u \in [0 .. Len(s) -> Nat] /\ Len(s) \in Nat
  BY <1>1 DEF Sums
<1> QED
  BY <1>1, <1>2

LEMMA SumOfNone ==
  ASSUME NEW s \in Seq(Nat), s = <<>>
  PROVE  SumOf(s) = 0
<1>1. PICK u : Sums(s, u) /\ SumOf(s) = u[Len(s)]
  BY SumsOf
<1> QED
  BY <1>1 DEF Sums

\* One more at the end.
Appended(s, r, x) == Len(r) = Len(s) + 1 /\ (\A j \in 1 .. Len(s) : r[j] = s[j]) /\ r[Len(s) + 1] = x

LEMMA SumAppended ==
  ASSUME NEW s \in Seq(Nat), NEW r \in Seq(Nat), NEW x \in Nat, Appended(s, r, x)
  PROVE  SumOf(r) = SumOf(s) + x
<1>1. PICK u : Sums(s, u) /\ SumOf(s) = u[Len(s)]
  BY SumsOf
<1>2. PICK w : Sums(r, w) /\ SumOf(r) = w[Len(r)]
  BY SumsOf
<1>3. PICK n \in Nat : n = Len(s) /\ n + 1 = Len(r)
  BY DEF Appended
<1>4. u \in [0 .. n -> Nat] /\ u[0] = 0 /\ \A k \in 0 .. n - 1 : u[k + 1] = u[k] + s[k + 1]
  BY <1>1, <1>3 DEF Sums
<1>5. w \in [0 .. n + 1 -> Nat] /\ w[0] = 0 /\ \A k \in 0 .. (n + 1) - 1 : w[k + 1] = w[k] + r[k + 1]
  BY <1>2, <1>3 DEF Sums
<1>6. (\A j \in 1 .. n : r[j] = s[j]) /\ r[n + 1] = x
  BY <1>3 DEF Appended
<1> DEFINE S == {k \in Nat : k <= n => w[k] = u[k]}
<1>7. 0 \in S
  BY <1>4, <1>5
<1>8. ASSUME NEW k \in S PROVE k + 1 \in S
  <2>1. k \in Nat /\ k + 1 \in Nat
    OBVIOUS
  <2>2. CASE k + 1 <= n
    <3>1. k \in 0 .. n - 1 /\ k \in 0 .. (n + 1) - 1 /\ k + 1 \in 1 .. n /\ w[k] = u[k]
      BY <2>1, <2>2
    <3>2. w[k + 1] = w[k] + r[k + 1]
      BY <1>5, <3>1
    <3>3. u[k + 1] = u[k] + s[k + 1]
      BY <1>4, <3>1
    <3> QED
      BY <1>6, <2>1, <3>1, <3>2, <3>3
  <2>3. CASE ~(k + 1 <= n)
    BY <2>1, <2>3
  <2> QED
    BY <2>2, <2>3
<1>9. S = Nat
  <2> HIDE DEF S
  <2>1. S \in SUBSET Nat
    BY DEF S
  <2> QED
    BY <1>7, <1>8, <2>1, Induction
<1>10. w[n] = u[n]
  BY <1>9
<1>11. n \in 0 .. (n + 1) - 1
  OBVIOUS
<1>12. w[n + 1] = w[n] + r[n + 1]
  BY <1>5, <1>11
<1> QED
  BY <1>1, <1>2, <1>3, <1>6, <1>10, <1>12

\* The k-th is gone.
Without(s, r, k) ==
  /\ k \in 1 .. Len(s) /\ Len(s) = Len(r) + 1
  /\ \A j \in 1 .. Len(r) : r[j] = IF j < k THEN s[j] ELSE s[j + 1]

LEMMA SumWithout ==
  ASSUME NEW s \in Seq(Nat), NEW r \in Seq(Nat), NEW m, Without(s, r, m)
  PROVE  SumOf(s) = SumOf(r) + s[m]
<1>1. PICK u : Sums(s, u) /\ SumOf(s) = u[Len(s)]
  BY SumsOf
<1>2. PICK w : Sums(r, w) /\ SumOf(r) = w[Len(r)]
  BY SumsOf
<1>3. PICK n \in Nat : n = Len(r) /\ n + 1 = Len(s)
  BY DEF Without
<1>4. u \in [0 .. n + 1 -> Nat] /\ u[0] = 0 /\ \A k \in 0 .. (n + 1) - 1 : u[k + 1] = u[k] + s[k + 1]
  BY <1>1, <1>3 DEF Sums
<1>5. w \in [0 .. n -> Nat] /\ w[0] = 0 /\ \A k \in 0 .. n - 1 : w[k + 1] = w[k] + r[k + 1]
  BY <1>2, <1>3 DEF Sums
<1>6. m \in 1 .. n + 1 /\ \A j \in 1 .. n : r[j] = IF j < m THEN s[j] ELSE s[j + 1]
  BY <1>3 DEF Without
<1>7. PICK x \in Nat : x = s[m]
  BY <1>3, <1>6
<1>8. \A j \in 1 .. n + 1 : s[j] \in Nat
  BY <1>3
<1> DEFINE S == {k \in Nat : k <= n => IF k < m THEN w[k] = u[k] ELSE w[k] + x = u[k + 1]}
<1>9. 0 \in S
  BY <1>4, <1>5, <1>6
<1>10. ASSUME NEW k \in S PROVE k + 1 \in S
  <2>1. k \in Nat /\ k + 1 \in Nat /\ (k <= n => IF k < m THEN w[k] = u[k] ELSE w[k] + x = u[k + 1])
    OBVIOUS
  <2>2. CASE k + 1 <= n
    <3>1. k \in 0 .. n - 1 /\ k \in 0 .. (n + 1) - 1 /\ k + 1 \in 0 .. (n + 1) - 1 /\ k + 1 \in 1 .. n
      BY <2>1, <2>2
    <3>2. w[k + 1] = w[k] + r[k + 1] /\ w[k] \in Nat
      BY <1>5, <3>1
    <3>3. u[k + 1] = u[k] + s[k + 1] /\ u[k] \in Nat
      BY <1>4, <3>1
    <3>4. u[(k + 1) + 1] = u[k + 1] + s[(k + 1) + 1]
      BY <1>4, <3>1
    <3>5. CASE k + 1 < m
      <4>1. r[k + 1] = s[k + 1] /\ w[k] = u[k]
        BY <1>6, <2>1, <3>1, <3>5
      <4> QED
        BY <2>1, <3>2, <3>3, <3>5, <4>1
    <3>6. CASE k + 1 = m
      <4>1. r[k + 1] = s[(k + 1) + 1] /\ w[k] = u[k] /\ s[k + 1] = x
        BY <1>6, <1>7, <2>1, <3>1, <3>6
      <4>2. s[(k + 1) + 1] \in Nat
        BY <1>8, <3>1
      <4>3. w[k + 1] + x = u[(k + 1) + 1]
        BY <3>2, <3>3, <3>4, <4>1, <4>2
      <4> QED
        BY <2>1, <3>6, <4>3
    <3>7. CASE k + 1 > m
      <4>1. r[k + 1] = s[(k + 1) + 1] /\ w[k] + x = u[k + 1]
        BY <1>6, <2>1, <3>1, <3>7
      <4>2. s[(k + 1) + 1] \in Nat
        BY <1>8, <3>1
      <4>3. w[k + 1] + x = u[(k + 1) + 1]
        BY <3>2, <3>4, <4>1, <4>2
      <4> QED
        BY <1>6, <2>1, <3>7, <4>3
    <3> QED
      BY <1>6, <2>1, <3>5, <3>6, <3>7
  <2>3. CASE ~(k + 1 <= n)
    BY <2>1, <2>3
  <2> QED
    BY <2>2, <2>3
<1>11. S = Nat
  <2> HIDE DEF S
  <2>1. S \in SUBSET Nat
    BY DEF S
  <2> QED
    BY <1>9, <1>10, <2>1, Induction
<1>12. IF n < m THEN w[n] = u[n] ELSE w[n] + x = u[n + 1]
  BY <1>11
<1>13. n \in 0 .. (n + 1) - 1
  OBVIOUS
<1>14. u[n + 1] = u[n] + s[n + 1]
  BY <1>4, <1>13
<1>15. n < m => s[n + 1] = x
  BY <1>6, <1>7
<1> HIDE DEF S
<1>16. w[n] + x = u[n + 1]
  BY <1>12, <1>14, <1>15
<1> QED
  BY <1>1, <1>2, <1>3, <1>7, <1>16

Answers ==
  [op : {"entry"}, ino : Ids]
  \cup [op : {"open"}, fh : Fhs, ino : Ids, path : Seq(Names), file : Nat]
  \cup [op : {"data"}, fh : Fhs, file : Nat]
  \cup [op : {"page"}, names : Seq(Names)]
  \cup [op : {"nopage"}]
OwedForgets == [ino : Ids, count : Nat]

Entry(r, i) == IF r.op = "entry" /\ r.ino = i THEN 1 ELSE 0
Counts(f, i) == IF f.ino = i THEN f.count ELSE 0
EntriesIn(rs, i) == [k \in DOMAIN rs |-> Entry(rs[k], i)]
CountsIn(fs, i) == [k \in DOMAIN fs |-> Counts(fs[k], i)]
FlightOf(rs, i) == SumOf(EntriesIn(rs, i))
OwedOf(fs, i) == SumOf(CountsIn(fs, i))

LEMMA FlightSeq ==
  ASSUME NEW rs \in Seq(Answers), NEW i, NEW s, s = EntriesIn(rs, i)
  PROVE  s \in Seq(Nat) /\ Len(s) = Len(rs) /\ \A k \in 1 .. Len(rs) : s[k] = Entry(rs[k], i)
<1>1. Len(rs) \in Nat /\ DOMAIN rs = 1 .. Len(rs)
  OBVIOUS
<1>2. \A k \in 1 .. Len(rs) : Entry(rs[k], i) \in Nat
  BY DEF Entry
<1>3. s \in [1 .. Len(rs) -> Nat] /\ \A k \in 1 .. Len(rs) : s[k] = Entry(rs[k], i)
  BY <1>1, <1>2 DEF EntriesIn
<1>4. s \in Seq(Nat)
  BY <1>1, <1>3
<1> QED
  BY <1>1, <1>3, <1>4

LEMMA FlightIsNat ==
  ASSUME NEW rs \in Seq(Answers), NEW i
  PROVE  FlightOf(rs, i) \in Nat
<1>1. PICK s : s = EntriesIn(rs, i)
  OBVIOUS
<1>2. s \in Seq(Nat)
  BY <1>1, FlightSeq
<1> QED
  BY <1>1, <1>2, SumIsNat DEF FlightOf

LEMMA FlightMore ==
  ASSUME NEW rs \in Seq(Answers), NEW r \in Answers, NEW i
  PROVE  FlightOf(Append(rs, r), i) = FlightOf(rs, i) + Entry(r, i)
<1>1. PICK s : s = EntriesIn(rs, i)
  OBVIOUS
<1>2. PICK q : q = Append(rs, r)
  OBVIOUS
<1>3. PICK w : w = EntriesIn(q, i)
  OBVIOUS
<1>4. q \in Seq(Answers) /\ Len(q) = Len(rs) + 1 /\ (\A k \in 1 .. Len(rs) : q[k] = rs[k]) /\ q[Len(rs) + 1] = r
  BY <1>2, AppendProperties
<1>5. s \in Seq(Nat) /\ Len(s) = Len(rs) /\ \A k \in 1 .. Len(rs) : s[k] = Entry(rs[k], i)
  BY <1>1, FlightSeq
<1>6. w \in Seq(Nat) /\ Len(w) = Len(q) /\ \A k \in 1 .. Len(q) : w[k] = Entry(q[k], i)
  <2>1. q \in Seq(Answers)
    BY <1>4
  <2> QED
    BY <1>3, <2>1, FlightSeq
<1>7. Entry(r, i) \in Nat
  BY DEF Entry
<1>8. Appended(s, w, Entry(r, i))
  <2>1. \A k \in 1 .. Len(s) : w[k] = s[k]
    BY <1>4, <1>5, <1>6
  <2>2. w[Len(s) + 1] = Entry(r, i)
    BY <1>4, <1>5, <1>6
  <2> QED
    BY <1>4, <1>5, <1>6, <2>1, <2>2 DEF Appended
<1>9. SumOf(w) = SumOf(s) + Entry(r, i)
  BY <1>5, <1>6, <1>7, <1>8, SumAppended
<1> QED
  BY <1>1, <1>2, <1>3, <1>9 DEF FlightOf

LEMMA FlightLess ==
  ASSUME NEW rs \in Seq(Answers), rs # <<>>, NEW i
  PROVE  FlightOf(rs, i) = FlightOf(Tail(rs), i) + Entry(Head(rs), i)
<1>1. PICK s : s = EntriesIn(rs, i)
  OBVIOUS
<1>2. PICK q : q = Tail(rs)
  OBVIOUS
<1>3. PICK w : w = EntriesIn(q, i)
  OBVIOUS
<1>4. q \in Seq(Answers) /\ Len(rs) = Len(q) + 1 /\ (\A k \in 1 .. Len(q) : q[k] = rs[k + 1]) /\ Head(rs) = rs[1]
  <2>1. Len(rs) # 0
    BY EmptySeq
  <2> QED
    BY <1>2, <2>1, HeadTailProperties
<1>5. s \in Seq(Nat) /\ Len(s) = Len(rs) /\ \A k \in 1 .. Len(rs) : s[k] = Entry(rs[k], i)
  BY <1>1, FlightSeq
<1>6. w \in Seq(Nat) /\ Len(w) = Len(q) /\ \A k \in 1 .. Len(q) : w[k] = Entry(q[k], i)
  <2>1. q \in Seq(Answers)
    BY <1>4
  <2> QED
    BY <1>3, <2>1, FlightSeq
<1>8. Without(s, w, 1)
  <2>1. \A k \in 1 .. Len(w) : w[k] = s[k + 1] /\ ~(k < 1)
    BY <1>4, <1>5, <1>6
  <2>2. 1 \in 1 .. Len(s)
    BY <1>4, <1>5
  <2> QED
    BY <1>4, <1>5, <1>6, <2>1, <2>2 DEF Without
<1>9. SumOf(s) = SumOf(w) + s[1]
  BY <1>5, <1>6, <1>8, SumWithout
<1>10. s[1] = Entry(Head(rs), i)
  BY <1>4, <1>5
<1> QED
  BY <1>1, <1>2, <1>3, <1>9, <1>10 DEF FlightOf

LEMMA FlightOfNone ==
  ASSUME NEW i
  PROVE  FlightOf(<<>>, i) = 0
<1>1. PICK s : s = EntriesIn(<<>>, i)
  OBVIOUS
<1>2. s = <<>> /\ s \in Seq(Nat)
  BY <1>1 DEF EntriesIn
<1>3. SumOf(s) = 0
  BY <1>2, SumOfNone
<1> QED
  BY <1>1, <1>3 DEF FlightOf

LEMMA OwedSeq ==
  ASSUME NEW fs \in Seq(OwedForgets), NEW i, NEW s, s = CountsIn(fs, i)
  PROVE  s \in Seq(Nat) /\ Len(s) = Len(fs) /\ \A k \in 1 .. Len(fs) : s[k] = Counts(fs[k], i)
<1>1. Len(fs) \in Nat /\ DOMAIN fs = 1 .. Len(fs)
  OBVIOUS
<1>2. ASSUME NEW k \in 1 .. Len(fs) PROVE Counts(fs[k], i) \in Nat
  <2>1. fs[k] \in OwedForgets
    BY <1>1
  <2> QED
    BY <2>1 DEF Counts, OwedForgets
<1>3. s \in [1 .. Len(fs) -> Nat] /\ \A k \in 1 .. Len(fs) : s[k] = Counts(fs[k], i)
  BY <1>1, <1>2 DEF CountsIn
<1>4. s \in Seq(Nat)
  BY <1>1, <1>3
<1> QED
  BY <1>1, <1>3, <1>4

LEMMA OwedIsNat ==
  ASSUME NEW fs \in Seq(OwedForgets), NEW i
  PROVE  OwedOf(fs, i) \in Nat
<1>1. PICK s : s = CountsIn(fs, i)
  OBVIOUS
<1>2. s \in Seq(Nat)
  BY <1>1, OwedSeq
<1> QED
  BY <1>1, <1>2, SumIsNat DEF OwedOf

LEMMA OwedMore ==
  ASSUME NEW fs \in Seq(OwedForgets), NEW f \in OwedForgets, NEW i
  PROVE  OwedOf(Append(fs, f), i) = OwedOf(fs, i) + Counts(f, i)
<1>1. PICK s : s = CountsIn(fs, i)
  OBVIOUS
<1>2. PICK q : q = Append(fs, f)
  OBVIOUS
<1>3. PICK w : w = CountsIn(q, i)
  OBVIOUS
<1>4. q \in Seq(OwedForgets) /\ Len(q) = Len(fs) + 1 /\ (\A k \in 1 .. Len(fs) : q[k] = fs[k]) /\ q[Len(fs) + 1] = f
  BY <1>2, AppendProperties
<1>5. s \in Seq(Nat) /\ Len(s) = Len(fs) /\ \A k \in 1 .. Len(fs) : s[k] = Counts(fs[k], i)
  BY <1>1, OwedSeq
<1>6. w \in Seq(Nat) /\ Len(w) = Len(q) /\ \A k \in 1 .. Len(q) : w[k] = Counts(q[k], i)
  <2>1. q \in Seq(OwedForgets)
    BY <1>4
  <2> QED
    BY <1>3, <2>1, OwedSeq
<1>7. Counts(f, i) \in Nat
  BY DEF Counts, OwedForgets
<1>8. Appended(s, w, Counts(f, i))
  <2>1. \A k \in 1 .. Len(s) : w[k] = s[k]
    BY <1>4, <1>5, <1>6
  <2>2. w[Len(s) + 1] = Counts(f, i)
    BY <1>4, <1>5, <1>6
  <2> QED
    BY <1>4, <1>5, <1>6, <2>1, <2>2 DEF Appended
<1>9. SumOf(w) = SumOf(s) + Counts(f, i)
  BY <1>5, <1>6, <1>7, <1>8, SumAppended
<1> QED
  BY <1>1, <1>2, <1>3, <1>9 DEF OwedOf

LEMMA Removed ==
  ASSUME NEW S, NEW fs \in Seq(S), NEW m \in DOMAIN fs, NEW q, q = RemoveAt(fs, m)
  PROVE  q \in Seq(S) /\ Without(fs, q, m)
<1>1. PICK n \in Nat : Len(fs) = n + 1 /\ m \in 1 .. n + 1
  <2>1. PICK l \in Nat : l = Len(fs) /\ m \in 1 .. l
    OBVIOUS
  <2>2. l - 1 \in Nat /\ l = (l - 1) + 1
    BY <2>1
  <2> QED
    BY <2>1, <2>2
<1>2. PICK a : a = SubSeq(fs, 1, m - 1)
  OBVIOUS
<1>3. PICK b : b = SubSeq(fs, m + 1, Len(fs))
  OBVIOUS
<1>4. a \in Seq(S) /\ Len(a) = m - 1 /\ \A j \in 1 .. m - 1 : a[j] = fs[j]
  <2>1. \A j \in 1 .. m - 1 : fs[j] \in S
    BY <1>1
  <2> QED
    BY <1>1, <1>2, <2>1, SubSeqProperties
<1>5. b \in Seq(S) /\ Len(b) = n + 1 - m /\ \A j \in 1 .. n + 1 - m : b[j] = fs[m + j]
  <2>1. \A j \in m + 1 .. n + 1 : fs[j] \in S
    BY <1>1
  <2> QED
    BY <1>1, <1>3, <2>1, SubSeqProperties
<1>6. q = a \o b
  BY <1>2, <1>3 DEF RemoveAt
<1>7. q \in Seq(S) /\ Len(q) = n /\ \A j \in 1 .. n : q[j] = IF j <= Len(a) THEN a[j] ELSE b[j - Len(a)]
  BY <1>1, <1>4, <1>5, <1>6, ConcatProperties
<1>8. ASSUME NEW j \in 1 .. n PROVE q[j] = IF j < m THEN fs[j] ELSE fs[j + 1]
  <2>1. CASE j < m
    BY <1>1, <1>4, <1>7, <2>1
  <2>2. CASE ~(j < m)
    <3>1. j - Len(a) \in 1 .. n + 1 - m /\ m + (j - Len(a)) = j + 1 /\ ~(j <= Len(a))
      BY <1>1, <1>4, <2>2
    <3>2. q[j] = b[j - Len(a)] /\ b[j - Len(a)] = fs[m + (j - Len(a))]
      BY <1>5, <1>7, <3>1
    <3> QED
      BY <2>2, <3>1, <3>2
  <2> QED
    BY <2>1, <2>2
<1> QED
  BY <1>1, <1>7, <1>8 DEF Without

LEMMA OwedLess ==
  ASSUME NEW fs \in Seq(OwedForgets), NEW m \in DOMAIN fs, NEW i
  PROVE  OwedOf(fs, i) = OwedOf(RemoveAt(fs, m), i) + Counts(fs[m], i)
<1>1. PICK s : s = CountsIn(fs, i)
  OBVIOUS
<1>2. PICK q : q = RemoveAt(fs, m)
  OBVIOUS
<1>3. PICK w : w = CountsIn(q, i)
  OBVIOUS
<1>4. q \in Seq(OwedForgets) /\ Without(fs, q, m)
  BY <1>2, Removed
<1>5. s \in Seq(Nat) /\ Len(s) = Len(fs) /\ \A k \in 1 .. Len(fs) : s[k] = Counts(fs[k], i)
  BY <1>1, OwedSeq
<1>6. w \in Seq(Nat) /\ Len(w) = Len(q) /\ \A k \in 1 .. Len(q) : w[k] = Counts(q[k], i)
  <2>1. q \in Seq(OwedForgets)
    BY <1>4
  <2> QED
    BY <1>3, <2>1, OwedSeq
<1>7. m \in 1 .. Len(fs) /\ Len(fs) = Len(q) + 1 /\ \A j \in 1 .. Len(q) : q[j] = IF j < m THEN fs[j] ELSE fs[j + 1]
  BY <1>4 DEF Without
<1>8. Without(s, w, m)
  <2>1. ASSUME NEW j \in 1 .. Len(w) PROVE w[j] = IF j < m THEN s[j] ELSE s[j + 1]
    <3>1. j \in 1 .. Len(q) /\ j \in 1 .. Len(fs) /\ j + 1 \in 1 .. Len(fs)
      BY <1>6, <1>7, <1>4
    <3> QED
      BY <1>5, <1>6, <1>7, <3>1
  <2> QED
    BY <1>5, <1>6, <1>7, <2>1 DEF Without
<1>9. SumOf(s) = SumOf(w) + s[m]
  BY <1>5, <1>6, <1>8, SumWithout
<1> QED
  BY <1>1, <1>2, <1>3, <1>5, <1>7, <1>9 DEF OwedOf

LEMMA OwedOfNone ==
  ASSUME NEW i
  PROVE  OwedOf(<<>>, i) = 0
<1>1. PICK s : s = CountsIn(<<>>, i)
  OBVIOUS
<1>2. s = <<>> /\ s \in Seq(Nat)
  BY <1>1 DEF CountsIn
<1>3. SumOf(s) = 0
  BY <1>2, SumOfNone
<1> QED
  BY <1>1, <1>3 DEF OwedOf

-----------------------------------------------------------------------------
(* FuseFs: node ids and references.                                        *)

Listings ==
  [state : {"none", "reading", "waiting", "done"}, fh : Nat, pos : Nat, got : Seq(Names), dirty : BOOLEAN]

FuseTypes ==
  /\ TableOK(Table) /\ nextIno \in 2 .. MaxIds + 1
  /\ nlookup \in [Ids -> Nat] /\ listed \in [Ids -> Nat]
  /\ replies \in Seq(Answers) /\ forgets \in Seq(OwedForgets)
  /\ handles \in [DOMAIN handles -> [ino : Ids, file : Nat]]
  /\ nextFh \in 1 .. MaxHandles + 1 /\ changes \in Nat
  /\ tree \in [DOMAIN tree -> Nat]
  /\ listing \in Listings

Balanced(I, nl, rs, ls, fs) ==
  \A i \in Ids \ {Root} : RefsIn(I, i) = nl[i] + FlightOf(rs, i) + ls[i] + OwedOf(fs, i)

FuseInv == FuseTypes /\ Balanced(inodes, nlookup, replies, listed, forgets)

\* What every operation does to the ids.
Evolves(t, u) ==
  /\ TableOK(u)
  /\ \A i \in DOMAIN t.inodes \cap DOMAIN u.inodes : u.inodes[i].path = t.inodes[i].path
  /\ \A i \in DOMAIN u.inodes \ DOMAIN t.inodes : i >= t.nextIno
  /\ t.nextIno <= u.nextIno

LEMMA TableFields ==
  ASSUME FuseTypes
  PROVE  /\ Table.inodes = inodes /\ Table.pathIno = pathIno /\ Table.nextIno = nextIno
         /\ MapsOK(inodes, pathIno, nextIno)
BY DEF FuseTypes, Table, TableOK

LEMMA TableMade ==
  ASSUME NEW t, TableOK(t), Become(t)
  PROVE  Table' = t
BY DEF TableOK, TableOf, Become, Table

LEMMA EvolvesSame ==
  ASSUME NEW t, TableOK(t)
  PROVE  Evolves(t, t)
BY DEF Evolves, TableOK, MapsOK

LEMMA EvolvesUp ==
  ASSUME NEW t, TableOK(t), NEW u, NEW p, LookedUp(t, u, p)
  PROVE  Evolves(t, u)
<1>1. /\ TableOK(u) /\ Gains(t.inodes, t.pathIno, t.nextIno, u.inodes, u.pathIno, p)
      /\ u.nextIno \in {t.nextIno, t.nextIno + 1} /\ t.nextIno \in Nat
  BY DEF LookedUp, TableOK, MapsOK
<1>2. \A i \in DOMAIN t.inodes : u.inodes[i].path = t.inodes[i].path
  BY <1>1 DEF Gains
<1>3. \A i \in DOMAIN u.inodes \ DOMAIN t.inodes : i = t.nextIno
  BY <1>1 DEF Gains
<1> QED
  BY <1>1, <1>2, <1>3 DEF Evolves

LEMMA EvolvesDown ==
  ASSUME NEW t, TableOK(t), NEW u, Evolves(t, u), NEW w, NEW ino, NEW c, Forgotten(u, w, ino, c)
  PROVE  Evolves(t, w)
<1>1. TableOK(w) /\ Loses(u.inodes, w.inodes, ino, c) /\ w.nextIno = u.nextIno
  BY DEF Forgotten
<1>2. DOMAIN w.inodes \subseteq DOMAIN u.inodes /\ \A i \in DOMAIN w.inodes : w.inodes[i].path = u.inodes[i].path
  BY <1>1 DEF Loses
<1> QED
  BY <1>1, <1>2 DEF Evolves

LEMMA EvolvesBatch ==
  ASSUME NEW t, TableOK(t), NEW u, NEW path, NEW page, NEW k, Batch(t, u, path, page, k)
  PROVE  Evolves(t, u)
BY DEF Evolves, Batch

\* The ids of a table that evolves are as FileIds has them.
LEMMA IdsChange ==
  ASSUME FuseTypes, Evolves(Table, Table'), nextIno' \in 2 .. MaxIds + 1
  PROVE  F!Change
<1> DEFINE path == [i \in DOMAIN inodes |-> PathOf(i)]
           spent == 1 .. nextIno - 1
<1>1. PICK I : I = inodes
  OBVIOUS
<1>2. PICK J : J = inodes'
  OBVIOUS
<1>3. PICK Q : Q = pathIno'
  OBVIOUS
<1>4. PICK n : n = nextIno
  OBVIOUS
<1>5. PICK m : m = nextIno'
  OBVIOUS
<1>6. /\ MapsOK(J, Q, m) /\ n <= m
      /\ \A i \in DOMAIN I \cap DOMAIN J : J[i].path = I[i].path
      /\ \A i \in DOMAIN J \ DOMAIN I : i >= n
  BY <1>1, <1>2, <1>3, <1>4, <1>5, TableFields DEF Evolves, Table, TableOK
<1>7. n \in Nat /\ m \in 2 .. MaxIds + 1 /\ MaxIds \in Nat
  BY <1>4, <1>5, FuseFsAssumption DEF FuseTypes
<1>8. /\ DOMAIN J \subseteq 1 .. m - 1 /\ Root \in DOMAIN J
      /\ \A i \in DOMAIN J : J[i].path \in DOMAIN Q /\ Q[J[i].path] = i
  BY <1>6 DEF MapsOK
<1>9. path = [i \in DOMAIN I |-> I[i].path] /\ path' = [i \in DOMAIN J |-> J[i].path]
  BY <1>1, <1>2 DEF PathOf
<1>10. spent = 1 .. n - 1 /\ spent' = 1 .. m - 1
  BY <1>4, <1>5
<1> HIDE DEF path, spent
<1>11. Root \in DOMAIN path'
  BY <1>8, <1>9
<1>12. \A i \in DOMAIN path \cap DOMAIN path' : path'[i] = path[i]
  BY <1>6, <1>9
<1>13. (DOMAIN path' \ DOMAIN path) \cap spent = {}
  BY <1>6, <1>7, <1>9, <1>10
<1>14. F!Injective(path')
  BY <1>8, <1>9 DEF F!Injective
<1>15. spent \cup DOMAIN path' \subseteq spent' /\ spent' \subseteq Ids
  BY <1>6, <1>7, <1>8, <1>9, <1>10 DEF Ids
<1> QED
  BY <1>11, <1>12, <1>13, <1>14, <1>15 DEF F!Change, path, spent

\* read_dir() gives names.
MoreOf(p, n, u) == IF Exists(Append(p, n)) THEN Append(u, n) ELSE u

LEMMA EntriesAreNames ==
  ASSUME NEW p
  PROVE  Entries(p) \in Seq(Names)
<1> DEFINE L == Cardinality(Names)
           step == [x \in Nat \X Seq(Nat) |-> MoreOf(p, x[1] + 1, x[2])]
           Fn(u) == [n \in Nat |-> IF n = 0 THEN <<>> ELSE IF Exists(Append(p, n)) THEN Append(u[n - 1], n) ELSE u[n - 1]]
           u == CHOOSE u : u = Fn(u)
<1>1. L \in Nat /\ Names = 1 .. L
  BY FuseFsAssumption, FS_CardinalityType
<1>2. step \in [Nat \X Seq(Nat) -> Seq(Nat)]
  <2>1. ASSUME NEW n \in Nat, NEW s \in Seq(Nat) PROVE MoreOf(p, n, s) \in Seq(Nat)
    BY DEF MoreOf
  <2> QED
    BY <2>1
<1>3. PICK f : Follows(Seq(Nat), <<>>, step, f)
  <2> HIDE DEF step, Fn, u, L
  <2>1. Steps(Seq(Nat), <<>>, step)
    BY <1>2 DEF Steps
  <2> QED
    BY <2>1, Recursion
<1>4. \A n \in Nat : f[n + 1] = MoreOf(p, n + 1, f[n])
  BY <1>3 DEF Follows
<1>5. f = Fn(f)
  <2>1. ASSUME NEW n \in Nat PROVE f[n] = Fn(f)[n]
    <3>1. CASE n = 0
      BY <1>3, <3>1 DEF Follows
    <3>2. CASE n # 0
      <4>1. n - 1 \in Nat /\ n = (n - 1) + 1
        BY <3>2
      <4>2. f[n] = MoreOf(p, n, f[n - 1])
        BY <1>4, <4>1
      <4> QED
        BY <3>2, <4>2 DEF MoreOf
    <3> QED
      BY <3>1, <3>2
  <2> QED
    BY <1>3, <2>1 DEF Follows
<1>6. u = Fn(u)
  BY <1>5
<1>7. Entries(p) = u[L]
  BY DEF Entries
<1> HIDE DEF u
<1>8. u[0] = <<>>
  BY <1>6
<1>9. ASSUME NEW n \in Nat PROVE u[n + 1] = MoreOf(p, n + 1, u[n])
  <2>1. n + 1 \in Nat /\ n + 1 # 0 /\ (n + 1) - 1 = n
    OBVIOUS
  <2>2. u[n + 1] = Fn(u)[n + 1]
    BY <1>6
  <2>3. Fn(u)[n + 1] = MoreOf(p, n + 1, u[n])
    BY <2>1 DEF MoreOf
  <2> QED
    BY <2>2, <2>3
<1> DEFINE S == {n \in Nat : n <= L => u[n] \in Seq(Names)}
<1>10. 0 \in S
  <2>1. <<>> \in Seq(Names)
    OBVIOUS
  <2>2. u[0] \in Seq(Names)
    BY <1>8, <2>1, Zenon
  <2> QED
    BY <2>2
<1>11. ASSUME NEW n \in S PROVE n + 1 \in S
  <2>1. n \in Nat /\ n + 1 \in Nat
    OBVIOUS
  <2>2. CASE n + 1 <= L
    <3>1. u[n] \in Seq(Names) /\ n + 1 \in Names
      BY <1>1, <2>1, <2>2
    <3>2. MoreOf(p, n + 1, u[n]) \in Seq(Names)
      BY <3>1 DEF MoreOf
    <3> QED
      BY <1>9, <2>1, <3>2
  <2>3. CASE ~(n + 1 <= L)
    BY <2>1, <2>3
  <2> QED
    BY <2>2, <2>3
<1>12. S = Nat
  <2> HIDE DEF S
  <2>1. S \in SUBSET Nat
    BY DEF S
  <2> QED
    BY <1>10, <1>11, <2>1, Induction
<1>13. u[L] \in Seq(Names)
  BY <1>1, <1>12
<1> QED
  BY <1>7, <1>13

\* What is about neither ids nor references.
OtherTypes ==
  /\ handles \in [DOMAIN handles -> [ino : Ids, file : Nat]]
  /\ nextFh \in 1 .. MaxHandles + 1 /\ changes \in Nat
  /\ tree \in [DOMAIN tree -> Nat]
  /\ listing \in Listings

SameRefs == UNCHANGED <<inodes, nextIno, pathIno, nlookup, listed, forgets>>
Answered(r) ==
  \/ replies' = replies
  \/ r \in Answers /\ r.op # "entry" /\ replies' = Append(replies, r)

LEMMA QuietStep ==
  ASSUME FuseInv, SameRefs, NEW r, Answered(r), OtherTypes'
  PROVE  FuseInv' /\ Evolves(Table, Table')
<1>1. replies \in Seq(Answers) /\ Table' = Table
  BY DEF FuseInv, FuseTypes, SameRefs, Table
<1>2. replies' \in Seq(Answers) /\ \A i \in Ids : FlightOf(replies', i) = FlightOf(replies, i)
  <2>1. CASE replies' = replies
    BY <1>1, <2>1
  <2>2. CASE r \in Answers /\ r.op # "entry" /\ replies' = Append(replies, r)
    <3>1. ASSUME NEW i \in Ids PROVE FlightOf(replies', i) = FlightOf(replies, i)
      <4>1. FlightOf(replies', i) = FlightOf(replies, i) + Entry(r, i)
        BY <1>1, <2>2, FlightMore
      <4>2. FlightOf(replies, i) \in Nat /\ Entry(r, i) = 0
        BY <1>1, <2>2, FlightIsNat DEF Entry
      <4> QED
        BY <4>1, <4>2
    <3> QED
      BY <1>1, <2>2, <3>1
  <2> QED
    BY <2>1, <2>2 DEF Answered
<1>3. FuseTypes'
  BY <1>1, <1>2 DEF FuseInv, FuseTypes, SameRefs, OtherTypes
<1>4. Balanced(inodes', nlookup', replies', listed', forgets')
  BY <1>2 DEF FuseInv, Balanced, SameRefs
<1>5. Evolves(Table, Table')
  BY <1>1, EvolvesSame DEF FuseInv, FuseTypes
<1> QED
  BY <1>3, <1>4, <1>5 DEF FuseInv

\* A table that evolves, and the other types as they were.
LEMMA TableStep ==
  ASSUME FuseTypes, NEW t, Evolves(Table, t), Become(t), t.nextIno <= MaxIds + 1,
         nlookup' \in [Ids -> Nat], listed' \in [Ids -> Nat], replies' \in Seq(Answers), forgets' \in Seq(OwedForgets),
         OtherTypes'
  PROVE  FuseTypes' /\ Evolves(Table, Table')
<1>1. TableOK(t) /\ Table.nextIno <= t.nextIno /\ Table' = t /\ nextIno' = t.nextIno
  BY TableMade DEF Evolves, Become
<1>2. nextIno' \in 2 .. MaxIds + 1
  <2>1. t.nextIno \in Nat /\ MaxIds \in Nat /\ Table.nextIno = nextIno /\ nextIno \in 2 .. MaxIds + 1
    BY <1>1, TableFields, FuseFsAssumption DEF TableOK, MapsOK, FuseTypes
  <2> QED
    BY <1>1, <2>1
<1>3. FuseTypes'
  BY <1>1, <1>2 DEF FuseTypes, OtherTypes
<1>4. Evolves(Table, Table')
  BY <1>1
<1> QED
  BY <1>3, <1>4

LEMMA LookupStep ==
  ASSUME FuseInv, NEW parent \in Ids, NEW name \in Names \cup {NoName}, Lookup(parent, name)
  PROVE  FuseInv' /\ Evolves(Table, Table')
<1>1. FuseTypes /\ Balanced(inodes, nlookup, replies, listed, forgets) /\ OtherTypes
  BY DEF FuseInv, FuseTypes, OtherTypes
<1>2. /\ UNCHANGED <<handles, nextFh, tree, changes, nlookup, forgets, listing, listed>> /\ nextIno \in Ids
  BY DEF Lookup, world, client
<1>3. CASE name = NoName \/ ~Has(parent)
  <2>1. SameRefs /\ replies' = replies
    BY <1>2, <1>3 DEF Lookup, Refuse, SameRefs
  <2>2. OtherTypes'
    BY <1>1, <1>2 DEF OtherTypes
  <2>3. Answered(0)
    BY <2>1 DEF Answered
  <2> QED
    BY <2>1, <2>2, <2>3, QuietStep
<1>4. CASE ~(name = NoName \/ ~Has(parent))
  <2>1. PICK p : p = Append(PathOf(parent), name)
    OBVIOUS
  <2>2. PICK t : t = LookupIn(Table, parent, name)
    OBVIOUS
  <2>3. TableOK(Table) /\ Table.inodes = inodes /\ Table.pathIno = pathIno /\ Table.nextIno = nextIno /\ MapsOK(inodes, pathIno, nextIno)
    BY <1>1, TableFields DEF FuseTypes
  <2>4. name \in Names /\ parent \in DOMAIN Table.inodes /\ p = Append(Table.inodes[parent].path, name)
    BY <1>4, <2>1, <2>3 DEF Has, PathOf
  <2>5. LookedUp(Table, t, p)
    BY <2>2, <2>3, <2>4, LooksUp
  <2>6. PICK ino : ino = t.pathIno[p]
    OBVIOUS
  <2>7. /\ TableOK(t) /\ ino \in DOMAIN t.inodes /\ t.nextIno \in {nextIno, nextIno + 1}
        /\ ino \in DOMAIN inodes \cup {nextIno}
        /\ \A i \in Nat : RefsIn(t.inodes, i) = RefsIn(inodes, i) + (IF i = ino THEN 1 ELSE 0)
    BY <2>3, <2>5, <2>6 DEF LookedUp, Gains
  <2>8. ino \in Ids /\ ino \in Nat /\ nextIno <= MaxIds
    <3>1. nextIno \in 1 .. MaxIds /\ MaxIds \in Nat /\ DOMAIN inodes \subseteq 1 .. nextIno - 1
      BY <1>2, <2>3, FuseFsAssumption DEF MapsOK, Ids
    <3>2. ino \in 1 .. MaxIds
      BY <2>7, <3>1
    <3> QED
      BY <3>1, <3>2 DEF Ids
  <2>9. Evolves(Table, t)
    BY <2>3, <2>5, EvolvesUp
  <2>10. \A i \in Ids : RefsIn(inodes, i) \in Nat /\ i \in Nat
    BY <2>3 DEF RefsIn, MapsOK, InodeEntries, Ids
  <2>11. CASE Exists(p)
    <3>1. PICK r : r = [op |-> "entry", ino |-> ino]
      OBVIOUS
    <3>2. Become(t) /\ replies' = Append(replies, r)
      BY <1>4, <2>1, <2>2, <2>6, <2>7, <2>11, <3>1 DEF Lookup, Answer
    <3>3. r \in Answers /\ replies \in Seq(Answers) /\ r.op = "entry" /\ r.ino = ino
      BY <1>1, <2>8, <3>1 DEF Answers, FuseTypes
    <3>4. replies' \in Seq(Answers)
      BY <3>2, <3>3
    <3>5. t.nextIno <= MaxIds + 1
      <4>1. nextIno \in Nat /\ MaxIds \in Nat
        BY <1>1, FuseFsAssumption DEF FuseTypes
      <4> QED
        BY <2>7, <2>8, <4>1
    <3>6. FuseTypes' /\ Evolves(Table, Table')
      <4>1. nlookup' \in [Ids -> Nat] /\ listed' \in [Ids -> Nat] /\ forgets' \in Seq(OwedForgets)
        BY <1>1, <1>2 DEF FuseTypes
      <4>2. OtherTypes'
        BY <1>1, <1>2 DEF OtherTypes
      <4> QED
        BY <1>1, <2>9, <3>2, <3>4, <3>5, <4>1, <4>2, TableStep
    <3>7. ASSUME NEW i \in Ids \ {Root}
          PROVE  RefsIn(inodes', i) = nlookup'[i] + FlightOf(replies', i) + listed'[i] + OwedOf(forgets', i)
      <4>1. RefsIn(inodes, i) = nlookup[i] + FlightOf(replies, i) + listed[i] + OwedOf(forgets, i)
        BY <1>1 DEF Balanced
      <4>2. RefsIn(inodes', i) = RefsIn(inodes, i) + (IF i = ino THEN 1 ELSE 0)
        BY <2>7, <2>10, <3>2 DEF Become
      <4>3. FlightOf(replies', i) = FlightOf(replies, i) + Entry(r, i)
        BY <3>2, <3>3, FlightMore
      <4>4. Entry(r, i) = IF i = ino THEN 1 ELSE 0
        BY <3>3 DEF Entry
      <4>5. FlightOf(replies, i) \in Nat /\ nlookup[i] \in Nat /\ listed[i] \in Nat /\ OwedOf(forgets, i) \in Nat
        BY <1>1, FlightIsNat, OwedIsNat DEF FuseTypes
      <4>6. nlookup'[i] = nlookup[i] /\ listed'[i] = listed[i] /\ OwedOf(forgets', i) = OwedOf(forgets, i)
        BY <1>2
      <4> QED
        BY <4>1, <4>2, <4>3, <4>4, <4>5, <4>6
    <3> QED
      BY <3>6, <3>7 DEF FuseInv, Balanced
  <2>12. CASE ~Exists(p)
    <3>1. PICK u : u = ForgetIn(t, ino, 1)
      OBVIOUS
    <3>2. Become(u) /\ replies' = replies
      BY <1>4, <2>1, <2>2, <2>6, <2>7, <2>12, <3>1 DEF Lookup, Refuse
    <3>3. Forgotten(t, u, ino, 1)
      BY <2>7, <2>8, <3>1, Forgets
    <3>4. Evolves(Table, u)
      BY <2>3, <2>9, <3>3, EvolvesDown
    <3>5. u.nextIno <= MaxIds + 1
      <4>1. u.nextIno = t.nextIno
        BY <3>3 DEF Forgotten
      <4>2. nextIno \in Nat /\ MaxIds \in Nat
        BY <1>1, FuseFsAssumption DEF FuseTypes
      <4>3. t.nextIno <= MaxIds + 1
        BY <2>7, <2>8, <4>2
      <4> QED
        BY <4>1, <4>3
    <3>6. FuseTypes' /\ Evolves(Table, Table')
      <4>1. /\ nlookup' \in [Ids -> Nat] /\ listed' \in [Ids -> Nat] /\ forgets' \in Seq(OwedForgets)
            /\ replies' \in Seq(Answers)
        BY <1>1, <1>2, <3>2 DEF FuseTypes
      <4>2. OtherTypes'
        BY <1>1, <1>2 DEF OtherTypes
      <4> QED
        BY <1>1, <3>2, <3>4, <3>5, <4>1, <4>2, TableStep
    <3>7. ASSUME NEW i \in Ids \ {Root} PROVE RefsIn(inodes', i) = RefsIn(inodes, i)
      <4>1. i \in Nat /\ RefsIn(inodes, i) \in Nat /\ RefsIn(t.inodes, i) = RefsIn(inodes, i) + (IF i = ino THEN 1 ELSE 0)
        BY <2>7, <2>10
      <4>2. inodes' = u.inodes
        BY <3>2 DEF Become
      <4>3. CASE i = ino
        <5>1. RefsIn(u.inodes, i) = IF RefsIn(t.inodes, i) > 1 THEN RefsIn(t.inodes, i) - 1 ELSE 0
          BY <3>3, <4>3 DEF Forgotten, Loses
        <5> QED
          BY <4>1, <4>2, <4>3, <5>1
      <4>4. CASE i # ino
        <5>1. RefsIn(u.inodes, i) = RefsIn(t.inodes, i)
          BY <3>3, <4>1, <4>4 DEF Forgotten, Loses
        <5> QED
          BY <4>1, <4>2, <4>4, <5>1
      <4> QED
        BY <4>3, <4>4
    <3>8. Balanced(inodes', nlookup', replies', listed', forgets')
      BY <1>1, <1>2, <3>2, <3>7 DEF Balanced
    <3> QED
      BY <3>6, <3>8 DEF FuseInv
  <2> QED
    BY <2>11, <2>12
<1> QED
  BY <1>3, <1>4

LEMMA HostChanges ==
  ASSUME FuseInv, NEW p, Write(p) \/ Mkdir(p) \/ Delete(p)
  PROVE  SameRefs /\ replies' = replies /\ OtherTypes' /\ UNCHANGED <<handles, nextFh, opened>>
<1>1. OtherTypes
  BY DEF FuseInv, FuseTypes, OtherTypes
<1>2. NewFile \in Nat /\ Dir \in Nat
  BY <1>1, FuseFsAssumption, FS_CardinalityType DEF NewFile, OtherTypes, Dir
<1>3. PICK t : Change(t) /\ t \in [DOMAIN t -> Nat]
  <2>1. ASSUME NEW v \in Nat PROVE Put(tree, p, v) \in [DOMAIN tree \cup {p} -> Nat]
    BY <1>1 DEF Put, OtherTypes
  <2>2. Restrict(tree, {q \in DOMAIN tree : ~IsPrefix(p, q)}) \in [{q \in DOMAIN tree : ~IsPrefix(p, q)} -> Nat]
    BY <1>1 DEF Restrict, OtherTypes
  <2>3. CASE Write(p)
    <3>1. PICK t : t = Put(tree, p, NewFile)
      OBVIOUS
    <3>2. Change(t) /\ t \in [DOMAIN tree \cup {p} -> Nat]
      BY <1>2, <2>1, <2>3, <3>1 DEF Write
    <3> QED
      BY <3>2
  <2>4. CASE Mkdir(p)
    <3>1. PICK t : t = Put(tree, p, Dir)
      OBVIOUS
    <3>2. Change(t) /\ t \in [DOMAIN tree \cup {p} -> Nat]
      BY <1>2, <2>1, <2>4, <3>1 DEF Mkdir
    <3> QED
      BY <3>2
  <2>5. CASE Delete(p)
    <3>1. PICK t : t = Restrict(tree, {q \in DOMAIN tree : ~IsPrefix(p, q)})
      OBVIOUS
    <3>2. Change(t) /\ t \in [{q \in DOMAIN tree : ~IsPrefix(p, q)} -> Nat]
      BY <2>2, <2>5, <3>1 DEF Delete
    <3> QED
      BY <3>2
  <2> QED
    BY <2>3, <2>4, <2>5
<1>5. listing' \in Listings
  <2>1. listing' = [listing EXCEPT !.dirty = listing # NoListing] /\ (listing # NoListing) \in BOOLEAN
    BY <1>3 DEF Change
  <2>2. listing \in Listings
    BY <1>1 DEF OtherTypes
  <2> QED
    BY <2>1, <2>2 DEF Listings
<1>4. /\ tree' = t /\ changes' = changes + 1
      /\ UNCHANGED <<inodes, nextIno, pathIno, handles, nextFh, replies, nlookup, forgets, opened, listed>>
  BY <1>3 DEF Change, server
<1> QED
  BY <1>1, <1>3, <1>4, <1>5 DEF SameRefs, OtherTypes

LEMMA OpenTypes ==
  ASSUME FuseInv, NEW ino \in Ids, Open(ino)
  PROVE  SameRefs /\ OtherTypes' /\ \E r : Answered(r)
<1>1. OtherTypes /\ FuseTypes
  BY DEF FuseInv, FuseTypes, OtherTypes
<1>2. UNCHANGED <<inodes, nextIno, pathIno, tree, changes, nlookup, forgets, opened, listing, listed>> /\ nextFh \in Fhs
  BY DEF Open, world, client
<1>3. CASE Has(ino) /\ Exists(PathOf(ino))
  <2>1. PICK path : path = PathOf(ino)
    OBVIOUS
  <2>2. PICK file : file = tree[path]
    OBVIOUS
  <2>3. PICK h : h = [ino |-> ino, file |-> file]
    OBVIOUS
  <2>4. PICK r : r = [op |-> "open", fh |-> nextFh, ino |-> ino, path |-> path, file |-> file]
    OBVIOUS
  <2>5. handles' = Put(handles, nextFh, h) /\ nextFh' = nextFh + 1 /\ replies' = Append(replies, r)
    BY <1>3, <2>1, <2>2, <2>3, <2>4 DEF Open, Answer
  <2>6. file \in Nat
    BY <1>1, <1>3, <2>1, <2>2 DEF OtherTypes, Exists
  <2>7. path \in Seq(Names)
    <3>1. inodes[ino] \in InodeEntries
      BY <1>1, <1>3, TableFields DEF MapsOK, Has
    <3> QED
      BY <2>1, <3>1 DEF PathOf, InodeEntries
  <2>8. r \in Answers /\ r.op # "entry"
    BY <1>2, <2>4, <2>6, <2>7 DEF Answers
  <2>9. handles' \in [DOMAIN handles \cup {nextFh} -> [ino : Ids, file : Nat]]
    BY <1>1, <2>3, <2>5, <2>6 DEF OtherTypes, Put
  <2>10. nextFh' \in 1 .. MaxHandles + 1
    BY <1>2, <2>5, FuseFsAssumption DEF Fhs
  <2>11. OtherTypes'
    BY <1>1, <1>2, <2>9, <2>10 DEF OtherTypes
  <2> QED
    BY <1>2, <2>5, <2>8, <2>11 DEF SameRefs, Answered
<1>4. CASE ~(Has(ino) /\ Exists(PathOf(ino)))
  <2>1. UNCHANGED <<replies, handles, nextFh>>
    BY <1>4 DEF Open, Refuse
  <2>2. OtherTypes'
    BY <1>1, <1>2, <2>1 DEF OtherTypes
  <2> QED
    BY <1>2, <2>1, <2>2 DEF SameRefs, Answered
<1> QED
  BY <1>3, <1>4

LEMMA ReadTypes ==
  ASSUME FuseInv, NEW fh \in Fhs, Read(fh)
  PROVE  SameRefs /\ OtherTypes' /\ \E r : Answered(r)
<1>1. OtherTypes
  BY DEF FuseInv, FuseTypes, OtherTypes
<1>2. UNCHANGED <<inodes, nextIno, pathIno, handles, nextFh, tree, changes, nlookup, forgets, opened, listing, listed>>
  BY DEF Read, server, world, client
<1>3. \E r : Answered(r)
  <2>1. CASE fh \in DOMAIN handles
    <3>1. PICK file : file = handles[fh].file
      OBVIOUS
    <3>2. file \in Nat
      <4>1. handles[fh] \in [ino : Ids, file : Nat]
        BY <1>1, <2>1 DEF OtherTypes
      <4> QED
        BY <3>1, <4>1
    <3>3. PICK r : r = [op |-> "data", fh |-> fh, file |-> file]
      OBVIOUS
    <3>4. r \in Answers /\ r.op # "entry"
      BY <3>2, <3>3 DEF Answers
    <3>5. replies' = replies \/ replies' = Append(replies, r)
      BY <2>1, <3>1, <3>3 DEF Read, Refuse, Answer
    <3> QED
      BY <3>4, <3>5 DEF Answered
  <2>2. CASE fh \notin DOMAIN handles
    <3>1. replies' = replies
      BY <2>2 DEF Read, Refuse
    <3> QED
      BY <3>1 DEF Answered
  <2> QED
    BY <2>1, <2>2
<1>4. OtherTypes'
  BY <1>1, <1>2 DEF OtherTypes
<1> QED
  BY <1>2, <1>3, <1>4 DEF SameRefs

LEMMA ReleaseTypes ==
  ASSUME FuseInv, NEW fh \in Fhs, Release(fh)
  PROVE  SameRefs /\ OtherTypes' /\ replies' = replies
<1>1. OtherTypes
  BY DEF FuseInv, FuseTypes, OtherTypes
<1>2. /\ UNCHANGED <<inodes, nextIno, pathIno, nextFh, tree, changes, nlookup, forgets, listed, replies>>
      /\ handles' = Restrict(handles, DOMAIN handles \ {fh})
  BY DEF Release, world, Done
<1>3. handles' \in [DOMAIN handles \ {fh} -> [ino : Ids, file : Nat]]
  BY <1>1, <1>2 DEF OtherTypes, Restrict
<1>4. OtherTypes'
  <2>1. listing' \in {listing, NoListing}
    BY DEF Release
  <2>2. NoListing \in Listings
    BY DEF NoListing, Listings
  <2>3. listing' \in Listings
    BY <1>1, <2>1, <2>2 DEF OtherTypes
  <2> QED
    BY <1>1, <1>2, <1>3, <2>3 DEF OtherTypes
<1> QED
  BY <1>2, <1>4 DEF SameRefs

LEMMA ForgetStep ==
  ASSUME FuseInv, NEW k \in DOMAIN forgets, Forget(k)
  PROVE  FuseInv' /\ Evolves(Table, Table')
<1>1. FuseTypes /\ Balanced(inodes, nlookup, replies, listed, forgets) /\ OtherTypes
  BY DEF FuseInv, FuseTypes, OtherTypes
<1>2. PICK ino : ino = forgets[k].ino
  OBVIOUS
<1>3. PICK c : c = forgets[k].count
  OBVIOUS
<1>4. forgets \in Seq(OwedForgets) /\ forgets[k] \in OwedForgets
  BY <1>1 DEF FuseTypes
<1>5. ino \in Ids /\ ino \in Nat /\ c \in Nat
  BY <1>2, <1>3, <1>4 DEF OwedForgets, Ids
<1>6. PICK u : u = ForgetIn(Table, ino, c)
  OBVIOUS
<1>7. /\ Become(u) /\ forgets' = RemoveAt(forgets, k)
      /\ UNCHANGED <<handles, nextFh, tree, changes, replies, nlookup, opened, listing, listed>>
  BY <1>2, <1>3, <1>6 DEF Forget, world
<1>8. TableOK(Table) /\ Table.inodes = inodes /\ Table.nextIno = nextIno /\ MapsOK(inodes, pathIno, nextIno)
  BY <1>1, TableFields DEF FuseTypes
<1>9. Forgotten(Table, u, ino, c)
  BY <1>5, <1>6, <1>8, Forgets
<1>10. Evolves(Table, u)
  BY <1>8, <1>9, EvolvesSame, EvolvesDown
<1>11. u.nextIno <= MaxIds + 1
  <2>1. u.nextIno = nextIno
    BY <1>8, <1>9 DEF Forgotten
  <2> QED
    BY <1>1, <2>1, FuseFsAssumption DEF FuseTypes
<1>12. FuseTypes' /\ Evolves(Table, Table')
  <2>1. forgets' \in Seq(OwedForgets)
    BY <1>4, <1>7, Removed
  <2>2. nlookup' \in [Ids -> Nat] /\ listed' \in [Ids -> Nat] /\ replies' \in Seq(Answers)
    BY <1>1, <1>7 DEF FuseTypes
  <2>3. OtherTypes'
    BY <1>1, <1>7 DEF OtherTypes
  <2> QED
    BY <1>1, <1>7, <1>10, <1>11, <2>1, <2>2, <2>3, TableStep
<1>13. ASSUME NEW i \in Ids \ {Root}
       PROVE  RefsIn(inodes', i) = nlookup'[i] + FlightOf(replies', i) + listed'[i] + OwedOf(forgets', i)
  <2>1. RefsIn(inodes, i) = nlookup[i] + FlightOf(replies, i) + listed[i] + OwedOf(forgets, i)
    BY <1>1 DEF Balanced
  <2>2. FlightOf(replies, i) \in Nat /\ nlookup[i] \in Nat /\ listed[i] \in Nat
    BY <1>1, FlightIsNat DEF FuseTypes
  <2>3. OwedOf(forgets, i) = OwedOf(forgets', i) + Counts(forgets[k], i)
    BY <1>4, <1>7, OwedLess
  <2>4. OwedOf(forgets', i) \in Nat
    BY <1>12, OwedIsNat DEF FuseTypes
  <2>5. inodes' = u.inodes /\ i \in Nat /\ i # Root
    BY <1>7 DEF Become, Ids
  <2>6. nlookup'[i] = nlookup[i] /\ listed'[i] = listed[i] /\ FlightOf(replies', i) = FlightOf(replies, i)
    BY <1>7
  <2>7. CASE i = ino
    <3>1. Counts(forgets[k], i) = c
      BY <1>2, <1>3, <2>7 DEF Counts
    <3>2. RefsIn(u.inodes, i) = IF RefsIn(inodes, i) > c THEN RefsIn(inodes, i) - c ELSE 0
      BY <1>8, <1>9, <2>5, <2>7 DEF Forgotten, Loses
    <3>3. RefsIn(inodes, i) = nlookup[i] + FlightOf(replies, i) + listed[i] + OwedOf(forgets', i) + c
      BY <1>5, <2>1, <2>2, <2>3, <2>4, <3>1
    <3>4. RefsIn(u.inodes, i) = nlookup[i] + FlightOf(replies, i) + listed[i] + OwedOf(forgets', i)
      BY <1>5, <2>2, <2>4, <3>2, <3>3
    <3> QED
      BY <2>5, <2>6, <3>4
  <2>8. CASE i # ino
    <3>1. Counts(forgets[k], i) = 0
      BY <1>2, <2>8 DEF Counts
    <3>2. RefsIn(u.inodes, i) = RefsIn(inodes, i)
      BY <1>8, <1>9, <2>5, <2>8 DEF Forgotten, Loses
    <3>3. OwedOf(forgets, i) = OwedOf(forgets', i)
      BY <2>3, <2>4, <3>1
    <3> QED
      BY <2>1, <2>5, <2>6, <3>2, <3>3
  <2> QED
    BY <2>7, <2>8
<1> QED
  BY <1>12, <1>13 DEF FuseInv, Balanced

LEMMA MinOfTwo ==
  ASSUME NEW a \in Nat, NEW b \in Nat
  PROVE  Min({a, b}) = IF a <= b THEN a ELSE b
<1>1. \E m \in {a, b} : \A y \in {a, b} : m <= y
  BY SMT
<1>2. Min({a, b}) \in {a, b} /\ \A y \in {a, b} : Min({a, b}) <= y
  BY <1>1 DEF Min
<1>3. PICK m : m = Min({a, b})
  OBVIOUS
<1> QED
  BY <1>2, <1>3

\* A page is the part of the entries from a place on.
PageOf(es, pos, page) ==
  /\ page \in Seq(Names) /\ (page = <<>> <=> pos >= Len(es))
  /\ pos <= Len(es) => Len(page) <= Len(es) - pos
  /\ \A j \in 1 .. Len(page) : page[j] = es[pos + j]

LEMMA PageIsPart ==
  ASSUME NEW p, NEW pos \in Nat
  PROVE  PageOf(Entries(p), pos, Page(p, pos))
<1>1. PICK es \in Seq(Names) : es = Entries(p)
  BY EntriesAreNames
<1>2. PICK l \in Nat : l = Len(es)
  OBVIOUS
<1>3. PICK e : e = Min({pos + PageSize, l})
  OBVIOUS
<1>4. PageSize \in Nat /\ PageSize > 0
  BY FuseFsAssumption
<1>5. e = (IF pos + PageSize <= l THEN pos + PageSize ELSE l) /\ e \in Nat /\ e <= l
  <2>1. pos + PageSize \in Nat
    BY <1>4
  <2>2. e = IF pos + PageSize <= l THEN pos + PageSize ELSE l
    BY <1>3, <2>1, MinOfTwo
  <2> QED
    BY <2>1, <2>2
<1>6. PICK page : page = SubSeq(es, pos + 1, e)
  OBVIOUS
<1>7. \A j \in pos + 1 .. e : es[j] \in Names
  BY <1>2, <1>5
<1>8. page \in Seq(Names) /\ Len(page) = IF pos + 1 <= e THEN e - (pos + 1) + 1 ELSE 0
  BY <1>5, <1>6, <1>7, SubSeqProperties
<1>9. \A j \in 1 .. e - (pos + 1) + 1 : page[j] = es[(pos + 1) + j - 1]
  <2>1. PICK m \in Nat : m = pos + 1
    OBVIOUS
  <2>2. page = SubSeq(es, m, e) /\ \A j \in m .. e : es[j] \in Names
    BY <1>6, <1>7, <2>1
  <2>3. \A j \in 1 .. e - m + 1 : page[j] = es[m + j - 1]
    BY <1>5, <2>1, <2>2, SubSeqProperties
  <2> QED
    BY <2>1, <2>3
<1>10. page = Page(p, pos)
  BY <1>1, <1>2, <1>3, <1>6 DEF Page
<1>11. page = <<>> <=> pos >= l
  <2>1. page = <<>> <=> Len(page) = 0
    BY <1>8, EmptySeq
  <2>2. Len(page) = 0 <=> ~(pos + 1 <= e)
    BY <1>5, <1>8
  <2>3. ~(pos + 1 <= e) <=> pos >= l
    BY <1>4, <1>5
  <2> QED
    BY <2>1, <2>2, <2>3
<1>12. pos <= l => Len(page) <= l - pos
  BY <1>5, <1>8
<1>13. ASSUME NEW j \in 1 .. Len(page) PROVE page[j] = es[pos + j]
  <2>1. j \in 1 .. e - (pos + 1) + 1 /\ (pos + 1) + j - 1 = pos + j
    BY <1>5, <1>8
  <2> QED
    BY <1>9, <2>1
<1> QED
  BY <1>1, <1>2, <1>8, <1>10, <1>11, <1>12, <1>13 DEF PageOf

LEMMA ReaddirStep ==
  ASSUME FuseInv, Readdir
  PROVE  FuseInv' /\ Evolves(Table, Table')
<1>1. FuseTypes /\ Balanced(inodes, nlookup, replies, listed, forgets) /\ OtherTypes
  BY DEF FuseInv, FuseTypes, OtherTypes
<1>2. UNCHANGED <<handles, nextFh, tree, changes, nlookup, forgets, opened>> /\ listing' = [listing EXCEPT !.state = "waiting"]
  BY DEF Readdir, world
<1>3. OtherTypes'
  <2>1. listing' \in Listings
    BY <1>1, <1>2 DEF OtherTypes, Listings
  <2> QED
    BY <1>1, <1>2, <2>1 DEF OtherTypes
<1>4. PICK fh : fh = listing.fh
  OBVIOUS
<1>5. CASE fh \notin DOMAIN handles \/ ~Has(handles[fh].ino) \/ ~IsDir(PathOf(handles[fh].ino))
  <2>1. PICK r : r = [op |-> "nopage"]
    OBVIOUS
  <2>2. replies' = Append(replies, r) /\ UNCHANGED <<inodes, nextIno, pathIno, listed>>
    BY <1>4, <1>5, <2>1 DEF Readdir, Answer
  <2>3. r \in Answers /\ r.op # "entry"
    BY <2>1 DEF Answers
  <2>4. SameRefs /\ Answered(r)
    BY <1>2, <2>2, <2>3 DEF SameRefs, Answered
  <2> QED
    BY <1>3, <2>4, QuietStep
<1>6. CASE fh \in DOMAIN handles /\ Has(handles[fh].ino) /\ IsDir(PathOf(handles[fh].ino))
  <2>1. PICK ino : ino = handles[fh].ino
    OBVIOUS
  <2>2. PICK pos \in Nat : pos = listing.pos
    BY <1>1 DEF OtherTypes, Listings
  <2>3. PICK page : page = Page(PathOf(ino), pos)
    OBVIOUS
  <2>4. PICK t : t = LookupAll(Table, ino, page)
    OBVIOUS
  <2>5. PICK r : r = [op |-> "page", names |-> page]
    OBVIOUS
  <2>6. PICK path : path = PathOf(ino)
    OBVIOUS
  <2>7. /\ t.nextIno <= MaxIds + 1 /\ Become(t) /\ replies' = Append(replies, r)
        /\ listed' = [i \in Ids |-> listed[i] + Cardinality({k \in DOMAIN page : t.pathIno[Append(path, page[k])] = i})]
    BY <1>4, <1>6, <2>1, <2>2, <2>3, <2>4, <2>5, <2>6 DEF Readdir, Answer
  <2>8. TableOK(Table) /\ Table.inodes = inodes /\ MapsOK(inodes, pathIno, nextIno) /\ ino \in DOMAIN Table.inodes
    BY <1>1, <1>6, <2>1, TableFields DEF FuseTypes, Has
  <2>9. path = Table.inodes[ino].path
    BY <2>6, <2>8 DEF PathOf
  <2>10. page \in Seq(Names)
    BY <2>2, <2>3, PageIsPart DEF PageOf
  <2>11. Batch(Table, t, path, page, Len(page))
    BY <2>4, <2>8, <2>9, <2>10, LooksUpAll
  <2>12. Evolves(Table, t)
    BY <2>8, <2>11, EvolvesBatch
  <2>13. r \in Answers /\ r.op # "entry" /\ replies \in Seq(Answers)
    BY <1>1, <2>5, <2>10 DEF Answers, FuseTypes
  <2>14. DOMAIN page = 1 .. Len(page) /\ IsFiniteSet(1 .. Len(page))
    <3>1. Len(page) \in Nat /\ DOMAIN page = 1 .. Len(page)
      BY <2>10
    <3> QED
      BY <3>1, FS_Interval
  <2> DEFINE Given(i) == {k \in 1 .. Len(page) : t.pathIno[Append(path, page[k])] = i}
  <2>15. ASSUME NEW i \in Ids PROVE Cardinality(Given(i)) \in Nat /\ listed'[i] = listed[i] + Cardinality(Given(i))
    <3>1. IsFiniteSet(Given(i))
      BY <2>14, FS_Subset
    <3>2. Cardinality(Given(i)) \in Nat
      BY <3>1, FS_CardinalityType
    <3>3. {k \in DOMAIN page : t.pathIno[Append(path, page[k])] = i} = Given(i)
      BY <2>14
    <3> QED
      BY <2>7, <3>2, <3>3
  <2>16. ASSUME NEW i \in Nat PROVE RefsIn(t.inodes, i) = RefsIn(inodes, i) + Cardinality(Given(i))
    BY <2>8, <2>11 DEF Batch
  <2> HIDE DEF Given
  <2>17. FuseTypes' /\ Evolves(Table, Table')
    <3>1. listed' \in [Ids -> Nat]
      <4>1. \A i \in Ids : listed'[i] \in Nat
        BY <1>1, <2>15 DEF FuseTypes
      <4>2. listed' = [i \in Ids |-> listed'[i]]
        BY <2>7
      <4> QED
        BY <4>1, <4>2
    <3>2. nlookup' \in [Ids -> Nat] /\ forgets' \in Seq(OwedForgets) /\ replies' \in Seq(Answers)
      BY <1>1, <1>2, <2>7, <2>13 DEF FuseTypes
    <3> QED
      BY <1>1, <1>3, <2>7, <2>12, <3>1, <3>2, TableStep
  <2>18. ASSUME NEW i \in Ids \ {Root}
         PROVE  RefsIn(inodes', i) = nlookup'[i] + FlightOf(replies', i) + listed'[i] + OwedOf(forgets', i)
    <3>1. RefsIn(inodes, i) = nlookup[i] + FlightOf(replies, i) + listed[i] + OwedOf(forgets, i)
      BY <1>1 DEF Balanced
    <3>2. FlightOf(replies, i) \in Nat /\ nlookup[i] \in Nat /\ listed[i] \in Nat /\ OwedOf(forgets, i) \in Nat
      BY <1>1, FlightIsNat, OwedIsNat DEF FuseTypes
    <3>3. FlightOf(replies', i) = FlightOf(replies, i) + Entry(r, i) /\ Entry(r, i) = 0
      BY <2>7, <2>13, FlightMore DEF Entry
    <3>4. i \in Nat /\ inodes' = t.inodes
      BY <2>7 DEF Ids, Become
    <3>5. RefsIn(t.inodes, i) = RefsIn(inodes, i) + Cardinality(Given(i))
      BY <2>16, <3>4
    <3>6. Cardinality(Given(i)) \in Nat /\ listed'[i] = listed[i] + Cardinality(Given(i))
      BY <2>15
    <3>7. nlookup'[i] = nlookup[i] /\ OwedOf(forgets', i) = OwedOf(forgets, i)
      BY <1>2
    <3> QED
      BY <3>1, <3>2, <3>3, <3>4, <3>5, <3>6, <3>7
  <2> QED
    BY <2>17, <2>18 DEF FuseInv, Balanced
<1> QED
  BY <1>5, <1>6

LEMMA TakeStep ==
  ASSUME FuseInv, Take
  PROVE  FuseInv' /\ Evolves(Table, Table')
<1>1. FuseTypes /\ Balanced(inodes, nlookup, replies, listed, forgets) /\ OtherTypes
  BY DEF FuseInv, FuseTypes, OtherTypes
<1>2. PICK r : r = Head(replies)
  OBVIOUS
<1>3. replies \in Seq(Answers) /\ replies # <<>> /\ replies' = Tail(replies) /\ r \in Answers /\ replies' \in Seq(Answers)
  BY <1>1, <1>2, HeadTailProperties DEF FuseTypes, Take
<1>4. /\ UNCHANGED <<inodes, nextIno, pathIno, handles, nextFh, tree, changes, forgets, listed>>
      /\ nlookup' = IF r.op = "entry" THEN [nlookup EXCEPT ![r.ino] = @ + 1] ELSE nlookup
  BY <1>2 DEF Take, server, world
<1>5. r.op = "entry" => r.ino \in Ids
  BY <1>3 DEF Answers
<1>6. nlookup' \in [Ids -> Nat] /\ \A i \in Ids : nlookup'[i] = nlookup[i] + Entry(r, i)
  BY <1>1, <1>4, <1>5 DEF FuseTypes, Entry
<1>7. listing' \in Listings
  <2>1. listing \in Listings
    BY <1>1 DEF OtherTypes
  <2>2. NoListing \in Listings
    BY DEF NoListing, Listings
  <2>3. CASE r.op = "page"
    <3>1. PICK names \in Seq(Names) : names = r.names
      BY <1>3, <2>3 DEF Answers
    <3>2. CASE names = <<>>
      <4>1. listing' = [listing EXCEPT !.state = "done"]
        BY <1>2, <2>3, <3>1, <3>2 DEF Take
      <4> QED
        BY <2>1, <4>1 DEF Listings
    <3>3. CASE names # <<>>
      <4>1. listing' = [listing EXCEPT !.state = "reading", !.pos = @ + Len(names), !.got = @ \o names]
        BY <1>2, <2>3, <3>1, <3>3 DEF Take
      <4>2. PICK pos \in Nat : pos = listing.pos + Len(names)
        BY <2>1, <3>1 DEF Listings
      <4>3. PICK got \in Seq(Names) : got = listing.got \o names
        <5>1. PICK old \in Seq(Names) : old = listing.got
          BY <2>1 DEF Listings
        <5>2. old \o names \in Seq(Names)
          BY <3>1, <5>1
        <5> QED
          BY <5>1, <5>2
      <4>4. listing' = [listing EXCEPT !.state = "reading", !.pos = pos, !.got = got]
        BY <4>1, <4>2, <4>3
      <4> QED
        BY <2>1, <4>4 DEF Listings
    <3> QED
      BY <3>2, <3>3
  <2>4. CASE r.op # "page"
    <3>1. listing' \in {listing, NoListing}
      BY <1>2, <2>4 DEF Take
    <3> QED
      BY <2>1, <2>2, <3>1
  <2> QED
    BY <2>3, <2>4
<1>8. FuseTypes'
  <2>1. Table' = Table
    BY <1>4 DEF Table
  <2> QED
    BY <1>1, <1>3, <1>4, <1>6, <1>7, <2>1 DEF FuseTypes
<1>9. Evolves(Table, Table')
  <2>1. Table' = Table /\ TableOK(Table)
    BY <1>1, <1>4 DEF Table, FuseTypes
  <2> QED
    BY <2>1, EvolvesSame
<1>10. ASSUME NEW i \in Ids \ {Root}
       PROVE  RefsIn(inodes', i) = nlookup'[i] + FlightOf(replies', i) + listed'[i] + OwedOf(forgets', i)
  <2>1. RefsIn(inodes, i) = nlookup[i] + FlightOf(replies, i) + listed[i] + OwedOf(forgets, i)
    BY <1>1 DEF Balanced
  <2>2. FlightOf(replies, i) = FlightOf(replies', i) + Entry(r, i)
    BY <1>2, <1>3, FlightLess
  <2>3. nlookup'[i] = nlookup[i] + Entry(r, i) /\ listed'[i] = listed[i] /\ OwedOf(forgets', i) = OwedOf(forgets, i)
    BY <1>4, <1>6
  <2>4. /\ FlightOf(replies', i) \in Nat /\ nlookup[i] \in Nat /\ listed[i] \in Nat
        /\ OwedOf(forgets, i) \in Nat /\ Entry(r, i) \in Nat
    BY <1>1, <1>3, FlightIsNat, OwedIsNat DEF FuseTypes, Entry
  <2>5. RefsIn(inodes', i) = RefsIn(inodes, i)
    BY <1>4
  <2> QED
    BY <2>1, <2>2, <2>3, <2>4, <2>5
<1> QED
  BY <1>8, <1>9, <1>10 DEF FuseInv, Balanced

LEMMA EvictStep ==
  ASSUME FuseInv, NEW ino \in Ids, Evict(ino)
  PROVE  FuseInv' /\ Evolves(Table, Table')
<1>1. FuseTypes /\ Balanced(inodes, nlookup, replies, listed, forgets)
  BY DEF FuseInv
<1>2. PICK f : f = [ino |-> ino, count |-> nlookup[ino]]
  OBVIOUS
<1>3. /\ UNCHANGED <<inodes, nextIno, pathIno, handles, nextFh, tree, changes, replies, opened, listing, listed>>
      /\ forgets' = Append(forgets, f) /\ nlookup' = [nlookup EXCEPT ![ino] = 0]
  BY <1>2 DEF Evict, server, world
<1>4. f \in OwedForgets /\ forgets \in Seq(OwedForgets) /\ f.ino = ino /\ f.count = nlookup[ino]
  BY <1>1, <1>2 DEF OwedForgets, FuseTypes
<1>5. nlookup' \in [Ids -> Nat] /\ \A i \in Ids : nlookup'[i] = IF i = ino THEN 0 ELSE nlookup[i]
  BY <1>1, <1>3 DEF FuseTypes
<1>6. Table' = Table
  BY <1>3 DEF Table
<1>7. FuseTypes'
  <2>1. forgets' \in Seq(OwedForgets)
    BY <1>3, <1>4
  <2> QED
    BY <1>1, <1>3, <1>5, <1>6, <2>1 DEF FuseTypes
<1>8. Evolves(Table, Table')
  BY <1>1, <1>6, EvolvesSame DEF FuseTypes
<1>9. ASSUME NEW i \in Ids \ {Root}
      PROVE  RefsIn(inodes', i) = nlookup'[i] + FlightOf(replies', i) + listed'[i] + OwedOf(forgets', i)
  <2>1. RefsIn(inodes, i) = nlookup[i] + FlightOf(replies, i) + listed[i] + OwedOf(forgets, i)
    BY <1>1 DEF Balanced
  <2>2. OwedOf(forgets', i) = OwedOf(forgets, i) + Counts(f, i)
    BY <1>3, <1>4, OwedMore
  <2>3. Counts(f, i) = IF i = ino THEN nlookup[i] ELSE 0
    BY <1>4 DEF Counts
  <2>4. nlookup'[i] = (IF i = ino THEN 0 ELSE nlookup[i]) /\ listed'[i] = listed[i] /\ FlightOf(replies', i) = FlightOf(replies, i)
    BY <1>3, <1>5
  <2>5. FlightOf(replies, i) \in Nat /\ nlookup[i] \in Nat /\ listed[i] \in Nat /\ OwedOf(forgets, i) \in Nat
    BY <1>1, FlightIsNat, OwedIsNat DEF FuseTypes
  <2>6. RefsIn(inodes', i) = RefsIn(inodes, i)
    BY <1>3
  <2> QED
    BY <2>1, <2>2, <2>3, <2>4, <2>5, <2>6
<1> QED
  BY <1>7, <1>8, <1>9 DEF FuseInv, Balanced

\* An empty table, with the root alone.
LEMMA NewTable ==
  /\ TableOK(NewInodes(Top)) /\ NewInodes(Top).nextIno = 2
  /\ DOMAIN NewInodes(Top).inodes = {Root} /\ NewInodes(Top).inodes[Root].path = Top
<1>1. PICK I : I = [i \in {Root} |-> [path |-> Top, refs |-> 1]]
  OBVIOUS
<1>2. PICK P : P = [q \in {Top} |-> Root]
  OBVIOUS
<1>3. NewInodes(Top) = [inodes |-> I, nextIno |-> 2, pathIno |-> P]
  BY <1>1, <1>2 DEF NewInodes
<1>4. PICK e \in InodeEntries : e.path = Top /\ e = [path |-> Top, refs |-> 1]
  <2>1. Top \in Seq(Names)
    BY DEF Top
  <2>2. [path |-> Top, refs |-> 1] \in InodeEntries
    BY <2>1 DEF InodeEntries
  <2> QED
    BY <2>2
<1>5. I \in [{Root} -> InodeEntries] /\ DOMAIN I = {Root} /\ I[Root] = e
  BY <1>1, <1>4
<1>6. P \in [{Top} -> {Root}] /\ DOMAIN P = {Top} /\ P[Top] = Root
  BY <1>2
<1>7. MapsOK(I, P, 2)
  BY <1>4, <1>5, <1>6 DEF MapsOK, Root
<1> QED
  BY <1>3, <1>4, <1>5, <1>7 DEF TableOK, TableOf

LEMMA StartsOver ==
  ASSUME SetRoot, FuseInv
  PROVE  FuseInv' /\ F!Restart
<1>1. /\ Become(NewInodes(Top)) /\ nlookup' = [i \in Ids |-> 0] /\ listed' = [i \in Ids |-> 0]
      /\ replies' = <<>> /\ forgets' = <<>> /\ handles' = <<>> /\ nextFh' = 1 /\ listing' = NoListing
      /\ UNCHANGED <<tree, changes>>
  BY DEF SetRoot
<1>2. PICK t : t = NewInodes(Top)
  OBVIOUS
<1>3. TableOK(t) /\ t.nextIno = 2 /\ DOMAIN t.inodes = {Root} /\ t.inodes[Root].path = Top
  BY <1>2, NewTable
<1>4. Table' = t /\ inodes' = t.inodes /\ nextIno' = 2
  BY <1>1, <1>2, <1>3, TableMade DEF Become
<1>5. FuseTypes'
  <2>1. handles' \in [DOMAIN handles' -> [ino : Ids, file : Nat]]
    BY <1>1
  <2>2. nextFh' \in 1 .. MaxHandles + 1 /\ nextIno' \in 2 .. MaxIds + 1
    BY <1>1, <1>4, FuseFsAssumption
  <2>3. NoListing \in Listings
    BY DEF NoListing, Listings
  <2>4. replies' \in Seq(Answers) /\ forgets' \in Seq(OwedForgets)
    BY <1>1
  <2>5. nlookup' \in [Ids -> Nat] /\ listed' \in [Ids -> Nat]
    BY <1>1
  <2>6. tree' \in [DOMAIN tree' -> Nat] /\ changes' \in Nat
    BY <1>1 DEF FuseInv, FuseTypes
  <2> QED
    BY <1>1, <1>3, <1>4, <2>1, <2>2, <2>3, <2>4, <2>5, <2>6 DEF FuseTypes
<1>6. ASSUME NEW i \in Ids \ {Root}
      PROVE  RefsIn(inodes', i) = nlookup'[i] + FlightOf(replies', i) + listed'[i] + OwedOf(forgets', i)
  <2>1. RefsIn(inodes', i) = 0
    BY <1>3, <1>4 DEF RefsIn
  <2>2. FlightOf(replies', i) = 0 /\ OwedOf(forgets', i) = 0
    BY <1>1, FlightOfNone, OwedOfNone
  <2>3. nlookup'[i] = 0 /\ listed'[i] = 0
    BY <1>1
  <2> QED
    BY <2>1, <2>2, <2>3
<1>7. F!Restart
  <2>1. [i \in DOMAIN inodes |-> PathOf(i)]' = [i \in {Root} |-> Top]
    BY <1>3, <1>4 DEF PathOf
  <2>2. Top \in Paths
    <3>1. <<>> \in [1 .. 0 -> Names] /\ 0 \in 0 .. Depth
      BY DEF Depth
    <3> QED
      BY <3>1 DEF Paths, Top
  <2>3. (1 .. nextIno - 1)' = {Root}
    BY <1>4 DEF Root
  <2>4. [i \in {Root} |-> Top] \in [{Root} -> Paths]
    BY <2>2
  <2> QED
    BY <2>1, <2>3, <2>4 DEF F!Restart, F!Fresh
<1> QED
  BY <1>5, <1>6, <1>7 DEF FuseInv, Balanced

LEMMA FuseStarts ==
  ASSUME Init
  PROVE  FuseInv /\ F!Init
<1>1. PICK t : t = NewInodes(Top)
  OBVIOUS
<1>2. TableOK(t) /\ t.nextIno = 2 /\ DOMAIN t.inodes = {Root} /\ t.inodes[Root].path = Top
  BY <1>1, NewTable
<1>3. inodes = t.inodes /\ nextIno = t.nextIno /\ pathIno = t.pathIno
  BY <1>1 DEF Init
<1>4. Table = t
  BY <1>2, <1>3 DEF TableOK, TableOf, Table
<1>5. FuseTypes
  <2>1. handles \in [DOMAIN handles -> [ino : Ids, file : Nat]]
    BY DEF Init
  <2>2. nextFh \in 1 .. MaxHandles + 1 /\ nextIno \in 2 .. MaxIds + 1
    BY <1>2, <1>3, FuseFsAssumption DEF Init
  <2>3. listing \in Listings
    BY DEF NoListing, Listings, Init
  <2>4. replies \in Seq(Answers) /\ forgets \in Seq(OwedForgets)
    BY DEF Init
  <2>5. nlookup \in [Ids -> Nat] /\ listed \in [Ids -> Nat]
    BY DEF Init
  <2>6. tree \in [DOMAIN tree -> Nat] /\ changes \in Nat
    BY FuseFsAssumption DEF Init
  <2> QED
    BY <1>2, <1>4, <2>1, <2>2, <2>3, <2>4, <2>5, <2>6 DEF FuseTypes
<1>6. ASSUME NEW i \in Ids \ {Root}
      PROVE  RefsIn(inodes, i) = nlookup[i] + FlightOf(replies, i) + listed[i] + OwedOf(forgets, i)
  <2>1. RefsIn(inodes, i) = 0
    BY <1>2, <1>3 DEF RefsIn
  <2>2. FlightOf(replies, i) = 0 /\ OwedOf(forgets, i) = 0
    BY FlightOfNone, OwedOfNone DEF Init
  <2>3. nlookup[i] = 0 /\ listed[i] = 0
    BY DEF Init
  <2> QED
    BY <2>1, <2>2, <2>3
<1>7. F!Init
  <2>1. [i \in DOMAIN inodes |-> PathOf(i)] = [i \in {Root} |-> Top]
    BY <1>2, <1>3 DEF PathOf
  <2>2. Top \in Paths
    <3>1. <<>> \in [1 .. 0 -> Names] /\ 0 \in 0 .. Depth
      BY DEF Depth
    <3> QED
      BY <3>1 DEF Paths, Top
  <2>3. 1 .. nextIno - 1 = {Root}
    BY <1>2, <1>3 DEF Root
  <2>4. [i \in {Root} |-> Top] \in [{Root} -> Paths]
    BY <2>2
  <2> QED
    BY <2>1, <2>3, <2>4 DEF F!Init, F!Fresh
<1> QED
  BY <1>5, <1>6, <1>7 DEF FuseInv, Balanced

\* Every step keeps the balance, and a step but set_root() makes the ids evolve.
LEMMA FuseStep ==
  ASSUME FuseInv, Next
  PROVE  FuseInv' /\ (SetRoot \/ Evolves(Table, Table'))
<1>0. OtherTypes
  BY DEF FuseInv, FuseTypes, OtherTypes
<1>1. ASSUME SameRefs, NEW r, Answered(r), OtherTypes' PROVE FuseInv' /\ Evolves(Table, Table')
  BY <1>1, QuietStep
<1>2. CASE \E parent \in Ids, name \in Names \cup {NoName} : Lookup(parent, name)
  BY <1>2, LookupStep
<1>3. CASE \E ino \in Ids : Getattr(ino)
  <2>1. SameRefs /\ Answered(0) /\ OtherTypes'
    BY <1>0, <1>3 DEF Getattr, Done, Refuse, Answered, SameRefs, OtherTypes, server, world, client
  <2> QED
    BY <1>1, <2>1
<1>4. CASE \E ino \in Ids : Open(ino)
  BY <1>1, <1>4, OpenTypes
<1>5. CASE \E fh \in Fhs : Read(fh)
  BY <1>1, <1>5, ReadTypes
<1>6. CASE \E fh \in Fhs : Release(fh)
  <2>1. SameRefs /\ OtherTypes' /\ Answered(0)
    BY <1>6, ReleaseTypes DEF Answered
  <2> QED
    BY <1>1, <2>1
<1>7. CASE Readdir
  BY <1>7, ReaddirStep
<1>8. CASE \E opcode \in Refused \cup Granted \cup Other : Fixed(opcode)
  <2>1. PICK opcode : Fixed(opcode)
    BY <1>8
  <2>2. replies' = replies
    BY <2>1 DEF Fixed, Done, Refuse
  <2>3. SameRefs /\ Answered(0) /\ OtherTypes'
    BY <1>0, <2>1, <2>2 DEF Fixed, Answered, SameRefs, OtherTypes, server, world, client
  <2> QED
    BY <1>1, <2>3
<1>9. CASE \E k \in DOMAIN forgets : Forget(k)
  BY <1>9, ForgetStep
<1>10. CASE Take
  BY <1>10, TakeStep
<1>11. CASE \E ino \in Ids : Evict(ino)
  BY <1>11, EvictStep
<1>12. CASE \E fh \in Fhs : List(fh)
  <2>1. PICK fh \in Fhs : List(fh)
    BY <1>12
  <2>2. listing' \in Listings
    <3>1. fh \in Nat
      BY DEF Fhs
    <3>2. listing' = [state |-> "reading", fh |-> fh, pos |-> 0, got |-> <<>>, dirty |-> FALSE]
      BY <2>1 DEF List
    <3> QED
      BY <3>1, <3>2 DEF Listings
  <2>3. SameRefs /\ Answered(0) /\ OtherTypes'
    BY <1>0, <2>1, <2>2 DEF List, Answered, SameRefs, OtherTypes, server, world
  <2> QED
    BY <1>1, <2>3
<1>13. CASE \E p \in Paths : Write(p) \/ Mkdir(p) \/ Delete(p)
  <2>1. SameRefs /\ Answered(0) /\ OtherTypes'
    BY <1>13, HostChanges DEF Answered
  <2> QED
    BY <1>1, <2>1
<1>14. CASE SetRoot
  BY <1>14, StartsOver
<1> QED
  BY <1>2, <1>3, <1>4, <1>5, <1>6, <1>7, <1>8, <1>9, <1>10, <1>11, <1>12, <1>13, <1>14 DEF Next, Request

\* The count of an id is what the guest holds, is about to get and is about to give
\* back, and what listings gave it: RefsBalance.
LEMMA BalanceIs ==
  ASSUME FuseInv
  PROVE  RefsBalance
<1>1. ASSUME NEW i PROVE InFlight(i) = FlightOf(replies, i) /\ Owed(i) = OwedOf(forgets, i)
  BY DEF InFlight, Owed, FlightOf, OwedOf, EntriesIn, CountsIn, Entry, Counts
<1> QED
  BY <1>1 DEF FuseInv, Balanced, RefsBalance, Has, RefsIn

-----------------------------------------------------------------------------
(* FuseFs: what the guest sees of open files.                              *)

\* An id that cannot go: the guest holds it, and it means this path.
Pinned(I, nl, i, p) == i \in Ids /\ (i = Root \/ nl[i] > 0) /\ i \in DOMAIN I /\ I[i].path = p

\* Open files and those about to be have handles of their own on the file that was opened.
OpenOK(I, nl, H, n, O, R) ==
  /\ DOMAIN H \subseteq 1 .. n - 1
  /\ \A fh \in DOMAIN O :
       fh \in DOMAIN H /\ H[fh].ino = O[fh].ino /\ H[fh].file = O[fh].file /\ Pinned(I, nl, O[fh].ino, O[fh].path)
  /\ \A k \in DOMAIN R : R[k].op = "open" =>
       /\ R[k].fh \in DOMAIN H \ DOMAIN O /\ H[R[k].fh].ino = R[k].ino /\ H[R[k].fh].file = R[k].file
       /\ Pinned(I, nl, R[k].ino, R[k].path)
  /\ \A j, k \in DOMAIN R : R[j].op = "open" /\ R[k].op = "open" /\ R[j].fh = R[k].fh => j = k
  /\ \A k \in DOMAIN R : R[k].op = "data" => R[k].fh \in DOMAIN O /\ R[k].file = O[R[k].fh].file

OpenInv == OpenOK(inodes, nlookup, handles, nextFh, opened, replies)

LEMMA AppendedAt ==
  ASSUME NEW R \in Seq(Answers), NEW r \in Answers, NEW Q, Q = Append(R, r)
  PROVE  \E l \in Nat : /\ l \notin DOMAIN R /\ DOMAIN Q = DOMAIN R \cup {l} /\ Q[l] = r
                        /\ \A k \in DOMAIN R : Q[k] = R[k]
<1>1. PICK n \in Nat : n = Len(R) /\ DOMAIN R = 1 .. n
  OBVIOUS
<1>2. Q \in Seq(Answers) /\ Len(Q) = n + 1 /\ (\A k \in 1 .. n : Q[k] = R[k]) /\ Q[n + 1] = r
  BY <1>1, AppendProperties
<1>3. DOMAIN Q = 1 .. n + 1
  BY <1>2
<1> QED
  BY <1>1, <1>2, <1>3

LEMMA TailAt ==
  ASSUME NEW R \in Seq(Answers), R # <<>>, NEW Q, Q = Tail(R), NEW r, r = Head(R)
  PROVE  /\ 1 \in DOMAIN R /\ R[1] = r /\ r \in Answers /\ DOMAIN Q \subseteq Nat \ {0}
         /\ \A k \in DOMAIN Q : k + 1 \in DOMAIN R /\ Q[k] = R[k + 1]
<1>1. PICK n \in Nat : n = Len(R) /\ DOMAIN R = 1 .. n
  OBVIOUS
<1>2. n # 0
  BY <1>1, EmptySeq
<1>3. Q \in Seq(Answers) /\ Len(Q) = n - 1 /\ (\A k \in 1 .. Len(Q) : Q[k] = R[k + 1]) /\ r = R[1] /\ r \in Answers
  BY <1>1, <1>2, HeadTailProperties
<1>4. DOMAIN Q = 1 .. n - 1
  BY <1>1, <1>2, <1>3
<1> QED
  BY <1>1, <1>2, <1>3, <1>4

LEMMA OpenHeld ==
  ASSUME NEW I, NEW nl, NEW H, NEW n, NEW O, NEW R, OpenOK(I, nl, H, n, O, R), NEW J, NEW ml,
         \A fh \in DOMAIN O : Pinned(I, nl, O[fh].ino, O[fh].path) => Pinned(J, ml, O[fh].ino, O[fh].path),
         \A k \in DOMAIN R : R[k].op = "open" /\ Pinned(I, nl, R[k].ino, R[k].path) => Pinned(J, ml, R[k].ino, R[k].path)
  PROVE  OpenOK(J, ml, H, n, O, R)
BY DEF OpenOK

LEMMA OpenAnswered ==
  ASSUME NEW I, NEW nl, NEW H, NEW n, NEW O, NEW R \in Seq(Answers), OpenOK(I, nl, H, n, O, R),
         NEW r \in Answers, r.op # "open", r.op = "data" => r.fh \in DOMAIN O /\ r.file = O[r.fh].file,
         NEW Q, Q = Append(R, r)
  PROVE  OpenOK(I, nl, H, n, O, Q)
<1>1. PICK l \in Nat : /\ l \notin DOMAIN R /\ DOMAIN Q = DOMAIN R \cup {l} /\ Q[l] = r
                       /\ \A k \in DOMAIN R : Q[k] = R[k]
  BY AppendedAt
<1>2. \A k \in DOMAIN Q : Q[k].op = "open" => k \in DOMAIN R /\ Q[k] = R[k]
  BY <1>1
<1>3. ASSUME NEW k \in DOMAIN Q, Q[k].op = "data" PROVE Q[k].fh \in DOMAIN O /\ Q[k].file = O[Q[k].fh].file
  <2>1. CASE k = l
    BY <1>1, <1>3, <2>1
  <2>2. CASE k # l
    <3>1. k \in DOMAIN R /\ Q[k] = R[k]
      BY <1>1, <2>2
    <3> QED
      BY <1>3, <3>1 DEF OpenOK
  <2> QED
    BY <2>1, <2>2
<1>4. DOMAIN H \subseteq 1 .. n - 1 /\ \A fh \in DOMAIN O :
       fh \in DOMAIN H /\ H[fh].ino = O[fh].ino /\ H[fh].file = O[fh].file /\ Pinned(I, nl, O[fh].ino, O[fh].path)
  BY DEF OpenOK
<1>5. \A k \in DOMAIN Q : Q[k].op = "open" =>
       /\ Q[k].fh \in DOMAIN H \ DOMAIN O /\ H[Q[k].fh].ino = Q[k].ino /\ H[Q[k].fh].file = Q[k].file
       /\ Pinned(I, nl, Q[k].ino, Q[k].path)
  BY <1>2 DEF OpenOK
<1>6. \A j, k \in DOMAIN Q : Q[j].op = "open" /\ Q[k].op = "open" /\ Q[j].fh = Q[k].fh => j = k
  BY <1>2 DEF OpenOK
<1> QED
  BY <1>3, <1>4, <1>5, <1>6 DEF OpenOK

LEMMA OpenOpened ==
  ASSUME NEW I, NEW nl, NEW H, NEW n \in Nat, NEW O, NEW R \in Seq(Answers), OpenOK(I, nl, H, n, O, R),
         n > 0, NEW r \in Answers, r.op = "open", r.fh = n, Pinned(I, nl, r.ino, r.path),
         NEW h, h.ino = r.ino, h.file = r.file, NEW G, G = Put(H, n, h), NEW Q, Q = Append(R, r)
  PROVE  OpenOK(I, nl, G, n + 1, O, Q)
<1>1. PICK l \in Nat : /\ l \notin DOMAIN R /\ DOMAIN Q = DOMAIN R \cup {l} /\ Q[l] = r
                       /\ \A k \in DOMAIN R : Q[k] = R[k]
  BY AppendedAt
<1>2. DOMAIN H \subseteq 1 .. n - 1 /\ n \notin DOMAIN H
  BY DEF OpenOK
<1>3. DOMAIN G = DOMAIN H \cup {n} /\ G[n] = h /\ \A fh \in DOMAIN H : G[fh] = H[fh]
  BY <1>2 DEF Put
<1>4. n \notin DOMAIN O
  BY <1>2 DEF OpenOK
<1>5. DOMAIN G \subseteq 1 .. (n + 1) - 1
  BY <1>2, <1>3
<1>6. \A fh \in DOMAIN O :
       fh \in DOMAIN G /\ G[fh].ino = O[fh].ino /\ G[fh].file = O[fh].file /\ Pinned(I, nl, O[fh].ino, O[fh].path)
  BY <1>3 DEF OpenOK
<1>7. ASSUME NEW k \in DOMAIN Q, Q[k].op = "open"
      PROVE  /\ Q[k].fh \in DOMAIN G \ DOMAIN O /\ G[Q[k].fh].ino = Q[k].ino /\ G[Q[k].fh].file = Q[k].file
             /\ Pinned(I, nl, Q[k].ino, Q[k].path)
  <2>1. CASE k = l
    BY <1>1, <1>3, <1>4, <2>1
  <2>2. CASE k # l
    <3>1. k \in DOMAIN R /\ Q[k] = R[k]
      BY <1>1, <2>2
    <3>2. /\ R[k].fh \in DOMAIN H \ DOMAIN O /\ H[R[k].fh].ino = R[k].ino /\ H[R[k].fh].file = R[k].file
          /\ Pinned(I, nl, R[k].ino, R[k].path)
      BY <1>7, <3>1 DEF OpenOK
    <3> QED
      BY <1>3, <3>1, <3>2
  <2> QED
    BY <2>1, <2>2
<1>8. ASSUME NEW j \in DOMAIN Q, NEW k \in DOMAIN Q, Q[j].op = "open", Q[k].op = "open", Q[j].fh = Q[k].fh
      PROVE  j = k
  <2>1. \A m \in DOMAIN R : R[m].op = "open" => R[m].fh # n
    BY <1>2 DEF OpenOK
  <2>2. CASE j \in DOMAIN R /\ k \in DOMAIN R
    <3>1. Q[j] = R[j] /\ Q[k] = R[k]
      BY <1>1, <2>2
    <3> QED
      BY <1>8, <2>2, <3>1 DEF OpenOK
  <2>3. CASE j = l \/ k = l
    BY <1>1, <1>8, <2>1, <2>3
  <2> QED
    BY <1>1, <2>2, <2>3
<1>9. \A k \in DOMAIN Q : Q[k].op = "data" => Q[k].fh \in DOMAIN O /\ Q[k].file = O[Q[k].fh].file
  BY <1>1 DEF OpenOK
<1> QED
  BY <1>5, <1>6, <1>7, <1>8, <1>9 DEF OpenOK

LEMMA OpenTaken ==
  ASSUME NEW I, NEW nl, NEW H, NEW n, NEW O, NEW R \in Seq(Answers), OpenOK(I, nl, H, n, O, R), R # <<>>,
         NEW r, r = Head(R), NEW Q, Q = Tail(R), NEW P,
         P = IF r.op = "open" THEN Put(O, r.fh, [ino |-> r.ino, path |-> r.path, file |-> r.file]) ELSE O
  PROVE  OpenOK(I, nl, H, n, P, Q)
<1>1. /\ 1 \in DOMAIN R /\ R[1] = r /\ r \in Answers /\ DOMAIN Q \subseteq Nat \ {0}
      /\ \A k \in DOMAIN Q : k + 1 \in DOMAIN R /\ Q[k] = R[k + 1]
  BY TailAt
<1>2. \A k \in DOMAIN Q : k \in Nat /\ k # 0 /\ k + 1 # 1
  BY <1>1
<1>3. /\ DOMAIN H \subseteq 1 .. n - 1
      /\ \A fh \in DOMAIN O :
           fh \in DOMAIN H /\ H[fh].ino = O[fh].ino /\ H[fh].file = O[fh].file /\ Pinned(I, nl, O[fh].ino, O[fh].path)
  BY DEF OpenOK
<1>4. ASSUME NEW k \in DOMAIN Q, Q[k].op = "open"
      PROVE  /\ Q[k].fh \in DOMAIN H \ DOMAIN O /\ H[Q[k].fh].ino = Q[k].ino /\ H[Q[k].fh].file = Q[k].file
             /\ Pinned(I, nl, Q[k].ino, Q[k].path)
  BY <1>1, <1>4 DEF OpenOK
<1>5. ASSUME NEW j \in DOMAIN Q, NEW k \in DOMAIN Q, Q[j].op = "open", Q[k].op = "open", Q[j].fh = Q[k].fh
      PROVE  j = k
  <2>1. j + 1 = k + 1
    BY <1>1, <1>5 DEF OpenOK
  <2> QED
    BY <1>2, <2>1
<1>6. \A k \in DOMAIN Q : Q[k].op = "data" => Q[k].fh \in DOMAIN O /\ Q[k].file = O[Q[k].fh].file
  BY <1>1 DEF OpenOK
<1>7. CASE r.op # "open"
  BY <1>3, <1>4, <1>5, <1>6, <1>7 DEF OpenOK
<1>8. CASE r.op = "open"
  <2>1. PICK f : f = r.fh
    OBVIOUS
  <2>2. PICK o : o = [ino |-> r.ino, path |-> r.path, file |-> r.file]
    OBVIOUS
  <2>3. P = Put(O, f, o)
    BY <1>8, <2>1, <2>2
  <2>4. DOMAIN P = DOMAIN O \cup {f} /\ P[f] = o /\ \A fh \in DOMAIN O \ {f} : P[fh] = O[fh]
    BY <2>3 DEF Put
  <2>5. f \in DOMAIN H \ DOMAIN O /\ H[f].ino = r.ino /\ H[f].file = r.file /\ Pinned(I, nl, r.ino, r.path)
    BY <1>1, <1>8, <2>1 DEF OpenOK
  <2>6. o.ino = r.ino /\ o.path = r.path /\ o.file = r.file
    BY <2>2
  <2>7. ASSUME NEW fh \in DOMAIN P
        PROVE  fh \in DOMAIN H /\ H[fh].ino = P[fh].ino /\ H[fh].file = P[fh].file /\ Pinned(I, nl, P[fh].ino, P[fh].path)
    <3>1. CASE fh = f
      BY <2>4, <2>5, <2>6, <3>1
    <3>2. CASE fh # f
      BY <1>3, <2>4, <3>2
    <3> QED
      BY <3>1, <3>2
  <2>8. ASSUME NEW k \in DOMAIN Q, Q[k].op = "open" PROVE Q[k].fh \in DOMAIN H \ DOMAIN P
    <3>1. Q[k].fh # f
      <4>1. k + 1 \in DOMAIN R /\ R[k + 1].op = "open" /\ R[k + 1].fh = Q[k].fh /\ k + 1 # 1
        BY <1>1, <1>2, <2>8
      <4> QED
        BY <1>1, <1>8, <2>1, <4>1 DEF OpenOK
    <3> QED
      BY <1>4, <2>4, <2>8, <3>1
  <2>9. \A k \in DOMAIN Q : Q[k].op = "data" => Q[k].fh \in DOMAIN P /\ Q[k].file = P[Q[k].fh].file
    BY <1>6, <2>4, <2>5
  <2> QED
    BY <1>3, <1>4, <1>5, <2>7, <2>8, <2>9 DEF OpenOK
<1> QED
  BY <1>7, <1>8

LEMMA OpenReleased ==
  ASSUME NEW I, NEW nl, NEW H, NEW n, NEW O, NEW R \in Seq(Answers), OpenOK(I, nl, H, n, O, R),
         NEW f \in DOMAIN O, \A k \in DOMAIN R : R[k].op = "data" => R[k].fh # f,
         NEW G, G = Restrict(H, DOMAIN H \ {f}), NEW P, P = Restrict(O, DOMAIN O \ {f})
  PROVE  OpenOK(I, nl, G, n, P, R)
<1>1. DOMAIN G = DOMAIN H \ {f} /\ (\A fh \in DOMAIN G : G[fh] = H[fh]) /\ DOMAIN P = DOMAIN O \ {f} /\ \A fh \in DOMAIN P : P[fh] = O[fh]
  BY DEF Restrict
<1>2. \A k \in DOMAIN R : R[k].op = "open" => R[k].fh # f
  BY DEF OpenOK
<1>3. DOMAIN G \subseteq 1 .. n - 1
  BY <1>1 DEF OpenOK
<1>4. ASSUME NEW fh \in DOMAIN P
      PROVE  fh \in DOMAIN G /\ G[fh].ino = P[fh].ino /\ G[fh].file = P[fh].file /\ Pinned(I, nl, P[fh].ino, P[fh].path)
  <2>1. fh \in DOMAIN H /\ H[fh].ino = O[fh].ino /\ H[fh].file = O[fh].file /\ Pinned(I, nl, O[fh].ino, O[fh].path)
    BY <1>1 DEF OpenOK
  <2> QED
    BY <1>1, <2>1
<1>5. ASSUME NEW k \in DOMAIN R, R[k].op = "open"
      PROVE  /\ R[k].fh \in DOMAIN G \ DOMAIN P /\ G[R[k].fh].ino = R[k].ino /\ G[R[k].fh].file = R[k].file
             /\ Pinned(I, nl, R[k].ino, R[k].path)
  <2>1. /\ R[k].fh \in DOMAIN H \ DOMAIN O /\ H[R[k].fh].ino = R[k].ino /\ H[R[k].fh].file = R[k].file
        /\ Pinned(I, nl, R[k].ino, R[k].path)
    BY <1>5 DEF OpenOK
  <2> QED
    BY <1>1, <1>2, <1>5, <2>1
<1>6. ASSUME NEW k \in DOMAIN R, R[k].op = "data" PROVE R[k].fh \in DOMAIN P /\ R[k].file = P[R[k].fh].file
  <2>1. R[k].fh \in DOMAIN O /\ R[k].file = O[R[k].fh].file
    BY <1>6 DEF OpenOK
  <2>2. R[k].fh # f
    BY <1>6
  <2> QED
    BY <1>1, <2>1, <2>2
<1>7. \A j, k \in DOMAIN R : R[j].op = "open" /\ R[k].op = "open" /\ R[j].fh = R[k].fh => j = k
  BY DEF OpenOK
<1> QED
  BY <1>3, <1>4, <1>5, <1>6, <1>7 DEF OpenOK

\* What the guest holds stays in the table, by the balance.
LEMMA PinnedStays ==
  ASSUME FuseInv, FuseInv', Evolves(Table, Table'), NEW i, NEW p, Pinned(inodes, nlookup, i, p),
         i = Root \/ nlookup'[i] > 0
  PROVE  Pinned(inodes', nlookup', i, p)
<1>1. /\ FuseTypes' /\ Balanced(inodes', nlookup', replies', listed', forgets') /\ FuseTypes
  BY DEF FuseInv
<1>2. i \in Ids /\ i \in DOMAIN inodes /\ inodes[i].path = p
  BY DEF Pinned
<1>3. i \in DOMAIN inodes'
  <2>1. CASE i = Root
    <3>1. MapsOK(inodes', pathIno', nextIno')
      BY <1>1 DEF FuseTypes, Table, TableOK
    <3> QED
      BY <2>1, <3>1 DEF MapsOK
  <2>2. CASE i # Root
    <3>1. RefsIn(inodes', i) = nlookup'[i] + FlightOf(replies', i) + listed'[i] + OwedOf(forgets', i)
      BY <1>1, <1>2, <2>2 DEF Balanced
    <3>2. FlightOf(replies', i) \in Nat /\ nlookup'[i] \in Nat /\ listed'[i] \in Nat /\ OwedOf(forgets', i) \in Nat
      BY <1>1, <1>2, FlightIsNat, OwedIsNat DEF FuseTypes
    <3>3. RefsIn(inodes', i) # 0
      BY <2>2, <3>1, <3>2
    <3> QED
      BY <3>3 DEF RefsIn
  <2> QED
    BY <2>1, <2>2
<1>4. inodes'[i].path = inodes[i].path
  BY <1>2, <1>3 DEF Evolves, Table
<1> QED
  BY <1>2, <1>3, <1>4 DEF Pinned

LEMMA OpenStarts ==
  ASSUME NEW I, NEW nl
  PROVE  OpenOK(I, nl, <<>>, 1, <<>>, <<>>)
BY DEF OpenOK

LEMMA AnswerTyped ==
  ASSUME NEW R \in Seq(Answers), NEW r, Append(R, r) \in Seq(Answers)
  PROVE  r \in Answers
<1>1. PICK n \in Nat : n = Len(R)
  OBVIOUS
<1>2. PICK Q \in Seq(Answers) : Q = Append(R, r)
  OBVIOUS
<1>3. Len(Q) = n + 1 /\ Q[n + 1] = r
  BY <1>1, <1>2
<1> QED
  BY <1>1, <1>3, ElementOfSeq

LEMMA OpenKept ==
  ASSUME FuseInv, FuseInv', Next, OpenInv
  PROVE  OpenInv'
<1>1. FuseTypes /\ replies \in Seq(Answers) /\ replies' \in Seq(Answers)
  BY DEF FuseInv, FuseTypes
\* The table or what the guest holds changes, but nothing that is pinned is let go.
<1>2. ASSUME Evolves(Table, Table'),
             \A i \in Ids : nlookup[i] > 0 =>
               \/ nlookup'[i] > 0
               \/ /\ \A fh \in DOMAIN opened : opened[fh].ino # i
                  /\ \A k \in DOMAIN replies : replies[k].op = "open" => replies[k].ino # i
      PROVE  OpenOK(inodes', nlookup', handles, nextFh, opened, replies)
  <2>1. ASSUME NEW i, NEW p, Pinned(inodes, nlookup, i, p),
               (\E fh \in DOMAIN opened : opened[fh].ino = i) \/ (\E k \in DOMAIN replies : replies[k].op = "open" /\ replies[k].ino = i)
        PROVE  Pinned(inodes', nlookup', i, p)
    <3>1. i \in Ids /\ (i = Root \/ nlookup[i] > 0)
      BY <2>1 DEF Pinned
    <3>2. i = Root \/ nlookup'[i] > 0
      BY <1>2, <2>1, <3>1
    <3> QED
      BY <1>2, <2>1, <3>2, PinnedStays
  <2>2. \A fh \in DOMAIN opened : Pinned(inodes, nlookup, opened[fh].ino, opened[fh].path)
                                  => Pinned(inodes', nlookup', opened[fh].ino, opened[fh].path)
    BY <2>1
  <2>3. \A k \in DOMAIN replies : replies[k].op = "open" /\ Pinned(inodes, nlookup, replies[k].ino, replies[k].path)
                                  => Pinned(inodes', nlookup', replies[k].ino, replies[k].path)
    BY <2>1
  <2>4. OpenOK(inodes, nlookup, handles, nextFh, opened, replies)
    BY DEF OpenInv
  <2> QED
    BY <2>2, <2>3, <2>4, OpenHeld
<1>3. ASSUME Evolves(Table, Table'), nlookup' = nlookup
      PROVE  OpenOK(inodes', nlookup', handles, nextFh, opened, replies)
  <2>1. \A i \in Ids : nlookup[i] > 0 => nlookup'[i] > 0
    BY <1>3
  <2> QED
    BY <1>2, <1>3, <2>1
\* Nothing is opened, taken or released.
<1>4. ASSUME Evolves(Table, Table'), UNCHANGED <<nlookup, handles, nextFh, opened>>, NEW r,
             \/ replies' = replies
             \/ /\ replies' = Append(replies, r) /\ r.op # "open"
                /\ r.op = "data" => r.fh \in DOMAIN opened /\ r.file = opened[r.fh].file
      PROVE  OpenInv'
  <2>1. OpenOK(inodes', nlookup', handles, nextFh, opened, replies)
    BY <1>3, <1>4
  <2>2. OpenOK(inodes', nlookup', handles, nextFh, opened, replies')
    <3>1. CASE replies' = replies
      BY <2>1, <3>1
    <3>2. CASE /\ replies' = Append(replies, r) /\ r.op # "open"
               /\ r.op = "data" => r.fh \in DOMAIN opened /\ r.file = opened[r.fh].file
      <4>1. r \in Answers
        BY <1>1, <3>2, AnswerTyped
      <4> QED
        BY <1>1, <2>1, <3>2, <4>1, OpenAnswered
    <3> QED
      BY <1>4, <3>1, <3>2
  <2> QED
    BY <1>4, <2>2 DEF OpenInv
<1>5. ASSUME UNCHANGED <<inodes, nextIno, pathIno>> PROVE Evolves(Table, Table')
  <2>1. Table' = Table /\ TableOK(Table)
    BY <1>1, <1>5 DEF Table, FuseTypes
  <2> QED
    BY <2>1, EvolvesSame
<1>6. CASE \E parent \in Ids, name \in Names \cup {NoName} : Lookup(parent, name)
  <2>1. PICK parent \in Ids, name \in Names \cup {NoName} : Lookup(parent, name)
    BY <1>6
  <2>2. UNCHANGED <<nlookup, handles, nextFh, opened>>
    BY <2>1 DEF Lookup, client
  <2>3. PICK r : replies' = replies \/ (replies' = Append(replies, r) /\ r.op = "entry")
    <3>1. PICK ino : replies' = replies \/ replies' = Append(replies, [op |-> "entry", ino |-> ino])
      BY <2>1 DEF Lookup, Refuse, Answer
    <3> QED
      BY <3>1
  <2>4. Evolves(Table, Table')
    BY <2>1, LookupStep
  <2> QED
    BY <1>4, <2>2, <2>3, <2>4
<1>7. CASE \E ino \in Ids : Getattr(ino)
  <2>1. UNCHANGED <<inodes, nextIno, pathIno, nlookup, handles, nextFh, opened, replies>>
    BY <1>7 DEF Getattr, Done, Refuse, server, client
  <2> QED
    BY <1>4, <1>5, <2>1
<1>8. CASE \E ino \in Ids : Open(ino)
  <2>1. PICK ino \in Ids : Open(ino)
    BY <1>8
  <2>2. UNCHANGED <<inodes, nextIno, pathIno, nlookup, opened>> /\ Knows(ino) /\ nextFh \in Fhs
    BY <2>1 DEF Open, client
  <2>3. CASE Has(ino) /\ Exists(PathOf(ino))
    <3>1. PICK h : h = [ino |-> ino, file |-> tree[PathOf(ino)]]
      OBVIOUS
    <3>2. PICK r : r = [op |-> "open", fh |-> nextFh, ino |-> ino, path |-> PathOf(ino), file |-> tree[PathOf(ino)]]
      OBVIOUS
    <3>3. handles' = Put(handles, nextFh, h) /\ nextFh' = nextFh + 1 /\ replies' = Append(replies, r)
      BY <2>1, <2>3, <3>1, <3>2 DEF Open, Answer
    <3>4. r \in Answers
      BY <1>1, <3>3, AnswerTyped
    <3>5. Pinned(inodes, nlookup, ino, PathOf(ino))
      BY <2>2, <2>3 DEF Pinned, Knows, Has, PathOf
    <3>6. r.op = "open" /\ r.fh = nextFh /\ r.ino = ino /\ r.path = PathOf(ino) /\ h.ino = r.ino /\ h.file = r.file
      BY <3>1, <3>2
    <3>7. nextFh \in Nat /\ nextFh > 0
      BY <2>2 DEF Fhs
    <3>8. Pinned(inodes, nlookup, r.ino, r.path)
      BY <3>5, <3>6
    <3>9. OpenOK(inodes, nlookup, handles, nextFh, opened, replies)
      BY DEF OpenInv
    <3>10. OpenOK(inodes, nlookup, handles', nextFh + 1, opened, replies')
      BY <1>1, <3>3, <3>4, <3>6, <3>7, <3>8, <3>9, OpenOpened
    <3> QED
      BY <2>2, <3>3, <3>10 DEF OpenInv
  <2>4. CASE ~(Has(ino) /\ Exists(PathOf(ino)))
    <3>1. UNCHANGED <<handles, nextFh, replies>>
      BY <2>1, <2>4 DEF Open, Refuse
    <3> QED
      BY <1>4, <1>5, <2>2, <3>1
  <2> QED
    BY <2>3, <2>4
<1>9. CASE \E fh \in Fhs : Read(fh)
  <2>1. PICK fh \in Fhs : Read(fh)
    BY <1>9
  <2>2. UNCHANGED <<inodes, nextIno, pathIno, nlookup, handles, nextFh, opened>> /\ fh \in DOMAIN opened
    BY <2>1 DEF Read, server, client
  <2>3. handles[fh].file = opened[fh].file
    BY <2>2 DEF OpenInv, OpenOK
  <2>4. PICK r : r = [op |-> "data", fh |-> fh, file |-> handles[fh].file]
    OBVIOUS
  <2>5. replies' = replies \/ replies' = Append(replies, r)
    BY <2>1, <2>4 DEF Read, Refuse, Answer
  <2>6. r.op # "open" /\ r.fh \in DOMAIN opened /\ r.file = opened[r.fh].file
    BY <2>2, <2>3, <2>4
  <2> QED
    BY <1>4, <1>5, <2>2, <2>5, <2>6
<1>10. CASE \E fh \in Fhs : Release(fh)
  <2>1. PICK fh \in Fhs : Release(fh)
    BY <1>10
  <2>2. /\ UNCHANGED <<inodes, nlookup, nextFh, replies>> /\ fh \in DOMAIN opened
        /\ handles' = Restrict(handles, DOMAIN handles \ {fh}) /\ opened' = Restrict(opened, DOMAIN opened \ {fh})
    BY <2>1 DEF Release, Done
  <2>3. \A k \in DOMAIN replies : replies[k].op = "data" => replies[k].fh # fh
    <3>1. \A k \in DOMAIN replies : replies[k] \in ToSet(replies)
      BY DEF ToSet
    <3> QED
      BY <2>1, <3>1 DEF Release, Replied
  <2>4. OpenOK(inodes, nlookup, handles, nextFh, opened, replies)
    BY DEF OpenInv
  <2>5. OpenOK(inodes, nlookup, handles', nextFh, opened', replies)
    BY <1>1, <2>2, <2>3, <2>4, OpenReleased
  <2> QED
    BY <2>2, <2>5 DEF OpenInv
<1>11. CASE Readdir
  <2>1. UNCHANGED <<nlookup, handles, nextFh, opened>>
    BY <1>11 DEF Readdir
  <2>2. PICK r : replies' = Append(replies, r) /\ r.op \in {"page", "nopage"}
    <3>1. \/ replies' = Append(replies, [op |-> "nopage"])
          \/ \E page : replies' = Append(replies, [op |-> "page", names |-> page])
      BY <1>11 DEF Readdir, Answer
    <3>2. CASE replies' = Append(replies, [op |-> "nopage"])
      <4>1. [op |-> "nopage"].op = "nopage"
        OBVIOUS
      <4> QED
        BY <3>2, <4>1
    <3>3. CASE \E page : replies' = Append(replies, [op |-> "page", names |-> page])
      <4>1. PICK page : replies' = Append(replies, [op |-> "page", names |-> page])
        BY <3>3
      <4>2. PICK r : r = [op |-> "page", names |-> page]
        OBVIOUS
      <4> QED
        BY <4>1, <4>2
    <3> QED
      BY <3>1, <3>2, <3>3
  <2>3. Evolves(Table, Table')
    BY <1>11, ReaddirStep
  <2> QED
    BY <1>4, <2>1, <2>2, <2>3
<1>12. CASE \E opcode \in Refused \cup Granted \cup Other : Fixed(opcode)
  <2>1. PICK opcode : Fixed(opcode)
    BY <1>12
  <2>2. UNCHANGED <<inodes, nextIno, pathIno, nlookup, handles, nextFh, opened>>
    BY <2>1 DEF Fixed, server, client
  <2>3. replies' = replies
    BY <2>1 DEF Fixed, Done, Refuse
  <2> QED
    BY <1>4, <1>5, <2>2, <2>3
<1>13. CASE \E k \in DOMAIN forgets : Forget(k)
  <2>1. UNCHANGED <<nlookup, handles, nextFh, opened, replies>>
    BY <1>13 DEF Forget
  <2>2. Evolves(Table, Table')
    BY <1>13, ForgetStep
  <2> QED
    BY <1>4, <2>1, <2>2
<1>14. CASE Take
  <2>1. PICK r : r = Head(replies)
    OBVIOUS
  <2>2. UNCHANGED <<inodes, nextIno, pathIno, handles, nextFh>> /\ replies # <<>> /\ replies' = Tail(replies)
    BY <1>14 DEF Take, server
  <2>3. opened' = IF r.op = "open" THEN Put(opened, r.fh, [ino |-> r.ino, path |-> r.path, file |-> r.file]) ELSE opened
    BY <1>14, <2>1 DEF Take
  <2>4. \A i \in Ids : nlookup[i] > 0 => nlookup'[i] > 0
    <3>1. nlookup \in [Ids -> Nat]
      BY <1>1 DEF FuseTypes
    <3>2. nlookup' = IF r.op = "entry" THEN [nlookup EXCEPT ![r.ino] = @ + 1] ELSE nlookup
      BY <1>14, <2>1 DEF Take
    <3> QED
      BY <3>1, <3>2
  <2>5. OpenOK(inodes', nlookup', handles, nextFh, opened, replies)
    BY <1>2, <1>5, <2>2, <2>4
  <2>6. OpenOK(inodes', nlookup', handles, nextFh, opened', replies')
    BY <1>1, <2>1, <2>2, <2>3, <2>5, OpenTaken
  <2> QED
    BY <2>2, <2>6 DEF OpenInv
<1>15. CASE \E ino \in Ids : Evict(ino)
  <2>1. PICK ino \in Ids : Evict(ino)
    BY <1>15
  <2>2. UNCHANGED <<inodes, nextIno, pathIno, handles, nextFh, opened, replies>> /\ nlookup' = [nlookup EXCEPT ![ino] = 0]
    BY <2>1 DEF Evict, server
  <2>3. (\A fh \in DOMAIN opened : opened[fh].ino # ino)
        /\ \A k \in DOMAIN replies : replies[k].op = "open" => replies[k].ino # ino
    <3>1. \A k \in DOMAIN replies : replies[k] \in ToSet(replies)
      BY DEF ToSet
    <3> QED
      BY <2>1, <3>1 DEF Evict, Replied
  <2>4. \A i \in Ids : nlookup[i] > 0 =>
               \/ nlookup'[i] > 0
               \/ /\ \A fh \in DOMAIN opened : opened[fh].ino # i
                  /\ \A k \in DOMAIN replies : replies[k].op = "open" => replies[k].ino # i
    <3>1. nlookup \in [Ids -> Nat]
      BY <1>1 DEF FuseTypes
    <3>2. \A i \in Ids \ {ino} : nlookup'[i] = nlookup[i]
      BY <2>2, <3>1
    <3> QED
      BY <2>3, <3>2
  <2>5. OpenOK(inodes', nlookup', handles, nextFh, opened, replies)
    BY <1>2, <1>5, <2>2, <2>4
  <2> QED
    BY <2>2, <2>5 DEF OpenInv
<1>16. CASE \E fh \in Fhs : List(fh)
  <2>1. UNCHANGED <<inodes, nextIno, pathIno, nlookup, handles, nextFh, opened, replies>>
    BY <1>16 DEF List, server
  <2> QED
    BY <1>4, <1>5, <2>1
<1>17. CASE \E p \in Paths : Write(p) \/ Mkdir(p) \/ Delete(p)
  <2>1. SameRefs /\ UNCHANGED <<handles, nextFh, opened, replies>>
    BY <1>17, HostChanges
  <2> QED
    BY <1>4, <1>5, <2>1 DEF SameRefs
<1>18. CASE SetRoot
  <2>1. handles' = <<>> /\ nextFh' = 1 /\ replies' = <<>> /\ opened' = <<>>
    BY <1>18 DEF SetRoot
  <2> QED
    BY <2>1, OpenStarts DEF OpenInv
<1> QED
  BY <1>6, <1>7, <1>8, <1>9, <1>10, <1>11, <1>12, <1>13, <1>14, <1>15, <1>16, <1>17, <1>18 DEF Next, Request

-----------------------------------------------------------------------------
(* FuseFs: what the guest sees of directories.                             *)

Paging(r) == r.op \in {"page", "nopage"}

\* The first pos names of es.
Begins(es, got, pos) == Len(got) = pos /\ pos <= Len(es) /\ \A j \in 1 .. pos : got[j] = es[j]

\* The stream L of a directory among the open D with the entries es: one answer at most is
\* under way, and while nothing changed it has the entries from the first on.
ListOK(L, D, es, R) ==
  /\ L.state = "none" => L = NoListing
  /\ \A k \in DOMAIN R : Paging(R[k]) => L.state = "waiting"
  /\ \A j, k \in DOMAIN R : Paging(R[j]) /\ Paging(R[k]) => j = k
  /\ L.state # "none" => L.fh \in D
  /\ L.state # "none" /\ ~L.dirty =>
       /\ Begins(es, L.got, L.pos)
       /\ L.state = "done" => L.pos = Len(es)
       /\ \A k \in DOMAIN R : R[k].op = "page" => PageOf(es, L.pos, R[k].names)

ListInv == ListOK(listing, DOMAIN opened, Entries(opened[listing.fh].path), replies)

\* An answer that is not for the stream.
LEMMA ListAnswered ==
  ASSUME NEW L, NEW D, NEW es, NEW R \in Seq(Answers), ListOK(L, D, es, R), NEW r \in Answers, ~Paging(r),
         NEW Q, Q = Append(R, r)
  PROVE  ListOK(L, D, es, Q)
<1>1. PICK l \in Nat : /\ l \notin DOMAIN R /\ DOMAIN Q = DOMAIN R \cup {l} /\ Q[l] = r
                       /\ \A k \in DOMAIN R : Q[k] = R[k]
  BY AppendedAt
<1>2. \A k \in DOMAIN Q : Paging(Q[k]) => k \in DOMAIN R /\ Q[k] = R[k]
  BY <1>1
<1>3. \A k \in DOMAIN Q : Q[k].op = "page" => k \in DOMAIN R /\ Q[k] = R[k]
  BY <1>2 DEF Paging
<1>4. \A k \in DOMAIN Q : Paging(Q[k]) => L.state = "waiting"
  BY <1>2 DEF ListOK
<1>5. \A j, k \in DOMAIN Q : Paging(Q[j]) /\ Paging(Q[k]) => j = k
  BY <1>2 DEF ListOK
<1>6. L.state # "none" /\ ~L.dirty => \A k \in DOMAIN Q : Q[k].op = "page" => PageOf(es, L.pos, Q[k].names)
  BY <1>3 DEF ListOK
<1> QED
  BY <1>4, <1>5, <1>6 DEF ListOK

\* The answer to READDIR.
LEMMA ListPaged ==
  ASSUME NEW L \in Listings, NEW D, NEW es, NEW R \in Seq(Answers), ListOK(L, D, es, R), L.state = "reading",
         NEW r \in Answers, Paging(r), ~L.dirty /\ r.op = "page" => PageOf(es, L.pos, r.names),
         NEW Q, Q = Append(R, r), NEW M, M = [L EXCEPT !.state = "waiting"]
  PROVE  ListOK(M, D, es, Q)
<1>1. PICK l \in Nat : /\ l \notin DOMAIN R /\ DOMAIN Q = DOMAIN R \cup {l} /\ Q[l] = r
                       /\ \A k \in DOMAIN R : Q[k] = R[k]
  BY AppendedAt
<1>2. M.state = "waiting" /\ M.fh = L.fh /\ M.pos = L.pos /\ M.got = L.got /\ M.dirty = L.dirty
  BY DEF Listings
<1>3. \A k \in DOMAIN R : ~Paging(R[k])
  BY DEF ListOK
<1>4. \A k \in DOMAIN Q : Paging(Q[k]) => k = l
  BY <1>1, <1>3
<1>5. \A k \in DOMAIN Q : Q[k].op = "page" => Paging(Q[k])
  BY DEF Paging
<1>6. ~M.dirty => \A k \in DOMAIN Q : Q[k].op = "page" => PageOf(es, M.pos, Q[k].names)
  BY <1>1, <1>2, <1>4, <1>5
<1>7. M.fh \in D
  BY <1>2 DEF ListOK
<1>8. ~M.dirty => Begins(es, M.got, M.pos)
  BY <1>2 DEF ListOK
<1> QED
  BY <1>2, <1>4, <1>6, <1>7, <1>8 DEF ListOK

\* The guest takes an answer.
Turned(L, r) ==
  CASE r.op = "nopage" -> NoListing
    [] r.op = "page" /\ r.names = <<>> -> [L EXCEPT !.state = "done"]
    [] r.op = "page" /\ r.names # <<>> ->
         [L EXCEPT !.state = "reading", !.pos = @ + Len(r.names), !.got = @ \o r.names]
    [] OTHER -> L

LEMMA ListTaken ==
  ASSUME NEW L \in Listings, NEW D, NEW E, D \subseteq E, NEW es \in Seq(Names), NEW R \in Seq(Answers), ListOK(L, D, es, R),
         R # <<>>, NEW r, r = Head(R), NEW Q, Q = Tail(R), NEW M, M = Turned(L, r)
  PROVE  ListOK(M, E, es, Q)
<1>1. /\ 1 \in DOMAIN R /\ R[1] = r /\ r \in Answers /\ DOMAIN Q \subseteq Nat \ {0}
      /\ \A k \in DOMAIN Q : k + 1 \in DOMAIN R /\ Q[k] = R[k + 1]
  BY TailAt
<1>2. \A k \in DOMAIN Q : k \in Nat /\ k # 0 /\ k + 1 # 1
  BY <1>1
<1>3. Paging(r) => \A k \in DOMAIN Q : ~Paging(Q[k])
  BY <1>1, <1>2 DEF ListOK
<1>4. \A k \in DOMAIN Q : Q[k].op = "page" => Paging(Q[k])
  BY DEF Paging
<1>5. Paging(r) => L.state = "waiting" /\ L.fh \in E
  BY <1>1 DEF ListOK
<1>6. CASE ~Paging(r)
  <2>1. M = L
    BY <1>6 DEF Paging, Turned
  <2>2. \A k \in DOMAIN Q : Paging(Q[k]) => L.state = "waiting"
    BY <1>1 DEF ListOK
  <2>3. \A j, k \in DOMAIN Q : Paging(Q[j]) /\ Paging(Q[k]) => j = k
    <3>1. ASSUME NEW j \in DOMAIN Q, NEW k \in DOMAIN Q, Paging(Q[j]), Paging(Q[k]) PROVE j = k
      <4>1. j + 1 = k + 1
        BY <1>1, <3>1 DEF ListOK
      <4> QED
        BY <1>2, <4>1
    <3> QED
      BY <3>1
  <2>4. L.state # "none" /\ ~L.dirty => \A k \in DOMAIN Q : Q[k].op = "page" => PageOf(es, L.pos, Q[k].names)
    BY <1>1 DEF ListOK
  <2>5. (L.state = "none" => L = NoListing) /\ (L.state # "none" => L.fh \in E)
    BY DEF ListOK
  <2>6. L.state # "none" /\ ~L.dirty => Begins(es, L.got, L.pos) /\ (L.state = "done" => L.pos = Len(es))
    BY DEF ListOK
  <2> QED
    BY <2>1, <2>2, <2>3, <2>4, <2>5, <2>6 DEF ListOK
<1>7. CASE r.op = "nopage"
  <2>1. M = NoListing /\ Paging(r) /\ NoListing.state = "none"
    BY <1>7 DEF Paging, NoListing, Turned
  <2> QED
    BY <1>3, <2>1 DEF ListOK
<1>8. CASE r.op = "page"
  <2>1. Paging(r) /\ r.op # "nopage"
    BY <1>8 DEF Paging
  <2>2. PICK names \in Seq(Names) : names = r.names
    BY <1>1, <1>8 DEF Answers
  <2>3. PICK n \in Nat : n = Len(names)
    BY <2>2
  <2>4. PICK pos \in Nat : pos = L.pos
    BY DEF Listings
  <2>5. PICK got \in Seq(Names) : got = L.got
    BY DEF Listings
  <2>6. PICK e \in Nat : e = Len(es)
    <3>1. Len(es) \in Nat
      BY LenProperties
    <3> QED
      BY <3>1
  <2>7. ~L.dirty => Begins(es, got, pos) /\ PageOf(es, pos, names)
    BY <1>1, <1>5, <1>8, <2>1, <2>2, <2>4, <2>5 DEF ListOK
  <2>8. ~L.dirty => /\ Len(got) = pos /\ pos <= e /\ (\A j \in 1 .. pos : got[j] = es[j])
                    /\ (names = <<>> <=> pos >= e) /\ n <= e - pos /\ (\A j \in 1 .. n : names[j] = es[pos + j])
    BY <2>3, <2>6, <2>7 DEF Begins, PageOf
  <2>9. CASE names = <<>>
    <3>1. M = [L EXCEPT !.state = "done"]
      BY <1>8, <2>1, <2>2, <2>9 DEF Turned
    <3>2. M.state = "done" /\ M.fh = L.fh /\ M.pos = pos /\ M.got = got /\ M.dirty = L.dirty
      BY <2>4, <2>5, <3>1 DEF Listings
    <3>3. ~M.dirty => M.pos = Len(es) /\ Begins(es, M.got, M.pos)
      <4>1. ~L.dirty => pos = e
        BY <2>4, <2>6, <2>8, <2>9
      <4>2. ~L.dirty => Begins(es, got, pos)
        BY <2>7
      <4> QED
        BY <2>6, <3>2, <4>1, <4>2
    <3> QED
      BY <1>3, <1>4, <1>5, <2>1, <3>2, <3>3 DEF ListOK
  <2>10. CASE names # <<>>
    <3>1. PICK more \in Seq(Names) : more = got \o names
      <4>1. got \o names \in Seq(Names)
        BY <2>2, <2>5, ConcatProperties
      <4> QED
        BY <4>1
    <3>2. PICK to \in Nat : to = pos + n
      BY <2>3, <2>4
    <3>3. M = [L EXCEPT !.state = "reading", !.pos = @ + Len(names), !.got = @ \o names]
      BY <1>8, <2>1, <2>2, <2>10 DEF Turned
    <3>4. M = [L EXCEPT !.state = "reading", !.pos = to, !.got = more]
      BY <2>3, <2>4, <2>5, <3>1, <3>2, <3>3
    <3>5. M.state = "reading" /\ M.fh = L.fh /\ M.pos = to /\ M.got = more /\ M.dirty = L.dirty
      BY <3>4 DEF Listings
    <3>6. ASSUME ~L.dirty PROVE Begins(es, more, to)
      <4>0. Len(got) = pos
        BY <2>8, <3>6
      <4>5. Len(more) = Len(got) + Len(names) /\ \A j \in 1 .. Len(got) + Len(names) :
                                                     more[j] = IF j <= Len(got) THEN got[j] ELSE names[j - Len(got)]
        <5>1. got \in Seq(Names) /\ names \in Seq(Names)
          BY <2>2, <2>5
        <5>2. /\ Len(got \o names) = Len(got) + Len(names)
              /\ \A j \in 1 .. Len(got) + Len(names) :
                   (got \o names)[j] = IF j <= Len(got) THEN got[j] ELSE names[j - Len(got)]
          BY <5>1, ConcatProperties
        <5> QED
          BY <3>1, <5>2
      <4>1. Len(more) = to /\ \A j \in 1 .. to : more[j] = IF j <= pos THEN got[j] ELSE names[j - pos]
        BY <2>3, <3>2, <4>0, <4>5
      <4>2. ASSUME NEW j \in 1 .. to PROVE more[j] = es[j]
        <5>1. CASE j <= pos
          <6>1. j \in 1 .. pos
            BY <2>4, <3>2, <5>1
          <6> QED
            BY <2>8, <3>6, <4>1, <5>1, <6>1
        <5>2. CASE j > pos
          <6>0. j \in Int /\ j <= pos + n /\ pos \in Int /\ n \in Int
            BY <2>3, <2>4, <3>2
          <6>3. j - pos \in Int /\ 1 <= j - pos /\ j - pos <= n
            BY <6>0, <5>2
          <6>1. j - pos \in 1 .. n /\ pos + (j - pos) = j /\ ~(j <= pos)
            BY <6>0, <6>3, <5>2
          <6>2. names[j - pos] = es[pos + (j - pos)]
            BY <2>8, <3>6, <6>1
          <6> QED
            BY <4>1, <6>1, <6>2
        <5> QED
          BY <5>1, <5>2
      <4>3. to <= Len(es)
        BY <2>3, <2>4, <2>6, <2>8, <3>2, <3>6
      <4> QED
        BY <4>1, <4>2, <4>3 DEF Begins
    <3>7. ~M.dirty => Begins(es, M.got, M.pos)
      BY <3>5, <3>6
    <3> QED
      BY <1>3, <1>4, <1>5, <2>1, <3>5, <3>7 DEF ListOK
  <2> QED
    BY <2>9, <2>10
<1> QED
  BY <1>6, <1>7, <1>8 DEF Paging

\* The host changes something: whatever is listed counts as changed.
LEMMA ListDirty ==
  ASSUME NEW L \in Listings, NEW D, NEW es, NEW R, ListOK(L, D, es, R), NEW fs, NEW M,
         M = [L EXCEPT !.dirty = L # NoListing]
  PROVE  ListOK(M, D, fs, R)
<1>1. M.state = L.state /\ M.fh = L.fh /\ (M.dirty <=> L # NoListing)
  BY DEF Listings
<1>2. M.state # "none" => M.dirty
  BY <1>1 DEF NoListing
<1>3. L.state = "none" => M = NoListing
  <2>1. L.state = "none" => L = NoListing
    BY DEF ListOK
  <2>2. ASSUME L = NoListing PROVE M = NoListing
    <3>1. PICK N : N = NoListing
      OBVIOUS
    <3>2. N = [state |-> "none", fh |-> 0, pos |-> 0, got |-> <<>>, dirty |-> FALSE]
      BY <3>1 DEF NoListing
    <3>3. M = [N EXCEPT !.dirty = FALSE]
      BY <2>2, <3>1
    <3>4. M = [state |-> "none", fh |-> 0, pos |-> 0, got |-> <<>>, dirty |-> FALSE]
      BY <3>2, <3>3
    <3> QED
      BY <3>1, <3>2, <3>4
  <2> QED
    BY <2>1, <2>2
<1> QED
  BY <1>1, <1>2, <1>3 DEF ListOK

LEMMA ListStarts ==
  ASSUME NEW D, NEW es
  PROVE  ListOK(NoListing, D, es, <<>>)
BY DEF ListOK, NoListing

LEMMA SameEntries ==
  ASSUME UNCHANGED tree, NEW p
  PROVE  Entries(p)' = Entries(p)
BY DEF Entries, Exists

LEMMA ListStep ==
  ASSUME FuseInv, FuseInv', Next, OpenInv, ListInv
  PROVE  ListInv'
<1>1. replies \in Seq(Answers) /\ replies' \in Seq(Answers) /\ listing \in Listings
  BY DEF FuseInv, FuseTypes
<1>2. PICK p : p = opened[listing.fh].path
  OBVIOUS
<1>3. PICK es \in Seq(Names) : es = Entries(p)
  BY EntriesAreNames
<1>4. ListOK(listing, DOMAIN opened, es, replies)
  BY <1>2, <1>3 DEF ListInv
\* Nothing but a further answer, which is not about a directory.
<1>5. ASSUME UNCHANGED <<tree, opened, listing>>, NEW r,
             replies' = replies \/ (replies' = Append(replies, r) /\ r.op \notin {"page", "nopage"})
      PROVE  ListInv'
  <2>1. Entries(p)' = es
    BY <1>3, <1>5, SameEntries
  <2>2. Entries(opened[listing.fh].path)' = Entries(p)'
    BY <1>2, <1>5
  <2>3. ListOK(listing, DOMAIN opened, es, replies')
    <3>1. CASE replies' = replies
      BY <1>4, <3>1
    <3>2. CASE replies' = Append(replies, r) /\ r.op \notin {"page", "nopage"}
      <4>1. r \in Answers
        BY <1>1, <3>2, AnswerTyped
      <4>2. ~Paging(r)
        BY <3>2 DEF Paging
      <4> QED
        BY <1>1, <1>4, <3>2, <4>1, <4>2, ListAnswered
    <3> QED
      BY <1>5, <3>1, <3>2
  <2> QED
    BY <1>5, <2>1, <2>2, <2>3 DEF ListInv
<1>6. CASE \E parent \in Ids, name \in Names \cup {NoName} : Lookup(parent, name)
  <2>1. PICK parent \in Ids, name \in Names \cup {NoName} : Lookup(parent, name)
    BY <1>6
  <2>2. UNCHANGED <<tree, opened, listing>>
    BY <2>1 DEF Lookup, client, world
  <2>3. PICK ino : replies' = replies \/ replies' = Append(replies, [op |-> "entry", ino |-> ino])
    BY <2>1 DEF Lookup, Refuse, Answer
  <2>4. PICK r : r = [op |-> "entry", ino |-> ino]
    OBVIOUS
  <2>5. replies' = replies \/ (replies' = Append(replies, r) /\ r.op \notin {"page", "nopage"})
    BY <2>3, <2>4
  <2> QED
    BY <1>5, <2>2, <2>5
<1>7. CASE \E ino \in Ids : Getattr(ino)
  <2>1. UNCHANGED <<tree, opened, listing, replies>>
    BY <1>7 DEF Getattr, Done, Refuse, world, client
  <2> QED
    BY <1>5, <2>1
<1>8. CASE \E ino \in Ids : Open(ino)
  <2>1. PICK ino \in Ids : Open(ino)
    BY <1>8
  <2>2. UNCHANGED <<tree, opened, listing>>
    BY <2>1 DEF Open, client, world
  <2>3. PICK r : r = [op |-> "open", fh |-> nextFh, ino |-> ino, path |-> PathOf(ino), file |-> tree[PathOf(ino)]]
    OBVIOUS
  <2>4. replies' = replies \/ replies' = Append(replies, r)
    BY <2>1, <2>3 DEF Open, Refuse, Answer
  <2>5. r.op \notin {"page", "nopage"}
    BY <2>3
  <2> QED
    BY <1>5, <2>2, <2>4, <2>5
<1>9. CASE \E fh \in Fhs : Read(fh)
  <2>1. PICK fh \in Fhs : Read(fh)
    BY <1>9
  <2>2. UNCHANGED <<tree, opened, listing>>
    BY <2>1 DEF Read, client, world
  <2>3. PICK r : r = [op |-> "data", fh |-> fh, file |-> handles[fh].file]
    OBVIOUS
  <2>4. replies' = replies \/ replies' = Append(replies, r)
    BY <2>1, <2>3 DEF Read, Refuse, Answer
  <2>5. r.op \notin {"page", "nopage"}
    BY <2>3
  <2> QED
    BY <1>5, <2>2, <2>4, <2>5
<1>10. CASE \E fh \in Fhs : Release(fh)
  <2>1. PICK fh \in Fhs : Release(fh)
    BY <1>10
  <2>2. /\ UNCHANGED <<tree, replies>> /\ opened' = Restrict(opened, DOMAIN opened \ {fh})
        /\ ~(listing.fh = fh /\ listing.state = "waiting")
        /\ listing' = IF listing.fh = fh THEN NoListing ELSE listing
    BY <2>1 DEF Release, Done, world
  <2>3. DOMAIN opened' = DOMAIN opened \ {fh} /\ \A f \in DOMAIN opened' : opened'[f] = opened[f]
    BY <2>2 DEF Restrict
  <2>4. PICK fs : fs = Entries(opened[listing.fh].path)'
    OBVIOUS
  <2>5. CASE listing.fh = fh \/ listing.state = "none"
    <3>1. listing' = NoListing
      BY <1>4, <2>2, <2>5 DEF ListOK
    <3>2. \A k \in DOMAIN replies : ~Paging(replies[k])
      BY <1>4, <2>2, <2>5 DEF ListOK
    <3>3. ListOK(NoListing, DOMAIN opened', fs, replies')
      BY <2>2, <3>2 DEF ListOK, NoListing
    <3> QED
      BY <2>4, <3>1, <3>3 DEF ListInv
  <2>6. CASE listing.fh # fh /\ listing.state # "none"
    <3>1. listing' = listing /\ listing.fh \in DOMAIN opened'
      BY <1>4, <2>2, <2>3, <2>6 DEF ListOK
    <3>2. opened'[listing'.fh].path = p
      BY <1>2, <2>3, <3>1
    <3>3. Entries(opened[listing.fh].path)' = Entries(p)'
      BY <3>2
    <3>4. Entries(p)' = es
      BY <1>3, <2>2, SameEntries
    <3>5. ListOK(listing', DOMAIN opened', es, replies')
      BY <1>4, <2>2, <3>1 DEF ListOK
    <3> QED
      BY <3>3, <3>4, <3>5 DEF ListInv
  <2> QED
    BY <2>5, <2>6
<1>11. CASE Readdir
  <2>1. /\ UNCHANGED <<tree, opened>> /\ listing.state = "reading"
        /\ listing' = [listing EXCEPT !.state = "waiting"]
    BY <1>11 DEF Readdir, world
  <2>2. PICK fh : fh = listing.fh
    OBVIOUS
  <2>3. listing'.fh = fh
    BY <1>1, <2>1, <2>2 DEF Listings
  <2>4. Entries(opened[listing.fh].path)' = es
    <3>1. Entries(p)' = es
      BY <1>3, <2>1, SameEntries
    <3>2. opened'[listing'.fh].path = p
      BY <1>2, <2>1, <2>2, <2>3
    <3>3. Entries(opened[listing.fh].path)' = Entries(p)'
      BY <3>2
    <3> QED
      BY <3>1, <3>3
  <2>5. fh \in DOMAIN opened
    BY <1>4, <2>1, <2>2 DEF ListOK
  <2>6. PathOf(handles[fh].ino) = p
    BY <1>2, <2>2, <2>5 DEF OpenInv, OpenOK, Pinned, PathOf
  <2>7. PICK pos \in Nat : pos = listing.pos
    BY <1>1 DEF Listings
  <2>8. PICK page : page = Page(p, pos)
    OBVIOUS
  <2>9. PageOf(es, pos, page)
    BY <1>3, <2>7, <2>8, PageIsPart
  <2>10. PICK r : /\ replies' = Append(replies, r) /\ r.op \in {"page", "nopage"}
                  /\ r.op = "page" => r.names = page
    <3>1. CASE fh \notin DOMAIN handles \/ ~Has(handles[fh].ino) \/ ~IsDir(PathOf(handles[fh].ino))
      <4>1. PICK r : r = [op |-> "nopage"]
        OBVIOUS
      <4>2. replies' = Append(replies, r)
        BY <1>11, <2>2, <3>1, <4>1 DEF Readdir, Answer
      <4> QED
        BY <4>1, <4>2
    <3>2. CASE fh \in DOMAIN handles /\ Has(handles[fh].ino) /\ IsDir(PathOf(handles[fh].ino))
      <4>1. PICK r : r = [op |-> "page", names |-> page]
        OBVIOUS
      <4>2. replies' = Append(replies, r)
        BY <1>11, <2>2, <2>6, <2>7, <2>8, <3>2, <4>1 DEF Readdir, Answer
      <4> QED
        BY <4>1, <4>2
    <3> QED
      BY <3>1, <3>2
  <2>11. r \in Answers
    BY <1>1, <2>10, AnswerTyped
  <2>12. Paging(r) /\ (~listing.dirty /\ r.op = "page" => PageOf(es, listing.pos, r.names))
    BY <2>7, <2>9, <2>10 DEF Paging
  <2>13. ListOK(listing', DOMAIN opened, es, replies')
    BY <1>1, <1>4, <2>1, <2>10, <2>11, <2>12, ListPaged
  <2> QED
    BY <2>1, <2>4, <2>13 DEF ListInv
<1>12. CASE \E opcode \in Refused \cup Granted \cup Other : Fixed(opcode)
  <2>1. PICK opcode : Fixed(opcode)
    BY <1>12
  <2>2. UNCHANGED <<tree, opened, listing>>
    BY <2>1 DEF Fixed, world, client
  <2>3. replies' = replies
    BY <2>1 DEF Fixed, Done, Refuse
  <2> QED
    BY <1>5, <2>2, <2>3
<1>13. CASE \E k \in DOMAIN forgets : Forget(k)
  <2>1. UNCHANGED <<tree, opened, listing, replies>>
    BY <1>13 DEF Forget, world
  <2> QED
    BY <1>5, <2>1
<1>14. CASE Take
  <2>1. PICK r : r = Head(replies)
    OBVIOUS
  <2>2. /\ UNCHANGED tree /\ replies # <<>> /\ replies' = Tail(replies)
        /\ opened' = IF r.op = "open"
                     THEN Put(opened, r.fh, [ino |-> r.ino, path |-> r.path, file |-> r.file]) ELSE opened
        /\ listing' = Turned(listing, r)
    BY <1>14, <2>1 DEF Take, world, Turned
  <2>3. r \in Answers /\ 1 \in DOMAIN replies /\ replies[1] = r
    BY <1>1, <2>1, <2>2, TailAt
  <2>4. DOMAIN opened \subseteq DOMAIN opened' /\ \A f \in DOMAIN opened : opened'[f] = opened[f]
    <3>1. CASE r.op = "open"
      <4>1. r.fh \notin DOMAIN opened
        BY <2>3, <3>1 DEF OpenInv, OpenOK
      <4>2. PICK o : opened' = Put(opened, r.fh, o)
        BY <2>2, <3>1
      <4> QED
        BY <4>1, <4>2 DEF Put
    <3>2. CASE r.op # "open"
      BY <2>2, <3>2
    <3> QED
      BY <3>1, <3>2
  <2>5. ListOK(listing', DOMAIN opened', es, replies')
    BY <1>1, <1>3, <1>4, <2>1, <2>2, <2>4, ListTaken
  <2>6. CASE listing'.state = "none"
    <3>1. listing' = NoListing /\ \A k \in DOMAIN replies' : ~Paging(replies'[k])
      BY <2>5, <2>6 DEF ListOK
    <3>2. PICK fs : fs = Entries(opened[listing.fh].path)'
      OBVIOUS
    <3>3. ListOK(listing', DOMAIN opened', fs, replies')
      BY <2>5, <2>6, <3>1 DEF ListOK
    <3> QED
      BY <3>2, <3>3 DEF ListInv
  <2>7. CASE listing'.state # "none"
    <3>1. listing'.fh = listing.fh
      BY <1>1, <2>2, <2>7 DEF Listings, NoListing, Turned
    <3>2. listing.fh \in DOMAIN opened
      <4>1. listing.state # "none"
        <5>1. CASE r.op = "page"
          BY <1>4, <2>3, <5>1 DEF ListOK, Paging
        <5>2. CASE r.op # "page"
          BY <2>2, <2>7, <5>2 DEF NoListing, Turned
        <5> QED
          BY <5>1, <5>2
      <4> QED
        BY <1>4, <4>1 DEF ListOK
    <3>3. opened'[listing'.fh].path = p
      BY <1>2, <2>4, <3>1, <3>2
    <3>4. Entries(opened[listing.fh].path)' = Entries(p)'
      BY <3>3
    <3>5. Entries(p)' = es
      BY <1>3, <2>2, SameEntries
    <3> QED
      BY <2>5, <3>4, <3>5 DEF ListInv
  <2> QED
    BY <2>6, <2>7
<1>15. CASE \E ino \in Ids : Evict(ino)
  <2>1. UNCHANGED <<tree, opened, listing, replies>>
    BY <1>15 DEF Evict, world
  <2> QED
    BY <1>5, <2>1
<1>16. CASE \E fh \in Fhs : List(fh)
  <2>1. PICK fh \in Fhs : List(fh)
    BY <1>16
  <2>2. /\ UNCHANGED <<opened, replies>> /\ fh \in DOMAIN opened /\ listing = NoListing
        /\ listing' = [state |-> "reading", fh |-> fh, pos |-> 0, got |-> <<>>, dirty |-> FALSE]
    BY <2>1 DEF List
  <2>3. PICK fs : fs = Entries(opened[listing.fh].path)'
    OBVIOUS
  <2>4. Len(fs) \in Nat
    <3>1. PICK q : q = opened'[listing'.fh].path
      OBVIOUS
    <3>2. fs = Entries(q)'
      BY <2>3, <3>1
    <3>3. UNCHANGED tree
      BY <2>1 DEF List, world
    <3>4. Entries(q)' = Entries(q)
      BY <3>3, SameEntries
    <3>5. fs \in Seq(Names)
      BY <3>2, <3>4, EntriesAreNames
    <3> QED
      BY <3>5, LenProperties
  <2>5. \A k \in DOMAIN replies : ~Paging(replies[k])
    BY <1>4, <2>2 DEF ListOK, NoListing
  <2>6. \A k \in DOMAIN replies : replies[k].op # "page"
    BY <2>5 DEF Paging
  <2>7. Begins(fs, <<>>, 0)
    BY <2>4 DEF Begins
  <2>8. /\ listing'.state = "reading" /\ listing'.fh = fh /\ listing'.pos = 0 /\ listing'.got = <<>>
        /\ listing'.dirty = FALSE
    BY <2>2
  <2>9. ListOK(listing', DOMAIN opened', fs, replies')
    BY <2>2, <2>5, <2>6, <2>7, <2>8 DEF ListOK
  <2> QED
    BY <2>3, <2>9 DEF ListInv
<1>17. CASE \E p_1 \in Paths : Write(p_1) \/ Mkdir(p_1) \/ Delete(p_1)
  <2>1. UNCHANGED <<opened, replies>>
    BY <1>17, HostChanges
  <2>2. listing' = [listing EXCEPT !.dirty = listing # NoListing]
    BY <1>17 DEF Write, Mkdir, Delete, Change
  <2>3. PICK fs : fs = Entries(opened[listing.fh].path)'
    OBVIOUS
  <2>4. ListOK(listing', DOMAIN opened, fs, replies)
    BY <1>1, <1>4, <2>2, ListDirty
  <2> QED
    BY <2>1, <2>3, <2>4 DEF ListInv
<1>18. CASE SetRoot
  <2>1. replies' = <<>> /\ listing' = NoListing
    BY <1>18 DEF SetRoot
  <2>2. PICK fs : fs = Entries(opened[listing.fh].path)'
    OBVIOUS
  <2>3. ListOK(NoListing, DOMAIN opened', fs, <<>>)
    BY ListStarts
  <2> QED
    BY <2>1, <2>2, <2>3 DEF ListInv
<1> QED
  BY <1>6, <1>7, <1>8, <1>9, <1>10, <1>11, <1>12, <1>13, <1>14, <1>15, <1>16, <1>17, <1>18 DEF Next, Request

\* What the invariants say of open files, of what is read and of a listing that is done.
LEMMA ViewIs ==
  ASSUME FuseInv, OpenInv, ListInv
  PROVE  GuestView
<1>1. OpenKeepsPath
  BY DEF OpenInv, OpenOK, Pinned, OpenKeepsPath, Has, PathOf
<1>2. ReadSeesOpened
  <2>1. \A fh \in DOMAIN opened : fh \in DOMAIN handles /\ handles[fh].file = opened[fh].file
    BY DEF OpenInv, OpenOK
  <2>2. ASSUME NEW r \in Replied("data") PROVE r.file = opened[r.fh].file
    <3>1. PICK k \in DOMAIN replies : replies[k] = r
      BY DEF Replied, ToSet
    <3>2. replies[k].op = "data"
      BY <3>1 DEF Replied
    <3> QED
      BY <3>1, <3>2 DEF OpenInv, OpenOK
  <2> QED
    BY <2>1, <2>2 DEF ReadSeesOpened
<1>3. ASSUME listing.state = "done", ~listing.dirty PROVE listing.got = Entries(opened[listing.fh].path)
  <2>1. PICK p : p = opened[listing.fh].path
    OBVIOUS
  <2>2. PICK es \in Seq(Names) : es = Entries(p)
    BY EntriesAreNames
  <2>3. PICK got \in Seq(Names) : got = listing.got
    BY DEF FuseInv, FuseTypes, Listings
  <2>4. listing.pos = Len(es) /\ Begins(es, got, listing.pos)
    BY <1>3, <2>1, <2>2, <2>3 DEF ListInv, ListOK
  <2>5. Len(got) = Len(es) /\ \A j \in 1 .. Len(es) : got[j] = es[j]
    BY <2>4 DEF Begins
  <2>6. got = es
    BY <2>5, SeqEqual
  <2> QED
    BY <2>1, <2>2, <2>3, <2>6
<1> QED
  BY <1>1, <1>2, <1>3 DEF GuestView, ListingComplete

\* The machine's boot leaves the file system alone.
LEMMA FuseStays ==
  ASSUME FuseInv, UNCHANGED vars
  PROVE  FuseInv'
<1>1. /\ UNCHANGED <<inodes, nextIno, pathIno, handles, nextFh>> /\ UNCHANGED <<tree, changes>>
      /\ UNCHANGED replies /\ UNCHANGED <<nlookup, forgets, opened, listing>> /\ UNCHANGED listed
  BY DEF vars, server, world, client
<1>2. Table' = Table
  BY <1>1 DEF Table
<1>3. FuseTypes'
  BY <1>1, <1>2 DEF FuseInv, FuseTypes
<1>4. Balanced(inodes, nlookup, replies, listed, forgets)'
  BY <1>1 DEF FuseInv, Balanced
<1> QED
  BY <1>3, <1>4 DEF FuseInv

LEMMA ViewStays ==
  ASSUME OpenInv, ListInv, UNCHANGED vars
  PROVE  OpenInv' /\ ListInv'
<1>1. /\ UNCHANGED <<inodes, nextIno, pathIno, handles, nextFh>> /\ UNCHANGED tree
      /\ UNCHANGED replies /\ UNCHANGED <<nlookup, forgets, opened, listing>>
  BY DEF vars, server, world, client
<1>2. OpenInv'
  BY <1>1 DEF OpenInv
<1>3. PICK p : p = opened[listing.fh].path
  OBVIOUS
<1>4. Entries(p)' = Entries(p)
  BY <1>1, SameEntries
<1>5. Entries(opened[listing.fh].path)' = Entries(p)'
  BY <1>1, <1>3
<1>6. ListInv'
  BY <1>1, <1>3, <1>4, <1>5 DEF ListInv
<1> QED
  BY <1>2, <1>6

\* The steps of the file server as the run takes them.
LEMMA GuestSteps ==
  ASSUME [GuestNext]_host
  PROVE  Next \/ UNCHANGED vars
BY DEF GuestNext, host

\* FORGETs that are late, listings whose references are never given back, lookups of files
\* that are gone: the count of an id is what the guest and the messages on the way account
\* for, so that no id goes while the guest holds it (inode_table.rs:46, 83).
THEOREM ReferencesBalance == GuestSpec => []RefsBalance
<1>1. GuestInit => FuseInv
  BY FuseStarts DEF GuestInit, HostInit
<1>2. FuseInv /\ [GuestNext]_host => FuseInv'
  BY GuestSteps, FuseStep, FuseStays
<1>3. FuseInv => RefsBalance
  BY BalanceIs
<1> QED
  BY <1>1, <1>2, <1>3, PTL DEF GuestSpec

\* Open files keep their path and their content, and a listing in pages has every entry
\* once, whatever the host does to the worktree meanwhile (ops.rs:37, 203).
THEOREM ViewConsistent == GuestSpec => []GuestView
<1>1. GuestInit => FuseInv /\ OpenInv /\ ListInv
  <2> SUFFICES ASSUME Init PROVE FuseInv /\ OpenInv /\ ListInv
    BY DEF GuestInit, HostInit
  <2>1. FuseInv
    BY FuseStarts
  <2>2. OpenInv
    BY OpenStarts DEF Init, OpenInv
  <2>3. PICK es : es = Entries(opened[listing.fh].path)
    OBVIOUS
  <2>4. ListInv
    BY <2>3, ListStarts DEF Init, ListInv
  <2> QED
    BY <2>1, <2>2, <2>4
<1>2. FuseInv /\ OpenInv /\ ListInv /\ [GuestNext]_host => FuseInv' /\ OpenInv' /\ ListInv'
  <2> SUFFICES ASSUME FuseInv, OpenInv, ListInv, [GuestNext]_host PROVE FuseInv' /\ OpenInv' /\ ListInv'
    OBVIOUS
  <2>1. CASE Next
    <3>1. FuseInv'
      BY <2>1, FuseStep
    <3> QED
      BY <2>1, <3>1, OpenKept, ListStep
  <2>2. CASE UNCHANGED vars
    BY <2>2, FuseStays, ViewStays
  <2> QED
    BY <2>1, <2>2, GuestSteps
<1>3. FuseInv /\ OpenInv /\ ListInv => GuestView
  BY ViewIs
<1> QED
  BY <1>1, <1>2, <1>3, PTL DEF GuestSpec

\* To the guest's kernel the inode table is FileIds: an id is never given to a second path
\* (inode_table.rs:46), not even after its last FORGET, until the machine is reset.
THEOREM IdsStable == GuestSpec => IdsAreStable
<1>1. GuestInit => FuseInv /\ F!Init
  BY FuseStarts DEF GuestInit, HostInit
<1>2. FuseInv /\ [GuestNext]_host => FuseInv' /\ [F!Next]_<<[i \in DOMAIN inodes |-> PathOf(i)], 1 .. nextIno - 1>>
  <2> SUFFICES ASSUME FuseInv, [GuestNext]_host
               PROVE  FuseInv' /\ [F!Next]_<<[i \in DOMAIN inodes |-> PathOf(i)], 1 .. nextIno - 1>>
    OBVIOUS
  <2>1. CASE Next
    <3>1. FuseInv' /\ (SetRoot \/ Evolves(Table, Table'))
      BY <2>1, FuseStep
    <3>2. CASE SetRoot
      BY <3>1, <3>2, StartsOver DEF F!Next
    <3>3. CASE Evolves(Table, Table')
      <4>1. FuseTypes /\ nextIno' \in 2 .. MaxIds + 1
        BY <3>1 DEF FuseInv, FuseTypes
      <4>2. F!Change
        BY <3>3, <4>1, IdsChange
      <4> QED
        BY <3>1, <4>2 DEF F!Next
    <3> QED
      BY <3>1, <3>2, <3>3
  <2>2. CASE UNCHANGED vars
    <3>1. UNCHANGED <<inodes, nextIno>>
      BY <2>2 DEF vars, server
    <3>2. UNCHANGED [i \in DOMAIN inodes |-> PathOf(i)] /\ UNCHANGED (1 .. nextIno - 1)
      BY <3>1 DEF PathOf
    <3> QED
      BY <2>2, <3>2, FuseStays
  <2> QED
    BY <2>1, <2>2, GuestSteps
<1> QED
  BY <1>1, <1>2, PTL DEF GuestSpec, IdsAreStable, F!Spec

=============================================================================
