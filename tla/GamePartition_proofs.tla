------------------------ MODULE GamePartition_proofs ------------------------
(***************************************************************************)
(* Proofs about HdlFs, a game's partitions on the hard disk, for every     *)
(* list of sizes, every disk and every image and however its partitions    *)
(* had to be split.                                                        *)
(***************************************************************************)
EXTENDS HdlFs, FiniteSetTheorems, SequenceTheorems, WellFoundedInduction, TLAPS

-----------------------------------------------------------------------------
(* The least number of a set: where the code recurs or takes the first of  *)
(* a list, the proofs look at the first place that would be wrong.         *)
Below == {ss \in Nat \X Nat : ss[1] < ss[2]}

LEMMA Least ==
  ASSUME NEW S \in SUBSET Nat, S # {}
  PROVE  \E n \in S : \A m \in S : n <= m
<1>1. IsWellFoundedOn(Below, Nat)
  BY NatLessThanWellFounded DEF OpToRel, Below
<1>2. \A m, n \in Nat : <<m, n>> \in Below <=> m < n
  BY DEF Below
<1>3. PICK n \in S : \A m \in S : ~(<<m, n>> \in Below)
  BY <1>1, WFMin
<1>4. \A m \in S : m \in Nat /\ n \in Nat /\ ~(m < n)
  BY <1>2, <1>3
<1>5. \A m \in S : n <= m
  BY <1>4
<1> QED  BY <1>5

(* Induction along a list: what holds at its first place, and at a place   *)
(* if it holds at the one before, holds at all.                            *)
LEMMA AllAlong ==
  ASSUME NEW n \in Nat, NEW Good \in SUBSET Nat, 1 \in Good,
         \A k \in 2 .. n : k - 1 \in Good => k \in Good
  PROVE  1 .. n \subseteq Good
<1> DEFINE Bad == 1 .. n \ Good
<1> SUFFICES ASSUME Bad # {} PROVE FALSE
  OBVIOUS
<1>1. Bad \in SUBSET Nat /\ \A k : k \in Bad <=> k \in 1 .. n /\ k \notin Good
  OBVIOUS
<1> HIDE DEF Bad
<1>2. PICK m \in Bad : \A k \in Bad : m <= k
  BY <1>1, Least
<1>3. m \in 1 .. n /\ m \notin Good /\ m # 1
  BY <1>1, <1>2
<1>4. m \in 2 .. n /\ m - 1 \in 1 .. n
  BY <1>3
<1>5. m - 1 \notin Bad
  BY <1>2, <1>4
<1> QED  BY <1>1, <1>3, <1>4, <1>5

-----------------------------------------------------------------------------
(* The sizes. *)

LEMMA SizesGrow ==
  /\ Len(Sizes) \in Nat \ {0}
  /\ \A i \in 1 .. Len(Sizes) : Sizes[i] \in Nat
  /\ \A i, j \in 1 .. Len(Sizes) : i <= j => Sizes[i] <= Sizes[j]
<1> DEFINE n == Len(Sizes)
<1>1. n \in Nat \ {0} /\ \A i \in 1 .. n : Sizes[i] \in Nat
  BY SizesAssumption DEF SizesAssumption
<1>2. \A i \in 1 .. n - 1 : Sizes[i + 1] = 2 * Sizes[i]
  BY SizesAssumption DEF SizesAssumption
<1> HIDE DEF n
<1>3. ASSUME NEW i \in 1 .. n PROVE \A j \in 1 .. n : i <= j => Sizes[i] <= Sizes[j]
  <2> DEFINE Good == {k \in Nat : k \in i .. n => Sizes[i] <= Sizes[k]}
  <2>1. Good \in SUBSET Nat /\ 1 \in Good
    BY <1>1
  <2>2. ASSUME NEW k \in 2 .. n, k - 1 \in Good PROVE k \in Good
    <3>1. CASE k <= i
      BY <1>1, <3>1
    <3>2. CASE i < k
      <4>1. k - 1 \in i .. n - 1 /\ k - 1 \in i .. n /\ k - 1 \in 1 .. n - 1 /\ (k - 1) + 1 = k
        BY <1>1, <3>2
      <4>2. Sizes[i] <= Sizes[k - 1]
        BY <2>2, <4>1
      <4>3. Sizes[(k - 1) + 1] = 2 * Sizes[k - 1]
        BY ONLY <1>2, <4>1
      <4>4. Sizes[k - 1] \in Nat /\ Sizes[i] \in Nat
        BY <1>1, <4>1
      <4> QED  BY <4>1, <4>2, <4>3, <4>4
    <3> QED  BY <1>1, <3>1, <3>2
  <2>3. 1 .. n \subseteq Good
    <3> HIDE DEF Good
    <3> QED  BY <1>1, <2>1, <2>2, AllAlong
  <2> QED  BY <2>3
<1> QED  BY <1>1, <1>3 DEF n

LEMMA ReservedNat == \A k : Reserved(k) \in Nat \ {0}
BY SizesAssumption DEF SizesAssumption, Reserved

(* Every size has room for what is reserved. *)
LEMMA SizeRoom ==
  ASSUME NEW i \in 1 .. Len(Sizes), NEW k
  PROVE  /\ Sizes[i] \in Nat /\ Largest \in Nat
         /\ Reserved(k) < Sizes[i] /\ Sizes[i] <= Largest
<1>1. Sizes[1] <= Sizes[i] /\ Sizes[i] <= Largest /\ Sizes[1] \in Nat
  BY SizesGrow DEF Largest
<1>2. Reserved(k) < Sizes[1]
  BY SizesAssumption DEF SizesAssumption, Reserved
<1>3. Sizes[i] \in Nat /\ Largest \in Nat
  BY SizesGrow DEF Largest
<1> QED  BY <1>1, <1>2, <1>3, ReservedNat

(* GetPartSize finds a size that the disk allows. *)
LEMMA SizeAllowed ==
  ASSUME NEW s \in Nat, NEW k \in Nat \ {0}, NEW m \in MaxParts
  PROVE  /\ GetPartSize(s, k, m) \in 1 .. Len(Sizes)
         /\ Sizes[GetPartSize(s, k, m)] <= m
<1> DEFINE w == Minimum(s, Largest - Reserved(k))
           n == Len(Sizes)
           r == Reserved(k)
           Enough(i) == Sizes[i] - r >= w \/ Sizes[i] >= m
           S == {i \in 1 .. n : Enough(i)}
           f == FirstFit(w, k, m)
<1>1. /\ n \in Nat \ {0} /\ m \in Nat /\ r \in Nat /\ Sizes[n] = Largest
      /\ \A j \in 1 .. n : Sizes[j] \in Nat /\ Sizes[j] <= Largest
      /\ \A i, j \in 1 .. n : i <= j => Sizes[i] <= Sizes[j]
      /\ r < Largest
  <2>1. n \in Nat \ {0} /\ n \in 1 .. n /\ m \in Nat /\ Sizes[n] = Largest
    BY SizesGrow, MaxPartsAssumption DEF Largest, MaxPartsAssumption
  <2>2. \A j \in 1 .. n : Sizes[j] \in Nat /\ Sizes[j] <= Largest /\ r \in Nat /\ r < Sizes[j]
    BY SizeRoom, ReservedNat
  <2>3. r \in Nat /\ r < Largest
    BY <2>1, <2>2
  <2> QED  BY <2>1, <2>2, <2>3, SizesGrow
<1>2. m >= Largest \/ \E q \in 1 .. n : m = Sizes[q]
  BY MaxPartsAssumption DEF MaxPartsAssumption
<1>3. GetPartSize(s, k, m) = IF f > 1 /\ Wasteful(f, w) THEN f - 1 ELSE f
  BY DEF GetPartSize
<1>4. w \in Nat /\ w <= Largest - r
  BY <1>1 DEF Minimum
<1>5. f = CHOOSE i \in 1 .. n : Enough(i) /\ \A j \in 1 .. i - 1 : ~Enough(j)
  <2>1. f = CHOOSE i \in 1 .. n :
              Enough(i) /\ \A j \in 1 .. i - 1 : Sizes[j] - r < w /\ Sizes[j] < m
    BY DEF FirstFit
  <2>2. ASSUME NEW i \in 1 .. n
        PROVE  (\A j \in 1 .. i - 1 : Sizes[j] - r < w /\ Sizes[j] < m)
                 <=> (\A j \in 1 .. i - 1 : ~Enough(j))
    <3>1. ASSUME NEW j \in 1 .. i - 1
          PROVE  Sizes[j] - r < w /\ Sizes[j] < m <=> ~Enough(j)
      <4>1. Sizes[j] \in Nat
        BY <1>1
      <4> HIDE DEF n, w, r
      <4> QED  BY <1>1, <1>4, <4>1
    <3> QED  BY <3>1
  <2> HIDE DEF f, w, n, r
  <2> QED  BY <2>1, <2>2
<1> HIDE DEF w, n, r, f
<1>6. S \in SUBSET Nat /\ n \in S
  BY <1>1, <1>4
<1>7. \E i \in 1 .. n : Enough(i) /\ \A j \in 1 .. i - 1 : ~Enough(j)
  <2> HIDE DEF S
  <2>1. PICK i \in S : \A j \in S : i <= j
    BY <1>6, Least
  <2> USE DEF S
  <2>2. ASSUME NEW j \in 1 .. i - 1 PROVE j \notin S /\ j \in 1 .. n
    BY <2>1, <1>1
  <2> QED  BY <2>1, <2>2
<1>8. f \in 1 .. n /\ \A j \in 1 .. f - 1 : ~Enough(j)
  <2> HIDE DEF Enough
  <2> QED  BY <1>5, <1>7
<1>9. \A j \in 1 .. f - 1 : Sizes[j] < m
  BY <1>1, <1>8
<1>10. Sizes[f] <= m
  <2>1. CASE m >= Largest
    BY <1>1, <1>8, <2>1
  <2>2. ASSUME NEW q \in 1 .. n, m = Sizes[q] PROVE Sizes[f] <= m
    <3>1. ~(q <= f - 1)
      BY <1>1, <1>8, <1>9, <2>2
    <3>2. f <= q
      BY <3>1, <1>8, <1>1
    <3> QED  BY <3>2, <1>1, <1>8, <2>2
  <2> QED  BY <1>2, <2>1, <2>2
<1>11. CASE f > 1 /\ Wasteful(f, w)
  <2>1. GetPartSize(s, k, m) = f - 1 /\ f - 1 \in 1 .. f - 1 /\ f - 1 \in 1 .. n
    BY <1>1, <1>3, <1>8, <1>11
  <2>2. Sizes[f - 1] < m /\ Sizes[f - 1] \in Nat
    BY <1>1, <1>9, <2>1
  <2> QED  BY <1>1, <2>1, <2>2 DEF n
<1>12. CASE ~(f > 1 /\ Wasteful(f, w))
  BY <1>3, <1>8, <1>10, <1>12 DEF n
<1> QED  BY <1>11, <1>12

-----------------------------------------------------------------------------
(* Where slices start. *)

(* Partitions that each have room for something. *)
Lists == {p \in Seq(Nat) : \A k \in 1 .. Len(p) : Reserved(k) < p[k]}

(* What SliceStart recurs on. *)
NextStart(s, p, n, k) == s[k - 1] + Minimum(p[k - 1] - Reserved(k - 1), n - s[k - 1])
Starts(s, p, n) == s = [k \in 1 .. Len(p) + 1 |-> IF k = 1 THEN 0 ELSE NextStart(s, p, n, k)]

LEMMA StartStep ==
  ASSUME NEW p \in Lists, NEW n \in Nat, NEW s, NEW k \in 2 .. Len(p) + 1,
         s[k - 1] \in 0 .. n
  PROVE  NextStart(s, p, n, k) \in s[k - 1] .. n
<1>1. k - 1 \in 1 .. Len(p)
  BY DEF Lists
<1>2. p[k - 1] \in Nat /\ Reserved(k - 1) \in Nat /\ Reserved(k - 1) < p[k - 1]
  BY <1>1, ReservedNat DEF Lists
<1> QED  BY <1>2 DEF NextStart, Minimum

(* There is such a function, ... *)
LEMMA StartsExist == ASSUME NEW p \in Lists, NEW n \in Nat PROVE \E s : Starts(s, p, n)
<1> DEFINE N == Len(p) + 1
           UpTo(s, k) == s = [i \in 1 .. k |-> IF i = 1 THEN 0 ELSE NextStart(s, p, n, i)]
           Good == {k \in Nat : \E s : UpTo(s, k)}
<1>1. N \in Nat \ {0}
  BY DEF Lists
<1>2. 1 \in Good
  <2> DEFINE s == [i \in 1 .. 1 |-> 0]
  <2>1. \A i \in 1 .. 1 : i = 1
    OBVIOUS
  <2>2. s = [i \in 1 .. 1 |-> IF i = 1 THEN 0 ELSE NextStart(s, p, n, i)]
    BY <2>1
  <2> QED  BY <2>2
<1>3. ASSUME NEW k \in 2 .. N, k - 1 \in Good PROVE k \in Good
  <2>1. PICK s : UpTo(s, k - 1)
    BY <1>3
  <2> DEFINE t == [i \in 1 .. k |-> IF i = k THEN NextStart(s, p, n, k) ELSE s[i]]
  <2>2. k \in Nat /\ k > 1 /\ t = [i \in 1 .. k |-> t[i]] /\ t[k] = NextStart(s, p, n, k)
    BY <1>1
  <2>3. \A i \in 1 .. k - 1 : t[i] = s[i]
    BY <2>2
  <2>4. \A i \in 1 .. k - 1 : s[i] = IF i = 1 THEN 0 ELSE NextStart(s, p, n, i)
    <3> HIDE DEF t
    <3> QED  BY <2>1, <2>2
  <2> HIDE DEF t, UpTo, N, Good
  <2>5. ASSUME NEW i \in 2 .. k PROVE NextStart(t, p, n, i) = NextStart(s, p, n, i)
    <3>1. i - 1 \in 1 .. k - 1
      BY <2>2
    <3> QED  BY <2>3, <3>1 DEF NextStart
  <2>6. ASSUME NEW i \in 1 .. k PROVE t[i] = IF i = 1 THEN 0 ELSE NextStart(t, p, n, i)
    <3>1. CASE i = k
      BY <2>2, <2>5, <3>1
    <3>2. CASE i \in 2 .. k - 1
      <4>1. i \in 1 .. k - 1 /\ i \in 2 .. k /\ i # 1
        BY <2>2, <3>2
      <4> QED  BY <2>3, <2>4, <2>5, <4>1
    <3>3. CASE i = 1
      <4>1. i \in 1 .. k - 1
        BY <2>2, <3>3
      <4> QED  BY <2>3, <2>4, <3>3, <4>1
    <3> QED  BY <2>2, <3>1, <3>2, <3>3
  <2>7. t = [i \in 1 .. k |-> IF i = 1 THEN 0 ELSE NextStart(t, p, n, i)]
    BY <2>2, <2>6, Zenon
  <2> QED  BY <2>2, <2>7 DEF UpTo, Good
<1>4. 1 .. N \subseteq Good
  <2>1. Good \in SUBSET Nat
    OBVIOUS
  <2> HIDE DEF Good, N
  <2> QED  BY <1>1, <1>2, <1>3, <2>1, AllAlong
<1>5. N \in 1 .. N
  BY <1>1
<1>6. \E s : UpTo(s, N)
  <2> HIDE DEF UpTo, N
  <2> QED  BY <1>4, <1>5
<1> QED  BY <1>6 DEF Starts

(* ... and SliceStart is one. *)
LEMMA SliceStartIs == ASSUME NEW p \in Lists, NEW n \in Nat PROVE Starts(SliceStart(p, n), p, n)
<1>1. SliceStart(p, n) = CHOOSE s : Starts(s, p, n)
  BY DEF SliceStart, Starts, NextStart
<1> QED  BY <1>1, StartsExist

(* Slices start inside the image, one behind the other, and none is longer *)
(* than its partition has room.                                            *)
LEMMA StartsInOrder ==
  ASSUME NEW p \in Lists, NEW n \in Nat, NEW s, Starts(s, p, n)
  PROVE  /\ Len(p) \in Nat /\ s[1] = 0
         /\ \A k \in 1 .. Len(p) + 1 : s[k] \in 0 .. n
         /\ \A k \in 1 .. Len(p) : /\ s[k + 1] = NextStart(s, p, n, k + 1)
                                    /\ s[k] <= s[k + 1]
<1> DEFINE N == Len(p) + 1
           Good == {k \in Nat : k \in 1 .. N => s[k] \in 0 .. n}
<1>1. N \in Nat \ {0} /\ Len(p) \in Nat
  BY DEF Lists
<1>2. /\ s[1] = 0
      /\ \A k \in 2 .. N : s[k] = NextStart(s, p, n, k)
  <2> HIDE DEF N
  <2>1. s = [k \in 1 .. N |-> IF k = 1 THEN 0 ELSE NextStart(s, p, n, k)]
    BY DEF Starts, N
  <2>2. 1 \in 1 .. N /\ \A k \in 2 .. N : k \in 1 .. N /\ k # 1
    BY <1>1
  <2> QED  BY <2>1, <2>2, Zenon
<1>3. Good \in SUBSET Nat /\ 1 \in Good
  BY <1>2
<1>4. ASSUME NEW k \in 2 .. N, k - 1 \in Good PROVE k \in Good
  <2>1. k - 1 \in 1 .. N /\ k \in 2 .. Len(p) + 1
    BY <1>1
  <2>2. s[k - 1] \in 0 .. n
    BY <1>4, <2>1
  <2>3. NextStart(s, p, n, k) \in s[k - 1] .. n
    BY <2>1, <2>2, StartStep
  <2>4. s[k] \in 0 .. n
    BY <1>2, <2>2, <2>3
  <2> QED  BY <1>1, <2>4
<1>5. 1 .. N \subseteq Good
  <2> HIDE DEF Good, N
  <2> QED  BY <1>1, <1>3, <1>4, AllAlong
<1>6. \A k \in 1 .. N : s[k] \in 0 .. n
  BY <1>5
<1>7. ASSUME NEW k \in 1 .. Len(p)
      PROVE  s[k + 1] = NextStart(s, p, n, k + 1) /\ s[k] <= s[k + 1]
  <2>1. k + 1 \in 2 .. N /\ k + 1 \in 2 .. Len(p) + 1 /\ (k + 1) - 1 = k /\ k \in 1 .. N
    BY <1>1
  <2>2. s[k + 1] = NextStart(s, p, n, k + 1)
    BY <1>2, <2>1
  <2>3. NextStart(s, p, n, k + 1) \in s[k] .. n
    BY <1>6, <2>1, StartStep
  <2> QED  BY <1>6, <2>1, <2>2, <2>3
<1> QED  BY <1>1, <1>2, <1>6, <1>7

(* A partition that is added changes no start. *)
LEMMA StartsKept ==
  ASSUME NEW p \in Lists, NEW x, Append(p, x) \in Lists, NEW n \in Nat,
         NEW k \in 1 .. Len(p) + 1
  PROVE  SliceStart(Append(p, x), n)[k] = SliceStart(p, n)[k]
<1> DEFINE q == Append(p, x)
           s == SliceStart(p, n)
           t == SliceStart(q, n)
           N == Len(p) + 1
           Good == {i \in Nat : i \in 1 .. N => t[i] = s[i]}
<1>1. Len(p) \in Nat /\ Len(q) = Len(p) + 1 /\ \A i \in 1 .. Len(p) : q[i] = p[i]
  BY DEF Lists
<1>2. Starts(s, p, n) /\ Starts(t, q, n)
  BY SliceStartIs
<1> HIDE DEF q, s, t
<1>3. s[1] = 0 /\ \A i \in 1 .. Len(p) : s[i + 1] = NextStart(s, p, n, i + 1)
  BY <1>2, StartsInOrder
<1>4. t[1] = 0 /\ \A i \in 1 .. Len(q) : t[i + 1] = NextStart(t, q, n, i + 1)
  BY <1>2, StartsInOrder DEF q
<1>5. Good \in SUBSET Nat /\ 1 \in Good
  BY <1>3, <1>4
<1>6. ASSUME NEW i \in 2 .. N, i - 1 \in Good PROVE i \in Good
  <2>1. i - 1 \in 1 .. Len(p) /\ i - 1 \in 1 .. Len(q) /\ i - 1 \in 1 .. N /\ (i - 1) + 1 = i
    BY <1>1
  <2>2. t[i - 1] = s[i - 1] /\ q[i - 1] = p[i - 1]
    BY <1>1, <1>6, <2>1
  <2>3. s[i] = NextStart(s, p, n, i) /\ t[i] = NextStart(t, q, n, i)
    BY <1>3, <1>4, <2>1
  <2>4. t[i] = s[i]
    BY <2>2, <2>3 DEF NextStart
  <2> QED  BY <2>4
<1>7. 1 .. N \subseteq Good
  <2> HIDE DEF Good, N
  <2>1. N \in Nat
    BY <1>1 DEF N
  <2> QED  BY <2>1, <1>5, <1>6, AllAlong
<1> QED  BY <1>7 DEF s, t, q

(* How much of the image the partitions hold. *)
Held(p, n) == SliceStart(p, n)[Len(p) + 1]

LEMMA HeldNone == ASSUME NEW n \in Nat PROVE <<>> \in Lists /\ Held(<<>>, n) = 0
<1>1. <<>> \in Lists /\ Len(<<>>) + 1 = 1
  BY DEF Lists
<1>2. Starts(SliceStart(<<>>, n), <<>>, n)
  BY <1>1, SliceStartIs
<1> QED  BY <1>1, <1>2, StartsInOrder DEF Held

LEMMA HeldMore ==
  ASSUME NEW p \in Lists, NEW x \in Nat, Reserved(Len(p) + 1) < x, NEW n \in Nat
  PROVE  /\ Append(p, x) \in Lists
         /\ Held(Append(p, x), n)
              = Held(p, n) + Minimum(x - Reserved(Len(p) + 1), n - Held(p, n))
<1> DEFINE q == Append(p, x)
           m == Len(p) + 1
           t == SliceStart(q, n)
<1>1. /\ Len(p) \in Nat /\ q \in Seq(Nat) /\ Len(q) = m /\ q[m] = x
      /\ \A i \in 1 .. Len(p) : q[i] = p[i]
  BY DEF Lists
<1>2. q \in Lists
  <2>1. ASSUME NEW k \in 1 .. Len(q) PROVE Reserved(k) < q[k]
    <3>1. CASE k = m
      BY <1>1, <3>1
    <3>2. CASE k \in 1 .. Len(p)
      BY <1>1, <3>2 DEF Lists
    <3> HIDE DEF q
    <3> QED  BY <1>1, <3>1, <3>2
  <2> QED  BY <1>1, <2>1 DEF Lists
<1>3. m \in 1 .. Len(q) /\ m \in 1 .. Len(p) + 1
  BY <1>1
<1>4. Starts(t, q, n)
  BY <1>2, SliceStartIs
<1>5. t[m + 1] = NextStart(t, q, n, m + 1) /\ (m + 1) - 1 = m
  <2> HIDE DEF t, q, m
  <2>1. t[m + 1] = NextStart(t, q, n, m + 1)
    BY <1>2, <1>3, <1>4, StartsInOrder
  <2> QED  BY <2>1, <1>1 DEF m
<1>6. t[m] = Held(p, n)
  BY <1>2, <1>3, StartsKept DEF Held
<1>7. Held(q, n) = t[m + 1]
  BY <1>1 DEF Held
<1> HIDE DEF t, q, m
<1>8. Held(q, n) = Held(p, n) + Minimum(x - Reserved(m), n - Held(p, n))
  BY <1>1, <1>5, <1>6, <1>7 DEF NextStart
<1> QED  BY <1>2, <1>8 DEF q, m

(* Partitions that hold an image, each of them a part of it. *)
Laid(p, n) ==
  /\ p \in Lists /\ n \in Nat \ {0}
  /\ Held(p, n) = n
  /\ \A k \in 1 .. Len(p) : SliceStart(p, n)[k] < n

LEMMA LaidOut ==
  ASSUME NEW p, NEW n, Laid(p, n), NEW s, s = SliceStart(p, n)
  PROVE  /\ n \in Nat \ {0} /\ Len(p) \in Nat \ {0}
         /\ s[1] = 0 /\ s[Len(p) + 1] = n
         /\ \A k \in 1 .. Len(p) + 1 : s[k] \in 0 .. n
         /\ \A k \in 1 .. Len(p) : s[k] < s[k + 1] /\ s[k + 1] - s[k] <= p[k] - Reserved(k)
         /\ \A i, j \in 1 .. Len(p) + 1 : i <= j => s[i] <= s[j]
<1> DEFINE L == Len(p)
<1>1. n \in Nat \ {0} /\ p \in Lists /\ s[L + 1] = n /\ \A k \in 1 .. L : s[k] < n
  BY DEF Laid, Held
<1>2. Starts(s, p, n)
  BY <1>1, SliceStartIs
<1>3. /\ L \in Nat /\ s[1] = 0 /\ \A k \in 1 .. L + 1 : s[k] \in 0 .. n
      /\ \A k \in 1 .. L : s[k + 1] = NextStart(s, p, n, k + 1) /\ s[k] <= s[k + 1]
  BY <1>1, <1>2, StartsInOrder
<1>4. \A k \in 1 .. L : p[k] \in Nat /\ Reserved(k) \in Nat /\ Reserved(k) < p[k]
  BY <1>1, ReservedNat DEF Lists
<1> HIDE DEF L
<1>5. L # 0
  <2> SUFFICES ASSUME L = 0 PROVE FALSE
    OBVIOUS
  <2> QED  BY <1>1, <1>3
<1>6. ASSUME NEW k \in 1 .. L PROVE s[k] < s[k + 1] /\ s[k + 1] - s[k] <= p[k] - Reserved(k)
  <2>1. s[k + 1] = s[k] + Minimum(p[k] - Reserved(k), n - s[k])
    <3>1. (k + 1) - 1 = k
      BY <1>3
    <3> QED  BY <1>3, <3>1 DEF NextStart
  <2>2. s[k] \in 0 .. n /\ s[k] < n /\ n \in Nat
    BY <1>1, <1>3
  <2>3. p[k] \in Nat /\ Reserved(k) \in Nat /\ Reserved(k) < p[k]
    BY <1>4
  <2> QED  BY ONLY <2>1, <2>2, <2>3 DEF Minimum
<1>7. ASSUME NEW i \in 1 .. L + 1 PROVE \A j \in 1 .. L + 1 : i <= j => s[i] <= s[j]
  <2> DEFINE N == L + 1
             Good == {k \in Nat : k \in i .. N => s[i] <= s[k]}
  <2>1. N \in Nat /\ Good \in SUBSET Nat /\ 1 \in Good
    BY <1>3
  <2>2. ASSUME NEW k \in 2 .. N, k - 1 \in Good PROVE k \in Good
    <3>1. CASE k <= i
      BY <1>3, <3>1
    <3>2. CASE i < k
      <4>1. k - 1 \in i .. N /\ k - 1 \in 1 .. L /\ (k - 1) + 1 = k /\ k \in 1 .. L + 1
        BY <1>3, <3>2
      <4>2. s[i] <= s[k - 1] /\ s[k - 1] <= s[k]
        BY <2>2, <1>3, <4>1
      <4>3. s[i] \in Nat /\ s[k - 1] \in Nat /\ s[k] \in Nat
        BY <1>3, <4>1
      <4> QED  BY <4>2, <4>3
    <3> QED  BY <1>3, <3>1, <3>2
  <2>3. 1 .. N \subseteq Good
    <3> HIDE DEF Good, N
    <3> QED  BY <2>1, <2>2, AllAlong
  <2> QED  BY <2>3
<1> QED  BY <1>1, <1>3, <1>5, <1>6, <1>7 DEF L

(* A sector of the image lies in one slice. *)
SliceWith(p, n, x) ==
  CHOOSE k \in 1 .. Len(p) : SliceStart(p, n)[k] <= x /\ x < SliceStart(p, n)[k + 1]

LEMMA OneSlice ==
  ASSUME NEW p, NEW n, Laid(p, n), NEW s, s = SliceStart(p, n), NEW x \in 0 .. n - 1
  PROVE  /\ SliceWith(p, n, x) \in 1 .. Len(p)
         /\ s[SliceWith(p, n, x)] <= x /\ x < s[SliceWith(p, n, x) + 1]
         /\ \A j \in 1 .. Len(p) : s[j] <= x /\ x < s[j + 1] => j = SliceWith(p, n, x)
<1> DEFINE L == Len(p)
           S == {k \in 1 .. L : x < s[k + 1]}
<1>1. /\ n \in Nat \ {0} /\ L \in Nat \ {0}
      /\ s[1] = 0 /\ s[L + 1] = n
      /\ \A k \in 1 .. L + 1 : s[k] \in 0 .. n
      /\ \A i, j \in 1 .. L + 1 : i <= j => s[i] <= s[j]
  BY LaidOut
<1> HIDE DEF L
<1>2. S \in SUBSET Nat /\ L \in S
  BY <1>1
<1>3. PICK k \in S : \A m \in S : k <= m
  <2> HIDE DEF S
  <2> QED  BY <1>2, Least
<1>4. k \in 1 .. L /\ x < s[k + 1]
  BY <1>3
<1>5. s[k] <= x
  <2>1. CASE k = 1
    BY <1>1, <2>1
  <2>2. CASE k > 1
    <3>1. k - 1 \in 1 .. L /\ (k - 1) + 1 = k /\ k - 1 \notin S /\ k \in 1 .. L + 1
      BY <1>1, <1>3, <1>4, <2>2
    <3>2. ~(x < s[k]) /\ s[k] \in 0 .. n
      BY <3>1, <1>1
    <3> QED  BY <3>2, <1>1
  <2> QED  BY <1>1, <1>4, <2>1, <2>2
<1>6. ASSUME NEW j \in 1 .. L, s[j] <= x, x < s[j + 1] PROVE j = k
  <2>1. k <= j
    BY <1>3, <1>6
  <2>2. ~(k + 1 <= j)
    <3>1. k + 1 \in 1 .. L + 1 /\ j \in 1 .. L + 1 /\ s[k + 1] \in 0 .. n /\ s[j] \in 0 .. n
      BY <1>1, <1>4
    <3> QED  BY <1>1, <1>4, <1>6, <3>1
  <2> QED  BY <1>1, <1>4, <2>1, <2>2
<1>7. SliceWith(p, n, x) = k
  BY <1>4, <1>5, <1>6 DEF SliceWith, L
<1> QED  BY <1>4, <1>5, <1>6, <1>7 DEF L

(* The slices of the image, and their sum. *)
LEMMA SlicesAre ==
  ASSUME NEW p \in Seq(Nat), NEW n, NEW s, s = SliceStart(p, n)
  PROVE  /\ Len(Slices(p, n)) = Len(p)
         /\ Slices(p, n) = [k \in 1 .. Len(p) |-> [offset |-> s[k], size |-> s[k + 1] - s[k]]]
         /\ \A k \in 1 .. Len(p) : /\ Slices(p, n)[k].offset = s[k]
                                    /\ Slices(p, n)[k].size = s[k + 1] - s[k]
BY DEF Slices

LEMMA SizeIsLength ==
  ASSUME NEW p, NEW n, Laid(p, n), info.slices = Slices(p, n)
  PROVE  GameSize = n
<1> DEFINE s == SliceStart(p, n)
           L == Len(p)
           IsSum(f) == f = [k \in 0 .. L |-> IF k = 0 THEN 0 ELSE f[k - 1] + Slices(p, n)[k].size]
           f == CHOOSE g : IsSum(g)
           g == [k \in 0 .. L |-> s[k + 1]]
           Good == {k \in Nat : k \in 1 .. L + 1 => f[k - 1] = s[k]}
<1>1. p \in Seq(Nat) /\ L \in Nat \ {0} /\ Len(Slices(p, n)) = L
  BY LaidOut, SlicesAre DEF Laid, Lists
<1>2. GameSize = f[L]
  BY <1>1 DEF GameSize
<1>3. /\ s[1] = 0 /\ s[L + 1] = n /\ \A k \in 1 .. L + 1 : s[k] \in Nat
      /\ \A k \in 1 .. L : Slices(p, n)[k].size = s[k + 1] - s[k]
  BY <1>1, LaidOut, SlicesAre
<1> HIDE DEF s, L
<1>4. IsSum(g)
  <2>1. ASSUME NEW k \in 0 .. L
        PROVE  s[k + 1] = IF k = 0 THEN 0 ELSE g[k - 1] + Slices(p, n)[k].size
    <3>1. CASE k = 0
      BY <1>1, <1>3, <3>1
    <3>2. CASE k \in 1 .. L
      <4>1. k - 1 \in 0 .. L /\ k \in 1 .. L + 1 /\ k + 1 \in 1 .. L + 1 /\ (k - 1) + 1 = k
        BY <1>1, <3>2
      <4>2. g[k - 1] = s[k] /\ s[k] \in Nat /\ s[k + 1] \in Nat /\ k # 0
        BY <1>3, <3>2, <4>1
      <4> QED  BY <1>3, <3>2, <4>2
    <3> QED  BY <1>1, <3>1, <3>2
  <2> QED  BY <2>1, Zenon
<1>5. IsSum(f)
  <2> HIDE DEF g, IsSum
  <2> QED  BY <1>4
<1> HIDE DEF f, g
<1>6. /\ f[0] = 0
      /\ \A k \in 1 .. L : f[k] = f[k - 1] + Slices(p, n)[k].size
  BY <1>1, <1>5
<1>7. Good \in SUBSET Nat /\ 1 \in Good
  BY <1>3, <1>6
<1>8. ASSUME NEW k \in 2 .. L + 1, k - 1 \in Good PROVE k \in Good
  <2>1. k - 1 \in 1 .. L /\ (k - 1) + 1 = k /\ k - 1 \in 1 .. L + 1 /\ k \in 1 .. L + 1
    BY <1>1
  <2>2. f[(k - 1) - 1] = s[k - 1]
    BY <1>8, <2>1
  <2>3. f[k - 1] = s[k - 1] + (s[k] - s[k - 1])
    BY <1>3, <1>6, <2>1, <2>2
  <2>4. s[k] \in Nat /\ s[k - 1] \in Nat
    BY <1>3, <2>1
  <2> QED  BY <2>3, <2>4
<1>9. 1 .. L + 1 \subseteq Good
  <2>1. L + 1 \in Nat
    BY <1>1
  <2> HIDE DEF Good
  <2> QED  BY <2>1, <1>7, <1>8, AllAlong
<1>10. L + 1 \in 1 .. L + 1 /\ (L + 1) - 1 = L
  BY <1>1
<1> QED  BY <1>2, <1>3, <1>9, <1>10

-----------------------------------------------------------------------------
(* The inductive invariant. *)
SizeSet == {Sizes[i] : i \in 1 .. Len(Sizes)}
TitleSet == Titles \cup {NoGame.title}
SliceSet == [offset : Nat, size : Nat]

TypeInv ==
  /\ maxPart \in MaxParts /\ num \in Images \cup {0}
  /\ pc \in {"idle", "main", "sub", "format", "closed", "open", "io"}
  /\ index \in 1 .. Len(Sizes) /\ remaining \in Nat
  /\ parts \in Seq(SizeSet)
  /\ info \in [slices : Seq(SliceSet), title : TitleSet, attr : TitleSet]
  /\ fd \in [open : BOOLEAN, slices : Seq(SliceSet), part : Nat, rel : Nat, offset : Nat]
  /\ busy \in BOOLEAN /\ lost \in BOOLEAN
  /\ at \in 0 .. num /\ left \in 0 .. num /\ dir \in {"read", "write"}

(* What exists of a game while it is made: its partitions hold what does   *)
(* not remain, and each of them was needed.                                *)
MakeInv ==
  /\ pc # "idle" => num \in Images
  /\ pc \in {"idle", "main"} => parts = <<>>
  /\ pc \in {"idle", "main", "sub", "format"} => info.slices = <<>>
  /\ pc \in {"main", "sub"} => Sizes[index] <= maxPart
  /\ pc = "sub" =>
       /\ parts # <<>> /\ remaining \in 1 .. num /\ Held(parts, num) = num - remaining
       /\ \A k \in 1 .. Len(parts) : SliceStart(parts, num)[k] < num
  /\ pc = "format" => Laid(parts, num)

(* A game that is there lies in its slices, and these in its partitions. *)
GameInv ==
  pc \in {"closed", "open", "io"} =>
    /\ Laid(parts, num) /\ info.slices = Slices(parts, num)
    /\ content = [k \in 1 .. Len(parts) |-> content[k]]
    /\ \A k \in 1 .. Len(parts) : content[k] = [x \in 0 .. parts[k] - 1 |-> content[k][x]]

(* The handle stands where the caller does, and what the caller wants is   *)
(* there.                                                                  *)
MountInv ==
  /\ pc \in {"open", "io"} =>
       /\ fd.open /\ fd.slices = info.slices
       /\ fd.offset = at
       /\ fd.part \in 1 .. Len(fd.slices)
       /\ fd.slices[fd.part].offset + fd.rel = at
       /\ fd.rel <= fd.slices[fd.part].size
  /\ IF pc = "io" THEN left \in 1 .. num - at ELSE left = 0

RestInv == pc \notin {"open", "io"} => at = 0 /\ out = <<>> /\ (busy => lost)

IInv == TypeInv /\ MakeInv /\ GameInv /\ MountInv /\ RestInv

(* What does not mention a variable that a step changes is kept. *)
LEMMA Unmoved ==
  ASSUME IInv
  PROVE  /\ UNCHANGED <<num, index, remaining, parts, pc, info, maxPart>> => MakeInv'
         /\ UNCHANGED <<num, parts, pc, info, content>> => GameInv'
         /\ UNCHANGED <<num, pc, info, fd, at, left>> => MountInv'
         /\ UNCHANGED <<pc, at, out, busy, lost>> => RestInv'
<1>1. UNCHANGED <<num, index, remaining, parts, pc, info, maxPart>> => MakeInv'
  BY DEF IInv, MakeInv
<1>2. UNCHANGED <<num, parts, pc, info, content>> => GameInv'
  BY DEF IInv, GameInv
<1>3. UNCHANGED <<num, pc, info, fd, at, left>> => MountInv'
  BY DEF IInv, MountInv
<1>4. UNCHANGED <<pc, at, out, busy, lost>> => RestInv'
  BY DEF IInv, RestInv
<1> QED  BY <1>1, <1>2, <1>3, <1>4

(* Partitions of these sizes have room for something. *)
LEMMA PartsAreLists ==
  ASSUME NEW p \in Seq(SizeSet)
  PROVE  p \in Lists /\ \A k \in 1 .. Len(p) : p[k] <= Largest
<1>1. ASSUME NEW k \in 1 .. Len(p)
      PROVE  p[k] \in Nat /\ Reserved(k) < p[k] /\ p[k] <= Largest
  <2>1. PICK i \in 1 .. Len(Sizes) : p[k] = Sizes[i]
    BY DEF SizeSet
  <2> QED  BY <2>1, SizeRoom
<1>2. p \in Seq(Nat)
  BY <1>1
<1> QED  BY <1>1, <1>2 DEF Lists

LEMMA SlicesType ==
  ASSUME NEW p, NEW n, Laid(p, n) PROVE Slices(p, n) \in Seq(SliceSet)
<1> DEFINE s == SliceStart(p, n)
<1>1. /\ p \in Seq(Nat) /\ Len(p) \in Nat
      /\ \A k \in 1 .. Len(p) : s[k] \in Nat /\ s[k + 1] - s[k] \in Nat
  <2>1. p \in Seq(Nat) /\ Len(p) \in Nat
    BY DEF Laid, Lists
  <2>2. /\ \A k \in 1 .. Len(p) + 1 : s[k] \in 0 .. n
        /\ \A k \in 1 .. Len(p) : s[k] < s[k + 1]
    BY LaidOut
  <2>3. ASSUME NEW k \in 1 .. Len(p) PROVE s[k] \in Nat /\ s[k + 1] - s[k] \in Nat
    <3>1. k \in 1 .. Len(p) + 1 /\ k + 1 \in 1 .. Len(p) + 1
      BY <2>1
    <3>2. s[k] \in 0 .. n /\ s[k + 1] \in 0 .. n /\ s[k] < s[k + 1]
      BY <2>2, <3>1
    <3> QED  BY <3>2
  <2> QED  BY <2>1, <2>3
<1>2. Slices(p, n) = [k \in 1 .. Len(p) |-> [offset |-> s[k], size |-> s[k + 1] - s[k]]]
  BY <1>1, SlicesAre
<1> HIDE DEF s
<1>3. \A k \in 1 .. Len(p) : [offset |-> s[k], size |-> s[k + 1] - s[k]] \in SliceSet
  BY <1>1 DEF SliceSet
<1> QED  BY <1>1, <1>2, <1>3

(* The partitions that were made are those that hdlfs_format accepts. *)
LEMMA LaidIsAccepted ==
  ASSUME NEW p \in Seq(SizeSet), NEW n, Laid(p, n) PROVE FormatAccepts(p, n)
<1> DEFINE s == SliceStart(p, n)
<1>1. /\ n \in Nat /\ s[Len(p) + 1] = n
      /\ \A k \in 1 .. Len(p) + 1 : s[k] \in 0 .. n
      /\ \A k \in 1 .. Len(p) : s[k + 1] - s[k] <= p[k] - Reserved(k)
  BY LaidOut
<1>2. /\ p \in Lists /\ p \in Seq(Nat) /\ Len(p) \in Nat
      /\ \A k \in 1 .. Len(p) : p[k] <= Largest
  BY PartsAreLists DEF Lists
<1>3. ASSUME NEW k \in 1 .. Len(p) PROVE Slices(p, n)[k].size < Largest
  <2>1. Slices(p, n)[k].size = s[k + 1] - s[k]
    BY <1>2, SlicesAre
  <2>2. s[k] \in Nat /\ s[k + 1] \in Nat /\ s[k + 1] - s[k] <= p[k] - Reserved(k)
    <3>1. k \in 1 .. Len(p) + 1 /\ k + 1 \in 1 .. Len(p) + 1
      BY <1>2
    <3> QED  BY <1>1, <3>1
  <2>3. p[k] \in Nat /\ p[k] <= Largest /\ Reserved(k) \in Nat \ {0} /\ Largest \in Nat
    BY <1>2, ReservedNat, SizesGrow DEF Largest
  <2> QED  BY ONLY <2>1, <2>2, <2>3
<1> QED  BY <1>1, <1>3 DEF FormatAccepts

-----------------------------------------------------------------------------
(* The steps that make and remove a game keep the invariant. *)

LEMMA StartCreateKeeps == ASSUME IInv, StartCreate PROVE IInv'
<1> USE DEF IInv
<1>1. /\ pc = "idle" /\ pc' = "main" /\ num' \in Images
      /\ index' = GetPartSize(num', 1, maxPart)
      /\ UNCHANGED <<maxPart, remaining, parts, info, fd, busy, lost, at, left, dir, content, out>>
  BY DEF StartCreate, moving
<1>2. num' \in Nat \ {0} /\ maxPart \in MaxParts
  BY <1>1, ImagesAssumption DEF ImagesAssumption, TypeInv
<1>3. index' \in 1 .. Len(Sizes) /\ Sizes[index'] <= maxPart
  <2> DEFINE n == num'
  <2>1. n \in Nat /\ 1 \in Nat \ {0} /\ maxPart \in MaxParts /\ index' = GetPartSize(n, 1, maxPart)
    BY <1>1, <1>2
  <2> HIDE DEF n
  <2> QED  BY <2>1, SizeAllowed
<1>4. at = 0 /\ left = 0 /\ out = <<>> /\ parts = <<>> /\ info.slices = <<>> /\ (busy => lost)
  BY <1>1 DEF RestInv, MountInv, MakeInv
<1>5. TypeInv'
  BY <1>1, <1>2, <1>3, <1>4 DEF TypeInv
<1>6. MakeInv'
  BY <1>1, <1>3, <1>4 DEF MakeInv
<1>7. GameInv' /\ MountInv' /\ RestInv'
  BY <1>1, <1>4 DEF GameInv, MountInv, RestInv
<1> QED  BY <1>5, <1>6, <1>7

(* A partition more: what it holds is what remains less. *)
LEMMA MadeKeeps ==
  ASSUME IInv, pc \in {"main", "sub"}, NEW k, k = Len(parts) + 1,
         NEW b \in 1 .. num, b = IF k = 1 THEN num ELSE remaining,
         Held(parts, num) = num - b,
         \A j \in 1 .. Len(parts) : SliceStart(parts, num)[j] < num,
         PartitionMade(k)
  PROVE  IInv'
<1> DEFINE x == Sizes[index]
           q == Append(parts, x)
           c == LeftAfter(b, x, k)
<1>1. /\ parts' = q /\ remaining' = c
      /\ pc' = IF c > 0 THEN "sub" ELSE "format"
      /\ index' = IF c > 0 THEN GetPartSize(c, k + 1, maxPart) ELSE index
      /\ UNCHANGED <<maxPart, num, info, fd, busy, lost, at, left, dir, content, out>>
  BY DEF PartitionMade, moving
<1>2. /\ index \in 1 .. Len(Sizes) /\ parts \in Seq(SizeSet) /\ maxPart \in MaxParts
      /\ num \in Images /\ num \in Nat \ {0}
  BY ImagesAssumption DEF IInv, TypeInv, MakeInv, ImagesAssumption
<1>3. parts \in Lists /\ Len(parts) \in Nat /\ k \in Nat \ {0} /\ x \in SizeSet
  <2>1. parts \in Lists
    BY <1>2, PartsAreLists
  <2>2. Len(parts) \in Nat
    BY <2>1 DEF Lists
  <2>3. x \in SizeSet
    BY <1>2 DEF SizeSet
  <2> QED  BY <2>1, <2>2, <2>3
<1>4. x \in Nat /\ Reserved(k) \in Nat \ {0} /\ Reserved(k) < x
  BY <1>2, SizeRoom, ReservedNat
<1>5. /\ q \in Lists
      /\ Held(q, num) = Held(parts, num) + Minimum(x - Reserved(k), num - Held(parts, num))
  BY <1>2, <1>3, <1>4, HeldMore
<1>6. c \in 0 .. b /\ Held(q, num) = num - c
  <2> HIDE DEF q, x
  <2>1. c = IF x - Reserved(k) > b THEN 0 ELSE b - (x - Reserved(k))
    BY DEF LeftAfter
  <2> DEFINE r == x - Reserved(k)
  <2>2. r \in Nat /\ num \in Nat /\ b \in 1 .. num /\ Held(parts, num) = num - b
    BY <1>2, <1>4
  <2>3. /\ c = IF r > b THEN 0 ELSE b - r
        /\ Held(q, num) = Held(parts, num) + Minimum(r, num - Held(parts, num))
    BY <1>5, <2>1
  <2> HIDE DEF c, r
  <2>4. num - Held(parts, num) = b
    BY ONLY <2>2
  <2>5. Held(q, num) = (num - b) + Minimum(r, b)
    BY ONLY <2>2, <2>3, <2>4
  <2> QED  BY ONLY <2>2, <2>3, <2>5 DEF Minimum
<1>7. ASSUME NEW j \in 1 .. Len(q) PROVE SliceStart(q, num)[j] < num
  <2>1. Len(q) = Len(parts) + 1 /\ j \in 1 .. Len(parts) + 1
    BY <1>2, <1>3
  <2>2. SliceStart(q, num)[j] = SliceStart(parts, num)[j]
    BY <1>2, <1>3, <1>5, <2>1, StartsKept
  <2>3. CASE j = Len(parts) + 1
    BY <1>2, <2>2, <2>3 DEF Held
  <2>4. CASE j \in 1 .. Len(parts)
    BY <2>2, <2>4
  <2> QED  BY <1>3, <2>1, <2>3, <2>4
<1>8. q \in Seq(SizeSet) /\ q # <<>>
  BY <1>2, <1>3
<1>9. /\ index' \in 1 .. Len(Sizes)
      /\ c > 0 => Sizes[index'] <= maxPart
  <2> HIDE DEF c
  <2>1. CASE c > 0
    <3>1. c \in Nat /\ k + 1 \in Nat \ {0}
      BY <1>3, <1>6, <2>1
    <3> QED  BY <1>1, <1>2, <2>1, <3>1, SizeAllowed
  <2> QED  BY <1>1, <1>2, <2>1
<1>10. /\ at = 0 /\ left = 0 /\ out = <<>> /\ info.slices = <<>> /\ (busy => lost)
  BY DEF IInv, RestInv, MountInv, MakeInv
<1> HIDE DEF c, q, x
<1>11. TypeInv'
  BY <1>1, <1>2, <1>6, <1>8, <1>9 DEF IInv, TypeInv
<1>12. CASE c > 0
  <2>1. pc' = "sub"
    BY <1>1, <1>12
  <2>2. /\ remaining' \in 1 .. num' /\ Held(parts', num') = num' - remaining' /\ parts' # <<>>
        /\ \A j \in 1 .. Len(parts') : SliceStart(parts', num')[j] < num'
    BY <1>1, <1>2, <1>6, <1>7, <1>8, <1>12
  <2>3. MakeInv'
    BY <1>1, <1>2, <1>9, <1>10, <1>12, <2>1, <2>2 DEF MakeInv
  <2> QED  BY <1>1, <1>10, <1>11, <2>1, <2>3 DEF IInv, GameInv, MountInv, RestInv
<1>13. CASE c = 0
  <2>1. pc' = "format"
    BY <1>1, <1>13
  <2>2. Laid(parts', num')
    BY <1>1, <1>2, <1>5, <1>6, <1>7, <1>13 DEF Laid
  <2>3. MakeInv'
    BY <1>1, <1>2, <1>10, <2>1, <2>2 DEF MakeInv
  <2> QED  BY <1>1, <1>10, <1>11, <2>1, <2>3 DEF IInv, GameInv, MountInv, RestInv
<1> QED  BY <1>6, <1>12, <1>13

LEMMA CreateMainKeeps == ASSUME IInv, CreateMain PROVE IInv'
<1>1. pc = "main" /\ PartitionMade(1) /\ parts = <<>> /\ num \in Nat \ {0}
  BY ImagesAssumption DEF CreateMain, IInv, MakeInv, ImagesAssumption
<1>2. Len(parts) = 0 /\ Held(parts, num) = 0
  BY <1>1, HeldNone
<1>3. num \in 1 .. num /\ Held(parts, num) = num - num /\ 1 = Len(parts) + 1
      /\ \A j \in 1 .. Len(parts) : SliceStart(parts, num)[j] < num
  BY <1>1, <1>2
<1> QED  BY <1>1, <1>3, MadeKeeps

LEMMA AddSubKeeps == ASSUME IInv, AddSub PROVE IInv'
<1>1. /\ pc = "sub" /\ PartitionMade(Len(parts) + 1) /\ parts # <<>>
      /\ remaining \in 1 .. num /\ Held(parts, num) = num - remaining
      /\ \A j \in 1 .. Len(parts) : SliceStart(parts, num)[j] < num
  BY DEF AddSub, IInv, MakeInv
<1>2. Len(parts) \in Nat \ {0} /\ Len(parts) + 1 # 1
  BY <1>1 DEF IInv, TypeInv
<1> QED  BY <1>1, <1>2, MadeKeeps

LEMMA NoSpaceKeeps == ASSUME IInv, NoSpace PROVE IInv'
<1> USE DEF IInv
<1>1. /\ pc \in {"main", "sub"} /\ index > 1 /\ index' = index - 1
      /\ UNCHANGED <<maxPart, num, remaining, parts, pc, info, fd, busy, lost, at, left, dir,
                     content, out>>
  BY DEF NoSpace, moving
<1>2. index' \in 1 .. Len(Sizes) /\ Sizes[index'] <= maxPart
  <2>1. index \in 1 .. Len(Sizes) /\ Sizes[index] <= maxPart /\ maxPart \in Nat
    BY <1>1, MaxPartsAssumption DEF TypeInv, MakeInv, MaxPartsAssumption
  <2>2. index - 1 \in 1 .. Len(Sizes) /\ index - 1 <= index
    BY <1>1, <2>1
  <2>3. Sizes[index - 1] <= Sizes[index] /\ Sizes[index - 1] \in Nat /\ Sizes[index] \in Nat
    BY <2>1, <2>2, SizesGrow
  <2> QED  BY <1>1, <2>1, <2>2, <2>3
<1>3. TypeInv'
  BY <1>1, <1>2 DEF TypeInv
<1>4. MakeInv'
  BY <1>1, <1>2 DEF MakeInv
<1>5. GameInv' /\ MountInv' /\ RestInv'
  BY <1>1, Unmoved
<1> QED  BY <1>3, <1>4, <1>5

LEMMA GiveUpKeeps == ASSUME IInv, GiveUp PROVE IInv'
<1> USE DEF IInv
<1>1. /\ pc \in {"main", "sub", "format"} /\ pc' = "idle" /\ parts' = <<>>
      /\ UNCHANGED <<maxPart, num, index, remaining, info, fd, busy, lost, at, left, dir,
                     content, out>>
  BY DEF GiveUp, moving
<1>2. TypeInv'
  BY <1>1 DEF TypeInv
<1>3. MakeInv' /\ GameInv'
  BY <1>1 DEF MakeInv, GameInv
<1>4. MountInv' /\ RestInv'
  BY <1>1 DEF MountInv, RestInv
<1> QED  BY <1>2, <1>3, <1>4

LEMMA FormatKeeps == ASSUME IInv, Format PROVE IInv'
<1> USE DEF IInv
<1>1. /\ pc = "format" /\ pc' = "closed"
      /\ info' = [info EXCEPT !.slices = Slices(parts, num)]
      /\ content' = [k \in 1 .. Len(parts) |-> [s \in 0 .. parts[k] - 1 |-> 0]]
      /\ UNCHANGED <<maxPart, num, index, remaining, parts, fd, busy, lost, at, left, dir, out>>
  BY DEF Format, making
<1>2. Laid(parts, num) /\ num \in Images
  BY <1>1 DEF MakeInv
<1>3. Slices(parts, num) \in Seq(SliceSet)
  BY <1>2, SlicesType
<1>4. /\ info'.slices = Slices(parts, num)
      /\ info' \in [slices : Seq(SliceSet), title : TitleSet, attr : TitleSet]
  BY <1>1, <1>3 DEF TypeInv
<1>5. TypeInv'
  BY <1>1, <1>4 DEF TypeInv
<1>6. MakeInv'
  BY <1>1, <1>2 DEF MakeInv
<1>7. GameInv'
  <2>1. \A k \in 1 .. Len(parts) : content'[k] = [x \in 0 .. parts[k] - 1 |-> 0]
    BY <1>1
  <2>2. content' = [k \in 1 .. Len(parts) |-> content'[k]]
    BY <1>1
  <2>3. ASSUME NEW k \in 1 .. Len(parts)
        PROVE  content'[k] = [x \in 0 .. parts[k] - 1 |-> content'[k][x]]
    BY <2>1
  <2> QED  BY <1>1, <1>2, <1>4, <2>2, <2>3 DEF GameInv
<1>8. MountInv' /\ RestInv'
  BY <1>1 DEF MountInv, RestInv
<1> QED  BY <1>5, <1>6, <1>7, <1>8

LEMMA RemoveGameKeeps == ASSUME IInv, RemoveGame PROVE IInv'
<1> USE DEF IInv
<1>1. /\ pc = "closed" /\ pc' = "idle" /\ parts' = <<>> /\ info' = NoGame
      /\ UNCHANGED <<maxPart, num, index, remaining, fd, busy, lost, at, left, dir, out>>
  BY DEF RemoveGame
<1>2. /\ NoGame \in [slices : Seq(SliceSet), title : TitleSet, attr : TitleSet]
      /\ NoGame.slices = <<>>
  BY DEF NoGame, TitleSet
<1>3. TypeInv'
  BY <1>1, <1>2 DEF TypeInv
<1>4. MakeInv' /\ GameInv'
  BY <1>1, <1>2 DEF MakeInv, GameInv
<1>5. MountInv' /\ RestInv'
  BY <1>1 DEF MountInv, RestInv
<1> QED  BY <1>3, <1>4, <1>5

-----------------------------------------------------------------------------
(* Mounting and the changes of a mounted game's information keep it. *)

LEMMA MountKeeps == ASSUME IInv, Mount PROVE IInv'
<1> USE DEF IInv
<1>1. /\ pc = "closed" /\ pc' = "open" /\ at' = 0 /\ busy'
      /\ fd' = [open |-> TRUE, slices |-> info.slices, part |-> 1, rel |-> 0, offset |-> 0]
      /\ UNCHANGED <<maxPart, num, index, remaining, parts, info, lost, left, dir, content, out>>
  BY DEF Mount, making
<1>2. /\ Laid(parts, num) /\ info.slices = Slices(parts, num) /\ parts \in Seq(SizeSet)
      /\ num \in Nat /\ left = 0 /\ info.slices \in Seq(SliceSet)
  BY <1>1, ImagesAssumption DEF GameInv, TypeInv, MountInv, ImagesAssumption
<1>3. /\ 1 \in 1 .. Len(info.slices) /\ info.slices[1].offset = 0
      /\ 0 <= info.slices[1].size
  <2> DEFINE s == SliceStart(parts, num)
  <2>1. parts \in Seq(Nat)
    BY <1>2, PartsAreLists DEF Lists
  <2>2. Len(parts) \in Nat \ {0} /\ s[1] = 0
    BY <1>2, LaidOut
  <2>3. 1 \in 1 .. Len(parts)
    BY <2>2
  <2>4. Len(info.slices) = Len(parts) /\ info.slices[1].offset = 0
    BY <1>2, <2>1, <2>2, <2>3, SlicesAre
  <2>5. info.slices[1] \in SliceSet
    BY <1>2, <2>3, <2>4
  <2>6. info.slices[1].size \in Nat
    BY <2>5 DEF SliceSet
  <2> QED  BY <2>3, <2>4, <2>6
<1>4. fd' \in [open : BOOLEAN, slices : Seq(SliceSet), part : Nat, rel : Nat, offset : Nat]
  BY <1>1, <1>2
<1>5. TypeInv'
  BY <1>1, <1>2, <1>4 DEF TypeInv
<1>6. MakeInv' /\ GameInv'
  BY <1>1 DEF MakeInv, GameInv
<1>7. MountInv'
  BY <1>1, <1>2, <1>3 DEF MountInv
<1>8. RestInv'
  BY <1>1 DEF RestInv
<1> QED  BY <1>5, <1>6, <1>7, <1>8

LEMMA MountReadFailsKeeps == ASSUME IInv, MountReadFails PROVE IInv'
<1> USE DEF IInv
<1>1. /\ pc = "closed" /\ lost' /\ busy' /\ fd' = [fd EXCEPT !.open = TRUE]
      /\ UNCHANGED <<maxPart, num, index, remaining, parts, pc, info, at, left, dir, content, out>>
  BY DEF MountReadFails, making, moving
<1>2. TypeInv'
  BY <1>1 DEF TypeInv
<1>3. MakeInv' /\ GameInv'
  BY <1>1, Unmoved
<1>4. MountInv' /\ RestInv'
  BY <1>1 DEF MountInv, RestInv
<1> QED  BY <1>2, <1>3, <1>4

LEMMA MountBusyKeeps == ASSUME IInv, MountBusy PROVE IInv'
<1> USE DEF IInv
<1>1. /\ pc = "closed" /\ fd' = [fd EXCEPT !.open = FALSE]
      /\ UNCHANGED <<maxPart, num, index, remaining, parts, pc, info, busy, lost, at, left, dir,
                     content, out>>
  BY DEF MountBusy, making, moving
<1>2. TypeInv'
  BY <1>1 DEF TypeInv
<1>3. MakeInv' /\ GameInv' /\ RestInv'
  BY <1>1, Unmoved
<1>4. MountInv'
  BY <1>1 DEF MountInv
<1> QED  BY <1>2, <1>3, <1>4

LEMMA UmountKeeps == ASSUME IInv, Umount PROVE IInv'
<1> USE DEF IInv
<1>1. /\ pc = "open" /\ pc' = "closed" /\ fd' = [fd EXCEPT !.open = FALSE]
      /\ busy' = FALSE /\ at' = 0 /\ out' = <<>>
      /\ UNCHANGED <<maxPart, num, index, remaining, parts, info, lost, left, dir, content>>
  BY DEF Umount, making
<1>2. TypeInv'
  <2>1. num \in Nat
    BY ImagesAssumption DEF TypeInv, ImagesAssumption
  <2>2. 0 \in 0 .. num
    BY <2>1
  <2> QED  BY <1>1, <2>2 DEF TypeInv
<1>3. MakeInv' /\ GameInv'
  BY <1>1 DEF MakeInv, GameInv
<1>4. MountInv' /\ RestInv'
  BY <1>1 DEF MountInv, RestInv
<1> QED  BY <1>2, <1>3, <1>4

(* Title and settings are not part of the slices. *)
LEMMA RenamedKeeps ==
  ASSUME IInv, pc = "open", info'.slices = info.slices,
         info' \in [slices : Seq(SliceSet), title : TitleSet, attr : TitleSet],
         UNCHANGED <<maxPart, num, index, remaining, parts, pc, fd, busy, lost, at, left, dir,
                     content, out>>
  PROVE  IInv'
<1> USE DEF IInv
<1>1. TypeInv'
  BY DEF TypeInv
<1>2. MakeInv' /\ GameInv'
  BY DEF MakeInv, GameInv
<1>3. MountInv' /\ RestInv'
  BY DEF MountInv, RestInv
<1> QED  BY <1>1, <1>2, <1>3

LEMMA UpdateGameTitleKeeps == ASSUME IInv, UpdateGameTitle PROVE IInv'
<1>1. /\ pc = "open" /\ \E t \in Titles : info' = [info EXCEPT !.title = t]
      /\ UNCHANGED <<maxPart, num, index, remaining, parts, pc, fd, busy, lost, at, left, dir,
                     content, out>>
  BY DEF UpdateGameTitle, making, moving
<1>2. info \in [slices : Seq(SliceSet), title : TitleSet, attr : TitleSet]
  BY DEF IInv, TypeInv
<1>3. /\ info' \in [slices : Seq(SliceSet), title : TitleSet, attr : TitleSet]
      /\ info'.slices = info.slices
  BY <1>1, <1>2 DEF TitleSet
<1> QED  BY <1>1, <1>3, RenamedKeeps

LEMMA ChStatKeeps == ASSUME IInv, ChStat PROVE IInv'
<1>1. /\ pc = "open" /\ \E t \in Titles : info' = [info EXCEPT !.attr = t]
      /\ UNCHANGED <<maxPart, num, index, remaining, parts, pc, fd, busy, lost, at, left, dir,
                     content, out>>
  BY DEF ChStat, making, moving
<1>2. info \in [slices : Seq(SliceSet), title : TitleSet, attr : TitleSet]
  BY DEF IInv, TypeInv
<1>3. /\ info' \in [slices : Seq(SliceSet), title : TitleSet, attr : TitleSet]
      /\ info'.slices = info.slices
  BY <1>1, <1>2 DEF TitleSet
<1> QED  BY <1>1, <1>3, RenamedKeeps

-----------------------------------------------------------------------------
(* Moving about in a mounted game. *)

(* Where the slices of the game start. *)
Start == SliceStart(parts, num)

(* The slices of a game that is there, by where they start. *)
LEMMA GameSlices ==
  ASSUME IInv, pc \in {"closed", "open", "io"}
  PROVE  /\ Laid(parts, num) /\ num \in Nat \ {0} /\ Len(parts) \in Nat \ {0}
         /\ Len(info.slices) = Len(parts) /\ info.slices # <<>>
         /\ \A k \in 1 .. Len(parts) :
              /\ info.slices[k].offset = Start[k]
              /\ info.slices[k].size = Start[k + 1] - Start[k]
              /\ Start[k] \in 0 .. num /\ Start[k + 1] \in 0 .. num
              /\ Start[k] < Start[k + 1]
              /\ parts[k] \in Nat
              /\ Reserved(k) + (Start[k + 1] - Start[k]) <= parts[k]
         /\ Start[1] = 0 /\ Start[Len(parts) + 1] = num
<1>1. Laid(parts, num) /\ info.slices = Slices(parts, num) /\ parts \in Seq(SizeSet)
  BY DEF IInv, GameInv, TypeInv
<1>2. parts \in Seq(Nat) /\ Len(parts) \in Nat
  BY <1>1, PartsAreLists DEF Lists
<1>3. /\ Len(info.slices) = Len(parts)
      /\ \A k \in 1 .. Len(parts) :
           /\ info.slices[k].offset = Start[k]
           /\ info.slices[k].size = Start[k + 1] - Start[k]
  BY <1>1, <1>2, SlicesAre DEF Start
<1>4. /\ num \in Nat \ {0} /\ Len(parts) \in Nat \ {0}
      /\ Start[1] = 0 /\ Start[Len(parts) + 1] = num
      /\ \A k \in 1 .. Len(parts) + 1 : Start[k] \in 0 .. num
      /\ \A k \in 1 .. Len(parts) :
           Start[k] < Start[k + 1] /\ Start[k + 1] - Start[k] <= parts[k] - Reserved(k)
  BY <1>1, LaidOut DEF Start
<1>5. info.slices # <<>>
  <2> SUFFICES ASSUME info.slices = <<>> PROVE FALSE
    OBVIOUS
  <2> QED  BY <1>3, <1>4
<1>6. ASSUME NEW k \in 1 .. Len(parts)
      PROVE  /\ Start[k] \in 0 .. num /\ Start[k + 1] \in 0 .. num /\ Start[k] < Start[k + 1]
             /\ parts[k] \in Nat /\ Reserved(k) + (Start[k + 1] - Start[k]) <= parts[k]
  <2>1. k \in 1 .. Len(parts) + 1 /\ k + 1 \in 1 .. Len(parts) + 1 /\ k \in 1 .. Len(parts)
    BY <1>2
  <2>2. Start[k] \in 0 .. num /\ Start[k + 1] \in 0 .. num /\ Start[k] < Start[k + 1]
        /\ Start[k + 1] - Start[k] <= parts[k] - Reserved(k)
    BY <1>4, <2>1
  <2>3. parts[k] \in Nat /\ Reserved(k) \in Nat
    BY <1>2, <2>1, ReservedNat
  <2> QED  BY ONLY <1>4, <2>2, <2>3
<1> QED  BY <1>1, <1>3, <1>4, <1>5, <1>6

(* The same through the handle. *)
LEMMA HandleSlices ==
  ASSUME IInv, pc \in {"open", "io"}
  PROVE  /\ fd.slices = info.slices /\ Len(fd.slices) = Len(parts)
         /\ \A k \in 1 .. Len(parts) :
              /\ fd.slices[k].offset = Start[k]
              /\ fd.slices[k].size = Start[k + 1] - Start[k]
         /\ fd.part \in 1 .. Len(parts) /\ fd.rel \in Nat /\ fd.offset = at
         /\ Start[fd.part] + fd.rel = at /\ fd.rel <= Start[fd.part + 1] - Start[fd.part]
         /\ at \in 0 .. num
<1>1. /\ fd.slices = info.slices /\ fd.offset = at /\ fd.part \in 1 .. Len(fd.slices)
      /\ fd.slices[fd.part].offset + fd.rel = at
      /\ fd.rel <= fd.slices[fd.part].size
      /\ fd.rel \in Nat /\ at \in 0 .. num
  BY DEF IInv, MountInv, TypeInv
<1>2. /\ Len(info.slices) = Len(parts)
      /\ \A k \in 1 .. Len(parts) :
           /\ info.slices[k].offset = Start[k]
           /\ info.slices[k].size = Start[k + 1] - Start[k]
  BY GameSlices
<1> QED  BY <1>1, <1>2

(* Where a seek goes. *)
LEMMA SliceOfIs ==
  ASSUME IInv, pc = "open", NEW x \in 0 .. num - 1
  PROVE  /\ SliceOf(x) \in 1 .. Len(parts)
         /\ fd.slices[SliceOf(x)].offset = Start[SliceOf(x)]
         /\ fd.slices[SliceOf(x)].size = Start[SliceOf(x) + 1] - Start[SliceOf(x)]
         /\ Start[SliceOf(x)] \in Nat /\ Start[SliceOf(x)] <= x /\ x < Start[SliceOf(x) + 1]
<1>1. /\ Laid(parts, num) /\ num \in Nat
      /\ \A k \in 1 .. Len(parts) : Start[k] \in 0 .. num /\ Start[k + 1] \in 0 .. num
  BY GameSlices
<1>2. /\ Len(fd.slices) = Len(parts)
      /\ \A k \in 1 .. Len(parts) :
           /\ fd.slices[k].offset = Start[k]
           /\ fd.slices[k].size = Start[k + 1] - Start[k]
  BY HandleSlices
<1>3. PICK k \in 1 .. Len(parts) : Start[k] <= x /\ x < Start[k + 1]
  <2>1. SliceWith(parts, num, x) \in 1 .. Len(parts)
        /\ Start[SliceWith(parts, num, x)] <= x /\ x < Start[SliceWith(parts, num, x) + 1]
    BY <1>1, OneSlice DEF Start
  <2> QED  BY <2>1
<1>4. ASSUME NEW j \in 1 .. Len(parts)
      PROVE  fd.slices[j].offset <= x /\ x < fd.slices[j].offset + fd.slices[j].size
               <=> Start[j] <= x /\ x < Start[j + 1]
  <2>1. fd.slices[j].offset = Start[j] /\ fd.slices[j].size = Start[j + 1] - Start[j]
    BY <1>2
  <2>2. Start[j] \in Nat /\ Start[j + 1] \in Nat
    BY <1>1
  <2>3. Start[j] + (Start[j + 1] - Start[j]) = Start[j + 1]
    BY ONLY <2>2
  <2> QED  BY <2>1, <2>3
<1>5. SliceOf(x) \in 1 .. Len(parts) /\ Start[SliceOf(x)] <= x /\ x < Start[SliceOf(x) + 1]
  <2>1. SliceOf(x) = CHOOSE j \in 1 .. Len(parts) :
          fd.slices[j].offset <= x /\ x < fd.slices[j].offset + fd.slices[j].size
    BY <1>2 DEF SliceOf
  <2> QED  BY <1>3, <1>4, <2>1
<1> DEFINE m == SliceOf(x)
<1>6. m \in 1 .. Len(parts) /\ Start[m] <= x /\ x < Start[m + 1]
  BY <1>5
<1> HIDE DEF m
<1>7. fd.slices[m].offset = Start[m] /\ fd.slices[m].size = Start[m + 1] - Start[m]
  BY ONLY <1>2, <1>6
<1>8. Start[m] \in Nat
  BY <1>1, <1>6
<1> QED  BY <1>6, <1>7, <1>8 DEF m

LEMMA SeekKeeps == ASSUME IInv, NEW x \in 0 .. num - 1, Seek(x) PROVE IInv'
<1> USE DEF IInv
<1> DEFINE k == SliceOf(x)
           r == x - fd.slices[k].offset
<1>1. /\ pc = "open" /\ fd' = [fd EXCEPT !.part = k, !.offset = x, !.rel = r]
      /\ at' = x /\ out' = <<>>
      /\ UNCHANGED <<maxPart, num, index, remaining, parts, pc, info, busy, lost, left, dir,
                     content>>
  BY DEF Seek, making
<1>2. /\ k \in 1 .. Len(parts) /\ k \in 1 .. Len(fd.slices)
      /\ fd.slices[k].offset + r = x /\ r \in Nat /\ r <= fd.slices[k].size
  <2>1. /\ k \in 1 .. Len(parts) /\ Start[k] \in 0 .. num /\ Start[k + 1] \in 0 .. num
        /\ fd.slices[k].offset = Start[k] /\ fd.slices[k].size = Start[k + 1] - Start[k]
        /\ Start[k] <= x /\ x < Start[k + 1]
    <3>1. /\ k \in 1 .. Len(parts)
          /\ fd.slices[k].offset = Start[k] /\ fd.slices[k].size = Start[k + 1] - Start[k]
          /\ Start[k] <= x /\ x < Start[k + 1]
      BY <1>1, SliceOfIs
    <3>2. Start[k] \in 0 .. num /\ Start[k + 1] \in 0 .. num
      <4> HIDE DEF k
      <4> QED  BY <1>1, <3>1, GameSlices
    <3> QED  BY <3>1, <3>2
  <2>2. Len(fd.slices) = Len(parts)
    BY <1>1, HandleSlices
  <2> HIDE DEF k
  <2>3. Start[k] \in Nat /\ Start[k + 1] \in Nat /\ x \in Nat
    BY <2>1
  <2> QED  BY <2>1, <2>2, <2>3
<1> HIDE DEF k, r
<1>3. num \in Nat /\ x \in 0 .. num
  BY ImagesAssumption DEF TypeInv, ImagesAssumption
<1>4. TypeInv'
  <2>1. fd' \in [open : BOOLEAN, slices : Seq(SliceSet), part : Nat, rel : Nat, offset : Nat]
    <3>1. k \in Nat /\ x \in Nat /\ r \in Nat
      BY <1>2, <1>3, GameSlices
    <3> QED  BY <1>1, <3>1 DEF TypeInv
  <2> QED  BY <1>1, <1>3, <2>1 DEF TypeInv
<1>5. MakeInv' /\ GameInv'
  BY <1>1, Unmoved
<1>6. /\ fd'.open = fd.open /\ fd'.slices = fd.slices /\ fd'.offset = x
      /\ fd'.part = k /\ fd'.rel = r
  BY <1>1 DEF TypeInv
<1>7. MountInv'
  BY <1>1, <1>2, <1>6 DEF MountInv
<1>8. RestInv'
  BY <1>1 DEF RestInv
<1> QED  BY <1>4, <1>5, <1>7, <1>8

LEMMA StartIOKeeps ==
  ASSUME IInv, NEW n \in 1 .. num - at, NEW d \in {"read", "write"}, StartIO(n, d)
  PROVE  IInv'
<1> USE DEF IInv
<1>1. /\ pc = "open" /\ pc' = "io" /\ left' = n /\ dir' = d /\ out' = <<>>
      /\ UNCHANGED <<maxPart, num, index, remaining, parts, info, fd, busy, lost, at, content>>
  BY DEF StartIO, making
<1>2. n \in 0 .. num
  BY ImagesAssumption DEF TypeInv, ImagesAssumption
<1>3. TypeInv'
  BY <1>1, <1>2 DEF TypeInv
<1>4. MakeInv' /\ GameInv'
  BY <1>1 DEF MakeInv, GameInv
<1>5. MountInv' /\ RestInv'
  BY <1>1 DEF MountInv, RestInv
<1> QED  BY <1>3, <1>4, <1>5

-----------------------------------------------------------------------------
(* Transfers. *)

(* The request lies in one slice and in its partition. *)
LEMMA RequestIs ==
  ASSUME IInv, pc = "io"
  PROVE  /\ Place.part \in 1 .. Len(parts) /\ Place.rel \in Nat
         /\ Start[Place.part] + Place.rel = at
         /\ Request.sub = Place.part
         /\ Request.sector = Reserved(Place.part) + Place.rel
         /\ Request.size \in 1 .. left
         /\ Place.rel + Request.size <= Start[Place.part + 1] - Start[Place.part]
         /\ ~Refused(Request)
<1> DEFINE L == Len(parts)
           g == fd.part
           k == Place.part
           r == Place.rel
           z == Request.size
<1>1. /\ num \in Nat /\ L \in Nat /\ Start[L + 1] = num
      /\ \A j \in 1 .. L : /\ Start[j] \in 0 .. num /\ Start[j + 1] \in 0 .. num
                           /\ Start[j] < Start[j + 1]
                           /\ parts[j] \in Nat
                           /\ Reserved(j) + (Start[j + 1] - Start[j]) <= parts[j]
  BY GameSlices
<1>2. /\ \A j \in 1 .. L : fd.slices[j].size = Start[j + 1] - Start[j]
      /\ g \in 1 .. L /\ fd.rel \in Nat /\ at \in 0 .. num
      /\ Start[g] + fd.rel = at /\ fd.rel <= Start[g + 1] - Start[g]
  BY HandleSlices
<1>3. left \in 1 .. num - at
  BY DEF IInv, MountInv
<1>4. Place = IF Start[g + 1] - Start[g] - fd.rel < 1 THEN [part |-> g + 1, rel |-> 0]
              ELSE [part |-> g, rel |-> fd.rel]
  BY <1>2 DEF Place
<1>5. /\ Start[g] \in 0 .. num /\ Start[g + 1] \in 0 .. num
  BY <1>1, <1>2
<1>6. /\ k \in 1 .. L /\ r \in Nat /\ Start[k] + r = at
      /\ r < Start[k + 1] - Start[k]
  <2>1. CASE Start[g + 1] - Start[g] - fd.rel < 1
    <3>1. k = g + 1 /\ r = 0
      BY <1>4, <2>1
    <3> HIDE DEF k, r, g
    <3>2. Start[g + 1] = at /\ at < num
      <4> DEFINE a == Start[g]
                 b == Start[g + 1]
                 c == fd.rel
      <4>1. a \in Nat /\ b \in Nat /\ num \in Nat
        BY <1>1, <1>5
      <4>2. c \in Nat /\ a + c = at /\ c <= b - a /\ b - a - c < 1
        BY <1>2, <2>1
      <4>3. at \in Nat /\ left \in 1 .. num - at
        BY <1>1, <1>2, <1>3
      <4> HIDE DEF a, b, c
      <4>4. b = at
        BY ONLY <4>1, <4>2
      <4>5. at < num
        BY ONLY <4>1, <4>3
      <4> QED  BY <4>4, <4>5 DEF b
    <3>3. g # L
      BY <1>1, <3>2
    <3>4. k \in 1 .. L
      BY ONLY <1>1, <1>2, <3>1, <3>3
    <3>5. Start[k] \in 0 .. num /\ Start[k + 1] \in 0 .. num /\ Start[k] < Start[k + 1]
      BY <1>1, <3>4
    <3> QED  BY ONLY <1>2, <3>1, <3>2, <3>4, <3>5
  <2>2. CASE ~(Start[g + 1] - Start[g] - fd.rel < 1)
    <3>1. k = g /\ r = fd.rel
      BY <1>4, <2>2
    <3> HIDE DEF k, r, g
    <3> QED  BY ONLY <1>1, <1>2, <1>5, <2>2, <3>1
  <2> QED  BY <2>1, <2>2
<1>7. Request.sub = k /\ Request.sector = Reserved(k) + r
  BY DEF Request
<1>8. z = Minimum(left, Start[k + 1] - Start[k] - r)
  BY <1>2, <1>6 DEF Request
<1> HIDE DEF k, r, z, g, L
<1>9. /\ Start[k] \in 0 .. num /\ Start[k + 1] \in 0 .. num /\ parts[k] \in Nat
      /\ Reserved(k) + (Start[k + 1] - Start[k]) <= parts[k] /\ Reserved(k) \in Nat
  BY <1>1, <1>6, ReservedNat
<1>10. left \in Nat \ {0}
  BY <1>1, <1>2, <1>3
<1>11. z \in 1 .. left /\ r + z <= Start[k + 1] - Start[k]
  BY ONLY <1>6, <1>8, <1>9, <1>10 DEF Minimum
<1>12. ~(Reserved(k) + r < Reserved(k)) /\ ~(Reserved(k) + r + z > parts[k]) /\ ~(k > L)
  <2>1. z \in Nat
    BY <1>10, <1>11
  <2> QED  BY ONLY <1>1, <1>6, <1>9, <1>11, <2>1
<1>13. ~Refused(Request)
  BY <1>7, <1>12 DEF Refused, z, L
<1> QED  BY <1>6, <1>7, <1>11, <1>13 DEF k, r, z, L

LEMMA IOStepKeeps == ASSUME IInv, IOStep PROVE IInv'
<1> USE DEF IInv
<1> DEFINE q == Request
           k == Place.part
           z == q.size
           r == Place.rel
<1>1. /\ pc = "io" /\ pc' = IF left' = 0 THEN "open" ELSE "io"
      /\ fd' = [fd EXCEPT !.part = q.sub, !.rel = r + z, !.offset = @ + z]
      /\ at' = at + z /\ left' = left - z
      /\ UNCHANGED <<maxPart, num, index, remaining, parts, info, busy, lost, dir>>
  BY DEF IOStep, making
<1>2. /\ k \in 1 .. Len(parts) /\ r \in Nat /\ Start[k] + r = at
      /\ q.sub = k /\ z \in 1 .. left /\ r + z <= Start[k + 1] - Start[k]
  BY <1>1, RequestIs
<1>3. \/ content' = [content EXCEPT ![q.sub] = [s \in DOMAIN @ |->
                        IF s \in q.sector .. q.sector + q.size - 1
                        THEN at + (s - q.sector) + 1 ELSE @[s]]]
      \/ content' = content
  BY DEF IOStep
<1> HIDE DEF q, k, z, r
<1>4. /\ left \in 1 .. num - at /\ num \in Nat /\ at \in 0 .. num
      /\ fd.open /\ fd.slices = info.slices /\ fd.offset = at
  BY <1>1, GameSlices DEF MountInv, TypeInv
<1>5. /\ Len(fd.slices) = Len(parts)
      /\ fd.slices[k].offset = Start[k] /\ fd.slices[k].size = Start[k + 1] - Start[k]
      /\ Start[k] \in Nat
  <2>1. /\ Len(fd.slices) = Len(parts)
        /\ fd.slices[k].offset = Start[k] /\ fd.slices[k].size = Start[k + 1] - Start[k]
    BY <1>1, <1>2, HandleSlices
  <2>2. Start[k] \in 0 .. num
    BY <1>1, <1>2, GameSlices
  <2> QED  BY <1>4, <2>1, <2>2
<1>6. /\ z \in Nat \ {0} /\ left' \in Nat /\ at' \in 0 .. num
      /\ left' \in 0 .. num - at' /\ left' \in 0 .. num
  <2>1. at' = at + z /\ left' = left - z
    BY <1>1
  <2>2. z \in 1 .. left
    BY <1>2
  <2>3. left \in 1 .. num - at /\ num \in Nat /\ at \in 0 .. num
    BY <1>4
  <2>4. z \in Nat \ {0} /\ left - z \in Nat /\ at + z \in 0 .. num
    BY ONLY <2>2, <2>3
  <2>5. left - z \in 0 .. num - (at + z) /\ left - z \in 0 .. num
    BY ONLY <2>2, <2>3
  <2> QED  BY ONLY <2>1, <2>4, <2>5
<1>7. fd' \in [open : BOOLEAN, slices : Seq(SliceSet), part : Nat, rel : Nat, offset : Nat]
  <2>1. k \in Nat /\ r + z \in Nat /\ fd.offset + z \in Nat
    BY <1>2, <1>4, <1>6
  <2> QED  BY <1>1, <1>2, <2>1 DEF TypeInv
<1>8. TypeInv'
  BY <1>1, <1>6, <1>7 DEF TypeInv
<1>9. MakeInv'
  BY <1>1 DEF MakeInv
<1>10. GameInv'
  <2>1. content = [j \in 1 .. Len(parts) |-> content[j]]
        /\ \A j \in 1 .. Len(parts) : content[j] = [x \in 0 .. parts[j] - 1 |-> content[j][x]]
    BY <1>1 DEF GameInv
  <2>2. content' = [j \in 1 .. Len(parts) |-> content'[j]]
    BY <1>3, <2>1
  <2>3. ASSUME NEW j \in 1 .. Len(parts)
        PROVE  content'[j] = [x \in 0 .. parts[j] - 1 |-> content'[j][x]]
    <3> DEFINE put == [s \in DOMAIN content[q.sub] |->
                        IF s \in q.sector .. q.sector + q.size - 1
                        THEN at + (s - q.sector) + 1 ELSE content[q.sub][s]]
    <3>1. content[j] = [x \in 0 .. parts[j] - 1 |-> content[j][x]]
      BY <2>1
    <3>2. content' = [content EXCEPT ![q.sub] = put] \/ content' = content
      BY <1>3
    <3>3. DOMAIN put = DOMAIN content[q.sub] /\ put = [x \in DOMAIN put |-> put[x]]
      OBVIOUS
    <3> HIDE DEF put
    <3>4. content'[j] = content[j] \/ (j = q.sub /\ content'[j] = put)
      BY <2>1, <3>2
    <3>5. CASE content'[j] = content[j]
      BY <3>1, <3>5
    <3>6. CASE j = q.sub /\ content'[j] = put
      <4>1. DOMAIN put = 0 .. parts[j] - 1
        BY <3>1, <3>3, <3>6
      <4> QED  BY <3>3, <3>6, <4>1
    <3> QED  BY <3>4, <3>5, <3>6
  <2> QED  BY <1>1, <2>2, <2>3 DEF GameInv
<1>11. /\ fd'.open = fd.open /\ fd'.slices = fd.slices /\ fd'.part = k
       /\ fd'.rel = r + z /\ fd'.offset = at + z
  BY <1>1, <1>2, <1>4 DEF TypeInv
<1>12. MountInv'
  <2>1. Start[k] + (r + z) = at' /\ r + z <= fd.slices[k].size
    BY ONLY <1>1, <1>2, <1>5, <1>6
  <2>2. k \in 1 .. Len(fd.slices)
    BY <1>2, <1>5
  <2>3. /\ fd'.open /\ fd'.slices = info'.slices /\ fd'.offset = at'
        /\ fd'.part \in 1 .. Len(fd'.slices)
        /\ fd'.slices[fd'.part].offset + fd'.rel = at'
        /\ fd'.rel <= fd'.slices[fd'.part].size
    BY <1>1, <1>4, <1>5, <1>11, <2>1, <2>2
  <2>4. IF pc' = "io" THEN left' \in 1 .. num' - at' ELSE left' = 0
    BY <1>1, <1>6
  <2> QED  BY <2>3, <2>4 DEF MountInv
<1>13. RestInv'
  BY <1>1 DEF RestInv
<1> QED  BY <1>8, <1>9, <1>10, <1>12, <1>13

LEMMA IOErrorKeeps == ASSUME IInv, IOError PROVE IInv'
<1> USE DEF IInv
<1> DEFINE k == Place.part
           r == Place.rel
<1>1. /\ pc = "io" /\ pc' = "open" /\ left' = 0
      /\ fd' = [fd EXCEPT !.part = k, !.rel = r]
      /\ UNCHANGED <<maxPart, num, index, remaining, parts, info, busy, lost, at, dir, content,
                     out>>
  BY DEF IOError, making
<1>2. /\ k \in 1 .. Len(parts) /\ r \in Nat /\ Start[k] + r = at
      /\ r <= Start[k + 1] - Start[k]
  <2> DEFINE z == Request.size
  <2>1. /\ k \in 1 .. Len(parts) /\ r \in Nat /\ Start[k] + r = at
        /\ z \in 1 .. left /\ r + z <= Start[k + 1] - Start[k]
    BY <1>1, RequestIs
  <2>2. Start[k] \in 0 .. num /\ Start[k + 1] \in 0 .. num /\ num \in Nat /\ left \in 0 .. num
    BY <1>1, <2>1, GameSlices DEF TypeInv
  <2> HIDE DEF k, r, z
  <2> QED  BY ONLY <2>1, <2>2
<1> HIDE DEF k, r
<1>3. /\ fd.open /\ fd.slices = info.slices /\ fd.offset = at /\ num \in Nat
  BY <1>1, GameSlices DEF MountInv, TypeInv
<1>4. /\ Len(fd.slices) = Len(parts)
      /\ fd.slices[k].offset = Start[k] /\ fd.slices[k].size = Start[k + 1] - Start[k]
  BY <1>1, <1>2, HandleSlices
<1>5. TypeInv'
  <2>1. fd' \in [open : BOOLEAN, slices : Seq(SliceSet), part : Nat, rel : Nat, offset : Nat]
    <3>1. k \in Nat
      BY <1>2
    <3> QED  BY <1>1, <1>2, <3>1 DEF TypeInv
  <2>2. 0 \in 0 .. num
    BY <1>3
  <2> QED  BY <1>1, <2>1, <2>2 DEF TypeInv
<1>6. MakeInv' /\ GameInv'
  BY <1>1 DEF MakeInv, GameInv
<1>7. /\ fd'.open = fd.open /\ fd'.slices = fd.slices /\ fd'.offset = fd.offset
      /\ fd'.part = k /\ fd'.rel = r
  BY <1>1 DEF TypeInv
<1>8. MountInv'
  BY <1>1, <1>2, <1>3, <1>4, <1>7 DEF MountInv
<1>9. RestInv'
  BY <1>1 DEF RestInv
<1> QED  BY <1>5, <1>6, <1>8, <1>9

-----------------------------------------------------------------------------
(* The invariant holds. *)

LEMMA InitHolds == Init => IInv
<1> SUFFICES ASSUME Init PROVE IInv
  OBVIOUS
<1> USE DEF Init
<1>1. /\ NoGame \in [slices : Seq(SliceSet), title : TitleSet, attr : TitleSet]
      /\ NoGame.slices = <<>>
  BY DEF NoGame, TitleSet
<1>2. 1 \in 1 .. Len(Sizes)
  BY SizesGrow
<1>3. TypeInv
  <2>1. fd \in [open : BOOLEAN, slices : Seq(SliceSet), part : Nat, rel : Nat, offset : Nat]
    OBVIOUS
  <2>2. parts \in Seq(SizeSet) /\ at \in 0 .. num /\ left \in 0 .. num
    OBVIOUS
  <2>3. info \in [slices : Seq(SliceSet), title : TitleSet, attr : TitleSet]
    BY <1>1
  <2>4. index \in 1 .. Len(Sizes)
    BY <1>2
  <2> QED  BY <2>1, <2>2, <2>3, <2>4 DEF TypeInv
<1>4. MakeInv /\ GameInv /\ MountInv /\ RestInv
  BY <1>1 DEF MakeInv, GameInv, MountInv, RestInv
<1> QED  BY <1>3, <1>4 DEF IInv

LEMMA StutterKeeps == ASSUME IInv, UNCHANGED vars PROVE IInv'
<1>1. UNCHANGED <<maxPart, num, index, remaining, parts, pc, info, fd, busy, lost, at, left,
                  dir, content, out>>
  BY DEF vars, making, moving
<1>2. TypeInv'
  BY <1>1 DEF IInv, TypeInv
<1>3. MakeInv' /\ GameInv' /\ MountInv' /\ RestInv'
  BY <1>1, Unmoved
<1> QED  BY <1>2, <1>3 DEF IInv

(* Every step of the program keeps it. *)
LEMMA NextKeeps == ASSUME IInv, [Next]_vars PROVE IInv'
<1>1. CASE StartCreate
  BY <1>1, StartCreateKeeps
<1>2. CASE CreateMain
  BY <1>2, CreateMainKeeps
<1>3. CASE AddSub
  BY <1>3, AddSubKeeps
<1>4. CASE NoSpace
  BY <1>4, NoSpaceKeeps
<1>5. CASE GiveUp
  BY <1>5, GiveUpKeeps
<1>6. CASE Format
  BY <1>6, FormatKeeps
<1>7. CASE RemoveGame
  BY <1>7, RemoveGameKeeps
<1>8. CASE Mount
  BY <1>8, MountKeeps
<1>9. CASE MountReadFails
  BY <1>9, MountReadFailsKeeps
<1>10. CASE MountBusy
  BY <1>10, MountBusyKeeps
<1>11. CASE Umount
  BY <1>11, UmountKeeps
<1>12. CASE UpdateGameTitle
  BY <1>12, UpdateGameTitleKeeps
<1>13. CASE ChStat
  BY <1>13, ChStatKeeps
<1>14. CASE \E x \in 0 .. num - 1 : Seek(x)
  BY <1>14, SeekKeeps
<1>15. CASE \E n \in 1 .. num - at, d \in {"read", "write"} : StartIO(n, d)
  BY <1>15, StartIOKeeps
<1>16. CASE IOStep
  BY <1>16, IOStepKeeps
<1>17. CASE IOError
  BY <1>17, IOErrorKeeps
<1>18. CASE UNCHANGED vars
  BY <1>18, StutterKeeps
<1> QED
  BY <1>1, <1>2, <1>3, <1>4, <1>5, <1>6, <1>7, <1>8, <1>9, <1>10, <1>11, <1>12, <1>13, <1>14,
     <1>15, <1>16, <1>17, <1>18 DEF Next

THEOREM Invariance == Spec => []IInv
<1> QED  BY InitHolds, NextKeeps, PTL DEF Spec

(* GetPartSize never asks for more than the disk allows, the partitions    *)
(* that CreateAndFormatPartition makes are accepted by hdlfs_format and    *)
(* hold the image, however often a size had to shrink, and getstat         *)
(* reports its length.                                                     *)
THEOREM SizesFitAlways == Spec => []SizesFit
<1>1. IInv => SizesFit
  <2> SUFFICES ASSUME IInv PROVE SizesFit
    OBVIOUS
  <2>1. NeverTooBig
    BY DEF NeverTooBig, IInv, MakeInv
  <2>2. FormatFits
    <3> SUFFICES ASSUME pc = "format" PROVE FormatAccepts(parts, num)
      BY DEF FormatFits
    <3>1. parts \in Seq(SizeSet) /\ Laid(parts, num)
      BY DEF IInv, TypeInv, MakeInv
    <3> QED  BY <3>1, LaidIsAccepted
  <2>3. StatIsLength
    <3> SUFFICES ASSUME info.slices # <<>> PROVE GameSize = num
      BY DEF StatIsLength
    <3>1. pc \in {"closed", "open", "io"}
      BY DEF IInv, TypeInv, MakeInv
    <3>2. Laid(parts, num) /\ info.slices = Slices(parts, num)
      BY <3>1 DEF IInv, GameInv
    <3> QED  BY <3>2, SizeIsLength
  <2> QED  BY <2>1, <2>2, <2>3 DEF SizesFit
<1> QED  BY <1>1, Invariance, PTL

(* The handle of a mounted game is sound: a transfer inside the image is   *)
(* never refused, the forms of the position agree after transfers that     *)
(* failed half-way, too, the handle shows the game as it lies on the disk, *)
(* and only a mount that failed half-way leaves the partition open.        *)
THEOREM HandleSoundAlways == Spec => []HandleSound
<1>1. IInv => HandleSound
  <2> SUFFICES ASSUME IInv PROVE HandleSound
    OBVIOUS
  <2>1. TypeOK
    BY DEF IInv, TypeInv, TypeOK, SizeSet
  <2>2. NeverRefused
    BY RequestIs DEF NeverRefused
  <2>3. PositionAgrees /\ MountIsFresh
    BY DEF PositionAgrees, MountIsFresh, IInv, MountInv
  <2>4. BusyOnlyAfterFailure
    BY DEF BusyOnlyAfterFailure, IInv, RestInv
  <2> QED  BY <2>1, <2>2, <2>3, <2>4 DEF HandleSound
<1> QED  BY <1>1, Invariance, PTL

-----------------------------------------------------------------------------
(* The driver implements FlatDisk. *)

GameThere == pc \in {"closed", "open", "io"}

(* A sector of the image, where the slices put it. *)
Cell(p, n, c, x) ==
  LET k == SliceWith(p, n, x) IN c[k][Reserved(k) + x - SliceStart(p, n)[k]]

LEMMA ImageIs ==
  IInv => /\ GameThere => /\ Image = [x \in 0 .. num - 1 |-> Cell(parts, num, content, x)]
                          /\ Flat!Length = num
          /\ ~GameThere => Image = <<>>
<1> SUFFICES ASSUME IInv
             PROVE  /\ GameThere =>
                          /\ Image = [x \in 0 .. num - 1 |-> Cell(parts, num, content, x)]
                          /\ Flat!Length = num
                    /\ ~GameThere => Image = <<>>
  OBVIOUS
<1>1. ASSUME GameThere
      PROVE  Image = [x \in 0 .. num - 1 |-> Cell(parts, num, content, x)] /\ Flat!Length = num
  <2>1. /\ Laid(parts, num) /\ num \in Nat \ {0} /\ info.slices # <<>>
        /\ Len(info.slices) = Len(parts)
        /\ \A k \in 1 .. Len(parts) :
             /\ info.slices[k].offset = Start[k]
             /\ info.slices[k].size = Start[k + 1] - Start[k]
             /\ Start[k] \in 0 .. num /\ Start[k + 1] \in 0 .. num
    BY <1>1, GameSlices DEF GameThere
  <2> DEFINE In(k, x) == info.slices[k].offset <= x
                         /\ x < info.slices[k].offset + info.slices[k].size
             At(x) == CHOOSE k \in 1 .. Len(info.slices) : In(k, x)
  <2>2. ASSUME NEW x \in 0 .. num - 1 PROVE At(x) = SliceWith(parts, num, x)
    <3> DEFINE m == SliceWith(parts, num, x)
    <3>1. /\ m \in 1 .. Len(parts) /\ Start[m] <= x /\ x < Start[m + 1]
          /\ \A j \in 1 .. Len(parts) : Start[j] <= x /\ x < Start[j + 1] => j = m
      BY <2>1, OneSlice DEF Start
    <3> HIDE DEF m
    <3>2. ASSUME NEW j \in 1 .. Len(parts)
          PROVE  In(j, x) <=> Start[j] <= x /\ x < Start[j + 1]
      <4>1. info.slices[j].offset = Start[j] /\ info.slices[j].size = Start[j + 1] - Start[j]
        BY <2>1
      <4>2. Start[j] \in Nat /\ Start[j + 1] \in Nat
        BY <2>1
      <4>3. Start[j] + (Start[j + 1] - Start[j]) = Start[j + 1]
        BY ONLY <4>2
      <4> QED  BY <4>1, <4>3
    <3> HIDE DEF In
    <3>3. In(m, x) /\ \A j \in 1 .. Len(parts) : In(j, x) => j = m
      BY <3>1, <3>2
    <3> QED  BY <2>1, <3>1, <3>3 DEF m
  <2>3. Image = [x \in 0 .. num - 1 |->
                   content[At(x)][Reserved(At(x)) + x - info.slices[At(x)].offset]]
    BY <2>1 DEF Image
  <2> HIDE DEF At
  <2>4. ASSUME NEW x \in 0 .. num - 1
        PROVE  content[At(x)][Reserved(At(x)) + x - info.slices[At(x)].offset]
                 = Cell(parts, num, content, x)
    <3> DEFINE m == SliceWith(parts, num, x)
    <3>1. m \in 1 .. Len(parts)
      BY <2>1, OneSlice
    <3>2. info.slices[m].offset = SliceStart(parts, num)[m]
      <4> HIDE DEF m
      <4> QED  BY <2>1, <3>1 DEF Start
    <3> QED  BY <2>2, <3>2 DEF Cell
  <2>5. Image = [x \in 0 .. num - 1 |-> Cell(parts, num, content, x)]
    BY <2>3, <2>4
  <2>6. Cardinality(0 .. num - 1) = num
    BY <2>1, FS_Interval
  <2>7. DOMAIN Image = 0 .. num - 1
    BY <2>5
  <2>8. Flat!Length = num
    <3>1. Flat!Length = Flat!Cardinality(0 .. num - 1)
      BY <2>7 DEF Flat!Length
    <3>2. Flat!Cardinality(0 .. num - 1) = Cardinality(0 .. num - 1)
      BY DEF Flat!Cardinality, Cardinality
    <3> QED  BY <2>6, <3>1, <3>2
  <2> QED  BY <2>5, <2>8
<1>2. ASSUME ~GameThere PROVE Image = <<>>
  <2>1. info.slices = <<>>
    BY <1>2 DEF GameThere, IInv, TypeInv, MakeInv
  <2> QED  BY <2>1 DEF Image
<1> QED  BY <1>1, <1>2

(* A step that touches neither the game nor what it holds shows nothing. *)
LEMMA ImageStays ==
  ASSUME IInv, IInv',
         \/ ~GameThere /\ ~GameThere'
         \/ GameThere /\ GameThere' /\ UNCHANGED <<num, parts, content>>
  PROVE  Image' = Image
<1>1. (IInv => /\ GameThere => /\ Image = [x \in 0 .. num - 1 |-> Cell(parts, num, content, x)]
                               /\ Flat!Length = num
               /\ ~GameThere => Image = <<>>)'
  BY ImageIs, PTL
<1>2. CASE ~GameThere /\ ~GameThere'
  BY <1>1, <1>2, ImageIs
<1>3. CASE GameThere /\ GameThere' /\ UNCHANGED <<num, parts, content>>
  <2>1. Image = [x \in 0 .. num - 1 |-> Cell(parts, num, content, x)]
    BY <1>3, ImageIs
  <2>2. Image' = [x \in 0 .. num' - 1 |-> Cell(parts', num', content', x)]
    BY <1>1, <1>3
  <2> QED  BY <1>3, <2>1, <2>2
<1> QED  BY <1>2, <1>3

(* A sector of a slice lies in its partition, behind what is reserved. *)
LEMMA CellPlace ==
  ASSUME IInv, GameThere, NEW x \in 0 .. num - 1, NEW k, k = SliceWith(parts, num, x)
  PROVE  /\ k \in 1 .. Len(parts) /\ Start[k] \in Nat /\ Start[k] <= x /\ x < Start[k + 1]
         /\ Start[k + 1] \in Nat /\ Reserved(k) \in Nat
         /\ Reserved(k) + x - Start[k] \in 0 .. parts[k] - 1
<1>1. Laid(parts, num)
  BY GameSlices DEF GameThere
<1>2. k \in 1 .. Len(parts) /\ Start[k] <= x /\ x < Start[k + 1]
  BY <1>1, OneSlice DEF Start
<1>3. /\ Start[k] \in 0 .. num /\ Start[k + 1] \in 0 .. num
      /\ parts[k] \in Nat
      /\ Reserved(k) + (Start[k + 1] - Start[k]) <= parts[k]
  BY <1>2, GameSlices DEF GameThere
<1>4. Reserved(k) \in Nat /\ num \in Nat
  BY GameSlices, ReservedNat DEF GameThere
<1>5. x \in Nat /\ Start[k] \in Nat /\ Start[k + 1] \in Nat
  BY <1>3, <1>4
<1>6. Reserved(k) + x - Start[k] \in 0 .. parts[k] - 1
  <2>1. Reserved(k) + x - Start[k] \in Nat
    BY ONLY <1>2, <1>4, <1>5
  <2>2. Reserved(k) + x - Start[k] < Reserved(k) + (Start[k + 1] - Start[k])
    <3> DEFINE r == Reserved(k)
               a == Start[k]
               b == Start[k + 1]
    <3>1. r \in Nat /\ a \in Nat /\ b \in Nat /\ x \in Nat /\ x < b
      BY ONLY <1>2, <1>4, <1>5
    <3> HIDE DEF r, a, b
    <3>2. r + x - a < r + (b - a)
      BY ONLY <3>1
    <3> QED  BY <3>2 DEF r, a, b
  <2>3. parts[k] \in Nat /\ Reserved(k) + (Start[k + 1] - Start[k]) <= parts[k]
    BY <1>3
  <2>4. Reserved(k) + (Start[k + 1] - Start[k]) \in Int
    BY ONLY <1>4, <1>5
  <2> QED  BY ONLY <2>1, <2>2, <2>3, <2>4
<1> QED  BY <1>2, <1>4, <1>5, <1>6

(* What a transfer asks for lies in one slice: sector by sector, the image *)
(* and the partition correspond.                                           *)
LEMMA TransferPlace ==
  ASSUME IInv, pc = "io", NEW x \in 0 .. num - 1
  PROVE  LET z == Request.size
             k == Place.part
             i == Reserved(SliceWith(parts, num, x)) + x - Start[SliceWith(parts, num, x)]
         IN  /\ at <= x /\ x < at + z => SliceWith(parts, num, x) = k
             /\ SliceWith(parts, num, x) = k =>
                   i = Request.sector + (x - at) /\ i \in 0 .. parts[k] - 1
<1> DEFINE z == Request.size
           k == Place.part
           r == Place.rel
           m == SliceWith(parts, num, x)
           i == Reserved(m) + x - Start[m]
<1>1. /\ k \in 1 .. Len(parts) /\ r \in Nat /\ Start[k] + r = at
      /\ Request.sector = Reserved(k) + r
      /\ z \in 1 .. left /\ r + z <= Start[k + 1] - Start[k]
  BY RequestIs
<1>2. /\ m \in 1 .. Len(parts) /\ Start[m] \in Nat /\ Reserved(m) \in Nat
      /\ i \in 0 .. parts[m] - 1
  BY CellPlace DEF GameThere
<1>3. /\ Laid(parts, num) /\ num \in Nat
      /\ Start[k] \in 0 .. num /\ Start[k + 1] \in 0 .. num
  BY <1>1, GameSlices
<1>4. left \in Nat /\ x \in Nat
  BY <1>3 DEF IInv, TypeInv
<1> HIDE DEF z, k, r
<1>5. ASSUME at <= x, x < at + z PROVE m = k
  <2> HIDE DEF m, i
  <2>1. Start[k] <= x /\ x < Start[k + 1]
    <3>1. Start[k] \in Nat /\ Start[k + 1] \in Nat /\ z \in Nat
      BY <1>1, <1>3, <1>4
    <3>2. r \in Nat /\ Start[k] + r = at /\ r + z <= Start[k + 1] - Start[k]
      BY <1>1
    <3> QED  BY ONLY <1>4, <1>5, <3>1, <3>2
  <2> QED  BY <1>1, <1>3, <2>1, OneSlice DEF m, Start
<1>6. ASSUME m = k PROVE i = Request.sector + (x - at) /\ i \in 0 .. parts[k] - 1
  <2>1. i = Reserved(k) + x - Start[k]
    BY <1>6
  <2>2. Start[k] \in Nat /\ Reserved(k) \in Nat
    BY <1>2, <1>6
  <2>3. r \in Nat /\ Start[k] + r = at /\ Request.sector = Reserved(k) + r
    BY <1>1
  <2> HIDE DEF m, i
  <2>4. i = Request.sector + (x - at)
    BY ONLY <1>4, <2>1, <2>2, <2>3
  <2> QED  BY <1>2, <1>6, <2>4
<1> QED  BY <1>5, <1>6 DEF z, k

LEMMA WriteShows ==
  ASSUME IInv, IInv', IOStep, dir = "write" PROVE Flat!Write
<1> DEFINE q == Request
           z == q.size
           k == Place.part
           old(x) == Cell(parts, num, content, x)
           new(x) == Cell(parts, num, content', x)
<1>1. /\ pc = "io" /\ at' = at + z /\ UNCHANGED <<out, num, parts>>
      /\ content' = [content EXCEPT ![q.sub] = [s \in DOMAIN @ |->
                        IF s \in q.sector .. q.sector + q.size - 1
                        THEN at + (s - q.sector) + 1 ELSE @[s]]]
      /\ pc' \in {"open", "io"}
  BY DEF IOStep, making
<1>2. /\ k \in 1 .. Len(parts) /\ q.sub = k /\ q.sector \in Nat
      /\ z \in 1 .. left /\ left \in 1 .. num - at /\ at \in 0 .. num /\ num \in Nat
      /\ Laid(parts, num)
  <2>1. /\ k \in 1 .. Len(parts) /\ q.sub = k /\ z \in 1 .. left
        /\ q.sector = Reserved(k) + Place.rel /\ Place.rel \in Nat
    BY <1>1, RequestIs
  <2>2. left \in 1 .. num - at /\ at \in 0 .. num
    BY <1>1 DEF IInv, MountInv, TypeInv
  <2>3. num \in Nat /\ Laid(parts, num)
    BY <1>1, GameSlices
  <2>4. q.sector \in Nat
    BY <2>1, ReservedNat
  <2> QED  BY <2>1, <2>2, <2>3, <2>4
<1>3. /\ Image = [x \in 0 .. num - 1 |-> old(x)] /\ Flat!Length = num
  BY <1>1, ImageIs DEF GameThere
<1>4. Image' = [x \in 0 .. num - 1 |-> new(x)]
  <2>1. (IInv => /\ GameThere =>
                      /\ Image = [x \in 0 .. num - 1 |-> Cell(parts, num, content, x)]
                      /\ Flat!Length = num
                 /\ ~GameThere => Image = <<>>)'
    BY ImageIs, PTL
  <2>2. Image' = [x \in 0 .. num' - 1 |-> Cell(parts', num', content', x)]
    BY <1>1, <2>1 DEF GameThere
  <2> QED  BY <1>1, <2>2
<1>5. /\ content = [j \in 1 .. Len(parts) |-> content[j]]
      /\ content[k] = [x \in 0 .. parts[k] - 1 |-> content[k][x]]
  BY <1>1, <1>2 DEF IInv, GameInv
<1> HIDE DEF q, z, k
<1>6. /\ \A s \in 0 .. parts[k] - 1 :
           content'[k][s] = IF s \in q.sector .. q.sector + z - 1
                            THEN at + (s - q.sector) + 1 ELSE content[k][s]
      /\ \A j \in 1 .. Len(parts) : j # k => content'[j] = content[j]
  <2>1. DOMAIN content[k] = 0 .. parts[k] - 1 /\ DOMAIN content = 1 .. Len(parts)
    BY <1>5
  <2> QED  BY <1>1, <1>2, <2>1 DEF z
<1>7. ASSUME NEW x \in 0 .. num - 1
      PROVE  new(x) = IF at <= x /\ x < at + z THEN x + 1 ELSE old(x)
  <2> DEFINE m == SliceWith(parts, num, x)
             i == Reserved(m) + x - Start[m]
  <2>1. /\ at <= x /\ x < at + z => m = k
        /\ m = k => i = q.sector + (x - at) /\ i \in 0 .. parts[k] - 1
    BY <1>1, TransferPlace DEF q, z, k
  <2>2. old(x) = content[m][i] /\ new(x) = content'[m][i]
    BY DEF Cell, Start
  <2>3. m \in 1 .. Len(parts)
    BY <1>2, OneSlice
  <2> HIDE DEF m, i, old, new
  <2>4. CASE m # k
    BY <1>6, <2>1, <2>2, <2>3, <2>4
  <2>5. CASE m = k
    <3>1. i = q.sector + (x - at) /\ i \in 0 .. parts[k] - 1
      BY <2>1, <2>5
    <3>2. new(x) = IF i \in q.sector .. q.sector + z - 1
                   THEN at + (i - q.sector) + 1 ELSE old(x)
      BY <1>6, <2>2, <2>5, <3>1
    <3>3. x \in Nat /\ at \in Nat /\ z \in Nat /\ q.sector \in Nat
      BY <1>2
    <3>4. i \in q.sector .. q.sector + z - 1 <=> at <= x /\ x < at + z
      BY ONLY <3>1, <3>3
    <3>5. at + (i - q.sector) + 1 = x + 1
      BY ONLY <3>1, <3>3
    <3> QED  BY <3>2, <3>4, <3>5
  <2> QED  BY <2>4, <2>5
<1> HIDE DEF old, new
<1>8. Image' = [x \in DOMAIN Image |-> IF at <= x /\ x < at' THEN x + 1 ELSE Image[x]]
  <2>1. \A x \in 0 .. num - 1 : new(x) = IF at <= x /\ x < at' THEN x + 1 ELSE Image[x]
    BY <1>1, <1>3, <1>7
  <2>2. DOMAIN Image = 0 .. num - 1
    BY <1>3
  <2> QED  BY <1>4, <2>1, <2>2
<1>9. at' \in at .. Flat!Length
  <2>1. at + z \in at .. num
    BY ONLY <1>2
  <2> QED  BY <1>1, <1>3, <2>1
<1> QED  BY <1>1, <1>8, <1>9 DEF Flat!Write

LEMMA ReadShows ==
  ASSUME IInv, IInv', IOStep, dir # "write" PROVE Flat!Read
<1> DEFINE q == Request
           z == q.size
           k == Place.part
<1>1. /\ pc = "io" /\ at' = at + z /\ UNCHANGED <<content, num, parts>>
      /\ out' = [i \in 1 .. z |-> content[q.sub][q.sector + i - 1]]
      /\ pc' \in {"open", "io"}
  BY DEF IOStep, making
<1>2. /\ k \in 1 .. Len(parts) /\ q.sub = k /\ q.sector \in Nat
      /\ z \in 1 .. left /\ left \in 1 .. num - at /\ at \in 0 .. num /\ num \in Nat
  <2>1. /\ k \in 1 .. Len(parts) /\ q.sub = k /\ z \in 1 .. left
        /\ q.sector = Reserved(k) + Place.rel /\ Place.rel \in Nat
    BY <1>1, RequestIs
  <2>2. left \in 1 .. num - at /\ at \in 0 .. num
    BY <1>1 DEF IInv, MountInv, TypeInv
  <2>3. num \in Nat
    BY <1>1, GameSlices
  <2>4. q.sector \in Nat
    BY <2>1, ReservedNat
  <2> QED  BY <2>1, <2>2, <2>3, <2>4
<1>3. /\ Image = [x \in 0 .. num - 1 |-> Cell(parts, num, content, x)] /\ Flat!Length = num
  BY <1>1, ImageIs DEF GameThere
<1>4. Image' = Image
  BY <1>1, ImageStays DEF GameThere
<1> HIDE DEF q, z, k
<1>5. ASSUME NEW i \in 1 .. z PROVE content[k][q.sector + i - 1] = Image[at + i - 1]
  <2> DEFINE x == at + i - 1
             m == SliceWith(parts, num, x)
             p == Reserved(m) + x - Start[m]
  <2>1. x \in 0 .. num - 1 /\ at <= x /\ x < at + z /\ i \in Nat /\ x - at = i - 1
    BY ONLY <1>2, i \in 1 .. z
  <2> HIDE DEF x
  <2>2. m = k /\ p = q.sector + (x - at)
    BY <1>1, <2>1, TransferPlace DEF q, z, k
  <2>3. Cell(parts, num, content, x) = content[m][p]
    BY DEF Cell, Start
  <2> HIDE DEF m, p
  <2>4. q.sector + (x - at) = q.sector + i - 1
    BY ONLY <1>2, <2>1
  <2>5. Image[x] = content[k][q.sector + i - 1]
    BY <1>3, <2>1, <2>2, <2>3, <2>4
  <2> QED  BY <2>5 DEF x
<1>6. at' - at = z /\ at' \in at .. Flat!Length
  <2>1. at + z \in at .. num /\ (at + z) - at = z
    BY ONLY <1>2
  <2> QED  BY <1>1, <1>3, <2>1
<1>7. out' = [i \in 1 .. at' - at |-> Image[at + i - 1]]
  BY <1>1, <1>2, <1>5, <1>6
<1> QED  BY <1>4, <1>6, <1>7 DEF Flat!Read

LEMMA CellPlaces ==
  IInv /\ GameThere => \A x \in 0 .. num - 1 :
    /\ SliceWith(parts, num, x) \in 1 .. Len(parts)
    /\ Reserved(SliceWith(parts, num, x)) + x - Start[SliceWith(parts, num, x)]
         \in 0 .. parts[SliceWith(parts, num, x)] - 1
BY CellPlace

(* A new game holds nothing of its image yet. *)
LEMMA FormatShows == ASSUME IInv, IInv', Format PROVE Flat!Create
<1>1. /\ pc = "format" /\ pc' = "closed" /\ UNCHANGED <<num, parts, at, out>>
      /\ content' = [k \in 1 .. Len(parts) |-> [s \in 0 .. parts[k] - 1 |-> 0]]
  BY DEF Format, making
<1>2. Image = <<>>
  BY <1>1, ImageIs DEF GameThere
<1>3. Image' = [x \in 0 .. num' - 1 |-> Cell(parts', num', content', x)]
  <2>1. (IInv => /\ GameThere =>
                      /\ Image = [x \in 0 .. num - 1 |-> Cell(parts, num, content, x)]
                      /\ Flat!Length = num
                 /\ ~GameThere => Image = <<>>)'
    BY ImageIs, PTL
  <2> QED  BY <1>1, <2>1 DEF GameThere
<1>4. (IInv /\ GameThere => \A x \in 0 .. num - 1 :
         /\ SliceWith(parts, num, x) \in 1 .. Len(parts)
         /\ Reserved(SliceWith(parts, num, x)) + x - Start[SliceWith(parts, num, x)]
              \in 0 .. parts[SliceWith(parts, num, x)] - 1)'
  BY CellPlaces, PTL
<1>5. ASSUME NEW x \in 0 .. num' - 1 PROVE Cell(parts', num', content', x) = 0
  <2> DEFINE m == SliceWith(parts', num', x)
             i == Reserved(m) + x - SliceStart(parts', num')[m]
  <2>1. m \in 1 .. Len(parts) /\ i \in 0 .. parts[m] - 1
    BY <1>1, <1>4 DEF GameThere, Start
  <2>2. Cell(parts', num', content', x) = content'[m][i]
    BY DEF Cell
  <2> HIDE DEF m, i
  <2> QED  BY <1>1, <2>1, <2>2
<1>6. Image' = [x \in DOMAIN Image' |-> 0]
  <2>1. DOMAIN Image' = 0 .. num' - 1
    BY <1>3
  <2> QED  BY <1>3, <1>5, <2>1
<1> QED  BY <1>1, <1>2, <1>6 DEF Flat!Create

(* Every step of the driver is a step of the flat disk, or nothing of it   *)
(* can be seen.                                                            *)
LEMMA StepShows == ASSUME IInv, IInv', [Next]_vars PROVE [Flat!Next]_(Flat!diskVars)
<1>1. ASSUME UNCHANGED <<at, out>>, Image' = Image PROVE UNCHANGED Flat!diskVars
  BY <1>1 DEF Flat!diskVars
<1>2. CASE StartCreate \/ CreateMain \/ AddSub \/ NoSpace \/ GiveUp
  <2>1. pc \in {"idle", "main", "sub", "format"} /\ pc' \in {"idle", "main", "sub", "format"}
        /\ UNCHANGED <<at, out>>
    BY <1>2 DEF StartCreate, CreateMain, AddSub, NoSpace, GiveUp, PartitionMade, moving
  <2> QED  BY <1>1, <2>1, ImageStays DEF GameThere
<1>3. CASE Format
  BY <1>3, FormatShows DEF Flat!Next
<1>4. CASE RemoveGame
  <2>1. pc' = "idle" /\ UNCHANGED <<at, out>>
    BY <1>4 DEF RemoveGame
  <2>2. (IInv => /\ GameThere =>
                      /\ Image = [x \in 0 .. num - 1 |-> Cell(parts, num, content, x)]
                      /\ Flat!Length = num
                 /\ ~GameThere => Image = <<>>)'
    BY ImageIs, PTL
  <2>3. Image' = <<>>
    BY <2>1, <2>2 DEF GameThere
  <2> QED  BY <2>1, <2>3 DEF Flat!Next, Flat!Remove
<1>5. CASE Mount
  <2>1. /\ pc = "closed" /\ pc' = "open" /\ at' = 0 /\ UNCHANGED <<out, num, parts, content>>
    BY <1>5 DEF Mount, making
  <2>2. at = 0
    BY <2>1 DEF IInv, RestInv
  <2> QED  BY <1>1, <2>1, <2>2, ImageStays DEF GameThere
<1>6. CASE MountReadFails \/ MountBusy \/ UpdateGameTitle \/ ChStat
  <2>1. /\ pc \in {"closed", "open"} /\ pc' = pc /\ UNCHANGED <<at, out, num, parts, content>>
    BY <1>6 DEF MountReadFails, MountBusy, UpdateGameTitle, ChStat, making, moving
  <2> QED  BY <1>1, <2>1, ImageStays DEF GameThere
<1>7. CASE Umount
  <2>1. /\ pc = "open" /\ pc' = "closed" /\ at' = 0 /\ out' = <<>>
        /\ UNCHANGED <<num, parts, content>>
    BY <1>7 DEF Umount, making
  <2>2. Image' = Image /\ Flat!Length = num /\ num \in Nat
    BY <2>1, ImageStays, ImageIs, GameSlices DEF GameThere
  <2> QED  BY <2>1, <2>2 DEF Flat!Next, Flat!Seek
<1>8. CASE \E x \in 0 .. num - 1 : Seek(x)
  <2>1. PICK x \in 0 .. num - 1 : Seek(x)
    BY <1>8
  <2>2. /\ pc = "open" /\ pc' = "open" /\ at' = x /\ out' = <<>>
        /\ UNCHANGED <<num, parts, content>>
    BY <2>1 DEF Seek, making
  <2>3. Image' = Image /\ Flat!Length = num /\ num \in Nat
    BY <2>2, ImageStays, ImageIs, GameSlices DEF GameThere
  <2> QED  BY <2>2, <2>3 DEF Flat!Next, Flat!Seek
<1>9. CASE \E n \in 1 .. num - at, d \in {"read", "write"} : StartIO(n, d)
  <2>1. /\ pc = "open" /\ pc' = "io" /\ at' = at /\ out' = <<>>
        /\ UNCHANGED <<num, parts, content>>
    BY <1>9 DEF StartIO, making
  <2>2. Image' = Image /\ Flat!Length = num /\ at \in 0 .. num
    BY <2>1, ImageStays, ImageIs DEF GameThere, IInv, TypeInv
  <2> QED  BY <2>1, <2>2 DEF Flat!Next, Flat!Seek
<1>10. CASE IOStep
  BY <1>10, WriteShows, ReadShows DEF Flat!Next
<1>11. CASE IOError
  <2>1. /\ pc = "io" /\ pc' = "open" /\ UNCHANGED <<at, out, num, parts, content>>
    BY <1>11 DEF IOError, making
  <2> QED  BY <1>1, <2>1, ImageStays DEF GameThere
<1>12. CASE UNCHANGED vars
  <2>1. UNCHANGED <<pc, at, out, num, parts, content>>
    BY <1>12 DEF vars, making, moving
  <2> QED  BY <1>1, <2>1, ImageStays DEF GameThere
<1> QED
  BY <1>2, <1>3, <1>4, <1>5, <1>6, <1>7, <1>8, <1>9, <1>10, <1>11, <1>12 DEF Next

(* The driver implements FlatDisk: through slices and partitions the game  *)
(* is one array of sectors, and what is written at a position is read at   *)
(* that position.                                                          *)
THEOREM HdlFsImplementsFlat == Spec => ImplementsFlat
<1>1. Init => Flat!Init
  BY ImageIs, InitHolds DEF Init, GameThere, Flat!Init
<1>2. IInv /\ IInv' /\ [Next]_vars => [Flat!Next]_(Flat!diskVars)
  BY StepShows
<1> QED  BY <1>1, <1>2, Invariance, PTL DEF Spec, ImplementsFlat, Flat!Spec

=============================================================================
