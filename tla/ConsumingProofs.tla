--------------------------- MODULE ConsumingProofs ---------------------------
(***************************************************************************)
(* Proofs about ConsumingBuffer, for every capacity, batch size and number *)
(* of samples, alone on its storage or beside another buffer: type         *)
(* correctness, that the free list is exact, and that the buffer           *)
(* implements ConsumingPool.                                               *)
(***************************************************************************)
EXTENDS ConsumingBuffer, FiniteSetTheorems, SequenceTheorems, WellFoundedInduction, TLAPS

\* No other buffer writes to a consumed slot behind the free list's back.
SlotsAreOwn == LiveOnly \/ TRUE \notin OtherWriters

Capacities == 0 .. Capacity

\* What a buffer, or a checkpoint of one, is made of: what can be sampled has been
\* sampled less than MaxSampleCount times.
Typed(b) ==
    /\ b.cursor \in Slots
    /\ b.len \in Capacities /\ b.known = b.len
    /\ b.rec \in [Slots -> 0 .. written]
    /\ b.count \in [Slots -> 0 .. MaxSampleCount]
    /\ b.live \in SUBSET (0 .. b.len - 1)
    /\ \A s \in b.live : b.count[s] < MaxSampleCount
    /\ b.free \in Seq(Slots)

\* The inductive invariant behind TypeOK.
TypeInv ==
    /\ alone \in BOOLEAN
    /\ other \in Slots
    /\ written \in Nat
    /\ Typed(StateDict)
    /\ \A b \in saved : Typed(b)

\* Slots below the length can be sampled or are consumed, the others were never counted.
Counted(b) ==
    \A s \in Slots : /\ s < b.len /\ s \notin b.live => b.count[s] = MaxSampleCount
                     /\ s >= b.len => b.count[s] = 0

\* The free list has each consumed slot once, and nothing else.
Listed(b) ==
    /\ \A s \in Slots :
           s < b.len /\ s \notin b.live <=> \E i \in DOMAIN b.free : b.free[i] = s
    /\ \A i, j \in DOMAIN b.free : b.free[i] = b.free[j] => i = j

\* The ring fills the storage before it wraps around, alone without leaving out a slot.
InRing(b) ==
    /\ b.cursor <= b.len
    /\ alone /\ b.len < Capacity => b.cursor = b.len

\* Each slot below the length has a record of its own.
Distinct(b) ==
    \A s \in 0 .. b.len - 1 : /\ b.rec[s] # NoRecord
                              /\ \A t \in 0 .. b.len - 1 : b.rec[s] = b.rec[t] => s = t

Exact(b) == Counted(b) /\ Listed(b) /\ InRing(b) /\ Distinct(b)

\* The inductive invariant behind FreeListExact and ImplementsPool.
PoolInv ==
    /\ TypeInv
    /\ alone \/ LiveOnly
    /\ Exact(StateDict)
    /\ \A b \in saved : Exact(b)

-----------------------------------------------------------------------------
(***************************************************************************)
(* The k-th smallest of a set of numbers.                                  *)
(***************************************************************************)
Rank(S, i) == Cardinality({j \in S : j <= i})

LEMMA SmallestNat ==
    ASSUME NEW T \in SUBSET Nat, T # {}
    PROVE  \E x \in T : \A y \in T : x <= y
<1> DEFINE R == {ss \in Nat \X Nat : ss[1] < ss[2]}
<1>1. IsWellFoundedOn(R, Nat)
  BY NatLessThanWellFounded DEF OpToRel
<1> HIDE DEF R
<1>2. PICK x \in T : \A y \in T : ~ (<<y, x>> \in R)
  BY <1>1, WFMin
<1>3. ASSUME NEW y \in T PROVE x <= y
  <2>1. x \in Nat /\ y \in Nat
    OBVIOUS
  <2>2. ~ (y < x)
    BY <1>2, <2>1 DEF R
  <2> QED
    BY <2>1, <2>2
<1> QED
  BY <1>3

LEMMA LargestNat ==
    ASSUME NEW N \in Nat, NEW T \in SUBSET (0 .. N), T # {}
    PROVE  \E x \in T : \A y \in T : y <= x
<1> DEFINE D == {d \in 0 .. N : N - d \in T}
<1>1. D \in SUBSET Nat
  OBVIOUS
<1>2. D # {}
  <2>1. PICK y \in T : TRUE
    OBVIOUS
  <2>2. N - y \in 0 .. N /\ N - (N - y) = y
    OBVIOUS
  <2> QED
    BY <2>1, <2>2
<1>3. PICK d \in D : \A e \in D : d <= e
  BY <1>1, <1>2, SmallestNat
<1>4. d \in 0 .. N /\ N - d \in T
  OBVIOUS
<1>5. ASSUME NEW y \in T PROVE y <= N - d
  <2>1. y \in 0 .. N /\ N - y \in 0 .. N /\ N - (N - y) = y
    OBVIOUS
  <2>2. d <= N - y
    BY <1>3, <2>1
  <2> QED
    BY <1>4, <2>1, <2>2
<1> QED
  BY <1>4, <1>5

\* A bounded set is finite, and larger elements have higher ranks.
LEMMA RankGrows ==
    ASSUME NEW N \in Nat, NEW S \in SUBSET (0 .. N)
    PROVE  /\ IsFiniteSet(S) /\ Cardinality(S) \in Nat
           /\ \A i \in S : Rank(S, i) \in 1 .. Cardinality(S)
           /\ \A i, j \in S : i < j <=> Rank(S, i) < Rank(S, j)
           /\ \A i, j \in S : i = j <=> Rank(S, i) = Rank(S, j)
<1>0. \A i \in S : i \in Nat
  OBVIOUS
<1>1. IsFiniteSet(S) /\ Cardinality(S) \in Nat
  <2>1. IsFiniteSet(0 .. N)
    BY FS_Interval
  <2> QED
    BY <2>1, FS_Subset, FS_CardinalityType
<1>2. ASSUME NEW i \in S PROVE Rank(S, i) \in 1 .. Cardinality(S)
  <2> DEFINE T == {j \in S : j <= i}
  <2>1. T \in SUBSET S /\ i \in T
    OBVIOUS
  <2>2. IsFiniteSet(T) /\ Cardinality(T) <= Cardinality(S)
    BY <1>1, <2>1, FS_Subset
  <2>3. Cardinality(T) \in Nat /\ Cardinality(T) # 0
    BY <2>1, <2>2, FS_CardinalityType, FS_EmptySet
  <2> HIDE DEF T
  <2>4. Cardinality(T) \in 1 .. Cardinality(S)
    BY <1>1, <2>2, <2>3
  <2> QED
    BY <2>4 DEF T, Rank
<1>3. ASSUME NEW i \in S, NEW j \in S, i < j PROVE Rank(S, i) < Rank(S, j)
  <2> DEFINE T == {k \in S : k <= i}
             U == {k \in S : k <= j}
  <2>1. T \in SUBSET U /\ j \in U /\ j \notin T /\ U \in SUBSET S
    <3>1. i \in Nat /\ j \in Nat
      BY <1>0
    <3>2. \A k \in S : k <= i => k <= j
      BY <1>0, <1>3, <3>1
    <3>3. j <= j /\ ~ (j <= i)
      BY <1>3, <3>1
    <3> QED
      BY <3>2, <3>3
  <2>2. IsFiniteSet(U) /\ IsFiniteSet(T) /\ Cardinality(T) \in Nat /\ Cardinality(U) \in Nat
    BY <1>1, <2>1, FS_Subset, FS_CardinalityType
  <2>3. Cardinality(T) <= Cardinality(U) /\ Cardinality(T) # Cardinality(U)
    BY <2>1, <2>2, FS_Subset
  <2> HIDE DEF T, U
  <2>4. Cardinality(T) < Cardinality(U)
    BY <2>2, <2>3
  <2> QED
    BY <2>4 DEF T, U, Rank
<1>4. ASSUME NEW i \in S, NEW j \in S
      PROVE  /\ i < j <=> Rank(S, i) < Rank(S, j)
             /\ i = j <=> Rank(S, i) = Rank(S, j)
  <2>1. i \in Nat /\ j \in Nat /\ Rank(S, i) \in Nat /\ Rank(S, j) \in Nat
    BY <1>1, <1>2
  <2>2. /\ i < j => Rank(S, i) < Rank(S, j)
        /\ j < i => Rank(S, j) < Rank(S, i)
        /\ i = j => Rank(S, i) = Rank(S, j)
    BY <1>3
  <2> QED
    BY <2>1, <2>2
<1> QED
  BY <1>1, <1>2, <1>4

\* Every rank is somebody's.
LEMMA RankTaken ==
    ASSUME NEW N \in Nat, NEW S \in SUBSET (0 .. N), NEW k \in 1 .. Cardinality(S)
    PROVE  \E i \in S : Rank(S, i) = k
<1>0. \A i \in S : i \in Nat
  OBVIOUS
<1>1. /\ IsFiniteSet(S) /\ Cardinality(S) \in Nat
      /\ \A i \in S : Rank(S, i) \in 1 .. Cardinality(S)
  BY RankGrows
<1>2. S # {}
  BY <1>1, FS_EmptySet
<1> DEFINE T == {i \in S : Rank(S, i) >= k}
<1>3. T # {}
  <2>1. PICK i \in S : \A j \in S : j <= i
    BY <1>2, LargestNat
  <2>2. {j \in S : j <= i} = S
    BY <2>1
  <2>3. Rank(S, i) = Cardinality(S)
    BY <2>2 DEF Rank
  <2> QED
    BY <1>1, <2>3
<1>4. PICK i \in T : \A j \in T : i <= j
  <2>1. T \in SUBSET Nat
    BY <1>0
  <2> QED
    BY <1>3, <2>1, SmallestNat
<1> DEFINE L == {j \in S : j < i}
<1>5. i \in S /\ Rank(S, i) \in Nat /\ Rank(S, i) >= k /\ i \in Nat
  BY <1>0, <1>1
<1>6. L \in SUBSET S /\ IsFiniteSet(L) /\ Cardinality(L) \in Nat /\ L \in SUBSET (0 .. N)
  BY <1>1, FS_Subset, FS_CardinalityType
<1>7. Rank(S, i) = Cardinality(L) + 1
  <2>1. {j \in S : j <= i} = L \cup {i} /\ i \notin L
    <3>1. \A j \in S : j <= i <=> j < i \/ j = i
      BY <1>0, <1>5
    <3>2. ~ (i < i)
      BY <1>5
    <3> QED
      BY <1>5, <3>1, <3>2
  <2> QED
    BY <1>6, <2>1, FS_AddElement DEF Rank
<1>8. CASE L = {}
  <2>1. Rank(S, i) = 1
    BY <1>7, <1>8, FS_EmptySet
  <2> QED
    BY <1>5, <2>1
<1>9. CASE L # {}
  <2>1. PICK m \in L : \A j \in L : j <= m
    BY <1>6, <1>9, LargestNat
  <2>2. m \in S /\ m < i /\ m \in Nat /\ {j \in S : j <= m} = L
    <3>1. m \in S /\ m < i /\ m \in Nat
      BY <1>0, <2>1
    <3>2. \A j \in S : j <= m <=> j < i
      BY <1>0, <1>5, <2>1, <3>1
    <3> QED
      BY <3>1, <3>2
  <2>3. Rank(S, m) = Cardinality(L)
    BY <2>2 DEF Rank
  <2>4. m \notin T
    BY <1>4, <1>5, <2>2
  <2>5. ~ (Cardinality(L) >= k)
    BY <2>2, <2>3, <2>4
  <2> HIDE DEF L
  <2>6. Rank(S, i) = k
    BY <1>5, <1>6, <1>7, <2>5
  <2> QED
    BY <1>5, <2>6
<1> QED
  BY <1>8, <1>9

\* Nth lists a bounded set in increasing order, the smallest elements first.
LEMMA NthLists ==
    ASSUME NEW N \in Nat, NEW S \in SUBSET (0 .. N), NEW n \in 0 .. Cardinality(S)
    PROVE  /\ \A k \in 1 .. n : Nth(S, k) \in S
           /\ \A k, l \in 1 .. n : k < l => Nth(S, k) < Nth(S, l)
           /\ \A k, l \in 1 .. n : Nth(S, k) = Nth(S, l) => k = l
           /\ \A i \in S, k \in 1 .. n : i <= Nth(S, k) => \E l \in 1 .. k : i = Nth(S, l)
           /\ n = Cardinality(S) => \A i \in S : \E l \in 1 .. n : i = Nth(S, l)
<1>1. /\ IsFiniteSet(S) /\ Cardinality(S) \in Nat
      /\ \A i \in S : Rank(S, i) \in 1 .. Cardinality(S)
      /\ \A i, j \in S : i < j <=> Rank(S, i) < Rank(S, j)
      /\ \A i, j \in S : i = j <=> Rank(S, i) = Rank(S, j)
  BY RankGrows
<1>2. ASSUME NEW k \in 1 .. Cardinality(S)
      PROVE  Nth(S, k) \in S /\ Rank(S, Nth(S, k)) = k
  <2>1. \E i \in S : Rank(S, i) = k
    BY RankTaken
  <2> QED
    BY <2>1 DEF Nth, Rank
<1>3. ASSUME NEW i \in S PROVE i = Nth(S, Rank(S, i))
  BY <1>1, <1>2
<1>4. \A k \in 1 .. n : k \in 1 .. Cardinality(S)
  BY <1>1
<1>5. ASSUME NEW i \in S, NEW k \in 1 .. n, i <= Nth(S, k)
      PROVE  \E l \in 1 .. k : i = Nth(S, l)
  <2>1. i \in Nat /\ Nth(S, k) \in S /\ Nth(S, k) \in Nat /\ Rank(S, Nth(S, k)) = k
    <3>1. Nth(S, k) \in S /\ Rank(S, Nth(S, k)) = k
      BY <1>2, <1>4
    <3>2. \A j \in S : j \in Nat
      OBVIOUS
    <3> QED
      BY <3>1, <3>2
  <2>2. Rank(S, i) <= k
    BY <1>1, <1>5, <2>1
  <2>3. Rank(S, i) \in 1 .. k
    BY <1>1, <2>2
  <2> QED
    BY <1>3, <2>3
<1>6. /\ \A k, l \in 1 .. n : k < l => Nth(S, k) < Nth(S, l)
      /\ \A k, l \in 1 .. n : Nth(S, k) = Nth(S, l) => k = l
  BY <1>1, <1>2, <1>4
<1>7. n = Cardinality(S) => \A i \in S : \E l \in 1 .. n : i = Nth(S, l)
  BY <1>1, <1>3
<1> QED
  BY <1>2, <1>4, <1>5, <1>6, <1>7

-----------------------------------------------------------------------------
(***************************************************************************)
(* Slots of a ring, and the entries of the free list.                      *)
(***************************************************************************)
LEMMA FunctionIsSeq ==
    ASSUME NEW S, NEW n \in Nat, NEW f \in [1 .. n -> S]
    PROVE  f \in Seq(S) /\ Len(f) = n /\ DOMAIN f = 1 .. n
<1>1. f \in Seq(S)
  BY SeqDef
<1>2. Len(f) \in Nat /\ DOMAIN f = 1 .. Len(f) /\ DOMAIN f = 1 .. n
  BY <1>1, LenProperties
<1> QED
  BY <1>1, <1>2

\* Where a slot number lands that is at most one round off the ring.
LEMMA ModCases ==
    ASSUME NEW x \in Nat, x < 2 * Capacity
    PROVE  x % Capacity = IF x < Capacity THEN x ELSE x - Capacity
BY ConsumingAssumption

\* How far the ring has to go from one slot to another.
Distance(from, s) == IF s >= from THEN s - from ELSE s - from + Capacity

LEMMA DistanceProps ==
    ASSUME NEW from \in Slots
    PROVE  /\ \A s \in Slots : /\ Distance(from, s) \in 0 .. Capacity - 1
                               /\ (from + Distance(from, s)) % Capacity = s
           /\ \A k \in 0 .. Capacity - 1 : /\ (from + k) % Capacity \in Slots
                                           /\ Distance(from, (from + k) % Capacity) = k
<1>1. Capacity \in Nat \ {0} /\ from \in Nat /\ from < Capacity
  BY ConsumingAssumption DEF Slots
<1>2. ASSUME NEW s \in Slots
      PROVE  /\ Distance(from, s) \in 0 .. Capacity - 1
             /\ (from + Distance(from, s)) % Capacity = s
  <2>1. s \in Nat /\ s < Capacity
    BY <1>1 DEF Slots
  <2>2. Distance(from, s) \in 0 .. Capacity - 1
    BY <1>1, <2>1 DEF Distance
  <2>3. from + Distance(from, s) \in Nat /\ from + Distance(from, s) < 2 * Capacity
    BY <1>1, <2>2
  <2>4. from + Distance(from, s) = IF s >= from THEN s ELSE s + Capacity
    BY <1>1, <2>1 DEF Distance
  <2> DEFINE x == from + Distance(from, s)
  <2>5. x % Capacity = s
    <3>1. x \in Nat /\ x < 2 * Capacity /\ x = IF s >= from THEN s ELSE s + Capacity
      BY <2>3, <2>4
    <3> HIDE DEF x
    <3>2. x % Capacity = IF x < Capacity THEN x ELSE x - Capacity
      BY <3>1, ModCases
    <3> QED
      BY <1>1, <2>1, <3>1, <3>2
  <2> QED
    BY <2>2, <2>5
<1>3. ASSUME NEW k \in 0 .. Capacity - 1
      PROVE  /\ (from + k) % Capacity \in Slots
             /\ Distance(from, (from + k) % Capacity) = k
  <2>1. k \in Nat /\ k < Capacity /\ from + k \in Nat /\ from + k < 2 * Capacity
    BY <1>1
  <2> DEFINE x == from + k
  <2>2. x % Capacity \in Slots /\ Distance(from, x % Capacity) = k
    <3>1. x \in Nat /\ x < 2 * Capacity /\ k = x - from
      BY <1>1, <2>1
    <3> HIDE DEF x
    <3>2. x % Capacity = IF x < Capacity THEN x ELSE x - Capacity
      BY <3>1, ModCases
    <3>3. x % Capacity \in Slots
      BY <1>1, <2>1, <3>1, <3>2 DEF Slots
    <3> QED
      BY <1>1, <2>1, <3>1, <3>2, <3>3 DEF Distance
  <2> QED
    BY <2>2
<1> QED
  BY <1>2, <1>3

\* There are n slots of the ring that are not skipped.
LEMMA EnoughPlaces ==
    ASSUME NEW from \in Slots, NEW skip, IsFiniteSet(skip), NEW n \in Nat,
           n + Cardinality(skip) <= Capacity
    PROVE  n <= Cardinality({k \in 0 .. Capacity - 1 : (from + k) % Capacity \notin skip})
<1> DEFINE ring == 0 .. Capacity - 1
           closed == {k \in ring : (from + k) % Capacity \in skip}
           open == {k \in ring : (from + k) % Capacity \notin skip}
           slot == [k \in closed |-> (from + k) % Capacity]
<1>1. Capacity \in Nat /\ Capacity > 0
  BY ConsumingAssumption
<1>2. IsFiniteSet(ring) /\ Cardinality(ring) = Capacity
  BY <1>1, FS_Interval
<1>3. Cardinality(closed) <= Cardinality(skip)
  <2>1. \A k, l \in ring : (from + k) % Capacity = (from + l) % Capacity => k = l
    BY DistanceProps
  <2>2. slot \in Injection(closed, skip)
    BY <2>1 DEF Injection, IsInjective
  <2> QED
    BY <2>2, FS_Injection
<1>4. ring \ closed = open /\ ring \cap closed = closed
  OBVIOUS
<1> HIDE DEF ring, closed, open
<1>5. Cardinality(open) = Capacity - Cardinality(closed)
  BY <1>2, <1>4, FS_Difference
<1>6. Cardinality(closed) \in Nat /\ Cardinality(skip) \in Nat
  BY <1>2, <1>4, FS_Intersection, FS_CardinalityType
<1>7. n <= Cardinality(open)
  BY <1>1, <1>3, <1>5, <1>6
<1> QED
  BY <1>7 DEF open, ring

\* The slots `at` of the places of a write are the n nearest that are not skipped, in
\* the order the ring reaches them.
Nearest(from, n, skip, at) ==
    LET places == RingPlaces(from, n, skip)
    IN  /\ places \in Seq(Nat) /\ Len(places) = n
        /\ at \in Seq(Slots) /\ Len(at) = n
        /\ \A k \in 1 .. n : at[k] \notin skip
        /\ \A k, l \in 1 .. n : at[k] = at[l] => k = l
        /\ \A s \in Slots, k \in 1 .. n :
               s \notin skip /\ Distance(from, s) <= Distance(from, at[k])
                   => \E l \in 1 .. n : at[l] = s
        /\ n > 0 => /\ (from + Last(places) + 1) % Capacity
                           = IF at[n] = Capacity - 1 THEN 0 ELSE at[n] + 1
                    /\ \A k \in 1 .. n : Distance(from, at[k]) <= Distance(from, at[n])

LEMMA RingSlots ==
    ASSUME NEW from \in Slots, NEW skip, IsFiniteSet(skip), NEW n \in Nat,
           n + Cardinality(skip) <= Capacity
    PROVE  Nearest(from, n, skip, SlotsAt(from, RingPlaces(from, n, skip)))
<1> DEFINE at == SlotsAt(from, RingPlaces(from, n, skip))
<1> DEFINE open == {k \in 0 .. Capacity - 1 : (from + k) % Capacity \notin skip}
           p == [i \in 1 .. n |-> Nth(open, i)]
<1>1. Capacity \in Nat /\ Capacity > 0 /\ Capacity - 1 \in Nat
  BY ConsumingAssumption
<1>2. n \in 0 .. Cardinality(open)
  <2>1. n <= Cardinality(open)
    BY EnoughPlaces
  <2>2. IsFiniteSet(0 .. Capacity - 1) /\ open \in SUBSET (0 .. Capacity - 1)
    BY <1>1, FS_Interval
  <2> HIDE DEF open
  <2>3. IsFiniteSet(open)
    BY <2>2, FS_Subset
  <2>4. Cardinality(open) \in Nat
    BY <2>3, FS_CardinalityType
  <2> QED
    BY <2>1, <2>4
<1>3. /\ \A k \in 1 .. n : Nth(open, k) \in open
      /\ \A k, l \in 1 .. n : k < l => Nth(open, k) < Nth(open, l)
      /\ \A k, l \in 1 .. n : Nth(open, k) = Nth(open, l) => k = l
      /\ \A i \in open, k \in 1 .. n :
             i <= Nth(open, k) => \E l \in 1 .. k : i = Nth(open, l)
  <2>1. open \in SUBSET (0 .. Capacity - 1)
    OBVIOUS
  <2> HIDE DEF open
  <2> QED
    BY <1>1, <1>2, <2>1, NthLists
<1>4. RingPlaces(from, n, skip) = p
  BY DEF RingPlaces
<1>5. p \in [1 .. n -> 0 .. Capacity - 1] /\ \A k \in 1 .. n : p[k] = Nth(open, k)
  BY <1>3
<1>6. p \in Seq(0 .. Capacity - 1) /\ p \in Seq(Nat) /\ Len(p) = n /\ DOMAIN p = 1 .. n
  BY <1>1, <1>5, FunctionIsSeq, SeqMonotonic
<1>7. /\ \A k \in 1 .. n : p[k] \in 0 .. Capacity - 1 /\ (from + p[k]) % Capacity \notin skip
      /\ \A k, l \in 1 .. n : k < l => p[k] < p[l]
      /\ \A k, l \in 1 .. n : p[k] = p[l] => k = l
      /\ \A i \in 0 .. Capacity - 1, k \in 1 .. n :
             (from + i) % Capacity \notin skip /\ i <= p[k] => \E l \in 1 .. k : i = p[l]
  <2>1. \A i : i \in open <=> i \in 0 .. Capacity - 1 /\ (from + i) % Capacity \notin skip
    OBVIOUS
  <2>2. \A k \in 1 .. n : \A l \in 1 .. k : l \in 1 .. n
    OBVIOUS
  <2>3. \A k \in 1 .. n : p[k] = Nth(open, k)
    BY <1>5
  <2> HIDE DEF p, open
  <2>4. \A k \in 1 .. n : p[k] \in 0 .. Capacity - 1 /\ (from + p[k]) % Capacity \notin skip
    BY <1>3, <2>1, <2>3
  <2>5. /\ \A k, l \in 1 .. n : k < l => p[k] < p[l]
        /\ \A k, l \in 1 .. n : p[k] = p[l] => k = l
    BY <1>3, <2>3
  <2>6. ASSUME NEW i \in 0 .. Capacity - 1, NEW k \in 1 .. n,
               (from + i) % Capacity \notin skip, i <= p[k]
        PROVE  \E l \in 1 .. k : i = p[l]
    <3>1. i \in open /\ i <= Nth(open, k)
      BY <2>1, <2>3, <2>6
    <3>2. PICK l \in 1 .. k : i = Nth(open, l)
      BY <1>3, <3>1
    <3> QED
      BY <2>2, <2>3, <3>2
  <2> QED
    BY <2>4, <2>5, <2>6
<1> HIDE DEF p, open
<1>8. /\ \A k \in 1 .. n : at[k] = (from + p[k]) % Capacity
      /\ at \in [1 .. n -> Slots]
  BY <1>4, <1>6, <1>7, DistanceProps DEF SlotsAt
<1> HIDE DEF at
<1>9. at \in Seq(Slots) /\ Len(at) = n
  BY <1>8, FunctionIsSeq
<1>10. ASSUME NEW k \in 1 .. n PROVE Distance(from, at[k]) = p[k] /\ at[k] \in Slots
  <2>1. p[k] \in 0 .. Capacity - 1 /\ at[k] = (from + p[k]) % Capacity
    BY <1>7, <1>8
  <2> QED
    BY <2>1, DistanceProps
<1>11. \A k, l \in 1 .. n : at[k] = at[l] => k = l
  BY <1>7, <1>10
<1>12. ASSUME NEW s \in Slots, NEW k \in 1 .. n,
              s \notin skip, Distance(from, s) <= Distance(from, at[k])
       PROVE  \E l \in 1 .. n : at[l] = s
  <2>1. /\ Distance(from, s) \in 0 .. Capacity - 1
        /\ (from + Distance(from, s)) % Capacity = s
    BY DistanceProps
  <2>2. PICK l \in 1 .. k : Distance(from, s) = p[l]
    BY <1>7, <1>10, <1>12, <2>1
  <2>3. l \in 1 .. n
    OBVIOUS
  <2> QED
    BY <1>8, <2>1, <2>2, <2>3
<1>13. ASSUME n > 0
       PROVE  /\ (from + Last(RingPlaces(from, n, skip)) + 1) % Capacity
                     = IF at[n] = Capacity - 1 THEN 0 ELSE at[n] + 1
              /\ \A k \in 1 .. n : Distance(from, at[k]) <= Distance(from, at[n])
  <2>1. n \in 1 .. n /\ p[n] \in 0 .. Capacity - 1
    BY <1>7, <1>13
  <2>2. Last(RingPlaces(from, n, skip)) = p[n]
    BY <1>4, <1>6 DEF Last
  <2>3. (from + p[n] + 1) % Capacity = IF at[n] = Capacity - 1 THEN 0 ELSE at[n] + 1
    <3> DEFINE x == from + p[n]
               y == x + 1
    <3>1. x \in Nat /\ y \in Nat /\ x < 2 * Capacity /\ y < 2 * Capacity /\ y = x + 1
      BY <1>1, <2>1 DEF Slots
    <3>2. at[n] = x % Capacity
      BY <1>8, <2>1
    <3> HIDE DEF x, y
    <3>3. x % Capacity = (IF x < Capacity THEN x ELSE x - Capacity)
      BY <3>1, ModCases
    <3>4. y % Capacity = (IF y < Capacity THEN y ELSE y - Capacity)
      BY <3>1, ModCases
    <3>5. y % Capacity = IF at[n] = Capacity - 1 THEN 0 ELSE at[n] + 1
      BY <1>1, <3>1, <3>2, <3>3, <3>4
    <3> QED
      BY <3>5 DEF x, y
  <2>4. ASSUME NEW k \in 1 .. n PROVE Distance(from, at[k]) <= Distance(from, at[n])
    <3>1. k < n \/ k = n
      OBVIOUS
    <3>2. p[k] <= p[n]
      BY <1>7, <2>1, <3>1
    <3> QED
      BY <1>10, <2>1, <3>2
  <2> QED
    BY <2>2, <2>3, <2>4
<1> QED
  BY <1>4, <1>6, <1>7, <1>8, <1>9, <1>11, <1>12, <1>13 DEF Nearest, at

-----------------------------------------------------------------------------
(***************************************************************************)
(* The entries a write takes from the free list, and those it leaves.      *)
(***************************************************************************)
LEMMA ListEntries ==
    ASSUME NEW f \in Seq(Slots)
    PROVE  /\ Len(f) \in Nat /\ DOMAIN f = 1 .. Len(f)
           /\ \A i \in 1 .. Len(f) : f[i] \in Slots
           /\ \A s : s \in ToSet(f) <=> \E i \in 1 .. Len(f) : f[i] = s
           /\ ToSet(f) \in SUBSET Slots /\ IsFiniteSet(ToSet(f))
           /\ Cardinality(ToSet(f)) \in Nat /\ Cardinality(ToSet(f)) <= Len(f)
<1>1. Len(f) \in Nat /\ DOMAIN f = 1 .. Len(f) /\ f \in [1 .. Len(f) -> Slots]
  BY LenProperties
<1>2. \A s : s \in ToSet(f) <=> \E i \in 1 .. Len(f) : f[i] = s
  BY <1>1 DEF ToSet
<1>3. ToSet(f) \in SUBSET Slots
  BY <1>1, <1>2
<1>4. IsFiniteSet(1 .. Len(f)) /\ Cardinality(1 .. Len(f)) = Len(f)
  BY <1>1, FS_Interval
<1>5. f \in Surjection(1 .. Len(f), ToSet(f))
  BY <1>1, <1>2 DEF Surjection
<1>6. IsFiniteSet(ToSet(f)) /\ Cardinality(ToSet(f)) <= Len(f)
  BY <1>4, <1>5, FS_Surjection
<1>7. Cardinality(ToSet(f)) \in Nat
  BY <1>6, FS_CardinalityType
<1> QED
  BY <1>1, <1>2, <1>3, <1>6, <1>7

\* Whatever is in the list, a write takes at most n entries that are reusable.
LEMMA PoppedType ==
    ASSUME free \in Seq(Slots), NEW n \in Nat \ {0}
    PROVE  /\ Popped(n) \in Seq(Slots) /\ Len(Popped(n)) \in 0 .. n
           /\ \A k \in 1 .. Len(Popped(n)) : Popped(n)[k] \in Slots /\ Reusable(Popped(n)[k])
           /\ Unpopped(n) \in Seq(Slots)
<1> DEFINE c == Cardinality(Offered)
           m == Smaller(n, c)
           e == [k \in 1 .. m |-> free[Nth(Offered, k)]]
<1>1. /\ Len(free) \in Nat /\ DOMAIN free = 1 .. Len(free)
      /\ \A i \in 1 .. Len(free) : free[i] \in Slots
  BY ListEntries
<1>2. Offered \in SUBSET (1 .. Len(free)) /\ Offered \in SUBSET (0 .. Len(free))
  BY <1>1 DEF Offered
<1>3. c \in Nat
  BY <1>1, <1>2, RankGrows
<1> HIDE DEF c
<1>4. m \in 0 .. n /\ m \in 0 .. c /\ m \in Nat
  BY <1>3 DEF Smaller
<1>5. \A k \in 1 .. m : Nth(Offered, k) \in Offered
  BY <1>1, <1>2, <1>4, NthLists DEF c
<1> HIDE DEF m
<1>6. \A k \in 1 .. m : free[Nth(Offered, k)] \in Slots /\ Reusable(free[Nth(Offered, k)])
  BY <1>1, <1>2, <1>5 DEF Offered
<1>7. e \in [1 .. m -> Slots] /\ \A k \in 1 .. m : Reusable(e[k]) /\ e[k] \in Slots
  BY <1>6
<1>8. Popped(n) = e
  BY DEF Popped, m, c
<1> HIDE DEF e
<1>9. e \in Seq(Slots) /\ Len(e) = m
  BY <1>4, <1>7, FunctionIsSeq
<1>10. Unpopped(n) \in Seq(Slots)
  <2>1. CASE c < n
    BY <2>1, EmptySeq DEF Unpopped, c
  <2>2. CASE ~ (c < n)
    <3>1. n \in 1 .. m
      BY <1>3, <2>2 DEF m, Smaller
    <3> DEFINE q == Nth(Offered, n)
    <3>2. q \in 1 .. Len(free)
      BY <1>2, <1>5, <3>1
    <3> HIDE DEF q
    <3>3. q + 1 \in Int /\ Len(free) \in Int /\ \A i \in q + 1 .. Len(free) : free[i] \in Slots
      BY <1>1, <3>2
    <3>4. SubSeq(free, q + 1, Len(free)) \in Seq(Slots)
      BY <3>3, SubSeqProperties
    <3> QED
      BY <2>2, <3>4 DEF Unpopped, c, q
  <2> QED
    BY <2>1, <2>2
<1> QED
  BY <1>4, <1>7, <1>8, <1>9, <1>10

\* The k-th smallest of 1 .. n is k.
LEMMA NthOfInterval ==
    ASSUME NEW n \in Nat, NEW k \in 1 .. n
    PROVE  Nth(1 .. n, k) = k
<1> DEFINE S == 1 .. n
<1>1. S \in SUBSET (0 .. n) /\ k \in S
  OBVIOUS
<1>2. {j \in S : j <= k} = 1 .. k
  OBVIOUS
<1>3. Rank(S, k) = k
  <2>1. k \in Int /\ k >= 1 /\ k - 1 + 1 = k
    OBVIOUS
  <2>2. Cardinality(1 .. k) = k
    BY <2>1, FS_Interval
  <2> QED
    BY <1>2, <2>2 DEF Rank
<1> HIDE DEF S
<1>4. \A i \in S : Rank(S, i) = k <=> i = k
  <2>1. \A i, j \in S : i = j <=> Rank(S, i) = Rank(S, j)
    BY <1>1, RankGrows
  <2> QED
    BY <1>1, <1>3, <2>1
<1>5. Nth(S, k) = k
  BY <1>1, <1>4 DEF Nth, Rank
<1> QED
  BY <1>5 DEF S

\* When the list is exact, a write takes its first entries and leaves the others; it
\* takes none from the ring while a consumed slot is left.
LEMMA PoppedExact ==
    ASSUME TypeInv, Exact(StateDict), NEW n \in Nat \ {0}
    PROVE  /\ \A s \in Slots : Reusable(s) <=> s < len /\ s \notin live
           /\ \A k, l \in 1 .. Len(Popped(n)) : Popped(n)[k] = Popped(n)[l] => k = l
           /\ \A s \in Slots :
                  Reusable(s) /\ s \notin ToSet(Popped(n)) <=> \E i \in DOMAIN Unpopped(n) : Unpopped(n)[i] = s
           /\ \A i, j \in DOMAIN Unpopped(n) : Unpopped(n)[i] = Unpopped(n)[j] => i = j
           /\ Len(Popped(n)) < n => \A s \in Slots : Reusable(s) => s \in ToSet(Popped(n))
<1>1. /\ free \in Seq(Slots) /\ known = len
      /\ \A s \in Slots : s < len /\ s \notin live => count[s] = MaxSampleCount
      /\ \A s \in Slots : s < len /\ s \notin live <=> \E i \in DOMAIN free : free[i] = s
      /\ \A i, j \in DOMAIN free : free[i] = free[j] => i = j
  BY DEF TypeInv, Typed, Exact, Counted, Listed, StateDict
<1>2. \A s \in Slots : Reusable(s) <=> s < len /\ s \notin live
  BY <1>1, ConsumingAssumption DEF Reusable
<1> DEFINE L == Len(free)
           P == Popped(n)
           U == Unpopped(n)
<1>3. /\ L \in Nat /\ DOMAIN free = 1 .. L
      /\ \A i \in 1 .. L : free[i] \in Slots
  BY <1>1, ListEntries
<1>4. Offered = 1 .. L
  <2>1. \A i \in DOMAIN free : Reusable(free[i])
    BY <1>1, <1>2, <1>3
  <2> QED
    BY <1>3, <2>1 DEF Offered
<1>5. Cardinality(Offered) = L
  BY <1>3, <1>4, FS_Interval
<1>6. P \in Seq(Slots) /\ U \in Seq(Slots)
  BY <1>1, PoppedType
<1>7. P = [k \in 1 .. Smaller(n, L) |-> free[Nth(Offered, k)]]
  BY <1>5 DEF Popped
<1>8. Smaller(n, L) \in Nat /\ Smaller(n, L) <= L /\ Smaller(n, L) = IF n < L THEN n ELSE L
  BY <1>3 DEF Smaller
<1>9. Len(P) = Smaller(n, L) /\ \A k \in 1 .. Len(P) : P[k] = free[k]
  <2>1. DOMAIN P = 1 .. Smaller(n, L) /\ \A k \in 1 .. Smaller(n, L) : P[k] = free[Nth(Offered, k)]
    BY <1>7
  <2> HIDE DEF P, L
  <2>2. Len(P) = Smaller(n, L)
    <3>1. P \in [1 .. Smaller(n, L) -> Slots]
      BY <1>6, <2>1, LenProperties
    <3> QED
      BY <1>8, <3>1, FunctionIsSeq
  <2>3. ASSUME NEW k \in 1 .. Len(P) PROVE P[k] = free[k]
    <3>1. k \in 1 .. L /\ k \in 1 .. Smaller(n, L)
      BY <1>3, <1>8, <2>2
    <3>2. Nth(Offered, k) = k
      BY <1>3, <1>4, <3>1, NthOfInterval
    <3> QED
      BY <2>1, <3>1, <3>2
  <2> QED
    BY <2>2, <2>3
<1>10. \A s : s \in ToSet(P) <=> \E k \in 1 .. Len(P) : P[k] = s
  BY <1>6, ListEntries
<1>11. CASE L < n
  <2>1. Len(P) = L /\ U = <<>>
    <3>1. U = <<>>
      BY <1>5, <1>11 DEF Unpopped
    <3> HIDE DEF P, U, L
    <3> QED
      BY <1>3, <1>8, <1>9, <1>11, <3>1
  <2>2. DOMAIN U = {}
    BY <2>1
  <2> HIDE DEF P, U, L
  <2>3. \A s \in Slots : Reusable(s) => s \in ToSet(P)
    BY <1>1, <1>2, <1>3, <1>9, <1>10, <2>1
  <2>4. \A k, l \in 1 .. Len(P) : P[k] = P[l] => k = l
    BY <1>1, <1>3, <1>9, <2>1
  <2> QED
    BY <1>2, <2>2, <2>3, <2>4 DEF P, U
<1>12. CASE ~ (L < n)
  <2>1. Len(P) = n /\ n \in 1 .. L
    <3> HIDE DEF P, U, L
    <3> QED
      BY <1>3, <1>8, <1>9, <1>12
  <2>2. Nth(Offered, n) = n
    BY <1>3, <1>4, <2>1, NthOfInterval
  <2>3. U = SubSeq(free, n + 1, L)
    BY <1>5, <1>12, <2>2 DEF Unpopped
  <2>4. /\ Len(U) = L - n
        /\ \A i \in 1 .. L - n : U[i] = free[n + i]
    <3>1. n + 1 \in Int /\ L \in Int /\ \A i \in n + 1 .. L : free[i] \in Slots
      BY <1>3, <2>1
    <3>2. /\ Len(U) = IF n + 1 <= L THEN L - (n + 1) + 1 ELSE 0
          /\ \A i \in 1 .. L - (n + 1) + 1 : U[i] = free[n + 1 + i - 1]
      BY <2>3, <3>1, SubSeqProperties
    <3> HIDE DEF L, U
    <3>3. L \in Nat /\ n \in Nat /\ n <= L
      BY <1>3, <2>1
    <3>4. L - (n + 1) + 1 = L - n /\ (n + 1 <= L \/ L - n = 0)
      BY <3>3
    <3>5. Len(U) = L - n
      BY <3>2, <3>3, <3>4
    <3>6. ASSUME NEW i \in 1 .. L - n PROVE U[i] = free[n + i]
      <4>1. n + 1 + i - 1 = n + i
        BY <3>3
      <4> QED
        BY <3>2, <3>4, <4>1
    <3> QED
      BY <3>5, <3>6
  <2>5. DOMAIN U = 1 .. L - n
    BY <1>6, <2>4, LenProperties
  <2> HIDE DEF P, U, L
  <2>6. \A i \in 1 .. L - n : n + i \in 1 .. L /\ n + i > n
    BY <1>3, <2>1
  <2>7. \A k, l \in 1 .. Len(P) : P[k] = P[l] => k = l
    BY <1>1, <1>3, <1>9, <2>1
  <2>8. ASSUME NEW s \in Slots
        PROVE  Reusable(s) /\ s \notin ToSet(P) <=> \E i \in DOMAIN U : U[i] = s
    <3>1. ASSUME Reusable(s), s \notin ToSet(P) PROVE \E i \in DOMAIN U : U[i] = s
      <4>1. PICK j \in 1 .. L : free[j] = s
        BY <1>1, <1>2, <1>3, <3>1
      <4>2. ~ (j <= n)
        BY <1>9, <1>10, <2>1, <3>1, <4>1
      <4>3. j - n \in 1 .. L - n /\ n + (j - n) = j
        BY <1>3, <2>1, <4>2
      <4> QED
        BY <2>4, <2>5, <4>1, <4>3
    <3>2. ASSUME NEW i \in DOMAIN U, U[i] = s PROVE Reusable(s) /\ s \notin ToSet(P)
      <4>1. free[n + i] = s /\ n + i \in 1 .. L /\ n + i > n
        BY <2>4, <2>5, <2>6, <3>2
      <4>2. ASSUME NEW k \in 1 .. Len(P), P[k] = s PROVE FALSE
        <5>1. k \in 1 .. L /\ k <= n /\ free[k] = s
          BY <1>3, <1>9, <2>1, <4>2
        <5>2. k = n + i
          BY <1>1, <1>3, <4>1, <5>1
        <5> QED
          BY <2>1, <4>1, <5>1, <5>2
      <4> QED
        BY <1>1, <1>2, <1>3, <1>10, <4>1, <4>2
    <3> QED
      BY <3>1, <3>2
  <2>9. ASSUME NEW i \in DOMAIN U, NEW j \in DOMAIN U, U[i] = U[j] PROVE i = j
    <3>1. n + i = n + j
      BY <1>1, <1>3, <2>4, <2>5, <2>6, <2>9
    <3> QED
      BY <1>3, <2>1, <2>5, <3>1
  <2> QED
    BY <1>2, <2>1, <2>7, <2>8, <2>9 DEF P, U
<1> QED
  BY <1>11, <1>12

-----------------------------------------------------------------------------
(***************************************************************************)
(* Writes.                                                                 *)
(***************************************************************************)
\* The slots of add and extend: entries of the free list, then places of the ring.
Places(n) == RingPlaces(cursor, n - Len(Popped(n)), ToSet(Popped(n)))
Ringed(n) == SlotsAt(cursor, Places(n))
Targets(n) == Popped(n) \o Ringed(n)

LEMMA TargetsType ==
    ASSUME cursor \in Slots, free \in Seq(Slots), NEW n \in 1 .. Capacity
    PROVE  LET m == Len(Popped(n))
               skip == ToSet(Popped(n))
           IN  /\ m \in 0 .. n
               /\ Places(n) \in Seq(Nat) /\ Len(Places(n)) = n - m
               /\ Ringed(n) \in Seq(Slots) /\ Len(Ringed(n)) = n - m
               /\ \A k \in 1 .. n - m : Ringed(n)[k] \notin skip
               /\ \A k, l \in 1 .. n - m : Ringed(n)[k] = Ringed(n)[l] => k = l
               /\ \A s \in Slots, k \in 1 .. n - m :
                      s \notin skip /\ Distance(cursor, s) <= Distance(cursor, Ringed(n)[k])
                          => \E l \in 1 .. n - m : Ringed(n)[l] = s
               /\ m < n => /\ (cursor + Last(Places(n)) + 1) % Capacity
                                  = IF Ringed(n)[n - m] = Capacity - 1 THEN 0 ELSE Ringed(n)[n - m] + 1
                           /\ \A k \in 1 .. n - m :
                                  Distance(cursor, Ringed(n)[k]) <= Distance(cursor, Ringed(n)[n - m])
               /\ Targets(n) \in Seq(Slots) /\ Len(Targets(n)) = n
               /\ \A s : s \in ToSet(Targets(n)) <=> s \in skip \/ \E k \in 1 .. n - m : Ringed(n)[k] = s
               /\ (\A k, l \in 1 .. m : Popped(n)[k] = Popped(n)[l] => k = l)
                      => \A k, l \in 1 .. n : Targets(n)[k] = Targets(n)[l] => k = l
<1> DEFINE m == Len(Popped(n))
           skip == ToSet(Popped(n))
           r == n - m
           at == Ringed(n)
           all == Targets(n)
<1>1. Capacity \in Nat /\ n \in Nat \ {0} /\ n <= Capacity
  BY ConsumingAssumption
<1>2. Popped(n) \in Seq(Slots) /\ m \in 0 .. n
  BY <1>1, PoppedType
<1>3. /\ IsFiniteSet(skip) /\ Cardinality(skip) \in Nat /\ Cardinality(skip) <= m
      /\ \A s : s \in skip <=> \E i \in 1 .. m : Popped(n)[i] = s
  BY <1>2, ListEntries
<1> HIDE DEF m, skip
<1>4. r \in Nat /\ r + Cardinality(skip) <= Capacity
  BY <1>1, <1>2, <1>3
<1> HIDE DEF r
<1>5. Places(n) = RingPlaces(cursor, r, skip) /\ at = SlotsAt(cursor, RingPlaces(cursor, r, skip))
  BY DEF Places, Ringed, r, m, skip
<1> HIDE DEF at
<1>6. /\ RingPlaces(cursor, r, skip) \in Seq(Nat) /\ Len(RingPlaces(cursor, r, skip)) = r
      /\ at \in Seq(Slots) /\ Len(at) = r
      /\ \A k \in 1 .. r : at[k] \notin skip
      /\ \A k, l \in 1 .. r : at[k] = at[l] => k = l
      /\ \A s \in Slots, k \in 1 .. r :
             s \notin skip /\ Distance(cursor, s) <= Distance(cursor, at[k])
                 => \E l \in 1 .. r : at[l] = s
      /\ r > 0 => /\ (cursor + Last(RingPlaces(cursor, r, skip)) + 1) % Capacity
                         = IF at[r] = Capacity - 1 THEN 0 ELSE at[r] + 1
                  /\ \A k \in 1 .. r : Distance(cursor, at[k]) <= Distance(cursor, at[r])
  <2>1. Nearest(cursor, r, skip, at)
    BY <1>3, <1>4, <1>5, RingSlots
  <2> QED
    BY <2>1 DEF Nearest
<1>7. m < n => r > 0
  BY <1>1, <1>2 DEF r
<1>8. m + r = n /\ m \in Nat
  BY <1>1, <1>2 DEF r
<1>9. /\ all \in Seq(Slots) /\ Len(all) = n
      /\ \A i \in 1 .. n : all[i] = IF i <= m THEN Popped(n)[i] ELSE at[i - m]
  <2>1. all = Popped(n) \o at /\ Len(Popped(n)) = m
    BY DEF Targets, at, m
  <2> HIDE DEF all
  <2> QED
    BY <1>2, <1>6, <1>8, <2>1, ConcatProperties
<1>10. DOMAIN all = 1 .. n
  BY <1>9, LenProperties
<1> HIDE DEF all
<1>11. ASSUME NEW s
       PROVE  s \in ToSet(all) <=> s \in skip \/ \E k \in 1 .. r : at[k] = s
  <2>1. s \in ToSet(all) <=> \E i \in 1 .. n : all[i] = s
    BY <1>10 DEF ToSet
  <2>2. ASSUME NEW i \in 1 .. n, all[i] = s PROVE s \in skip \/ \E k \in 1 .. r : at[k] = s
    <3>1. CASE i <= m
      <4>1. i \in 1 .. m /\ Popped(n)[i] = s
        BY <1>9, <2>2, <3>1
      <4> QED
        BY <1>3, <4>1
    <3>2. CASE ~ (i <= m)
      <4>1. i - m \in 1 .. r /\ at[i - m] = s
        BY <1>8, <1>4, <1>9, <2>2, <3>2
      <4> QED
        BY <4>1
    <3> QED
      BY <3>1, <3>2
  <2>3. ASSUME NEW i \in 1 .. m, Popped(n)[i] = s PROVE \E k \in 1 .. n : all[k] = s
    <3>1. i \in 1 .. n /\ i <= m
      BY <1>4, <1>8
    <3> QED
      BY <1>9, <2>3, <3>1
  <2>4. ASSUME NEW k \in 1 .. r, at[k] = s PROVE \E i \in 1 .. n : all[i] = s
    <3>1. k + m \in 1 .. n /\ ~ (k + m <= m) /\ (k + m) - m = k
      BY <1>4, <1>8
    <3> QED
      BY <1>9, <2>4, <3>1
  <2> QED
    BY <1>3, <2>1, <2>2, <2>3, <2>4
<1>12. ASSUME \A k, l \in 1 .. m : Popped(n)[k] = Popped(n)[l] => k = l,
              NEW k \in 1 .. n, NEW l \in 1 .. n, all[k] = all[l]
       PROVE  k = l
  <2>1. CASE k <= m /\ l <= m
    <3>1. k \in 1 .. m /\ l \in 1 .. m
      BY <1>8, <2>1
    <3> QED
      BY <1>9, <1>12, <2>1, <3>1
  <2>2. CASE ~ (k <= m) /\ ~ (l <= m)
    <3>1. k - m \in 1 .. r /\ l - m \in 1 .. r
      BY <1>4, <1>8, <2>2
    <3>2. at[k - m] = at[l - m]
      BY <1>9, <1>12, <2>2
    <3>3. k - m = l - m
      BY <1>6, <3>1, <3>2
    <3> QED
      BY <1>8, <3>3
  <2>3. CASE k <= m /\ ~ (l <= m)
    <3>1. k \in 1 .. m /\ l - m \in 1 .. r /\ Popped(n)[k] = at[l - m]
      BY <1>4, <1>8, <1>9, <1>12, <2>3
    <3> QED
      BY <1>3, <1>6, <3>1
  <2>4. CASE ~ (k <= m) /\ l <= m
    <3>1. l \in 1 .. m /\ k - m \in 1 .. r /\ Popped(n)[l] = at[k - m]
      BY <1>4, <1>8, <1>9, <1>12, <2>4
    <3> QED
      BY <1>3, <1>6, <3>1
  <2> QED
    BY <2>1, <2>2, <2>3, <2>4
<1> QED
  BY <1>2, <1>5, <1>6, <1>7, <1>9, <1>11, <1>12 DEF m, skip, r, at, all

\* What storing rows at `at` and marking the slots does.
LEMMA Written ==
    ASSUME TypeInv, NEW at \in Seq(Slots), Len(at) \in Nat \ {0}, Store(at), MarkLive(at)
    PROVE  /\ ToSet(at) \in SUBSET Slots
           /\ written' \in Nat /\ written' = written + Len(at)
           /\ rec' \in [Slots -> 0 .. written']
           /\ \A s \in Slots : /\ s \notin ToSet(at) => rec'[s] = rec[s]
                               /\ s \in ToSet(at) => rec'[s] \in written + 1 .. written'
           /\ \A s, t \in ToSet(at) : rec'[s] = rec'[t] => s = t
           /\ len' \in Capacities /\ len <= len' /\ known' = len'
           /\ \A s \in ToSet(at) : s < len'
           /\ len' = len \/ len' - 1 \in ToSet(at)
           /\ count' \in [Slots -> 0 .. MaxSampleCount]
           /\ \A s \in Slots : count'[s] = IF s \in ToSet(at) THEN 0 ELSE count[s]
           /\ live' = live \cup ToSet(at) /\ live' \in SUBSET (0 .. len' - 1)
           /\ \A s \in live' : count'[s] < MaxSampleCount
<1>1. /\ written \in Nat /\ len \in 0 .. Capacity /\ rec \in [Slots -> 0 .. written]
      /\ count \in [Slots -> 0 .. MaxSampleCount] /\ live \in SUBSET (0 .. len - 1)
      /\ \A s \in live : count[s] < MaxSampleCount
  BY DEF TypeInv, Typed, StateDict, Capacities
<1>2. Capacity \in Nat \ {0} /\ MaxSampleCount \in Nat \ {0}
  BY ConsumingAssumption
<1> DEFINE on == ToSet(at)
           n == Len(at)
<1>3. n \in Nat /\ DOMAIN at = 1 .. n /\ on \in SUBSET Slots
  BY ListEntries
<1>4. PICK row \in [on -> 1 .. n] :
          /\ \A s \in on : at[row[s]] = s
          /\ rec' = [s \in Slots |-> IF s \in on THEN written + row[s] ELSE rec[s]]
  BY <1>3 DEF Store
<1>5. written' = written + n
  BY DEF Store
<1>6. PICK top \in on : (\A s \in on : s <= top) /\ len' = IF top < len THEN len ELSE top + 1
  BY DEF Store
<1>7. /\ count' = [s \in Slots |-> IF s \in on THEN 0 ELSE count[s]]
      /\ live' = live \cup on /\ known' = len'
  BY DEF MarkLive
<1> HIDE DEF on, n
<1>8. written' \in Nat
  BY <1>1, <1>3, <1>5
<1>9. \A s \in Slots : s \in Nat /\ s < Capacity /\ s + 1 \in 0 .. Capacity
  BY <1>2 DEF Slots
<1>10. len' \in Capacities /\ len <= len' /\ (\A s \in on : s < len') /\ (len' = len \/ len' - 1 \in on)
  <2>1. top \in Slots /\ top \in Nat /\ top < Capacity /\ top + 1 \in 0 .. Capacity /\ top + 1 - 1 = top
    BY <1>3, <1>6, <1>9
  <2>2. \A s \in on : s \in Nat /\ s <= top
    BY <1>3, <1>6, <1>9
  <2>3. len' = len \/ len' - 1 \in on
    BY <1>6, <2>1
  <2>4. len' \in Capacities /\ len <= len' /\ top < len' /\ len' \in Nat
    BY <1>1, <1>2, <1>6, <2>1 DEF Capacities
  <2>5. \A s \in on : s < len'
    BY <2>1, <2>2, <2>4
  <2> QED
    BY <2>3, <2>4, <2>5
<1>11. \A s \in Slots : /\ s \notin on => rec'[s] = rec[s]
                        /\ s \in on => rec'[s] = written + row[s] /\ row[s] \in 1 .. n
  BY <1>4
<1>12. ASSUME NEW s \in Slots
       PROVE  /\ rec'[s] \in 0 .. written'
              /\ s \in on => rec'[s] \in written + 1 .. written'
  <2>1. CASE s \in on
    BY <1>1, <1>3, <1>5, <1>11, <2>1
  <2>2. CASE s \notin on
    <3>1. rec'[s] \in 0 .. written
      BY <1>1, <1>11, <2>2
    <3> QED
      BY <1>1, <1>3, <1>5, <2>2, <3>1
  <2> QED
    BY <2>1, <2>2
<1>13. rec' \in [Slots -> 0 .. written']
  BY <1>4, <1>12
<1>14. ASSUME NEW s \in on, NEW t \in on, rec'[s] = rec'[t] PROVE s = t
  <2>1. row[s] \in 1 .. n /\ row[t] \in 1 .. n /\ written + row[s] = written + row[t]
    BY <1>3, <1>11, <1>14
  <2>2. row[s] = row[t]
    BY <1>1, <1>3, <2>1
  <2> QED
    BY <1>4, <2>2
<1>15. \A s \in Slots : count'[s] = IF s \in on THEN 0 ELSE count[s]
  BY <1>7
<1>16. count' \in [Slots -> 0 .. MaxSampleCount]
  BY <1>1, <1>2, <1>7
<1>17. live' \in SUBSET (0 .. len' - 1) /\ \A s \in live' : s \in Slots
  <2>1. PICK l \in 0 .. Capacity : len' = l
    BY <1>10 DEF Capacities
  <2>2. \A s \in on : s \in 0 .. l - 1 /\ s \in Slots
    BY <1>3, <1>9, <1>10, <2>1
  <2>3. \A s \in live : s \in 0 .. l - 1 /\ s \in Slots
    BY <1>1, <1>2, <1>10, <2>1 DEF Slots
  <2> QED
    BY <1>7, <2>1, <2>2, <2>3
<1>18. ASSUME NEW s \in live' PROVE count'[s] < MaxSampleCount
  <2>1. s \in Slots
    BY <1>17
  <2> QED
    BY <1>1, <1>2, <1>7, <1>15, <2>1
<1> QED
  BY <1>3, <1>5, <1>7, <1>8, <1>10, <1>11, <1>12, <1>13, <1>14, <1>15, <1>16, <1>17, <1>18 DEF on, n

LEMMA Contiguous ==
    ASSUME NEW from \in Slots, NEW s \in Slots, NEW t \in Slots, from <= s, s <= t
    PROVE  Distance(from, s) <= Distance(from, t)
BY ConsumingAssumption DEF Distance, Slots

\* Slots from the length on are written in order: no write leaves one out.
LEMMA NothingLeftOut ==
    ASSUME TypeInv, NEW at \in Seq(Slots), Len(at) \in Nat \ {0}, Store(at), MarkLive(at),
           NEW from \in Slots, from <= len,
           NEW skip, \A s \in skip : s < len,
           \A s \in Slots, t \in ToSet(at) :
               s \notin skip /\ t \notin skip /\ Distance(from, s) <= Distance(from, t)
                   => s \in ToSet(at)
    PROVE  \A s \in Slots : len <= s /\ s < len' => s \in ToSet(at)
<1>1. /\ ToSet(at) \in SUBSET Slots /\ len' \in Capacities
      /\ len' = len \/ len' - 1 \in ToSet(at)
  BY Written
<1>2. len \in Nat
  BY DEF TypeInv, Typed, StateDict, Capacities
<1>3. PICK l \in Nat : len' = l
  BY <1>1 DEF Capacities
<1>4. ASSUME NEW s \in Slots, len <= s, s < l PROVE s \in ToSet(at)
  <2>1. s \in Nat /\ from \in Nat
    BY ConsumingAssumption DEF Slots
  <2>2. l # len
    BY <1>2, <1>4, <2>1
  <2>3. l - 1 \in ToSet(at) /\ l - 1 \in Slots
    BY <1>1, <1>3, <2>2
  <2>4. from <= s /\ s <= l - 1 /\ ~ (l - 1 < len) /\ ~ (s < len)
    BY <1>2, <1>3, <1>4, <2>1
  <2>5. Distance(from, s) <= Distance(from, l - 1)
    BY <2>3, <2>4, Contiguous
  <2>6. s \notin skip /\ l - 1 \notin skip
    BY <2>4
  <2> QED
    BY <2>3, <2>5, <2>6
<1> QED
  BY <1>3, <1>4

\* A write that leaves no slot out keeps the counters of consumed slots, and the records
\* apart.
LEMMA WriteExact ==
    ASSUME TypeInv, Exact(StateDict),
           NEW at \in Seq(Slots), Len(at) \in Nat \ {0}, Store(at), MarkLive(at),
           \A s \in Slots : len <= s /\ s < len' => s \in ToSet(at)
    PROVE  /\ Counted(StateDict)' /\ Distinct(StateDict)'
           /\ \A s \in Slots :
                  s < len' /\ s \notin live' <=> s < len /\ s \notin live /\ s \notin ToSet(at)
<1> DEFINE on == ToSet(at)
<1>1. /\ on \in SUBSET Slots
      /\ written' \in Nat /\ written' = written + Len(at)
      /\ \A s \in Slots : /\ s \notin on => rec'[s] = rec[s]
                          /\ s \in on => rec'[s] \in written + 1 .. written'
      /\ \A s, t \in on : rec'[s] = rec'[t] => s = t
      /\ len' \in Capacities /\ len <= len'
      /\ \A s \in on : s < len'
      /\ \A s \in Slots : count'[s] = IF s \in on THEN 0 ELSE count[s]
      /\ live' = live \cup on
  BY Written
<1>2. /\ written \in Nat /\ len \in Nat /\ len <= Capacity
      /\ rec \in [Slots -> 0 .. written] /\ live \in SUBSET (0 .. len - 1)
  BY ConsumingAssumption DEF TypeInv, Typed, StateDict, Capacities
<1>3. /\ \A s \in Slots : /\ s < len /\ s \notin live => count[s] = MaxSampleCount
                          /\ s >= len => count[s] = 0
      /\ \A s \in 0 .. len - 1 : /\ rec[s] # NoRecord
                                 /\ \A t \in 0 .. len - 1 : rec[s] = rec[t] => s = t
  BY DEF Exact, Counted, Distinct, StateDict
<1> HIDE DEF on
<1>4. PICK l \in Nat : len' = l /\ l <= Capacity
  BY <1>1, ConsumingAssumption DEF Capacities
<1>5. PICK w \in Nat : written' = w
  BY <1>1
<1>6. \A s \in Slots : s \in Nat /\ s < Capacity
  BY ConsumingAssumption DEF Slots
<1>7. ASSUME NEW s \in Slots
      PROVE  s < l /\ s \notin live' <=> s < len /\ s \notin live /\ s \notin on
  <2>1. s \notin on => (s < l <=> s < len)
    BY <1>1, <1>2, <1>4, <1>6 DEF on
  <2> QED
    BY <1>1, <2>1
<1>8. Counted(StateDict)'
  <2>1. ASSUME NEW s \in Slots
        PROVE  /\ s < l /\ s \notin live' => count'[s] = MaxSampleCount
               /\ s >= l => count'[s] = 0
    <3>1. s < l /\ s \notin live' => count'[s] = MaxSampleCount
      BY <1>1, <1>3, <1>7
    <3>2. s >= l => s \notin on /\ s >= len
      BY <1>1, <1>2, <1>4, <1>6
    <3> QED
      BY <1>1, <1>3, <3>1, <3>2
  <2> QED
    BY <1>4, <2>1 DEF Counted, StateDict
<1>9. Distinct(StateDict)'
  <2>1. \A s \in 0 .. l - 1 : s \in Slots /\ (s \in on \/ (s \notin on /\ s \in 0 .. len - 1))
    <3>1. ASSUME NEW s \in 0 .. l - 1, s \notin on PROVE s \in 0 .. len - 1
      <4>1. s \in Slots /\ s < len'
        BY <1>4, ConsumingAssumption DEF Slots
      <4>2. s < len
        BY <1>2, <1>6, <3>1, <4>1 DEF on
      <4> QED
        BY <1>2, <4>2
    <3>2. \A s \in 0 .. l - 1 : s \in Slots
      BY <1>4, ConsumingAssumption DEF Slots
    <3> QED
      BY <3>1, <3>2
  <2>2. \A s \in Slots : /\ s \in on => rec'[s] > written /\ rec'[s] \in Nat
                         /\ s \notin on => rec'[s] = rec[s] /\ rec[s] <= written /\ rec[s] \in Nat
    BY <1>1, <1>2, <1>5
  <2>3. ASSUME NEW s \in 0 .. l - 1 PROVE rec'[s] # NoRecord
    BY <1>2, <1>3, <2>1, <2>2 DEF NoRecord
  <2>4. ASSUME NEW s \in 0 .. l - 1, NEW t \in 0 .. l - 1, rec'[s] = rec'[t] PROVE s = t
    <3>1. s \in on <=> t \in on
      BY <1>2, <2>1, <2>2, <2>4
    <3>2. CASE s \in on
      BY <1>1, <2>4, <3>1, <3>2
    <3>3. CASE s \notin on
      <4>1. s \in 0 .. len - 1 /\ t \in 0 .. len - 1 /\ rec[s] = rec[t]
        BY <2>1, <2>2, <2>4, <3>1, <3>3
      <4> QED
        BY <1>3, <4>1
    <3> QED
      BY <3>2, <3>3
  <2> QED
    BY <1>4, <2>3, <2>4 DEF Distinct, StateDict
<1> QED
  BY <1>4, <1>7, <1>8, <1>9 DEF on

-----------------------------------------------------------------------------
(***************************************************************************)
(* Every action keeps the types.                                           *)
(***************************************************************************)
LEMMA TypedLater ==
    ASSUME written \in Nat, written' \in Nat, written <= written', NEW b, Typed(b)
    PROVE  Typed(b)'
<1>1. PICK w \in Nat : written' = w
  OBVIOUS
<1>2. \A i \in 0 .. written : i \in 0 .. w
  BY <1>1
<1>3. b.rec \in [Slots -> 0 .. w]
  BY <1>2 DEF Typed
<1> QED
  BY <1>1, <1>3 DEF Typed

LEMMA WriteType ==
    ASSUME TypeInv, NEW at \in Seq(Slots), Len(at) \in Nat \ {0}, Store(at), MarkLive(at),
           cursor' \in Slots, other' \in Slots, free' \in Seq(Slots),
           UNCHANGED <<alone, saved>>
    PROVE  TypeInv'
<1>1. /\ written' \in Nat /\ written' = written + Len(at)
      /\ rec' \in [Slots -> 0 .. written']
      /\ len' \in Capacities /\ known' = len'
      /\ count' \in [Slots -> 0 .. MaxSampleCount]
      /\ live' \in SUBSET (0 .. len' - 1)
      /\ \A s \in live' : count'[s] < MaxSampleCount
  BY Written
<1>2. Typed(StateDict)'
  BY <1>1 DEF Typed, StateDict
<1>3. written \in Nat /\ alone \in BOOLEAN /\ \A b \in saved : Typed(b)
  BY DEF TypeInv
<1>4. written <= written'
  BY <1>1, <1>3
<1>5. \A b \in saved' : Typed(b)'
  BY <1>1, <1>3, <1>4, TypedLater
<1> QED
  BY <1>1, <1>2, <1>3, <1>5 DEF TypeInv

\* What an extend writes and how its cursor moves.
LEMMA ExtendCall ==
    ASSUME TypeInv, NEW n \in 1 .. Capacity, Extend(n)
    PROVE  /\ Store(Targets(n)) /\ MarkLive(Targets(n))
           /\ free' = Unpopped(n)
           /\ UNCHANGED <<alone, other, saved>>
           /\ LET r == n - Len(Popped(n))
                  last == Ringed(n)[r]
              IN  cursor' = IF r = 0 THEN cursor
                            ELSE IF last = Capacity - 1 THEN 0 ELSE last + 1
<1> DEFINE r == n - Len(Popped(n))
           last == Ringed(n)[r]
<1>1. cursor \in Slots /\ free \in Seq(Slots)
  BY DEF TypeInv, Typed, StateDict
<1>2. /\ Store(Targets(n)) /\ MarkLive(Targets(n))
      /\ free' = Unpopped(n)
      /\ UNCHANGED <<alone, other, saved>>
      /\ cursor' = IF Places(n) = <<>> THEN cursor ELSE (cursor + Last(Places(n)) + 1) % Capacity
  BY DEF Extend, Targets, Ringed, Places
<1>3. /\ Places(n) \in Seq(Nat) /\ Len(Places(n)) = r
      /\ Len(Popped(n)) \in 0 .. n
      /\ Len(Popped(n)) < n => (cursor + Last(Places(n)) + 1) % Capacity
                                   = IF last = Capacity - 1 THEN 0 ELSE last + 1
  BY <1>1, TargetsType
<1>4. r = 0 <=> ~ (Len(Popped(n)) < n)
  BY <1>3
<1> HIDE DEF r, last
<1>5. Places(n) = <<>> <=> r = 0
  BY <1>3, EmptySeq
<1>6. cursor' = IF r = 0 THEN cursor ELSE IF last = Capacity - 1 THEN 0 ELSE last + 1
  BY <1>2, <1>3, <1>4, <1>5
<1> QED
  BY <1>2, <1>6 DEF r, last

LEMMA ExtendType ==
    ASSUME TypeInv, NEW n \in 1 .. Capacity, Extend(n)
    PROVE  TypeInv'
<1> DEFINE r == n - Len(Popped(n))
<1>1. cursor \in Slots /\ free \in Seq(Slots) /\ other \in Slots
  BY DEF TypeInv, Typed, StateDict
<1>2. /\ Targets(n) \in Seq(Slots) /\ Len(Targets(n)) = n
      /\ Ringed(n) \in Seq(Slots) /\ Len(Ringed(n)) = r /\ Len(Popped(n)) \in 0 .. n
  BY <1>1, TargetsType
<1>3. n \in Nat \ {0} /\ r \in Nat
  BY <1>2
<1> HIDE DEF r
<1>4. cursor' \in Slots
  <2>1. CASE r = 0
    BY <1>1, <2>1, ExtendCall DEF r
  <2>2. CASE r # 0
    <3> DEFINE last == Ringed(n)[r]
    <3>1. last \in Slots
      BY <1>2, <1>3, <2>2, ElementOfSeq
    <3>2. cursor' = IF last = Capacity - 1 THEN 0 ELSE last + 1
      BY <2>2, ExtendCall DEF r
    <3> HIDE DEF last
    <3> QED
      BY <3>1, <3>2, ConsumingAssumption DEF Slots
  <2> QED
    BY <2>1, <2>2
<1>5. free' \in Seq(Slots) /\ other' \in Slots
  BY <1>1, <1>3, ExtendCall, PoppedType
<1> QED
  BY <1>2, <1>3, <1>4, <1>5, ExtendCall, WriteType

\* What an extend of the other buffer writes.
Others(n) == SlotsAt(other, RingPlaces(other, n, {}))

LEMMA OthersType ==
    ASSUME other \in Slots, NEW n \in 1 .. Capacity
    PROVE  Nearest(other, n, {}, Others(n))
<1>1. n \in Nat /\ n + Cardinality({}) <= Capacity /\ IsFiniteSet({})
  BY FS_EmptySet, ConsumingAssumption
<1> QED
  BY <1>1, RingSlots DEF Others

LEMMA ExtendOtherType ==
    ASSUME TypeInv, NEW n \in 1 .. Capacity, ExtendOther(n)
    PROVE  TypeInv'
<1>1. cursor \in Slots /\ free \in Seq(Slots) /\ other \in Slots
  BY DEF TypeInv, Typed, StateDict
<1>2. /\ Store(Others(n)) /\ MarkLive(Others(n))
      /\ other' = (other + n) % Capacity
      /\ UNCHANGED <<alone, cursor, free, saved>>
  BY DEF ExtendOther, Others
<1>3. Others(n) \in Seq(Slots) /\ Len(Others(n)) = n /\ n \in Nat \ {0}
  BY <1>1, OthersType DEF Nearest
<1>4. other' \in Slots
  BY <1>1, <1>2, ConsumingAssumption DEF Slots
<1> QED
  BY <1>1, <1>2, <1>3, <1>4, WriteType

\* What the parts of a buffer and of its checkpoints are.
LEMMA Types ==
    ASSUME TypeInv
    PROVE  /\ cursor \in Slots /\ other \in Slots
           /\ len \in Nat /\ len <= Capacity /\ len \in Capacities /\ known = len
           /\ written \in Nat /\ rec \in [Slots -> 0 .. written]
           /\ count \in [Slots -> 0 .. MaxSampleCount]
           /\ live \in SUBSET (0 .. len - 1) /\ live \in SUBSET Slots
           /\ IsFiniteSet(live) /\ Cardinality(live) \in Nat
           /\ \A s \in live : count[s] < MaxSampleCount /\ s < len
           /\ free \in Seq(Slots)
<1>1. /\ cursor \in Slots /\ other \in Slots
      /\ len \in 0 .. Capacity /\ known = len
      /\ written \in Nat /\ rec \in [Slots -> 0 .. written]
      /\ count \in [Slots -> 0 .. MaxSampleCount]
      /\ live \in SUBSET (0 .. len - 1)
      /\ \A s \in live : count[s] < MaxSampleCount
      /\ free \in Seq(Slots)
  BY DEF TypeInv, Typed, StateDict, Capacities
<1>2. Capacity \in Nat
  BY ConsumingAssumption
<1>3. \A s \in live : s \in Slots /\ s < len
  BY <1>1, <1>2 DEF Slots
<1>4. IsFiniteSet(live) /\ Cardinality(live) \in Nat
  <2>1. IsFiniteSet(0 .. len - 1)
    BY <1>1, <1>2, FS_Interval
  <2> QED
    BY <1>1, <2>1, FS_Subset, FS_CardinalityType
<1> QED
  BY <1>1, <1>2, <1>3, <1>4 DEF Capacities

\* The orders in which a set can be listed.
LEMMA Orders ==
    ASSUME NEW S \in SUBSET Slots, IsFiniteSet(S), NEW order \in SetToSeqs(S)
    PROVE  /\ order \in Seq(Slots) /\ Len(order) = Cardinality(S)
           /\ \A i, j \in 1 .. Len(order) : order[i] = order[j] => i = j
           /\ \A s : s \in S <=> \E i \in 1 .. Len(order) : order[i] = s
<1> DEFINE c == Cardinality(S)
<1>1. order \in [1 .. c -> S] /\ \A i, j \in 1 .. c : i # j => order[i] # order[j]
  BY DEF SetToSeqs
<1>2. c \in Nat
  BY FS_CardinalityType
<1>3. order \in Injection(1 .. c, S)
  BY <1>1 DEF Injection, IsInjective
<1>4. IsFiniteSet(1 .. c) /\ Cardinality(1 .. c) = c
  BY <1>2, FS_Interval
<1>5. order \in Surjection(1 .. c, S)
  BY <1>3, <1>4, FS_Injection
<1>6. \A s \in S : \E i \in 1 .. c : order[i] = s
  BY <1>5 DEF Surjection
<1> HIDE DEF c
<1>7. order \in [1 .. c -> Slots]
  BY <1>1
<1>8. order \in Seq(Slots) /\ Len(order) = c
  BY <1>2, <1>7, FunctionIsSeq
<1> QED
  BY <1>1, <1>6, <1>8 DEF c

\* A sample: the records it takes, and those of them that are consumed, which enter the
\* free list in some order.
Consumed(index) == {s \in index : count[s] + 1 >= MaxSampleCount}

LEMMA SampleCall ==
    ASSUME TypeInv, Sample
    PROVE  \E index \in SUBSET live, order \in Seq(Slots) :
               /\ Cardinality(index) = Smaller(BatchSize, Cardinality(live))
               /\ count' = [s \in Slots |-> IF s \in index THEN count[s] + 1 ELSE count[s]]
               /\ live' = live \ Consumed(index)
               /\ free' = free \o order
               /\ \A i, j \in 1 .. Len(order) : order[i] = order[j] => i = j
               /\ \A s : s \in Consumed(index) <=> \E i \in 1 .. Len(order) : order[i] = s
               /\ UNCHANGED <<alone, cursor, other, len, rec, known, written, saved>>
<1>1. PICK index \in SUBSET live :
          /\ Cardinality(index) = Smaller(BatchSize, Cardinality(live))
          /\ count' = [s \in Slots |-> IF s \in index THEN count[s] + 1 ELSE count[s]]
          /\ live' = live \ Consumed(index)
          /\ \E order \in SetToSeqs(Consumed(index)) : free' = free \o order
  BY DEF Sample, Consumed
<1>2. PICK order \in SetToSeqs(Consumed(index)) : free' = free \o order
  BY <1>1
<1>3. Consumed(index) \in SUBSET live
  BY DEF Consumed
<1>4. Consumed(index) \in SUBSET Slots /\ IsFiniteSet(Consumed(index))
  BY <1>3, Types, FS_Subset
<1>5. /\ order \in Seq(Slots)
      /\ \A i, j \in 1 .. Len(order) : order[i] = order[j] => i = j
      /\ \A s : s \in Consumed(index) <=> \E i \in 1 .. Len(order) : order[i] = s
  BY <1>4, Orders
<1>6. UNCHANGED <<alone, cursor, other, len, rec, known, written, saved>>
  BY DEF Sample
<1> QED
  BY <1>1, <1>2, <1>5, <1>6

LEMMA SampleType ==
    ASSUME TypeInv, Sample
    PROVE  TypeInv'
<1>1. PICK index \in SUBSET live, order \in Seq(Slots) :
          /\ count' = [s \in Slots |-> IF s \in index THEN count[s] + 1 ELSE count[s]]
          /\ live' = live \ Consumed(index)
          /\ free' = free \o order
          /\ UNCHANGED <<alone, cursor, other, len, rec, known, written, saved>>
  BY SampleCall
<1>2. MaxSampleCount \in Nat \ {0}
  BY ConsumingAssumption
<1>3. ASSUME NEW s \in Slots
      PROVE  /\ count'[s] = IF s \in index THEN count[s] + 1 ELSE count[s]
             /\ count'[s] \in 0 .. MaxSampleCount
             /\ s \in live' => count'[s] < MaxSampleCount
  <2>1. count'[s] = IF s \in index THEN count[s] + 1 ELSE count[s]
    BY <1>1
  <2>2. count[s] \in Nat /\ count[s] <= MaxSampleCount /\ (s \in live => count[s] < MaxSampleCount)
    BY Types
  <2>3. s \in index => s \in live
    BY <1>1
  <2>4. s \in live' => s \in live /\ (s \in index => ~ (count[s] + 1 >= MaxSampleCount))
    BY <1>1 DEF Consumed
  <2> QED
    BY <1>2, <2>1, <2>2, <2>3, <2>4
<1>4. count' \in [Slots -> 0 .. MaxSampleCount]
  BY <1>1, <1>3
<1>5. free' \in Seq(Slots)
  BY <1>1, Types, ConcatProperties
<1>6. live' \in SUBSET (0 .. len - 1) /\ \A s \in live' : count'[s] < MaxSampleCount
  BY <1>1, <1>3, Types
<1>7. Typed(StateDict)'
  <2>1. len' = len /\ known' = len /\ written' = written /\ cursor' = cursor /\ rec' = rec
    BY <1>1, Types
  <2> QED
    BY <1>4, <1>5, <1>6, <2>1, Types DEF Typed, StateDict
<1>8. \A b \in saved' : Typed(b)'
  BY <1>1 DEF TypeInv, Typed
<1> QED
  BY <1>1, <1>7, <1>8 DEF TypeInv

\* A buffer without records.
LEMMA FreshState ==
    ASSUME cursor = 0, len = 0, rec = [s \in Slots |-> NoRecord], count = [s \in Slots |-> 0],
           live = {}, known = 0, free = <<>>, written \in Nat
    PROVE  Typed(StateDict) /\ Exact(StateDict)
<1>1. Capacity \in Nat \ {0} /\ MaxSampleCount \in Nat \ {0} /\ \A s \in Slots : s \in Nat
  BY ConsumingAssumption DEF Slots
<1>2. cursor \in Slots /\ len \in Capacities /\ len \in Nat
  BY <1>1 DEF Slots, Capacities
<1>3. rec \in [Slots -> 0 .. written] /\ count \in [Slots -> 0 .. MaxSampleCount]
  BY <1>1 DEF NoRecord
<1>4. free \in Seq(Slots) /\ DOMAIN free = {}
  BY EmptySeq
<1>5. Typed(StateDict)
  BY <1>2, <1>3, <1>4 DEF Typed, StateDict
<1>6. \A s \in Slots : ~ (s < len) /\ count[s] = 0
  BY <1>1
<1>7. 0 .. len - 1 = {}
  BY <1>2
<1>8. Counted(StateDict) /\ Listed(StateDict)
  BY <1>4, <1>6 DEF Counted, Listed, StateDict
<1>9. InRing(StateDict)
  BY DEF InRing, StateDict
<1>10. Distinct(StateDict)
  BY <1>7 DEF Distinct, StateDict
<1> QED
  BY <1>5, <1>8, <1>9, <1>10 DEF Exact

LEMMA EmptyFresh ==
    ASSUME TypeInv, Empty
    PROVE  Typed(StateDict)' /\ Exact(StateDict)'
<1>1. /\ cursor' = 0 /\ len' = 0 /\ rec' = [s \in Slots |-> NoRecord]
      /\ count' = [s \in Slots |-> 0] /\ live' = {} /\ known' = 0 /\ free' = <<>>
      /\ written' \in Nat
  BY Types DEF Empty
<1>2. Capacity \in Nat \ {0} /\ MaxSampleCount \in Nat \ {0} /\ \A s \in Slots : s \in Nat
  BY ConsumingAssumption DEF Slots
<1>3. cursor' \in Slots /\ len' \in Capacities
  BY <1>1, <1>2 DEF Slots, Capacities
<1>4. rec' \in [Slots -> 0 .. written'] /\ count' \in [Slots -> 0 .. MaxSampleCount]
  BY <1>1, <1>2 DEF NoRecord
<1>5. free' \in Seq(Slots) /\ DOMAIN free' = {}
  BY <1>1, EmptySeq
<1>6. Typed(StateDict)'
  BY <1>1, <1>3, <1>4, <1>5 DEF Typed, StateDict
<1>7. \A s \in Slots : ~ (s < len') /\ count'[s] = 0
  BY <1>1, <1>2
<1>8. 0 .. len' - 1 = {}
  BY <1>1
<1>9. Counted(StateDict)' /\ Listed(StateDict)'
  BY <1>1, <1>5, <1>7 DEF Counted, Listed, StateDict
<1>10. InRing(StateDict)'
  BY <1>1 DEF InRing, StateDict
<1>11. Distinct(StateDict)'
  BY <1>8 DEF Distinct, StateDict
<1> QED
  BY <1>6, <1>9, <1>10, <1>11 DEF Exact

\* Saving and loading copy buffers.
LEMMA SaveCall ==
    ASSUME Save
    PROVE  saved' = {StateDict} /\ StateDict' = StateDict /\ UNCHANGED <<alone, other, written>>
BY DEF Save, StateDict, sampler

LEMMA LoadCall ==
    ASSUME Load, \A b \in saved : Typed(b)
    PROVE  \E b \in saved : /\ cursor' = b.cursor /\ len' = b.len /\ rec' = b.rec
                            /\ count' = b.count /\ live' = b.live /\ known' = b.known
                            /\ free' = b.free
                            /\ UNCHANGED <<alone, other, written, saved>>
BY DEF Load

LEMMA CheckpointType ==
    ASSUME TypeInv, Save \/ Load
    PROVE  TypeInv'
<1>1. /\ alone \in BOOLEAN /\ other \in Slots /\ written \in Nat
      /\ Typed(StateDict) /\ \A b \in saved : Typed(b)
  BY DEF TypeInv
<1>2. UNCHANGED <<alone, other, written>>
  BY <1>1, SaveCall, LoadCall
<1>3. \A b : Typed(b) => Typed(b)'
  BY <1>2 DEF Typed
<1>4. CASE Save
  <2>1. Typed(StateDict)'
    <3>1. UNCHANGED <<cursor, len, rec, count, live, known, free, written>>
      BY <1>4 DEF Save, sampler
    <3> QED
      BY <1>1, <3>1 DEF Typed, StateDict
  <2>2. \A b \in saved' : Typed(b)'
    BY <1>1, <1>3, <1>4, SaveCall
  <2> QED
    BY <1>1, <1>2, <2>1, <2>2 DEF TypeInv
<1>5. CASE Load
  <2>1. PICK b \in saved :
            /\ cursor' = b.cursor /\ len' = b.len /\ rec' = b.rec
            /\ count' = b.count /\ live' = b.live /\ known' = b.known
            /\ free' = b.free
            /\ UNCHANGED <<alone, other, written, saved>>
    BY <1>1, <1>5, LoadCall
  <2>2. Typed(b)
    BY <1>1
  <2>3. Typed(StateDict)'
    BY <2>1, <2>2 DEF Typed, StateDict
  <2>4. \A c \in saved' : Typed(c)'
    BY <1>1, <1>3, <2>1
  <2> QED
    BY <1>1, <1>2, <2>3, <2>4 DEF TypeInv
<1> QED
  BY <1>4, <1>5

LEMMA InitInv ==
    ASSUME Init
    PROVE  TypeInv /\ Exact(StateDict) /\ saved = {}
<1>1. /\ cursor = 0 /\ len = 0 /\ rec = [s \in Slots |-> NoRecord]
      /\ count = [s \in Slots |-> 0] /\ live = {} /\ known = 0 /\ free = <<>>
      /\ written = 0 /\ other = 0 /\ saved = {}
  BY DEF Init
<1>2. Typed(StateDict) /\ Exact(StateDict)
  BY <1>1, FreshState
<1>3. alone \in BOOLEAN
  BY ConsumingAssumption DEF Init
<1>4. other \in Slots
  BY <1>1, ConsumingAssumption DEF Slots
<1> QED
  BY <1>1, <1>2, <1>3, <1>4 DEF TypeInv

LEMMA TypeStep ==
    ASSUME TypeInv, [Next]_vars
    PROVE  TypeInv'
<1>1. ASSUME NEW n \in 1 .. Capacity, Extend(n) PROVE TypeInv'
  BY <1>1, ExtendType
<1>2. ASSUME NEW n \in 1 .. Capacity, ExtendOther(n) PROVE TypeInv'
  BY <1>2, ExtendOtherType
<1>3. CASE Sample
  BY <1>3, SampleType
<1>4. CASE Empty
  <2>1. alone' = alone /\ other' \in Slots /\ written' = written /\ saved' = saved
    BY <1>4, ConsumingAssumption DEF Empty, Slots
  <2>2. Typed(StateDict)'
    BY <1>4, EmptyFresh
  <2>3. \A b \in saved' : Typed(b)'
    BY <2>1 DEF TypeInv, Typed
  <2> QED
    BY <2>1, <2>2, <2>3 DEF TypeInv
<1>5. CASE Save \/ Load
  BY <1>5, CheckpointType
<1>6. CASE UNCHANGED vars
  <2>1. UNCHANGED <<alone, cursor, other, len, rec, count, live, known, free, written, saved>>
    BY <1>6 DEF vars, sampler
  <2> QED
    BY <2>1 DEF TypeInv, Typed, StateDict
<1> QED
  BY <1>1, <1>2, <1>3, <1>4, <1>5, <1>6 DEF Next

\* The variables have their types, and the sampler's idea of the storage's length is
\* never stale after a call, whoever writes to the storage.
THEOREM TypeCorrectness == Spec => []TypeOK
<1>1. Init => TypeInv
  BY InitInv
<1>2. TypeInv /\ [Next]_vars => TypeInv'
  BY TypeStep
<1>3. TypeInv => TypeOK
  <2> SUFFICES ASSUME TypeInv PROVE TypeOK
    OBVIOUS
  <2> QED
    BY Types DEF TypeOK, Capacities
<1> QED
  BY <1>1, <1>2, <1>3, PTL DEF Spec

-----------------------------------------------------------------------------
(***************************************************************************)
(* Every action keeps the free list and the ring exact.                    *)
(***************************************************************************)
LEMMA Exactness ==
    ASSUME TypeInv, Exact(StateDict)
    PROVE  /\ \A s \in Slots : /\ s < len /\ s \notin live => count[s] = MaxSampleCount
                               /\ s >= len => count[s] = 0
           /\ \A s \in Slots : s < len /\ s \notin live <=> \E i \in 1 .. Len(free) : free[i] = s
           /\ \A i, j \in 1 .. Len(free) : free[i] = free[j] => i = j
           /\ cursor <= len /\ (alone /\ len < Capacity => cursor = len)
           /\ \A s \in Slots : s < len => rec[s] # NoRecord
           /\ \A s, t \in Slots : s < len /\ t < len /\ rec[s] = rec[t] => s = t
<1>1. free \in Seq(Slots) /\ DOMAIN free = 1 .. Len(free) /\ len \in Nat
  BY Types, ListEntries
<1>2. /\ \A s \in Slots : /\ s < len /\ s \notin live => count[s] = MaxSampleCount
                          /\ s >= len => count[s] = 0
      /\ \A s \in Slots : s < len /\ s \notin live <=> \E i \in DOMAIN free : free[i] = s
      /\ \A i, j \in DOMAIN free : free[i] = free[j] => i = j
      /\ cursor <= len /\ (alone /\ len < Capacity => cursor = len)
  BY DEF Exact, Counted, Listed, InRing, StateDict
<1>3. \A s \in 0 .. len - 1 : /\ rec[s] # NoRecord
                              /\ \A t \in 0 .. len - 1 : rec[s] = rec[t] => s = t
  BY DEF Exact, Distinct, StateDict
<1>4. \A s \in Slots : s < len => s \in 0 .. len - 1
  BY <1>1 DEF Slots
<1> QED
  BY <1>1, <1>2, <1>3, <1>4

\* The slots an extend writes: the first entries of the free list and the next places of
\* the ring; none of those is consumed, and no slot is left out.
LEMMA ExtendSlots ==
    ASSUME TypeInv, Exact(StateDict), NEW n \in 1 .. Capacity, Extend(n)
    PROVE  /\ Targets(n) \in Seq(Slots) /\ Len(Targets(n)) = n
           /\ \A k, l \in 1 .. n : Targets(n)[k] = Targets(n)[l] => k = l
           /\ \A s \in Slots : len <= s /\ s < len' => s \in ToSet(Targets(n))
           /\ \A s \in Slots : Reusable(s) /\ s \in ToSet(Targets(n)) => s \in ToSet(Popped(n))
           /\ \A s \in ToSet(Popped(n)) : s < len /\ s \notin live /\ s \in ToSet(Targets(n))
<1> DEFINE m == Len(Popped(n))
           skip == ToSet(Popped(n))
           on == ToSet(Targets(n))
<1>1. /\ cursor \in Slots /\ free \in Seq(Slots) /\ n \in Nat \ {0}
  BY Types
<1>2. Popped(n) \in Seq(Slots) /\ \A k \in 1 .. m : Popped(n)[k] \in Slots /\ Reusable(Popped(n)[k])
  BY <1>1, PoppedType
<1>3. /\ \A s \in Slots : Reusable(s) <=> s < len /\ s \notin live
      /\ \A k, l \in 1 .. m : Popped(n)[k] = Popped(n)[l] => k = l
      /\ m < n => \A s \in Slots : Reusable(s) => s \in skip
  BY <1>1, PoppedExact
<1>4. \A s \in skip : s \in Slots /\ Reusable(s)
  BY <1>2, ListEntries
<1>5. /\ m \in 0 .. n
      /\ \A k \in 1 .. n - m : Ringed(n)[k] \notin skip
      /\ \A s \in Slots, k \in 1 .. n - m :
             s \notin skip /\ Distance(cursor, s) <= Distance(cursor, Ringed(n)[k])
                 => \E l \in 1 .. n - m : Ringed(n)[l] = s
      /\ Targets(n) \in Seq(Slots) /\ Len(Targets(n)) = n
      /\ \A s : s \in on <=> s \in skip \/ \E k \in 1 .. n - m : Ringed(n)[k] = s
      /\ (\A k, l \in 1 .. m : Popped(n)[k] = Popped(n)[l] => k = l)
             => \A k, l \in 1 .. n : Targets(n)[k] = Targets(n)[l] => k = l
  BY <1>1, TargetsType
<1> HIDE DEF m, skip, on
<1>6. \A s \in Slots : len <= s /\ s < len' => s \in on
  <2>1. Store(Targets(n)) /\ MarkLive(Targets(n))
    BY ExtendCall
  <2>2. \A s \in skip : s < len
    BY <1>3, <1>4
  <2>3. ASSUME NEW s \in Slots, NEW t \in on,
               s \notin skip, t \notin skip, Distance(cursor, s) <= Distance(cursor, t)
        PROVE  s \in on
    <3>1. PICK k \in 1 .. n - m : Ringed(n)[k] = t
      BY <1>5, <2>3
    <3> QED
      BY <1>5, <2>3, <3>1
  <2>4. cursor <= len
    BY Exactness
  <2> QED
    BY <1>1, <1>5, <2>1, <2>2, <2>3, <2>4, NothingLeftOut DEF on
<1>7. ASSUME NEW s \in Slots, Reusable(s), s \in on PROVE s \in skip
  <2>1. CASE m < n
    BY <1>3, <1>7, <2>1
  <2>2. CASE ~ (m < n)
    <3>1. 1 .. n - m = {}
      BY <1>1, <1>5, <2>2
    <3> QED
      BY <1>5, <1>7, <3>1
  <2> QED
    BY <2>1, <2>2
<1> QED
  BY <1>3, <1>4, <1>5, <1>6, <1>7 DEF m, skip, on

LEMMA ExtendExact ==
    ASSUME TypeInv, Exact(StateDict), NEW n \in 1 .. Capacity, Extend(n)
    PROVE  Exact(StateDict)'
<1> DEFINE on == ToSet(Targets(n))
           r == n - Len(Popped(n))
           last == Ringed(n)[r]
<1>1. /\ Targets(n) \in Seq(Slots) /\ Len(Targets(n)) = n /\ n \in Nat \ {0}
      /\ \A s \in Slots : len <= s /\ s < len' => s \in on
      /\ \A s \in Slots : Reusable(s) /\ s \in on => s \in ToSet(Popped(n))
      /\ \A s \in ToSet(Popped(n)) : s < len /\ s \notin live /\ s \in on
  BY ExtendSlots
<1>2. /\ Store(Targets(n)) /\ MarkLive(Targets(n))
      /\ free' = Unpopped(n) /\ alone' = alone
      /\ cursor' = IF r = 0 THEN cursor ELSE IF last = Capacity - 1 THEN 0 ELSE last + 1
  BY ExtendCall
<1>3. /\ Counted(StateDict)' /\ Distinct(StateDict)'
      /\ \A s \in Slots :
             s < len' /\ s \notin live' <=> s < len /\ s \notin live /\ s \notin on
  BY <1>1, <1>2, WriteExact
<1>4. /\ \A s \in Slots : Reusable(s) <=> s < len /\ s \notin live
      /\ \A s \in Slots : Reusable(s) /\ s \notin ToSet(Popped(n))
                              <=> \E i \in DOMAIN Unpopped(n) : Unpopped(n)[i] = s
      /\ \A i, j \in DOMAIN Unpopped(n) : Unpopped(n)[i] = Unpopped(n)[j] => i = j
  BY <1>1, PoppedExact
<1>5. Listed(StateDict)'
  <2>1. \A s \in Slots : s < len' /\ s \notin live' <=> Reusable(s) /\ s \notin ToSet(Popped(n))
    BY <1>1, <1>3, <1>4
  <2>2. \A s \in Slots : s < len' /\ s \notin live' <=> \E i \in DOMAIN free' : free'[i] = s
    BY <1>2, <1>4, <2>1
  <2>3. \A i, j \in DOMAIN free' : free'[i] = free'[j] => i = j
    BY <1>2, <1>4
  <2> QED
    BY <2>2, <2>3 DEF Listed, StateDict
<1>6. /\ Len(Popped(n)) \in 0 .. n /\ Popped(n) \in Seq(Slots)
      /\ Ringed(n) \in Seq(Slots) /\ Len(Ringed(n)) = r
      /\ \A s \in Slots, k \in 1 .. r :
             s \notin ToSet(Popped(n)) /\ Distance(cursor, s) <= Distance(cursor, Ringed(n)[k])
                 => \E l \in 1 .. r : Ringed(n)[l] = s
      /\ Len(Popped(n)) < n => \A k \in 1 .. r : Distance(cursor, Ringed(n)[k]) <= Distance(cursor, last)
      /\ \A s : s \in on <=> s \in ToSet(Popped(n)) \/ \E k \in 1 .. r : Ringed(n)[k] = s
  BY <1>1, Types, TargetsType, PoppedType
<1>7. /\ len' \in Capacities /\ len <= len' /\ on \in SUBSET Slots
      /\ (\A s \in on : s < len') /\ (len' = len \/ len' - 1 \in on)
  BY <1>1, <1>2, Written
<1>8. /\ len \in Nat /\ cursor \in Slots /\ cursor <= len /\ (alone /\ len < Capacity => cursor = len)
      /\ Capacity \in Nat \ {0}
  BY Types, Exactness, ConsumingAssumption
<1>9. PICK l \in Nat : len' = l /\ l <= Capacity
  BY <1>7, <1>8 DEF Capacities
<1>10. \A s \in Slots : s \in Nat /\ s < Capacity
  BY <1>8 DEF Slots
<1>11. CASE r = 0
  <2>1. cursor' = cursor
    BY <1>2, <1>11
  <2>2. \A s \in on : s < len
    <3>1. 1 .. r = {}
      BY <1>11
    <3> HIDE DEF r, on
    <3> QED
      BY <1>1, <1>6, <3>1
  <2>3. l = len
    <3>1. ASSUME l # len PROVE FALSE
      <4>1. l - 1 \in on
        BY <1>7, <1>9, <3>1
      <4>2. l - 1 < len /\ len <= l
        BY <1>7, <1>9, <2>2, <4>1
      <4> QED
        BY <1>8, <1>9, <3>1, <4>2
    <3> QED
      BY <3>1
  <2>4. InRing(StateDict)'
    BY <1>2, <1>8, <1>9, <2>1, <2>3 DEF InRing, StateDict
  <2> QED
    BY <1>3, <1>5, <2>4 DEF Exact
<1>12. CASE r # 0
  <2> HIDE DEF r
  <2>1. r \in Nat \ {0} /\ r \in 1 .. r
    BY <1>1, <1>6, <1>12 DEF r
  <2>2. last \in Slots /\ last \in on
    BY <1>6, <2>1, ElementOfSeq
  <2>3. Len(Popped(n)) < n
    BY <1>1, <1>6, <2>1 DEF r
  <2> HIDE DEF last, on
  <2>4. last < l /\ last \in Nat /\ last < Capacity
    BY <1>7, <1>9, <1>10, <2>2
  <2>5. cursor' = IF last = Capacity - 1 THEN 0 ELSE last + 1
    BY <1>2, <1>12
  <2>6. cursor' <= l
    BY <1>9, <2>4, <2>5
  <2>7. ASSUME alone, l < Capacity PROVE cursor' = l
    <3>1. cursor = len /\ len < Capacity /\ len \in Slots
      BY <1>7, <1>8, <1>9, <2>7
    <3>2. last # Capacity - 1 /\ cursor' = last + 1
      BY <1>8, <1>9, <2>4, <2>5, <2>7
    <3>3. ASSUME last < len PROVE FALSE
      <4> DEFINE end == Capacity - 1
      <4>1. end \in Slots /\ end >= len
        BY <1>8, <3>1 DEF Slots
      <4>2. Distance(cursor, end) <= Distance(cursor, last)
        BY <1>8, <2>4, <3>1, <3>3, <4>1 DEF Distance
      <4>3. end \notin ToSet(Popped(n))
        BY <1>1, <1>8, <4>1
      <4>4. end \in on
        BY <1>6, <2>1, <4>1, <4>2, <4>3 DEF last
      <4>5. end < l
        BY <1>7, <1>9, <4>4
      <4> QED
        BY <1>8, <1>9, <2>7, <4>5
    <3>4. ASSUME last + 1 # l PROVE FALSE
      <4>1. len <= last /\ l # len
        BY <1>8, <1>9, <2>4, <3>3
      <4>2. l - 1 \in on /\ l - 1 \in Slots
        BY <1>7, <1>9, <4>1
      <4>3. last < l - 1 /\ len <= l - 1
        BY <1>8, <1>9, <2>4, <3>4, <4>1
      <4>4. l - 1 \notin ToSet(Popped(n))
        BY <1>1, <1>8, <1>9, <4>3
      <4>5. PICK k \in 1 .. r : Ringed(n)[k] = l - 1
        BY <1>6, <4>2, <4>4 DEF on
      <4>6. Distance(cursor, l - 1) <= Distance(cursor, last)
        BY <1>6, <2>3, <4>5
      <4> QED
        BY <1>8, <1>9, <2>4, <3>1, <4>1, <4>3, <4>6 DEF Distance
    <3> QED
      BY <3>2, <3>4
  <2>8. InRing(StateDict)'
    BY <1>2, <1>9, <2>6, <2>7 DEF InRing, StateDict
  <2> QED
    BY <1>3, <1>5, <2>8 DEF Exact
<1> QED
  BY <1>11, <1>12

\* The other buffer writes to no consumed slot.
LEMMA ExtendOtherSlots ==
    ASSUME TypeInv, Exact(StateDict), LiveOnly, NEW n \in 1 .. Capacity, ExtendOther(n)
    PROVE  /\ Others(n) \in Seq(Slots) /\ Len(Others(n)) = n /\ n \in Nat \ {0}
           /\ \A k, l \in 1 .. n : Others(n)[k] = Others(n)[l] => k = l
           /\ \A s \in Slots : len <= s /\ s < len' => s \in ToSet(Others(n))
           /\ \A s \in Slots : s < len /\ s \notin live => s \notin ToSet(Others(n))
           /\ Store(Others(n)) /\ MarkLive(Others(n))
           /\ UNCHANGED <<alone, cursor, free, saved>> /\ ~ alone
<1>1. other \in Slots /\ n \in Nat \ {0}
  BY Types
<1>2. /\ Store(Others(n)) /\ MarkLive(Others(n)) /\ other <= len
      /\ \A s \in ToSet(Others(n)) : ~ Reusable(s)
      /\ UNCHANGED <<alone, cursor, free, saved>> /\ ~ alone
  BY DEF ExtendOther, Others
<1>3. /\ Others(n) \in Seq(Slots) /\ Len(Others(n)) = n
      /\ \A k, l \in 1 .. n : Others(n)[k] = Others(n)[l] => k = l
      /\ \A s \in Slots, k \in 1 .. n :
             Distance(other, s) <= Distance(other, Others(n)[k]) => \E l \in 1 .. n : Others(n)[l] = s
  BY <1>1, OthersType DEF Nearest
<1>4. \A s \in Slots, t \in ToSet(Others(n)) :
          Distance(other, s) <= Distance(other, t) => s \in ToSet(Others(n))
  BY <1>3, ListEntries
<1>5. \A s \in Slots : len <= s /\ s < len' => s \in ToSet(Others(n))
  <2> DEFINE none == {}
  <2>1. Len(Others(n)) \in Nat \ {0} /\ \A s \in none : s < len
    BY <1>1, <1>3
  <2> HIDE DEF none
  <2>2. \A s \in Slots, t \in ToSet(Others(n)) :
            s \notin none /\ t \notin none /\ Distance(other, s) <= Distance(other, t)
                => s \in ToSet(Others(n))
    BY <1>4
  <2> QED
    BY <1>1, <1>2, <1>3, <2>1, <2>2, NothingLeftOut
<1>6. \A s \in Slots : Reusable(s) <=> s < len /\ s \notin live
  BY <1>1, PoppedExact
<1> QED
  BY <1>1, <1>2, <1>3, <1>5, <1>6

LEMMA ExtendOtherExact ==
    ASSUME TypeInv, Exact(StateDict), LiveOnly, NEW n \in 1 .. Capacity, ExtendOther(n)
    PROVE  Exact(StateDict)'
<1> DEFINE at == Others(n)
<1>1. /\ at \in Seq(Slots) /\ Len(at) \in Nat \ {0}
      /\ \A s \in Slots : len <= s /\ s < len' => s \in ToSet(at)
      /\ \A s \in Slots : s < len /\ s \notin live => s \notin ToSet(at)
      /\ Store(at) /\ MarkLive(at)
      /\ UNCHANGED <<alone, cursor, free, saved>> /\ ~ alone
  BY ExtendOtherSlots
<1> HIDE DEF at
<1>2. /\ Counted(StateDict)' /\ Distinct(StateDict)'
      /\ \A s \in Slots :
             s < len' /\ s \notin live' <=> s < len /\ s \notin live /\ s \notin ToSet(at)
  BY <1>1, WriteExact
<1>3. Listed(StateDict)'
  <2>1. /\ \A s \in Slots : s < len /\ s \notin live <=> \E i \in DOMAIN free : free[i] = s
        /\ \A i, j \in DOMAIN free : free[i] = free[j] => i = j
    BY DEF Exact, Listed, StateDict
  <2> QED
    BY <1>1, <1>2, <2>1 DEF Listed, StateDict
<1>4. InRing(StateDict)'
  <2>1. len' \in Capacities /\ len <= len' /\ cursor <= len /\ cursor \in Nat /\ len \in Nat
    BY <1>1, Written, Exactness, Types, ConsumingAssumption DEF Slots
  <2>2. cursor' <= len'
    BY <1>1, <2>1 DEF Capacities
  <2> QED
    BY <1>1, <2>2 DEF InRing, StateDict
<1> QED
  BY <1>2, <1>3, <1>4 DEF Exact

\* What is sampled for the last time enters the free list, once.
LEMMA SampleExact ==
    ASSUME TypeInv, Exact(StateDict), Sample
    PROVE  Exact(StateDict)'
<1>1. PICK index \in SUBSET live, order \in Seq(Slots) :
          /\ count' = [s \in Slots |-> IF s \in index THEN count[s] + 1 ELSE count[s]]
          /\ live' = live \ Consumed(index)
          /\ free' = free \o order
          /\ \A i, j \in 1 .. Len(order) : order[i] = order[j] => i = j
          /\ \A s : s \in Consumed(index) <=> \E i \in 1 .. Len(order) : order[i] = s
          /\ UNCHANGED <<alone, cursor, other, len, rec, known, written, saved>>
  BY SampleCall
<1>2. /\ \A s \in Slots : /\ s < len /\ s \notin live => count[s] = MaxSampleCount
                          /\ s >= len => count[s] = 0
      /\ \A s \in Slots : s < len /\ s \notin live <=> \E i \in 1 .. Len(free) : free[i] = s
      /\ \A i, j \in 1 .. Len(free) : free[i] = free[j] => i = j
  BY Exactness
<1>3. /\ free \in Seq(Slots) /\ len \in Nat /\ live \in SUBSET Slots
      /\ \A s \in live : count[s] < MaxSampleCount /\ s < len
      /\ \A s \in Slots : count[s] \in Nat /\ s \in Nat
      /\ MaxSampleCount \in Nat
  <2>1. MaxSampleCount \in Nat /\ Capacity \in Nat /\ \A s \in Slots : s \in Nat
    BY ConsumingAssumption DEF Slots
  <2>2. \A s \in Slots : count[s] \in 0 .. MaxSampleCount
    BY Types
  <2>3. \A s \in Slots : count[s] \in Nat
    BY <2>1, <2>2
  <2> QED
    BY <2>1, <2>3, Types
<1>4. Consumed(index) \in SUBSET live /\ \A s \in Consumed(index) : s < len
  BY <1>1, <1>3 DEF Consumed
<1>5. Counted(StateDict)'
  <2>1. ASSUME NEW s \in Slots
        PROVE  /\ s < len /\ s \notin live' => count'[s] = MaxSampleCount
               /\ s >= len => count'[s] = 0
    <3>1. count'[s] = IF s \in index THEN count[s] + 1 ELSE count[s]
      BY <1>1
    <3>2. s \in Consumed(index) => count'[s] = MaxSampleCount
      <4>1. s \in Consumed(index) => s \in index /\ count[s] + 1 >= MaxSampleCount /\ s \in live
        BY <1>4 DEF Consumed
      <4> QED
        BY <1>3, <3>1, <4>1
    <3>3. s \notin live => count'[s] = count[s]
      BY <1>1, <3>1
    <3>4. s >= len => s \notin live
      BY <1>3
    <3> QED
      BY <1>1, <1>2, <3>2, <3>3, <3>4
  <2>2. len' = len
    BY <1>1
  <2> QED
    BY <2>1, <2>2 DEF Counted, StateDict
<1> DEFINE a == Len(free)
           b == Len(order)
<1>6. a \in Nat /\ b \in Nat
  BY <1>3, LenProperties
<1>7. /\ DOMAIN free' = 1 .. a + b
      /\ \A i \in 1 .. a + b : free'[i] = IF i <= a THEN free[i] ELSE order[i - a]
  <2>1. free' \in Seq(Slots) /\ Len(free') = a + b
    BY <1>1, <1>3, ConcatProperties
  <2> QED
    BY <1>1, <1>3, <2>1, ConcatProperties, LenProperties
<1> HIDE DEF a, b
<1>8. ASSUME NEW s \in Slots
      PROVE  s < len /\ s \notin live' <=> \E i \in 1 .. a + b : free'[i] = s
  <2>1. s < len /\ s \notin live' <=> s \in Consumed(index) \/ (s < len /\ s \notin live)
    BY <1>1, <1>4
  <2>2. ASSUME NEW i \in 1 .. a, free[i] = s PROVE i \in 1 .. a + b /\ free'[i] = s
    BY <1>6, <1>7, <2>2
  <2>3. ASSUME NEW i \in 1 .. b, order[i] = s PROVE a + i \in 1 .. a + b /\ free'[a + i] = s
    <3>1. a + i \in 1 .. a + b /\ ~ (a + i <= a) /\ (a + i) - a = i
      BY <1>6
    <3> QED
      BY <1>7, <2>3, <3>1
  <2>4. ASSUME NEW i \in 1 .. a + b, free'[i] = s
        PROVE  s \in Consumed(index) \/ (s < len /\ s \notin live)
    <3>1. CASE i <= a
      <4>1. i \in 1 .. a /\ free[i] = s
        BY <1>6, <1>7, <2>4, <3>1
      <4> QED
        BY <1>2, <4>1 DEF a
    <3>2. CASE ~ (i <= a)
      <4>1. i - a \in 1 .. b /\ order[i - a] = s
        BY <1>6, <1>7, <2>4, <3>2
      <4> QED
        BY <1>1, <4>1 DEF b
    <3> QED
      BY <3>1, <3>2
  <2> QED
    BY <1>1, <1>2, <2>1, <2>2, <2>3, <2>4 DEF a, b
<1>9. ASSUME NEW i \in 1 .. a + b, NEW j \in 1 .. a + b, free'[i] = free'[j] PROVE i = j
  <2>1. \A k \in 1 .. a + b : k <= a => k \in 1 .. a /\ free'[k] = free[k]
    BY <1>6, <1>7
  <2>2. \A k \in 1 .. a + b : ~ (k <= a) => k - a \in 1 .. b /\ free'[k] = order[k - a]
    BY <1>6, <1>7
  <2>3. \A k \in 1 .. a : free[k] \in Slots /\ free[k] \notin live
    <3>1. \A k \in 1 .. a : free[k] \in Slots
      BY <1>3, ListEntries DEF a
    <3> QED
      BY <1>2, <3>1 DEF a
  <2>4. \A k \in 1 .. b : order[k] \in live
    BY <1>1, <1>4 DEF b
  <2>5. i <= a <=> j <= a
    BY <1>9, <2>1, <2>2, <2>3, <2>4
  <2>6. CASE i <= a
    BY <1>2, <1>9, <2>1, <2>5, <2>6 DEF a
  <2>7. CASE ~ (i <= a)
    <3> DEFINE k == i - a
               l == j - a
    <3>1. k \in 1 .. b /\ l \in 1 .. b /\ order[k] = order[l]
      BY <1>9, <2>2, <2>5, <2>7
    <3> HIDE DEF k, l
    <3>2. k = l
      BY <1>1, <3>1 DEF b
    <3> QED
      BY <1>6, <3>2 DEF k, l
  <2> QED
    BY <2>6, <2>7
<1>10. Listed(StateDict)'
  <2>1. len' = len
    BY <1>1
  <2> QED
    BY <1>7, <1>8, <1>9, <2>1 DEF Listed, StateDict
<1>11. InRing(StateDict)' /\ Distinct(StateDict)'
  <2>1. cursor' = cursor /\ len' = len /\ alone' = alone /\ rec' = rec
    BY <1>1
  <2> QED
    BY <2>1 DEF Exact, InRing, Distinct, StateDict
<1> QED
  BY <1>5, <1>10, <1>11 DEF Exact

LEMMA PoolStep ==
    ASSUME PoolInv, [Next]_vars
    PROVE  PoolInv'
<1>1. /\ TypeInv /\ (alone \/ LiveOnly) /\ Exact(StateDict) /\ \A b \in saved : Exact(b)
      /\ \A b \in saved : Typed(b)
  BY DEF PoolInv, TypeInv
<1>2. TypeInv'
  BY <1>1, TypeStep
<1>3. \A b : Exact(b) /\ alone' = alone => Exact(b)'
  BY DEF Exact, Counted, Listed, InRing, Distinct
<1>4. ASSUME Exact(StateDict)', UNCHANGED <<alone, saved>> PROVE PoolInv'
  BY <1>1, <1>2, <1>3, <1>4 DEF PoolInv
<1>5. ASSUME NEW n \in 1 .. Capacity, Extend(n) PROVE PoolInv'
  BY <1>1, <1>4, <1>5, ExtendExact, ExtendCall
<1>6. ASSUME NEW n \in 1 .. Capacity, ExtendOther(n) PROVE PoolInv'
  <2>1. ~ alone /\ UNCHANGED <<alone, saved>>
    BY <1>6 DEF ExtendOther
  <2> QED
    BY <1>1, <1>4, <1>6, <2>1, ExtendOtherExact
<1>7. CASE Sample
  <2>1. UNCHANGED <<alone, saved>>
    BY <1>7 DEF Sample
  <2> QED
    BY <1>1, <1>4, <1>7, <2>1, SampleExact
<1>8. CASE Empty
  <2>1. UNCHANGED <<alone, saved>>
    BY <1>8 DEF Empty
  <2> QED
    BY <1>1, <1>4, <1>8, <2>1, EmptyFresh
<1>9. CASE Save
  <2>1. UNCHANGED <<alone, cursor, len, rec, count, live, known, free>>
    BY <1>9 DEF Save, sampler
  <2>2. Exact(StateDict)'
    BY <1>1, <2>1 DEF Exact, Counted, Listed, InRing, Distinct, StateDict
  <2>3. \A b \in saved' : Exact(b)'
    BY <1>1, <1>3, <1>9, <2>1, SaveCall
  <2> QED
    BY <1>1, <1>2, <2>1, <2>2, <2>3 DEF PoolInv
<1>10. CASE Load
  <2>1. PICK b \in saved :
            /\ cursor' = b.cursor /\ len' = b.len /\ rec' = b.rec
            /\ count' = b.count /\ live' = b.live /\ known' = b.known
            /\ free' = b.free
            /\ UNCHANGED <<alone, other, written, saved>>
    BY <1>1, <1>10, LoadCall
  <2>2. Exact(b)
    BY <1>1
  <2>3. Exact(StateDict)'
    BY <2>1, <2>2 DEF Exact, Counted, Listed, InRing, Distinct, StateDict
  <2> QED
    BY <1>4, <2>1, <2>3
<1>11. CASE UNCHANGED vars
  <2>1. UNCHANGED <<alone, cursor, len, rec, count, live, known, free, saved>>
    BY <1>11 DEF vars, sampler
  <2>2. Exact(StateDict)'
    BY <1>1, <2>1 DEF Exact, Counted, Listed, InRing, Distinct, StateDict
  <2> QED
    BY <1>4, <2>1, <2>2
<1> QED
  BY <1>5, <1>6, <1>7, <1>8, <1>9, <1>10, <1>11 DEF Next

LEMMA PoolInit ==
    ASSUME SlotsAreOwn, Init
    PROVE  PoolInv
<1>1. TypeInv /\ Exact(StateDict) /\ saved = {}
  BY InitInv
<1>2. alone \/ LiveOnly
  <2>1. CASE LiveOnly
    BY <2>1
  <2>2. CASE TRUE \notin OtherWriters
    <3>1. PICK w \in OtherWriters : alone = ~ w
      BY DEF Init
    <3>2. w \in BOOLEAN /\ w # TRUE
      BY <2>2, ConsumingAssumption
    <3> QED
      BY <3>1, <3>2
  <2> QED
    BY <2>1, <2>2 DEF SlotsAreOwn
<1> QED
  BY <1>1, <1>2 DEF PoolInv

\* Every consumed slot is in the free list exactly once, when no other buffer writes to
\* consumed slots.
THEOREM FreeListIsExact ==
    ASSUME SlotsAreOwn
    PROVE  Spec => []FreeListExact
<1>1. Init => PoolInv
  BY PoolInit
<1>2. PoolInv /\ [Next]_vars => PoolInv'
  BY PoolStep
<1>3. PoolInv => FreeListExact
  <2> SUFFICES ASSUME PoolInv, NEW s \in Slots, Reusable(s)
               PROVE  \E i \in DOMAIN free : \A j \in DOMAIN free : free[j] = s <=> j = i
    BY DEF FreeListExact
  <2>1. TypeInv /\ Exact(StateDict)
    BY DEF PoolInv
  <2>2. s < len /\ s \notin live
    BY <2>1, Types DEF Reusable
  <2>3. DOMAIN free = 1 .. Len(free)
    BY <2>1, Types, LenProperties
  <2>4. PICK i \in 1 .. Len(free) : free[i] = s
    BY <2>1, <2>2, Exactness
  <2>5. \A j \in 1 .. Len(free) : free[j] = s <=> j = i
    BY <2>1, <2>4, Exactness
  <2> QED
    BY <2>3, <2>4, <2>5
<1> QED
  BY <1>1, <1>2, <1>3, PTL DEF Spec

-----------------------------------------------------------------------------
(***************************************************************************)
(* The refinement of ConsumingPool.                                        *)
(***************************************************************************)
Uses == UsesOf(rec, count, live)

\* The pool counts as the buffer does.
LEMMA PromisedSize == ASSUME NEW S PROVE Promised!Cardinality(S) = Cardinality(S)
BY DEF Promised!Cardinality, Cardinality

LEMMA UsesShape ==
    ASSUME NEW records, NEW counts, NEW slots,
           \A s, t \in slots : records[s] = records[t] => s = t
    PROVE  LET u == UsesOf(records, counts, slots)
           IN  /\ u = [r \in DOMAIN u |-> u[r]]
               /\ \A r : r \in DOMAIN u <=> \E s \in slots : records[s] = r
               /\ \A s \in slots : u[records[s]] = MaxSampleCount - counts[s]
<1> DEFINE u == UsesOf(records, counts, slots)
<1>1. u = [r \in {records[s] : s \in slots} |->
               MaxSampleCount - counts[CHOOSE s \in slots : records[s] = r]]
  BY DEF UsesOf
<1>2. DOMAIN u = {records[s] : s \in slots}
  BY <1>1
<1>3. ASSUME NEW s \in slots PROVE u[records[s]] = MaxSampleCount - counts[s]
  <2>1. (CHOOSE t \in slots : records[t] = records[s]) = s
    OBVIOUS
  <2> QED
    BY <1>1, <2>1
<1>4. u = [r \in DOMAIN u |-> u[r]]
  BY <1>1
<1> QED
  BY <1>2, <1>3, <1>4

\* The elements a function takes on a finite set where it is injective.
LEMMA SameSize ==
    ASSUME NEW S, IsFiniteSet(S), NEW f, \A s, t \in S : f[s] = f[t] => s = t
    PROVE  IsFiniteSet({f[s] : s \in S}) /\ Cardinality({f[s] : s \in S}) = Cardinality(S)
<1> DEFINE T == {f[s] : s \in S}
           g == [s \in S |-> f[s]]
<1>1. g \in [S -> T] /\ \A s, t \in S : g[s] = g[t] => s = t
  OBVIOUS
<1>2. \A r \in T : \E s \in S : g[s] = r
  OBVIOUS
<1>3. g \in Injection(S, T) /\ g \in Surjection(S, T)
  BY <1>1, <1>2 DEF Injection, IsInjective, Surjection
<1>4. ExistsBijection(S, T)
  BY <1>3 DEF ExistsBijection, Bijection
<1> QED
  BY <1>4, FS_Bijection

\* What the pool is made of.
LEMMA PoolOf ==
    ASSUME TypeInv, Exact(StateDict)
    PROVE  /\ \A s, t \in live : rec[s] = rec[t] => s = t
           /\ Uses = [r \in DOMAIN Uses |-> Uses[r]]
           /\ DOMAIN Uses = {rec[s] : s \in live}
           /\ \A s \in live : Uses[rec[s]] = MaxSampleCount - count[s]
           /\ IsFiniteSet(DOMAIN Uses) /\ Cardinality(DOMAIN Uses) = Cardinality(live)
<1>1. \A s, t \in live : rec[s] = rec[t] => s = t
  BY Types, Exactness
<1>2. /\ Uses = [r \in DOMAIN Uses |-> Uses[r]]
      /\ \A r : r \in DOMAIN Uses <=> \E s \in live : rec[s] = r
      /\ \A s \in live : Uses[rec[s]] = MaxSampleCount - count[s]
  BY <1>1, UsesShape DEF Uses
<1>3. DOMAIN Uses = {rec[s] : s \in live}
  BY <1>2
<1>4. IsFiniteSet(DOMAIN Uses) /\ Cardinality(DOMAIN Uses) = Cardinality(live)
  <2>1. IsFiniteSet(live)
    BY Types
  <2>2. IsFiniteSet({rec[s] : s \in live}) /\ Cardinality({rec[s] : s \in live}) = Cardinality(live)
    BY <1>1, <2>1, SameSize
  <2> QED
    BY <1>3, <2>2
<1> QED
  BY <1>1, <1>2, <1>3, <1>4

\* The new records of a write are the next ones.
LEMMA NewRecordsOf ==
    ASSUME TypeInv, NEW n \in 1 .. Capacity, NEW at \in Seq(Slots), Len(at) = n,
           Store(at), MarkLive(at),
           \A k, l \in 1 .. n : at[k] = at[l] => k = l
    PROVE  /\ IsFiniteSet(ToSet(at)) /\ Cardinality(ToSet(at)) = n
           /\ {rec'[s] : s \in ToSet(at)} = written + 1 .. written + n
<1> DEFINE on == ToSet(at)
           new == written + 1 .. written + n
           f == [s \in on |-> rec'[s]]
<1>1. n \in Nat \ {0} /\ written \in Nat
  BY Types
<1>2. /\ on \in SUBSET Slots
      /\ \A s \in on : rec'[s] \in written + 1 .. written'
      /\ \A s, t \in on : rec'[s] = rec'[t] => s = t
      /\ written' = written + n
  BY <1>1, Written
<1>3. IsFiniteSet(on) /\ Cardinality(on) = n
  <2>1. \A s : s \in on <=> \E i \in 1 .. n : at[i] = s
    BY ListEntries
  <2>2. on = {at[i] : i \in 1 .. n}
    BY <2>1
  <2>3. IsFiniteSet(1 .. n) /\ Cardinality(1 .. n) = n
    BY <1>1, FS_Interval
  <2> QED
    BY <2>2, <2>3, SameSize
<1>4. f \in Injection(on, new)
  BY <1>2 DEF Injection, IsInjective
<1>5. IsFiniteSet(new) /\ Cardinality(new) = n
  <2>1. /\ written + 1 \in Int /\ written + n \in Int /\ ~ (written + 1 > written + n)
        /\ (written + n) - (written + 1) + 1 = n
    BY <1>1
  <2> QED
    BY <2>1, FS_Interval
<1>6. f \in Surjection(on, new)
  BY <1>3, <1>4, <1>5, FS_Injection
<1>7. \A r \in new : \E s \in on : rec'[s] = r
  BY <1>6 DEF Surjection
<1>8. \A s \in on : rec'[s] \in new
  BY <1>2
<1> HIDE DEF new, on
<1>9. {rec'[s] : s \in on} = new
  BY <1>7, <1>8
<1> QED
  BY <1>3, <1>9 DEF new, on

\* A write to n slots of its own is a write of the pool: the records it gives up are those
\* of the slots it reaches that can be sampled.  A buffer that is alone reaches one only
\* when each slot it does not write to holds a record that can be sampled.
LEMMA WriteIsWrite ==
    ASSUME TypeInv, Exact(StateDict), alone' = alone, saved' = saved,
           NEW n \in 1 .. Capacity, NEW at \in Seq(Slots), Len(at) = n,
           Store(at), MarkLive(at),
           \A k, l \in 1 .. n : at[k] = at[l] => k = l,
           alone => live \cap ToSet(at) = {} \/ Slots \in SUBSET (live \cup ToSet(at))
    PROVE  Promised!Write(n)
<1> DEFINE on == ToSet(at)
           hit == live \cap on
           d == {rec[s] : s \in hit}
           new == written + 1 .. written + n
<1>1. /\ n \in Nat \ {0} /\ n <= Capacity /\ Capacity \in Nat /\ MaxSampleCount \in Nat \ {0}
  BY ConsumingAssumption
<1>2. /\ on \in SUBSET Slots /\ IsFiniteSet(on) /\ Cardinality(on) = n
      /\ {rec'[s] : s \in on} = new
      /\ written' = written + n
      /\ \A s \in Slots : s \notin on => rec'[s] = rec[s]
      /\ \A s, t \in on : rec'[s] = rec'[t] => s = t
      /\ \A s \in Slots : count'[s] = IF s \in on THEN 0 ELSE count[s]
      /\ live' = live \cup on
  BY <1>1, Written, NewRecordsOf
<1>3. /\ written \in Nat /\ \A s \in Slots : rec[s] \in 0 .. written
      /\ live \in SUBSET Slots /\ IsFiniteSet(live) /\ Cardinality(live) \in Nat
  BY Types
<1>4. /\ \A s, t \in live : rec[s] = rec[t] => s = t
      /\ DOMAIN Uses = {rec[s] : s \in live}
      /\ \A s \in live : Uses[rec[s]] = MaxSampleCount - count[s]
      /\ IsFiniteSet(DOMAIN Uses) /\ Cardinality(DOMAIN Uses) = Cardinality(live)
  BY PoolOf
<1> HIDE DEF on, new
<1>5. \A s \in live : rec[s] \notin new
  BY <1>3 DEF new
<1>6. \A s \in on : rec'[s] \in new
  BY <1>2
<1>7. \A s, t \in live' : rec'[s] = rec'[t] => s = t
  <2>1. \A s \in live : s \notin on => rec'[s] = rec[s] /\ rec'[s] \notin new
    BY <1>2, <1>3, <1>5
  <2> QED
    BY <1>2, <1>4, <1>6, <2>1
<1>8. Cardinality(d) \in Promised!Excess(n) .. n /\ (alone => Cardinality(d) = Promised!Excess(n))
  <2>1. IsFiniteSet(hit) /\ Cardinality(hit) \in Nat /\ Cardinality(hit) <= n
    BY <1>2, <1>3, FS_Intersection, FS_CardinalityType
  <2>2. Cardinality(d) = Cardinality(hit)
    BY <1>4, <2>1, SameSize
  <2>3. /\ IsFiniteSet(live \cup on)
        /\ Cardinality(live \cup on) = Cardinality(live) + n - Cardinality(hit)
    BY <1>2, <1>3, FS_Union
  <2>4. IsFiniteSet(Slots) /\ Cardinality(Slots) = Capacity
    <3>1. 0 \in Int /\ Capacity - 1 \in Int /\ ~ (0 > Capacity - 1) /\ Capacity - 1 - 0 + 1 = Capacity
      BY ConsumingAssumption
    <3> QED
      BY <3>1, FS_Interval DEF Slots
  <2>5. live \cup on \in SUBSET Slots
    BY <1>2, <1>3
  <2>6. Cardinality(live \cup on) <= Capacity /\ Cardinality(live) <= Capacity
    BY <1>3, <2>4, <2>5, FS_Subset
  <2>7. Promised!Excess(n) = IF Cardinality(live) + n > Capacity
                             THEN Cardinality(live) + n - Capacity ELSE 0
    BY <1>4, PromisedSize DEF Promised!Excess, Promised!Pool, Uses
  <2>8. ASSUME alone PROVE hit = {} \/ Cardinality(live \cup on) = Capacity
    <3>1. CASE Slots \in SUBSET (live \cup on)
      <4>1. live \cup on = Slots
        BY <2>5, <3>1
      <4> QED
        BY <2>4, <4>1
    <3> QED
      BY <2>8, <3>1 DEF on
  <2>9. hit = {} => Cardinality(hit) = 0
    BY FS_EmptySet
  <2> DEFINE h == Cardinality(hit)
             c == Cardinality(live)
             e == Promised!Excess(n)
             u == Cardinality(live \cup on)
  <2>10. /\ h \in Nat /\ h <= n /\ c \in Nat /\ c <= Capacity
         /\ u = c + n - h /\ u <= Capacity
         /\ e = (IF c + n > Capacity THEN c + n - Capacity ELSE 0)
         /\ (alone => h = 0 \/ u = Capacity)
    BY <1>3, <2>1, <2>3, <2>6, <2>7, <2>8, <2>9
  <2> HIDE DEF h, c, e, u, hit, d
  <2>11. h \in e .. n /\ (alone => h = e)
    BY <1>1, <2>10
  <2> QED
    BY <2>2, <2>11 DEF h, e
<1>9. d \in Promised!Dropped(n)
  <2>1. d \in SUBSET Promised!Pool
    BY <1>4 DEF Promised!Pool, Uses
  <2> HIDE DEF d
  <2> QED
    BY <1>8, <2>1, PromisedSize DEF Promised!Dropped
<1> DEFINE kept == (Promised!Pool \ d) \cup Promised!NewRecords(n)
<1>10. \A r : r \in kept <=> (\E s \in live \ on : rec[s] = r) \/ r \in new
  <2>1. Promised!Pool = {rec[s] : s \in live} /\ Promised!NewRecords(n) = new
    BY <1>4 DEF Promised!Pool, Promised!NewRecords, Uses, new
  <2>2. ASSUME NEW r
        PROVE  r \in {rec[s] : s \in live} /\ r \notin d <=> \E s \in live \ on : rec[s] = r
    BY <1>4
  <2> QED
    BY <2>1, <2>2
<1> DEFINE after == UsesOf(rec', count', live')
<1>11. /\ after = [r \in DOMAIN after |-> after[r]]
       /\ \A r : r \in DOMAIN after <=> \E s \in live' : rec'[s] = r
       /\ \A s \in live' : after[rec'[s]] = MaxSampleCount - count'[s]
  BY <1>7, UsesShape
<1> HIDE DEF after, kept, d, hit
<1>12. DOMAIN after = kept
  <2>1. ASSUME NEW r \in DOMAIN after PROVE r \in kept
    <3>1. PICK s \in live' : rec'[s] = r
      BY <1>11
    <3>2. CASE s \in on
      BY <1>6, <1>10, <3>1, <3>2
    <3>3. CASE s \notin on
      <4>1. s \in live \ on /\ rec[s] = r
        BY <1>2, <1>3, <3>1, <3>3
      <4> QED
        BY <1>10, <4>1
    <3> QED
      BY <3>2, <3>3
  <2>2. ASSUME NEW r \in kept PROVE r \in DOMAIN after
    <3>1. CASE r \in new
      <4>1. \E s \in on : rec'[s] = r
        BY <1>2, <3>1
      <4> QED
        BY <1>2, <1>11, <4>1
    <3>2. CASE r \notin new
      <4>1. PICK s \in live \ on : rec[s] = r
        BY <1>10, <3>2
      <4>2. s \in live' /\ rec'[s] = r
        BY <1>2, <1>3, <4>1
      <4> QED
        BY <1>11, <4>2
    <3> QED
      BY <3>1, <3>2
  <2> QED
    BY <2>1, <2>2
<1>13. ASSUME NEW r \in kept
       PROVE  after[r] = IF r \in Promised!Pool THEN Uses[r] ELSE MaxSampleCount
  <2>0. Promised!Pool = {rec[s] : s \in live}
    BY <1>4 DEF Promised!Pool, Uses
  <2>1. CASE r \in new
    <3>1. PICK s \in on : rec'[s] = r
      BY <1>2, <2>1
    <3>2. after[r] = MaxSampleCount - 0
      BY <1>2, <1>11, <3>1
    <3>3. r \notin Promised!Pool
      BY <1>5, <2>0, <2>1
    <3> QED
      BY <1>1, <3>2, <3>3
  <2>2. CASE r \notin new
    <3>1. PICK s \in live \ on : rec[s] = r
      BY <1>10, <2>2
    <3>2. s \in live' /\ rec'[s] = r /\ count'[s] = count[s]
      BY <1>2, <1>3, <3>1
    <3>3. after[r] = MaxSampleCount - count[s]
      BY <1>11, <3>2
    <3>4. r \in Promised!Pool /\ Uses[r] = MaxSampleCount - count[s]
      BY <1>4, <2>0, <3>1
    <3> QED
      BY <3>3, <3>4
  <2> QED
    BY <2>1, <2>2
<1>14. after = Promised!Holds(kept)
  <2>1. after = [r \in kept |-> after[r]]
    BY <1>11, <1>12
  <2>2. after = [r \in kept |-> IF r \in Promised!Pool THEN Uses[r] ELSE MaxSampleCount]
    BY <1>13, <2>1
  <2> QED
    BY <2>2 DEF Promised!Holds, Uses
<1>15. UsesOf(rec, count, live)' = Promised!Holds((Promised!Pool \ d) \cup Promised!NewRecords(n))
  BY <1>14 DEF after, kept
<1> QED
  BY <1>2, <1>9, <1>15 DEF Promised!Write

\* An extend of a buffer that is alone gives up a record only when it needs each slot that
\* holds none.
LEMMA ExtendIsWrite ==
    ASSUME TypeInv, Exact(StateDict), NEW n \in 1 .. Capacity, Extend(n)
    PROVE  Promised!Write(n)
<1> DEFINE on == ToSet(Targets(n))
           r == n - Len(Popped(n))
<1>1. /\ Targets(n) \in Seq(Slots) /\ Len(Targets(n)) = n /\ n \in Nat \ {0}
      /\ \A k, l \in 1 .. n : Targets(n)[k] = Targets(n)[l] => k = l
      /\ \A s \in ToSet(Popped(n)) : s < len /\ s \notin live /\ s \in on
  BY ExtendSlots
<1>2. Store(Targets(n)) /\ MarkLive(Targets(n)) /\ alone' = alone /\ saved' = saved
  BY ExtendCall
<1>3. /\ Len(Popped(n)) \in 0 .. n
      /\ \A s \in Slots, k \in 1 .. r :
             s \notin ToSet(Popped(n)) /\ Distance(cursor, s) <= Distance(cursor, Ringed(n)[k])
                 => \E l \in 1 .. r : Ringed(n)[l] = s
      /\ \A s : s \in on <=> s \in ToSet(Popped(n)) \/ \E k \in 1 .. r : Ringed(n)[k] = s
  BY Types, TargetsType
<1>4. /\ \A s \in Slots : Reusable(s) <=> s < len /\ s \notin live
      /\ Len(Popped(n)) < n => \A s \in Slots : Reusable(s) => s \in ToSet(Popped(n))
  BY <1>1, PoppedExact
<1>5. /\ len \in Nat /\ len <= Capacity /\ live \in SUBSET Slots /\ \A s \in live : s < len
      /\ cursor \in Slots /\ (alone /\ len < Capacity => cursor = len)
      /\ \A s \in Slots : s \in Nat /\ s < Capacity
  <2>1. \A s \in Slots : s \in Nat /\ s < Capacity
    BY ConsumingAssumption DEF Slots
  <2> QED
    BY <2>1, Types, Exactness
<1>6. ASSUME alone, live \cap on # {} PROVE Slots \in SUBSET (live \cup on)
  <2>1. PICK t \in live \cap on : TRUE
    BY <1>6
  <2>2. t \notin ToSet(Popped(n)) /\ t < len /\ t \in Slots
    BY <1>1, <1>5, <2>1
  <2>3. PICK k \in 1 .. r : Ringed(n)[k] = t
    BY <1>3, <2>1, <2>2
  <2>4. Len(Popped(n)) < n
    BY <1>1, <1>3, <2>3
  <2> HIDE DEF on, r
  <2>5. ASSUME NEW s \in Slots PROVE s \in live \cup on
    <3>1. CASE s < len
      BY <1>1, <1>4, <2>4, <3>1
    <3>2. CASE ~ (s < len)
      <4>1. s \in Nat /\ t \in Nat /\ s < Capacity /\ Capacity \in Nat
        BY <1>5, <2>2, ConsumingAssumption
      <4>2. len < Capacity /\ s \notin ToSet(Popped(n))
        BY <1>1, <1>5, <3>2, <4>1
      <4>3. cursor = len
        BY <1>5, <1>6, <4>2
      <4>4. Distance(cursor, s) <= Distance(cursor, t)
        BY <1>5, <2>2, <3>2, <4>1, <4>3 DEF Distance
      <4> QED
        BY <1>3, <2>3, <4>2, <4>4
    <3> QED
      BY <3>1, <3>2
  <2> QED
    BY <2>5
<1> QED
  BY <1>1, <1>2, <1>6, WriteIsWrite

LEMMA ExtendOtherIsWrite ==
    ASSUME TypeInv, Exact(StateDict), LiveOnly, NEW n \in 1 .. Capacity, ExtendOther(n)
    PROVE  Promised!Write(n)
<1>1. /\ Others(n) \in Seq(Slots) /\ Len(Others(n)) = n
      /\ \A k, l \in 1 .. n : Others(n)[k] = Others(n)[l] => k = l
      /\ Store(Others(n)) /\ MarkLive(Others(n))
      /\ alone' = alone /\ saved' = saved /\ ~ alone
  BY ExtendOtherSlots
<1> QED
  BY <1>1, WriteIsWrite

\* A sample takes one use of each record it returns, and the records whose last use that
\* was leave the pool.
LEMMA SampleIsSample ==
    ASSUME TypeInv, Exact(StateDict), Sample
    PROVE  Promised!Sample
<1>1. PICK index \in SUBSET live, order \in Seq(Slots) :
          /\ Cardinality(index) = Smaller(BatchSize, Cardinality(live))
          /\ count' = [s \in Slots |-> IF s \in index THEN count[s] + 1 ELSE count[s]]
          /\ live' = live \ Consumed(index)
          /\ UNCHANGED <<alone, cursor, other, len, rec, known, written, saved>>
  BY SampleCall
<1>2. /\ \A s, t \in live : rec[s] = rec[t] => s = t
      /\ DOMAIN Uses = {rec[s] : s \in live}
      /\ \A s \in live : Uses[rec[s]] = MaxSampleCount - count[s]
      /\ IsFiniteSet(DOMAIN Uses) /\ Cardinality(DOMAIN Uses) = Cardinality(live)
  BY PoolOf
<1>3. /\ IsFiniteSet(live) /\ Cardinality(live) \in Nat /\ live \in SUBSET Slots
      /\ MaxSampleCount \in Nat \ {0} /\ BatchSize \in Nat \ {0}
  BY Types, ConsumingAssumption
<1>4. \A s \in Slots : count[s] \in 0 .. MaxSampleCount
  BY Types
<1> DEFINE b == {rec[s] : s \in index}
<1>5. b \in SUBSET Promised!Pool
  BY <1>1, <1>2 DEF Promised!Pool, Uses
<1>6. Promised!Cardinality(b) = (IF Promised!Cardinality(Promised!Pool) < BatchSize
                                 THEN Promised!Cardinality(Promised!Pool) ELSE BatchSize)
  <2>1. IsFiniteSet(index)
    BY <1>1, <1>3, FS_Subset
  <2>2. \A s, t \in index : rec[s] = rec[t] => s = t
    BY <1>1, <1>2
  <2>3. Cardinality(b) = Cardinality(index)
    BY <2>1, <2>2, SameSize
  <2>4. Promised!Cardinality(b) = Cardinality(index)
    BY <2>3, PromisedSize
  <2>5. Promised!Cardinality(Promised!Pool) = Cardinality(live)
    BY <1>2, PromisedSize DEF Promised!Pool, Uses
  <2> HIDE DEF b
  <2>6. Smaller(BatchSize, Cardinality(live))
            = IF Cardinality(live) < BatchSize THEN Cardinality(live) ELSE BatchSize
    BY <1>3 DEF Smaller
  <2> QED
    BY <1>1, <2>4, <2>5, <2>6
<1> DEFINE after == UsesOf(rec', count', live')
           kept == {p \in Promised!Pool : p \in b => Uses[p] > 1}
<1>7. ASSUME NEW s \in live
      PROVE  /\ rec[s] \in b <=> s \in index
             /\ s \in live' <=> rec[s] \in kept
             /\ count'[s] = IF s \in index THEN count[s] + 1 ELSE count[s]
  <2>1. rec[s] \in b <=> s \in index
    BY <1>1, <1>2
  <2>2. count[s] \in 0 .. MaxSampleCount /\ s \in Slots
    BY <1>3, <1>4
  <2>3. Uses[rec[s]] > 1 <=> ~ (count[s] + 1 >= MaxSampleCount)
    <3>1. count[s] \in Nat /\ MaxSampleCount \in Nat
      BY <1>3, <2>2
    <3>2. Uses[rec[s]] = MaxSampleCount - count[s]
      BY <1>2
    <3>3. MaxSampleCount - count[s] > 1 <=> ~ (count[s] + 1 >= MaxSampleCount)
      BY <3>1
    <3> QED
      BY <3>2, <3>3
  <2>4. rec[s] \in Promised!Pool
    BY <1>2 DEF Promised!Pool, Uses
  <2>5. s \in live' <=> (s \in index => ~ (count[s] + 1 >= MaxSampleCount))
    BY <1>1 DEF Consumed
  <2> HIDE DEF b
  <2> QED
    BY <1>1, <2>1, <2>2, <2>3, <2>4, <2>5
<1>8. /\ after = [r \in DOMAIN after |-> after[r]]
      /\ \A r : r \in DOMAIN after <=> \E s \in live' : rec[s] = r
      /\ \A s \in live' : after[rec[s]] = MaxSampleCount - count'[s]
  <2>1. \A s, t \in live' : rec'[s] = rec'[t] => s = t
    BY <1>1, <1>2
  <2>2. rec' = rec
    BY <1>1
  <2> QED
    BY <2>1, <2>2, UsesShape
<1> HIDE DEF after, b
<1>9. live' \in SUBSET live
  BY <1>1
<1>10. DOMAIN after = kept
  <2>1. \A r \in kept : \E s \in live : rec[s] = r
    BY <1>2 DEF Promised!Pool, Uses
  <2> HIDE DEF kept
  <2>2. ASSUME NEW r \in kept PROVE r \in DOMAIN after
    BY <1>7, <1>8, <2>1
  <2>3. ASSUME NEW r \in DOMAIN after PROVE r \in kept
    BY <1>7, <1>8, <1>9
  <2> QED
    BY <2>2, <2>3
<1> HIDE DEF kept
<1>11. ASSUME NEW r \in kept
       PROVE  after[r] = IF r \in b THEN Uses[r] - 1 ELSE Uses[r]
  <2>1. PICK s \in live' : rec[s] = r
    BY <1>8, <1>10
  <2>2. /\ after[r] = MaxSampleCount - count'[s]
        /\ Uses[r] = MaxSampleCount - count[s]
        /\ r \in b <=> s \in index
        /\ count'[s] = IF s \in index THEN count[s] + 1 ELSE count[s]
        /\ count[s] \in 0 .. MaxSampleCount
    BY <1>2, <1>3, <1>4, <1>7, <1>8, <1>9, <2>1
  <2> QED
    BY <1>3, <2>2
<1>12. UsesOf(rec, count, live)' = [r \in {p \in Promised!Pool : p \in b => Uses[p] > 1} |->
                                       IF r \in b THEN Uses[r] - 1 ELSE Uses[r]]
  <2>1. after = [r \in kept |-> after[r]]
    BY <1>8, <1>10
  <2>2. after = [r \in kept |-> IF r \in b THEN Uses[r] - 1 ELSE Uses[r]]
    BY <1>11, <2>1
  <2> QED
    BY <2>2 DEF after, kept
<1>13. UNCHANGED <<alone, written>>
       /\ {UsesOf(s.rec, s.count, s.live) : s \in saved}' = {UsesOf(s.rec, s.count, s.live) : s \in saved}
  BY <1>1
<1> QED
  BY <1>5, <1>6, <1>12, <1>13 DEF Promised!Sample, Uses

\* The pool without records.
LEMMA NoUses ==
    ASSUME NEW records, NEW counts
    PROVE  UsesOf(records, counts, {}) = <<>>
<1> DEFINE u == UsesOf(records, counts, {})
<1>1. u \in [1 .. 0 -> {}]
  <2>1. 1 .. 0 = {}
    OBVIOUS
  <2> QED
    BY <2>1 DEF UsesOf
<1>2. <<>> \in [1 .. 0 -> {}]
  BY EmptySeq, LenProperties
<1> QED
  BY <1>1, <1>2

\* The promise of the module ConsumingPool, for a buffer to whose consumed slots no other
\* buffer writes.
THEOREM ImplementsThePool ==
    ASSUME SlotsAreOwn
    PROVE  Spec => ImplementsPool
<1> DEFINE abstract == <<alone, UsesOf(rec, count, live), written,
                         {UsesOf(s.rec, s.count, s.live) : s \in saved}>>
<1>1. Init => PoolInv /\ Promised!Init
  <2> SUFFICES ASSUME Init PROVE PoolInv /\ Promised!Init
    OBVIOUS
  <2>1. PoolInv
    BY PoolInit
  <2>2. alone \in BOOLEAN /\ written = 0 /\ live = {} /\ saved = {}
    BY <2>1 DEF PoolInv, TypeInv, Init
  <2>3. UsesOf(rec, count, live) = <<>>
    BY <2>2, NoUses
  <2> QED
    BY <2>1, <2>2, <2>3 DEF Promised!Init
<1>2. PoolInv /\ [Next]_vars => PoolInv'
  BY PoolStep
<1>3. ASSUME PoolInv, [Next]_vars PROVE [Promised!Next]_abstract
  <2>1. /\ TypeInv /\ Exact(StateDict) /\ (alone \/ LiveOnly)
        /\ \A b \in saved : Typed(b)
    BY <1>3 DEF PoolInv, TypeInv
  <2>2. ASSUME NEW n \in 1 .. Capacity, Extend(n) PROVE Promised!Next
    <3>1. Promised!Write(n)
      BY <2>1, <2>2, ExtendIsWrite
    <3> QED
      BY <3>1 DEF Promised!Next
  <2>3. ASSUME NEW n \in 1 .. Capacity, ExtendOther(n) PROVE Promised!Next
    <3>1. ~ alone
      BY <2>3 DEF ExtendOther
    <3>2. Promised!Write(n)
      BY <2>1, <2>3, <3>1, ExtendOtherIsWrite
    <3> QED
      BY <3>2 DEF Promised!Next
  <2>4. CASE Sample
    <3>1. Promised!Sample
      BY <2>1, <2>4, SampleIsSample
    <3> QED
      BY <3>1 DEF Promised!Next
  <2>5. CASE Empty
    <3>1. live' = {} /\ UNCHANGED <<alone, written, saved>>
      BY <2>5 DEF Empty
    <3>2. UsesOf(rec, count, live)' = <<>>
      BY <3>1, NoUses
    <3>3. Promised!Clear
      BY <3>1, <3>2 DEF Promised!Clear
    <3> QED
      BY <3>3 DEF Promised!Next
  <2>6. CASE Save
    <3>1. saved' = {StateDict} /\ UNCHANGED <<alone, rec, count, live, written>>
      BY <2>6 DEF Save, sampler
    <3>2. {UsesOf(s.rec, s.count, s.live) : s \in {StateDict}} = {UsesOf(rec, count, live)}
      BY DEF StateDict
    <3>3. Promised!Keep
      BY <3>1, <3>2 DEF Promised!Keep
    <3> QED
      BY <3>3 DEF Promised!Next
  <2>7. CASE Load
    <3>1. PICK b \in saved :
              /\ cursor' = b.cursor /\ len' = b.len /\ rec' = b.rec
              /\ count' = b.count /\ live' = b.live /\ known' = b.known
              /\ free' = b.free
              /\ UNCHANGED <<alone, other, written, saved>>
      BY <2>1, <2>7, LoadCall
    <3>2. UsesOf(rec, count, live)' = UsesOf(b.rec, b.count, b.live)
      BY <3>1
    <3>3. Promised!Restore
      BY <3>1, <3>2 DEF Promised!Restore
    <3> QED
      BY <3>3 DEF Promised!Next
  <2>8. CASE UNCHANGED vars
    <3>1. UNCHANGED <<alone, rec, count, live, written, saved>>
      BY <2>8 DEF vars, sampler
    <3> QED
      BY <3>1
  <2> QED
    BY <1>3, <2>2, <2>3, <2>4, <2>5, <2>6, <2>7, <2>8 DEF Next
<1> QED
  BY <1>1, <1>2, <1>3, PTL DEF Spec, ImplementsPool, Promised!Spec
=============================================================================
