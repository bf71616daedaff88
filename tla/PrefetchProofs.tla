--------------------------- MODULE PrefetchProofs ---------------------------
(***************************************************************************)
(* Proofs about the prefetch queue of a replay buffer.                     *)
(*                                                                         *)
(* EpochPrefetch, for every storage, batch size, capacity of the queue and *)
(* number of calls: type correctness, and that the epochs of a             *)
(* SamplerWithoutReplacement stay apart under prefetching.                 *)
(*                                                                         *)
(* OrderedUpdates, for any number of callers, any prefetch and any number  *)
(* of failures: type correctness, that prefetched batches are served in    *)
(* the order they were asked for, that samples and updates take effect in  *)
(* the order the futures promise, and that something can always go on.     *)
(***************************************************************************)
EXTENDS EpochPrefetch, OrderedUpdates, FiniteSetTheorems, FunctionTheorems,
        SequenceTheorems, TLAPS

Request == [drawn : BOOLEAN, items : SUBSET Items]

Checkpoint ==
    [left : (SUBSET Items) \ {{}}, ranOut : BOOLEAN, queue : Seq(Request),
     epoch : Seq(SUBSET Items), regular : BOOLEAN]

Holding == {"refill", "flag", "return"}

PendingIn(q) == {i \in DOMAIN q : ~q[i].drawn}

\* A queue is within its capacity; what is not drawn yet holds no items.
QueueOK(q) ==
    /\ q \in Seq(Request) /\ Len(q) <= Cap
    /\ \A i \in PendingIn(q) : q[i].items = {}

\* The list a sampler keeps has a batch in it; when the last draw ended an epoch, it is
\* a new one.
ListOK(left, ranOut) ==
    /\ left \in (SUBSET Items) \ {{}}
    /\ ~Exhausted(left)
    /\ ranOut => left = Items

SamplerOK ==
    /\ dropLast \in BOOLEAN
    /\ sampler \in [left : (SUBSET Items) \ {{}}, remaining : 0 .. Unlimited, ranOut : BOOLEAN]
    /\ ListOK(sampler.left, sampler.ranOut)

ConsumerOK ==
    /\ iterating \in BOOLEAN /\ regular \in BOOLEAN
    /\ batch \in SUBSET Items
    /\ epoch \in Seq(SUBSET Items)
    /\ pc \in {"idle", "next", "end", "sample"} \cup Holding
    /\ pc \notin Holding => batch = {}
    /\ pc = "idle" => ~iterating
    /\ pc \in {"next", "end"} => iterating
    /\ pc = "end" => sampler.ranOut /\ queue = <<>>
    /\ pc = "flag" => Len(queue) < Cap

SavedOK ==
    \A s \in saved : /\ s \in Checkpoint
                     /\ ListOK(s.left, s.ranOut)
                     /\ QueueOK(s.queue) /\ PendingIn(s.queue) = {}

\* The types of all variables, and where the consumer can be in which state.
StateInv == SamplerOK /\ QueueOK(queue) /\ ConsumerOK /\ SavedOK

\* No item is in two of the batches returned, held and drawn.
Apart(q, e, b) ==
    /\ \A i, j \in DOMAIN e : i # j => e[i] \cap e[j] = {}
    /\ \A i, j \in DOMAIN q : i # j => q[i].items \cap q[j].items = {}
    /\ \A i \in DOMAIN e, j \in DOMAIN q : e[i] \cap q[j].items = {}
    /\ \A i \in DOMAIN e : e[i] \cap b = {}
    /\ \A j \in DOMAIN q : q[j].items \cap b = {}

Taken(q, e, b) ==
    (UNION {e[i] : i \in DOMAIN e}) \cup b \cup (UNION {q[j].items : j \in DOMAIN q})

\* The batches drawn and the sampler's list make up one epoch, and no more are
\* requested than the list has; n counts the batch the consumer holds.
UnderWay(left, q, e, b, n) ==
    /\ Apart(q, e, b)
    /\ Taken(q, e, b) = Items \ left
    /\ Len(e) + n + Len(q) - Cardinality(PendingIn(q)) + Batches(Cardinality(left))
           = Batches(Size)
    /\ Cardinality(PendingIn(q)) <= Batches(Cardinality(left))

\* All batches of the epoch are drawn and none of the next is requested.
Complete(q, e, b, n) ==
    /\ Apart(q, e, b)
    /\ dropLast \/ Taken(q, e, b) = Items
    /\ PendingIn(q) = {}
    /\ Len(e) + n + Len(q) = Batches(Size)

Held == IF pc \in Holding THEN 1 ELSE 0

\* remaining does not promise more batches than the list has.
Known == sampler.remaining <= Batches(Cardinality(sampler.left))

\* What the consumer reads without the lock while an epoch is under way.
InStep ==
    /\ UnderWay(sampler.left, queue, epoch, batch, Held)
    /\ sampler.ranOut =>
           queue = <<>> /\ epoch = <<>> /\ ~iterating /\ pc \in {"idle", "sample"}
    /\ pc \in {"refill", "flag"} => Known
    /\ pc # "idle" => queue = <<>> \/ Known
    /\ pc = "flag" =>
           Cardinality(PendingIn(queue)) < Batches(Cardinality(sampler.left))

Draining ==
    /\ Complete(queue, epoch, batch, Held)
    /\ sampler.ranOut
    /\ pc \in {"idle", "sample"} => queue # <<>>

OneEpoch == regular => InStep \/ Draining

\* The same of the checkpoints, taken between two calls.
SavedEpochs ==
    \A s \in saved : s.regular =>
        \/ /\ UnderWay(s.left, s.queue, s.epoch, {}, 0)
           /\ s.ranOut => s.queue = <<>> /\ s.epoch = <<>>
        \/ /\ Complete(s.queue, s.epoch, {}, 0)
           /\ s.ranOut /\ s.queue # <<>>

\* The inductive invariant behind EpochsStayApart.
EpochInv == StateInv /\ OneEpoch /\ SavedEpochs

-----------------------------------------------------------------------------
(***************************************************************************)
(* How many batches a list of indices makes.                               *)
(***************************************************************************)
LEMMA Quotient ==
    ASSUME NEW n \in Int
    PROVE  /\ n \div BatchSize \in Int
           /\ BatchSize * (n \div BatchSize) <= n
           /\ n < BatchSize * (n \div BatchSize) + BatchSize
BY EpochAssumption

LEMMA QuotientShift ==
    ASSUME NEW n \in Int
    PROVE  (n - BatchSize) \div BatchSize = (n \div BatchSize) - 1
BY EpochAssumption

LEMMA QuotientMonotone ==
    ASSUME NEW n \in Int, NEW m \in Int, m <= n
    PROVE  m \div BatchSize <= n \div BatchSize
BY EpochAssumption

LEMMA QuotientOfLess ==
    ASSUME NEW n \in Int
    PROVE  /\ 0 <= n /\ n < BatchSize => n \div BatchSize = 0
           /\ 0 - BatchSize <= n /\ n < 0 => n \div BatchSize = -1
BY EpochAssumption

LEMMA SizeType == IsFiniteSet(Items) /\ Size \in Nat /\ BatchSize \in Nat /\ BatchSize > 0 /\ BatchSize <= Size
<1>1. IsFiniteSet(Items) /\ BatchSize \in 1 .. Size
  BY EpochAssumption
<1>2. Size \in Nat
  BY <1>1, FS_CardinalityType DEF Size
<1> QED
  BY <1>1, <1>2

LEMMA BatchesType ==
    ASSUME dropLast \in BOOLEAN, NEW n \in Nat
    PROVE  Batches(n) \in Nat
<1>1. BatchSize \in Nat /\ BatchSize > 0
  BY SizeType
<1>2. CASE dropLast
  <2>1. 0 \div BatchSize <= n \div BatchSize /\ 0 \div BatchSize = 0 /\ n \div BatchSize \in Int
    BY <1>1, QuotientMonotone, QuotientOfLess, Quotient
  <2>2. Batches(n) = n \div BatchSize
    BY <1>2 DEF Batches
  <2> QED
    BY <2>1, <2>2
<1>3. CASE ~dropLast
  <2>1. (-n) \div BatchSize <= 0 \div BatchSize /\ 0 \div BatchSize = 0 /\ (-n) \div BatchSize \in Int
    BY <1>1, QuotientMonotone, QuotientOfLess, Quotient
  <2>2. Batches(n) = -((-n) \div BatchSize)
    BY <1>3 DEF Batches
  <2> QED
    BY <2>1, <2>2
<1> QED
  BY <1>2, <1>3

LEMMA BatchesMonotone ==
    ASSUME dropLast \in BOOLEAN, NEW n \in Nat, NEW m \in Nat, m <= n
    PROVE  Batches(m) <= Batches(n)
<1>1. m \div BatchSize <= n \div BatchSize
  BY QuotientMonotone
<1>2. (-n) \div BatchSize <= (-m) \div BatchSize /\ (-n) \div BatchSize \in Int /\ (-m) \div BatchSize \in Int
  BY QuotientMonotone, Quotient
<1>3. CASE dropLast
  BY <1>1, <1>3 DEF Batches
<1>4. CASE ~dropLast
  BY <1>2, <1>4 DEF Batches
<1> QED
  BY <1>3, <1>4

\* A list that is exhausted has no batch; one that is not has one, and one more than
\* what is left of it when the next batch is drawn.
LEMMA BatchesOfExhausted ==
    ASSUME dropLast \in BOOLEAN, NEW n \in Nat, n = 0 \/ (dropLast /\ n < BatchSize)
    PROVE  Batches(n) = 0
<1>1. BatchSize \in Nat /\ BatchSize > 0
  BY SizeType
<1>2. CASE dropLast
  <2>1. n \div BatchSize = 0
    BY <1>1, QuotientOfLess
  <2> QED
    BY <1>2, <2>1 DEF Batches
<1>3. CASE ~dropLast
  <2>1. n = 0 /\ -n = 0 /\ 0 \div BatchSize = 0
    BY <1>1, <1>3, QuotientOfLess
  <2>2. (-n) \div BatchSize = 0
    BY <2>1
  <2> QED
    BY <1>3, <2>2 DEF Batches
<1> QED
  BY <1>2, <1>3

LEMMA BatchesOfNext ==
    ASSUME dropLast \in BOOLEAN, NEW n \in Nat, n > 0, dropLast => n >= BatchSize,
           NEW m \in Nat, m = IF n < BatchSize THEN 0 ELSE n - BatchSize
    PROVE  Batches(n) = Batches(m) + 1
<1>1. BatchSize \in Nat /\ BatchSize > 0
  BY SizeType
<1>2. CASE dropLast
  <2>1. m = n - BatchSize
    BY <1>1, <1>2
  <2>2. m \div BatchSize = (n \div BatchSize) - 1 /\ n \div BatchSize \in Int
    BY <2>1, QuotientShift, Quotient
  <2> QED
    BY <1>2, <2>2 DEF Batches
<1>3. CASE ~dropLast
  <2>1. CASE n < BatchSize
    <3>1. (-n) \div BatchSize = -1
      BY <1>1, <2>1, QuotientOfLess
    <3>2. Batches(m) = 0
      BY <2>1, BatchesOfExhausted
    <3> QED
      BY <1>3, <3>1, <3>2 DEF Batches
  <2>2. CASE ~(n < BatchSize)
    <3>1. -n = (-m) - BatchSize /\ -m \in Int
      BY <1>1, <2>2
    <3>2. ((-m) - BatchSize) \div BatchSize = ((-m) \div BatchSize) - 1 /\ (-m) \div BatchSize \in Int
      BY <3>1, QuotientShift, Quotient
    <3>3. (-n) \div BatchSize = ((-m) \div BatchSize) - 1
      BY <3>1, <3>2
    <3> QED
      BY <1>3, <3>2, <3>3 DEF Batches
  <2> QED
    BY <2>1, <2>2
<1> QED
  BY <1>2, <1>3

LEMMA UnlimitedType ==
    ASSUME dropLast \in BOOLEAN
    PROVE  Unlimited \in Nat /\ \A n \in 0 .. Size : Batches(n) \in 0 .. Unlimited
<1>1. Cap \in Nat /\ Size \in Nat /\ Batches(Size) \in Nat
  BY EpochAssumption, SizeType, BatchesType
<1>2. ASSUME NEW n \in 0 .. Size PROVE Batches(n) \in Nat /\ Batches(n) <= Batches(Size)
  BY <1>1, BatchesType, BatchesMonotone
<1> HIDE DEF Batches
<1> QED
  BY <1>1, <1>2 DEF Unlimited

LEMMA Counted ==
    ASSUME NEW S \in SUBSET Items
    PROVE  /\ IsFiniteSet(S) /\ Cardinality(S) \in Nat /\ Cardinality(S) <= Size
           /\ Cardinality(S) = 0 <=> S = {}
<1>1. IsFiniteSet(S) /\ Cardinality(S) <= Cardinality(Items)
  BY SizeType, FS_Subset
<1> QED
  BY <1>1, FS_CardinalityType, FS_EmptySet DEF Size

\* A draw takes one batch off the list; the last one brings a new list.
LEMMA DrawEffect ==
    ASSUME dropLast \in BOOLEAN, sampler.left \in (SUBSET Items) \ {{}},
           ~Exhausted(sampler.left), NEW b \in NextBatches, Draw(b)
    PROVE  /\ b \in SUBSET sampler.left
           /\ sampler' \in [left : (SUBSET Items) \ {{}}, remaining : 0 .. Unlimited,
                            ranOut : BOOLEAN]
           /\ ListOK(sampler'.left, sampler'.ranOut)
           /\ sampler'.remaining = Batches(Cardinality(sampler'.left))
           /\ \/ /\ sampler'.ranOut = FALSE
                 /\ sampler'.left = sampler.left \ b
                 /\ Batches(Cardinality(sampler.left \ b)) + 1
                        = Batches(Cardinality(sampler.left))
              \/ /\ sampler'.ranOut = TRUE
                 /\ sampler'.left = Items
                 /\ Batches(Cardinality(sampler.left)) = 1
                 /\ dropLast \/ sampler.left = b
<1>1. BatchSize \in Nat /\ BatchSize > 0 /\ Size \in Nat /\ BatchSize <= Size
  BY SizeType
<1>2. PICK left \in SUBSET Items : left = sampler.left /\ left # {}
  OBVIOUS
<1>3. b \in SUBSET left
  BY <1>2 DEF NextBatches
<1>4. PICK n \in Nat : n = Cardinality(left) /\ n > 0 /\ IsFiniteSet(left)
  BY <1>2, Counted
<1>5. Cardinality(b) = IF n < BatchSize THEN n ELSE BatchSize
  BY <1>2, <1>4 DEF NextBatches
<1>6. PICK rest \in SUBSET Items : rest = left \ b
  OBVIOUS
<1>7. PICK m \in Nat : m = Cardinality(rest) /\ m = IF n < BatchSize THEN 0 ELSE n - BatchSize
  <2>1. Cardinality(left \ b) = Cardinality(left) - Cardinality(left \cap b)
    BY <1>4, FS_Difference
  <2>2. left \cap b = b
    BY <1>3
  <2>3. Cardinality(rest) \in Nat
    BY Counted
  <2>4. Cardinality(rest) = n - Cardinality(b)
    BY <1>4, <1>6, <2>1, <2>2
  <2> QED
    BY <1>1, <1>5, <2>3, <2>4
<1>8. dropLast => n >= BatchSize
  BY <1>1, <1>2, <1>4 DEF Exhausted
<1>9. Batches(n) = Batches(m) + 1 /\ Batches(m) \in Nat
  BY <1>4, <1>7, <1>8, BatchesOfNext, BatchesType
<1>10. sampler' = IF Exhausted(rest)
                  THEN [left |-> Items, remaining |-> Batches(Size), ranOut |-> TRUE]
                  ELSE [left |-> rest, remaining |-> Batches(Cardinality(rest)),
                        ranOut |-> FALSE]
  BY <1>2, <1>6 DEF Draw
<1>11. /\ Batches(Size) \in 0 .. Unlimited
       /\ Batches(m) \in 0 .. Unlimited
  <2>1. m \in 0 .. Size /\ Size \in 0 .. Size
    <3>1. Cardinality(rest) <= Size
      BY Counted
    <3> QED
      BY <1>1, <1>7, <3>1
  <2> QED
    BY <2>1, UnlimitedType
<1> HIDE DEF Batches
<1>12. CASE Exhausted(rest)
  <2>1. Items # {} /\ ~Exhausted(Items)
    <3>1. Cardinality(Items) >= BatchSize /\ Cardinality(Items) \in Nat /\ Cardinality(Items) > 0
      BY <1>1 DEF Size
    <3>2. Items # {}
      BY <3>1, FS_EmptySet
    <3> QED
      BY <1>1, <3>1, <3>2 DEF Exhausted
  <2>2. Batches(m) = 0 /\ (dropLast \/ rest = {})
    <3>1. m = 0 \/ (dropLast /\ m < BatchSize)
      BY <1>7, <1>12, Counted DEF Exhausted
    <3> QED
      BY <1>12, <3>1, BatchesOfExhausted DEF Exhausted
  <2>3. sampler' = [left |-> Items, remaining |-> Batches(Size), ranOut |-> TRUE]
    BY <1>10, <1>12
  <2>4. Batches(Cardinality(sampler.left)) = 1
    BY <1>2, <1>4, <1>9, <2>2
  <2>5. dropLast \/ sampler.left = b
    BY <1>2, <1>3, <1>6, <2>2
  <2>6. sampler'.left = Items /\ sampler'.remaining = Batches(Size) /\ sampler'.ranOut = TRUE
    BY <2>3
  <2>7. sampler' \in [left : (SUBSET Items) \ {{}}, remaining : 0 .. Unlimited, ranOut : BOOLEAN]
    BY <1>11, <2>1, <2>3
  <2>8. ListOK(Items, TRUE)
    BY <2>1 DEF ListOK
  <2>9. ListOK(sampler'.left, sampler'.ranOut)
    BY <2>6, <2>8
  <2>10. b \in SUBSET sampler.left
    BY <1>2, <1>3
  <2> QED
    BY <2>4, <2>5, <2>6, <2>7, <2>9, <2>10 DEF Size
<1>13. CASE ~Exhausted(rest)
  <2>1. sampler' = [left |-> rest, remaining |-> Batches(m), ranOut |-> FALSE]
    BY <1>7, <1>10, <1>13
  <2>2. rest # {}
    BY <1>13 DEF Exhausted
  <2>3. sampler'.left = rest /\ sampler'.remaining = Batches(m) /\ sampler'.ranOut = FALSE
    BY <2>1
  <2>4. sampler' \in [left : (SUBSET Items) \ {{}}, remaining : 0 .. Unlimited, ranOut : BOOLEAN]
    BY <1>11, <2>1, <2>2
  <2>5. ListOK(rest, FALSE)
    BY <1>13, <2>2 DEF ListOK
  <2>6. ListOK(sampler'.left, sampler'.ranOut)
    BY <2>3, <2>5
  <2>7. rest = sampler.left \ b /\ b \in SUBSET sampler.left
    BY <1>2, <1>3, <1>6
  <2>8. Batches(Cardinality(sampler.left \ b)) + 1 = Batches(Cardinality(sampler.left))
    BY <1>2, <1>4, <1>7, <1>9, <2>7
  <2> QED
    BY <1>7, <2>3, <2>4, <2>6, <2>7, <2>8
<1> QED
  BY <1>12, <1>13

\* Pending requests are counted.
LEMMA PendingCounted ==
    ASSUME NEW q \in Seq(Request)
    PROVE  /\ IsFiniteSet(PendingIn(q)) /\ Cardinality(PendingIn(q)) \in Nat
           /\ Cardinality(PendingIn(q)) <= Len(q)
           /\ Cardinality(PendingIn(q)) = 0 <=> PendingIn(q) = {}
<1>1. PICK n \in Nat : n = Len(q) /\ DOMAIN q = 1 .. n
  BY LenProperties
<1>2. IsFiniteSet(1 .. n) /\ Cardinality(1 .. n) = n
  <2>1. IsFiniteSet(1 .. n) /\ Cardinality(1 .. n) = IF 1 > n THEN 0 ELSE n - 1 + 1
    BY FS_Interval
  <2> QED
    BY <2>1
<1>3. PendingIn(q) \in SUBSET (1 .. n)
  BY <1>1 DEF PendingIn
<1>4. IsFiniteSet(PendingIn(q)) /\ Cardinality(PendingIn(q)) <= Cardinality(1 .. n)
  BY <1>2, <1>3, FS_Subset
<1> QED
  BY <1>1, <1>2, <1>4, FS_CardinalityType, FS_EmptySet

\* The consumer adds a request, a thread of the pool serves one, the consumer takes the
\* oldest batch.
LEMMA AppendPending ==
    ASSUME NEW q \in Seq(Request)
    PROVE  Cardinality(PendingIn(Append(q, Pending))) = Cardinality(PendingIn(q)) + 1
<1>1. PICK n \in Nat : n = Len(q) /\ DOMAIN q = 1 .. n
  BY LenProperties
<1>2. Pending \in Request /\ Pending.drawn = FALSE
  BY DEF Pending, Request
<1>3. /\ DOMAIN Append(q, Pending) = 1 .. n + 1
      /\ \A i \in 1 .. n : Append(q, Pending)[i] = q[i]
      /\ Append(q, Pending)[n + 1] = Pending
  BY <1>1, <1>2
<1>4. PendingIn(Append(q, Pending)) = PendingIn(q) \cup {n + 1}
  <2>1. ASSUME NEW i PROVE i \in PendingIn(Append(q, Pending)) <=> i \in PendingIn(q) \cup {n + 1}
    BY <1>1, <1>2, <1>3 DEF PendingIn
  <2> QED
    BY <2>1
<1>5. n + 1 \notin PendingIn(q)
  BY <1>1 DEF PendingIn
<1> QED
  BY <1>4, <1>5, PendingCounted, FS_AddElement

LEMMA DrawnPending ==
    ASSUME NEW q \in Seq(Request), NEW i \in PendingIn(q), NEW b \in SUBSET Items
    PROVE  /\ [q EXCEPT ![i] = Drawn(b)] \in Seq(Request)
           /\ PendingIn([q EXCEPT ![i] = Drawn(b)]) = PendingIn(q) \ {i}
           /\ Cardinality(PendingIn([q EXCEPT ![i] = Drawn(b)]))
                  = Cardinality(PendingIn(q)) - 1
<1>1. i \in DOMAIN q /\ DOMAIN q = 1 .. Len(q)
  BY LenProperties DEF PendingIn
<1>2. Drawn(b) \in Request /\ Drawn(b).drawn = TRUE
  BY DEF Drawn, Request
<1>3. PendingIn([q EXCEPT ![i] = Drawn(b)]) = PendingIn(q) \ {i}
  <2>1. ASSUME NEW j
        PROVE  j \in PendingIn([q EXCEPT ![i] = Drawn(b)]) <=> j \in PendingIn(q) \ {i}
    BY <1>1, <1>2 DEF PendingIn
  <2> QED
    BY <2>1
<1>4. [q EXCEPT ![i] = Drawn(b)] \in Seq(Request)
  BY <1>1, <1>2, ExceptSeq
<1>5. Cardinality(PendingIn(q) \ {i}) = Cardinality(PendingIn(q)) - 1
  BY PendingCounted, FS_RemoveElement
<1> HIDE DEF PendingIn
<1> QED
  BY <1>3, <1>4, <1>5

LEMMA TailPending ==
    ASSUME NEW q \in Seq(Request), q # <<>>, Head(q).drawn
    PROVE  Cardinality(PendingIn(Tail(q))) = Cardinality(PendingIn(q))
<1>1. PICK n \in Nat : n = Len(q) /\ DOMAIN q = 1 .. n /\ n > 0
  BY LenProperties, EmptySeq
<1>2. /\ Tail(q) \in Seq(Request) /\ Len(Tail(q)) = n - 1
      /\ \A i \in 1 .. Len(Tail(q)) : Tail(q)[i] = q[i + 1]
  BY <1>1, HeadTailProperties
<1>3. DOMAIN Tail(q) = 1 .. n - 1
  BY <1>2, LenProperties
<1>4. ~(1 \in PendingIn(q))
  BY <1>1 DEF PendingIn
<1> DEFINE f == [i \in PendingIn(Tail(q)) |-> i + 1]
<1>5. \A i \in PendingIn(Tail(q)) : i \in Int /\ i + 1 \in PendingIn(q)
  BY <1>1, <1>2, <1>3 DEF PendingIn
<1>6. ASSUME NEW j \in PendingIn(q) PROVE j \in Int /\ j - 1 \in PendingIn(Tail(q))
  <2>1. j \in 1 .. n /\ j # 1 /\ ~q[j].drawn
    BY <1>1, <1>4 DEF PendingIn
  <2>2. j - 1 \in 1 .. n - 1 /\ (j - 1) + 1 = j
    BY <2>1
  <2>3. Tail(q)[j - 1] = q[j]
    BY <1>2, <2>2
  <2> QED
    BY <1>3, <2>1, <2>2, <2>3 DEF PendingIn
<1>7. f \in [PendingIn(Tail(q)) -> PendingIn(q)]
  BY <1>5
<1>8. \A a, b \in PendingIn(Tail(q)) : f[a] = f[b] => a = b
  BY <1>5
<1>9. \A t \in PendingIn(q) : \E s \in PendingIn(Tail(q)) : f[s] = t
  BY <1>6
<1> HIDE DEF f
<1>10. f \in Bijection(PendingIn(Tail(q)), PendingIn(q))
  BY <1>7, <1>8, <1>9, Fun_IsBij
<1>11. ExistsBijection(PendingIn(Tail(q)), PendingIn(q))
  BY <1>10 DEF ExistsBijection
<1> QED
  BY <1>2, <1>11, PendingCounted, FS_Bijection

-----------------------------------------------------------------------------
(***************************************************************************)
(* The state of the buffer, one action at a time.                          *)
(***************************************************************************)
\* dropLast never changes, so neither does what a list is worth.
LEMMA SameLists ==
    ASSUME dropLast' = dropLast
    PROVE  /\ Unlimited' = Unlimited
           /\ \A n : Batches(n)' = Batches(n)
           /\ \A left, ranOut : ListOK(left, ranOut)' <=> ListOK(left, ranOut)
BY DEF Unlimited, Batches, ListOK, Exhausted

LEMMA SamplerStays ==
    ASSUME SamplerOK, UNCHANGED <<dropLast, sampler>>
    PROVE  SamplerOK'
BY DEF SamplerOK, ListOK, Exhausted, Unlimited, Batches

LEMMA SavedStays ==
    ASSUME SavedOK, UNCHANGED <<dropLast, saved>>
    PROVE  SavedOK'
BY DEF SavedOK, ListOK, Exhausted

LEMMA SamplerDraws ==
    ASSUME SamplerOK, NEW b \in NextBatches, Draw(b), UNCHANGED dropLast
    PROVE  SamplerOK' /\ b \in SUBSET Items
<1>1. /\ b \in SUBSET sampler.left
      /\ sampler' \in [left : (SUBSET Items) \ {{}}, remaining : 0 .. Unlimited,
                       ranOut : BOOLEAN]
      /\ ListOK(sampler'.left, sampler'.ranOut)
  BY DrawEffect DEF SamplerOK, ListOK
<1>2. Unlimited' = Unlimited
  BY SameLists
<1>3. ListOK(sampler.left, sampler.ranOut)'
  BY <1>1 DEF ListOK, Exhausted
<1> HIDE DEF Unlimited, ListOK
<1>4. sampler.left \in SUBSET Items
  BY DEF SamplerOK
<1> QED
  BY <1>1, <1>2, <1>3, <1>4 DEF SamplerOK

LEMMA StateInit == Init => StateInv
<1> SUFFICES ASSUME Init PROVE StateInv
  OBVIOUS
<1>1. dropLast \in BOOLEAN
  BY EpochAssumption DEF Init
<1>2. SamplerOK
  <2>1. Unlimited \in 0 .. Unlimited
    BY <1>1, UnlimitedType
  <2>2. Items # {} /\ ~Exhausted(Items)
    <3>1. Cardinality(Items) >= BatchSize /\ Cardinality(Items) \in Nat /\ Cardinality(Items) > 0
      BY SizeType DEF Size
    <3>2. Items # {}
      BY <3>1, FS_EmptySet
    <3> QED
      BY <3>1, <3>2, SizeType DEF Exhausted
  <2>3. sampler = [left |-> Items, remaining |-> Unlimited, ranOut |-> FALSE]
    BY DEF Init, NewSampler
  <2> HIDE DEF Unlimited
  <2>4. sampler \in [left : (SUBSET Items) \ {{}}, remaining : 0 .. Unlimited, ranOut : BOOLEAN]
    BY <2>1, <2>2, <2>3
  <2>5. sampler.left = Items /\ sampler.ranOut = FALSE
    BY <2>3
  <2>6. ListOK(sampler.left, sampler.ranOut)
    BY <2>2, <2>5 DEF ListOK
  <2> QED
    BY <1>1, <2>4, <2>6 DEF SamplerOK
<1>3. QueueOK(queue)
  <2>1. <<>> \in Seq(Request) /\ Len(<<>>) = 0 /\ DOMAIN <<>> = {}
    BY EmptySeq
  <2> QED
    BY <2>1, EpochAssumption DEF Init, QueueOK, PendingIn
<1>4. ConsumerOK
  <2>1. epoch \in Seq(SUBSET Items)
    BY EmptySeq DEF Init
  <2>2. batch = {} /\ pc = "idle" /\ iterating = FALSE /\ regular = TRUE
    BY DEF Init
  <2> QED
    BY <2>1, <2>2 DEF ConsumerOK, Holding
<1>5. SavedOK
  BY DEF Init, SavedOK
<1> QED
  BY <1>2, <1>3, <1>4, <1>5 DEF StateInv

LEMMA StateRunRequest ==
    ASSUME StateInv, RunRequest
    PROVE  StateInv'
<1>1. PICK i \in DOMAIN queue, b \in NextBatches :
          /\ ~queue[i].drawn
          /\ Draw(b)
          /\ queue' = [queue EXCEPT ![i] = Drawn(b)]
          /\ UNCHANGED <<dropLast, pc, batch, iterating, epoch, saved, regular, used>>
  BY DEF RunRequest
<1>2. SamplerOK' /\ b \in SUBSET Items
  BY <1>1, SamplerDraws DEF StateInv
<1>3. i \in PendingIn(queue) /\ queue \in Seq(Request)
  BY <1>1 DEF PendingIn, StateInv, QueueOK
<1>4. /\ queue' \in Seq(Request)
      /\ PendingIn(queue') = PendingIn(queue) \ {i}
  BY <1>1, <1>2, <1>3, DrawnPending
<1>5. Len(queue') = Len(queue) /\ queue # <<>>
  BY <1>1, <1>3 DEF PendingIn
<1>6. QueueOK(queue')
  <2>1. ASSUME NEW j \in PendingIn(queue') PROVE queue'[j].items = {}
    <3>1. j \in PendingIn(queue) /\ j # i
      BY <1>4, <2>1
    <3>2. queue'[j] = queue[j]
      BY <1>1, <3>1 DEF PendingIn
    <3> QED
      BY <3>1, <3>2 DEF StateInv, QueueOK
  <2> QED
    BY <1>4, <1>5, <2>1 DEF StateInv, QueueOK
<1>7. ConsumerOK'
  BY <1>1, <1>5 DEF StateInv, ConsumerOK
<1>8. SavedOK'
  BY <1>1, SavedStays DEF StateInv
<1> QED
  BY <1>2, <1>6, <1>7, <1>8 DEF StateInv

LEMMA StateStartIteration ==
    ASSUME StateInv, StartIteration
    PROVE  StateInv'
<1>1. sampler' = [sampler EXCEPT !.ranOut = FALSE] /\ UNCHANGED <<dropLast, queue, saved>>
  BY DEF StartIteration, ClearRanOut
<1>2. SamplerOK'
  <2>1. /\ sampler'.left = sampler.left /\ sampler'.ranOut = FALSE
        /\ sampler' \in [left : (SUBSET Items) \ {{}}, remaining : 0 .. Unlimited,
                         ranOut : BOOLEAN]
    BY <1>1 DEF StateInv, SamplerOK
  <2>2. Unlimited' = Unlimited
    BY <1>1, SameLists
  <2>3. ListOK(sampler.left, sampler.ranOut)'
    BY <1>1, <2>1 DEF StateInv, SamplerOK, ListOK, Exhausted
  <2> HIDE DEF Unlimited, ListOK
  <2> QED
    BY <1>1, <2>1, <2>2, <2>3 DEF StateInv, SamplerOK
<1>3. regular' \in BOOLEAN
  BY DEF StartIteration
<1>4. ConsumerOK'
  BY <1>3 DEF StartIteration, StateInv, ConsumerOK, Holding
<1>5. QueueOK(queue)'
  BY <1>1 DEF StateInv
<1> QED
  BY <1>1, <1>2, <1>4, <1>5, SavedStays DEF StateInv

LEMMA StateSteps ==
    ASSUME StateInv, NextOfIteration \/ EndIteration \/ PlainSample \/ RefillTestRoom \/ ReturnBatch
    PROVE  StateInv'
<1>1. UNCHANGED <<dropLast, sampler, queue, saved>>
  BY DEF NextOfIteration, EndIteration, PlainSample, RefillTestRoom, ReturnBatch
<1>2. SamplerOK' /\ SavedOK' /\ QueueOK(queue)'
  BY <1>1, SamplerStays, SavedStays DEF StateInv
<1> SUFFICES ConsumerOK'
  BY <1>2 DEF StateInv
<1>3. CASE NextOfIteration
  BY <1>1, <1>3 DEF NextOfIteration, StateInv, ConsumerOK, Holding, Continues
<1>4. CASE EndIteration
  <2>1. epoch' \in Seq(SUBSET Items)
    BY <1>4, EmptySeq DEF EndIteration
  <2>2. batch = {}
    BY <1>4 DEF EndIteration, StateInv, ConsumerOK, Holding
  <2>3. batch' = {} /\ pc' = "idle" /\ iterating' = FALSE /\ regular' = TRUE
    BY <1>4, <2>2 DEF EndIteration
  <2> QED
    BY <2>1, <2>3 DEF ConsumerOK, Holding
<1>5. CASE PlainSample
  <2>1. regular' \in BOOLEAN
    BY <1>5 DEF PlainSample
  <2> QED
    BY <1>1, <1>5, <2>1 DEF PlainSample, StateInv, ConsumerOK, Holding
<1>6. CASE RefillTestRoom
  BY <1>1, <1>6 DEF RefillTestRoom, StateInv, ConsumerOK, Holding, HasRoom
<1>7. CASE ReturnBatch
  <2>1. epoch' \in Seq(SUBSET Items)
    BY <1>7 DEF ReturnBatch, StateInv, ConsumerOK
  <2> QED
    BY <1>1, <1>7, <2>1 DEF ReturnBatch, StateInv, ConsumerOK, Holding
<1> QED
  BY <1>3, <1>4, <1>5, <1>6, <1>7

LEMMA StateRefill ==
    ASSUME StateInv, RefillTestRanOut
    PROVE  StateInv'
<1>1. UNCHANGED <<dropLast, sampler, saved, batch, epoch, iterating, regular>> /\ pc = "flag"
  BY DEF RefillTestRanOut
<1>2. SamplerOK' /\ SavedOK'
  BY <1>1, SamplerStays, SavedStays DEF StateInv
<1>3. QueueOK(queue)'
  <2>1. CASE UNCHANGED queue
    BY <2>1 DEF StateInv
  <2>2. CASE queue' = Append(queue, Pending)
    <3>1. PICK n \in Nat : n = Len(queue) /\ DOMAIN queue = 1 .. n /\ n < Cap
      BY <1>1, LenProperties DEF StateInv, QueueOK, ConsumerOK
    <3>2. Pending \in Request /\ Pending.items = {}
      BY DEF Pending, Request
    <3>3. queue \in Seq(Request)
      BY DEF StateInv, QueueOK
    <3>4. /\ queue' \in Seq(Request) /\ Len(queue') = n + 1 /\ DOMAIN queue' = 1 .. n + 1
          /\ \A i \in 1 .. n : queue'[i] = queue[i]
          /\ queue'[n + 1] = Pending
      BY <2>2, <3>1, <3>2, <3>3
    <3>5. ASSUME NEW j \in PendingIn(queue') PROVE queue'[j].items = {}
      <4>1. CASE j = n + 1
        BY <3>2, <3>4, <4>1
      <4>2. CASE j # n + 1
        <5>1. j \in 1 .. n /\ queue'[j] = queue[j] /\ ~queue[j].drawn
          BY <3>4, <3>5, <4>2 DEF PendingIn
        <5>2. j \in PendingIn(queue)
          BY <3>1, <5>1 DEF PendingIn
        <5> QED
          BY <5>1, <5>2 DEF StateInv, QueueOK
      <4> QED
        BY <4>1, <4>2
    <3>6. Len(queue') <= Cap
      BY <3>1, <3>4, EpochAssumption
    <3> QED
      BY <3>4, <3>5, <3>6 DEF QueueOK
  <2> QED
    BY <2>1, <2>2 DEF RefillTestRanOut
<1>4. ConsumerOK'
  <2>1. pc' = "return" \/ pc' = "refill"
    BY DEF RefillTestRanOut
  <2>2. /\ pc' \in Holding
        /\ pc' # "idle" /\ pc' \notin {"next", "end"} /\ pc' # "end" /\ pc' # "flag"
    BY <2>1 DEF Holding
  <2>3. ConsumerOK
    BY DEF StateInv
  <2>4. batch' = batch /\ epoch' = epoch /\ iterating' = iterating /\ regular' = regular
    BY <1>1
  <2> QED
    BY ONLY <2>2, <2>3, <2>4, Zenon DEF ConsumerOK
<1> QED
  BY <1>2, <1>3, <1>4 DEF StateInv

LEMMA StateTakeBatch ==
    ASSUME StateInv, TakeBatch
    PROVE  StateInv'
<1>1. UNCHANGED <<dropLast, saved, epoch, iterating, regular>> /\ pc' = "refill"
  BY DEF TakeBatch
<1>2. SavedOK'
  BY <1>1, SavedStays DEF StateInv
<1>3. ASSUME batch' \in SUBSET Items PROVE ConsumerOK'
  BY <1>1, <1>3 DEF StateInv, ConsumerOK, Holding
<1>4. CASE /\ queue # <<>>
           /\ Head(queue).drawn
           /\ batch' = Head(queue).items
           /\ queue' = Tail(queue)
           /\ UNCHANGED sampler
  <2>1. queue \in Seq(Request) /\ Len(queue) <= Cap
    BY DEF StateInv, QueueOK
  <2>2. /\ Head(queue) \in Request /\ Tail(queue) \in Seq(Request)
        /\ Len(Tail(queue)) = Len(queue) - 1
        /\ \A i \in 1 .. Len(Tail(queue)) : Tail(queue)[i] = queue[i + 1]
    BY <1>4, <2>1, HeadTailProperties
  <2>3. PICK n \in Nat : n = Len(queue) /\ DOMAIN queue = 1 .. n /\ DOMAIN Tail(queue) = 1 .. n - 1
    BY <2>1, <2>2, LenProperties
  <2>4. Len(queue') <= Cap
    BY <1>4, <2>1, <2>2, <2>3, EpochAssumption
  <2>5. ASSUME NEW i \in PendingIn(queue') PROVE queue'[i].items = {}
    <3>1. i \in 1 .. n - 1 /\ queue'[i] = queue[i + 1] /\ ~queue[i + 1].drawn
      BY <1>4, <2>2, <2>3, <2>5 DEF PendingIn
    <3>2. i + 1 \in PendingIn(queue)
      BY <2>3, <3>1 DEF PendingIn
    <3> QED
      BY <3>1, <3>2 DEF StateInv, QueueOK
  <2>6. QueueOK(queue)'
    BY <1>4, <2>2, <2>4, <2>5 DEF QueueOK
  <2>7. batch' \in SUBSET Items
    BY <1>4, <2>2 DEF Request
  <2> QED
    BY <1>1, <1>2, <1>3, <1>4, <2>6, <2>7, SamplerStays DEF StateInv
<1>5. CASE /\ queue = <<>>
           /\ \E b \in NextBatches : Draw(b) /\ batch' = b
           /\ UNCHANGED queue
  <2>1. PICK b \in NextBatches : Draw(b) /\ batch' = b
    BY <1>5
  <2>2. SamplerOK' /\ b \in SUBSET Items
    BY <1>1, <2>1, SamplerDraws DEF StateInv
  <2>3. QueueOK(queue)'
    BY <1>5 DEF StateInv
  <2> QED
    BY <1>2, <1>3, <2>1, <2>2, <2>3 DEF StateInv
<1> QED
  BY <1>4, <1>5 DEF TakeBatch

LEMMA StateSave ==
    ASSUME StateInv, Save
    PROVE  StateInv'
<1>1. /\ UNCHANGED <<dropLast, regular, sampler, queue, pc, batch, iterating, epoch>>
      /\ saved' = saved \cup {StateDict} /\ PendingIn(queue) = {}
  BY DEF Save, PendingIn
<1>2. SamplerOK' /\ ConsumerOK' /\ QueueOK(queue)'
  BY <1>1, SamplerStays DEF StateInv, ConsumerOK
<1>3. /\ StateDict \in Checkpoint
      /\ StateDict.left = sampler.left /\ StateDict.ranOut = sampler.ranOut
      /\ StateDict.queue = queue
  <2>1. /\ sampler.left \in (SUBSET Items) \ {{}} /\ sampler.ranOut \in BOOLEAN
        /\ queue \in Seq(Request) /\ epoch \in Seq(SUBSET Items) /\ regular \in BOOLEAN
    BY DEF StateInv, SamplerOK, QueueOK, ConsumerOK
  <2> QED
    BY <2>1 DEF StateDict, Checkpoint
<1>4. ListOK(StateDict.left, StateDict.ranOut) /\ QueueOK(StateDict.queue) /\ PendingIn(StateDict.queue) = {}
  BY <1>1, <1>3 DEF StateInv, SamplerOK
<1>5. SavedOK'
  <2>1. ASSUME NEW s \in saved'
        PROVE  s \in Checkpoint /\ ListOK(s.left, s.ranOut)' /\ QueueOK(s.queue) /\ PendingIn(s.queue) = {}
    <3>1. s \in Checkpoint /\ ListOK(s.left, s.ranOut) /\ QueueOK(s.queue) /\ PendingIn(s.queue) = {}
      <4>1. CASE s = StateDict
        BY <1>3, <1>4, <4>1
      <4>2. CASE s \in saved
        BY <4>2 DEF StateInv, SavedOK
      <4> QED
        BY <1>1, <4>1, <4>2
    <3> QED
      BY <1>1, <3>1 DEF ListOK, Exhausted
  <2> QED
    BY <2>1 DEF SavedOK
<1> QED
  BY <1>2, <1>5 DEF StateInv

LEMMA StateLoad ==
    ASSUME StateInv, Load
    PROVE  StateInv'
<1>1. PICK s \in saved, remaining \in {Unlimited, sampler.remaining} :
          /\ sampler' = [left |-> s.left, remaining |-> remaining, ranOut |-> s.ranOut]
          /\ queue' = s.queue
          /\ epoch' = s.epoch
          /\ regular' = s.regular
  BY DEF Load
<1>2. UNCHANGED <<dropLast, pc, batch, iterating, saved>> /\ pc = "idle"
  BY DEF Load
<1>3. /\ s \in Checkpoint /\ ListOK(s.left, s.ranOut) /\ QueueOK(s.queue)
  BY DEF StateInv, SavedOK
<1>4. /\ s.left \in (SUBSET Items) \ {{}} /\ s.ranOut \in BOOLEAN
      /\ s.epoch \in Seq(SUBSET Items) /\ s.regular \in BOOLEAN
  BY <1>3 DEF Checkpoint
<1>5. SamplerOK'
  <2>1. dropLast \in BOOLEAN /\ sampler.remaining \in 0 .. Unlimited
    BY DEF StateInv, SamplerOK
  <2>2. Unlimited \in Nat
    BY <2>1, UnlimitedType
  <2>3. Unlimited' = Unlimited
    BY <1>2, SameLists
  <2> HIDE DEF Unlimited
  <2>4. remaining \in 0 .. Unlimited
    BY <1>1, <2>1, <2>2
  <2>5. sampler' \in [left : (SUBSET Items) \ {{}}, remaining : 0 .. Unlimited, ranOut : BOOLEAN]
    BY <1>1, <1>4, <2>4
  <2>6. sampler'.left = s.left /\ sampler'.ranOut = s.ranOut
    BY <1>1
  <2>7. ListOK(sampler.left, sampler.ranOut)'
    BY <1>2, <1>3, <2>6 DEF ListOK, Exhausted
  <2> HIDE DEF ListOK
  <2> QED
    BY <1>2, <2>1, <2>3, <2>5, <2>7 DEF SamplerOK
<1>6. ConsumerOK'
  <2>1. iterating \in BOOLEAN /\ ~iterating /\ batch = {}
    BY <1>2 DEF StateInv, ConsumerOK, Holding
  <2>2. regular' \in BOOLEAN /\ epoch' \in Seq(SUBSET Items)
    BY <1>1, <1>4
  <2> QED
    BY <1>2, <2>1, <2>2 DEF ConsumerOK, Holding
<1>7. QueueOK(queue)'
  BY <1>1, <1>3
<1> QED
  BY <1>2, <1>5, <1>6, <1>7, SavedStays DEF StateInv

LEMMA StateNext == StateInv /\ [Next]_vars => StateInv'
<1> SUFFICES ASSUME StateInv, [Next]_vars PROVE StateInv'
  OBVIOUS
<1>1. CASE UNCHANGED vars
  <2>1. UNCHANGED <<dropLast, sampler, saved, queue, pc, batch, iterating, epoch, regular>>
    BY <1>1 DEF vars
  <2> QED
    BY <2>1, SamplerStays, SavedStays DEF StateInv, ConsumerOK
<1>2. CASE Consumer
  BY <1>2, StateStartIteration, StateSteps, StateTakeBatch, StateRefill DEF Consumer
<1> QED
  BY <1>1, <1>2, StateRunRequest, StateSave, StateLoad DEF Next

\* The types hold, whatever the bounds; a sampler always has the list of its next batch.
THEOREM EpochTypeCorrect == Spec => []TypeOK
<1>1. StateInv => TypeOK
  BY DEF StateInv, SamplerOK, QueueOK, ConsumerOK, TypeOK, Request
<1> QED
  BY <1>1, StateInit, StateNext, PTL DEF Spec

-----------------------------------------------------------------------------
(***************************************************************************)
(* The batches of an epoch.                                                *)
(***************************************************************************)
LEMMA InTaken ==
    ASSUME NEW q, NEW e, NEW b, NEW x
    PROVE  x \in Taken(q, e, b) <=>
               \/ \E i \in DOMAIN e : x \in e[i]
               \/ x \in b
               \/ \E j \in DOMAIN q : x \in q[j].items
BY DEF Taken

\* q2 is q with the items s drawn for request i.
Serves(q2, q, i, s) ==
    /\ DOMAIN q2 = DOMAIN q
    /\ q2[i].items = s
    /\ \A j \in DOMAIN q : j # i => q2[j] = q[j]

\* What a thread of the pool draws from the list is in no other batch.
LEMMA ApartDrawn ==
    ASSUME NEW q, NEW e, NEW b, Apart(q, e, b),
           NEW i \in DOMAIN q, q[i].items = {},
           NEW s \in SUBSET Items, Taken(q, e, b) \cap s = {},
           NEW q2, Serves(q2, q, i, s)
    PROVE  /\ Apart(q2, e, b)
           /\ Taken(q2, e, b) = Taken(q, e, b) \cup s
<1>2. /\ \A k \in DOMAIN e : e[k] \cap s = {}
      /\ b \cap s = {}
      /\ \A j \in DOMAIN q : q[j].items \cap s = {}
  BY InTaken
<1>3. Apart(q2, e, b)
  BY <1>2 DEF Apart, Serves
<1>4. Taken(q2, e, b) = Taken(q, e, b) \cup s
  <2>1. ASSUME NEW x PROVE x \in Taken(q2, e, b) <=> x \in Taken(q, e, b) \/ x \in s
    <3>1. (\E j \in DOMAIN q2 : x \in q2[j].items) <=> (\E j \in DOMAIN q : x \in q[j].items) \/ x \in s
      BY DEF Serves
    <3> QED
      BY <3>1, InTaken
  <2> QED
    BY <2>1
<1> QED
  BY <1>3, <1>4

\* The consumer draws a batch itself.
LEMMA ApartTaken ==
    ASSUME NEW q, NEW e, Apart(q, e, {}), NEW s, Taken(q, e, {}) \cap s = {}
    PROVE  Apart(q, e, s) /\ Taken(q, e, s) = Taken(q, e, {}) \cup s
<1>1. /\ \A k \in DOMAIN e : e[k] \cap s = {}
      /\ \A j \in DOMAIN q : q[j].items \cap s = {}
  BY InTaken
<1>2. Apart(q, e, s)
  BY <1>1 DEF Apart
<1>3. ASSUME NEW x PROVE x \in Taken(q, e, s) <=> x \in Taken(q, e, {}) \/ x \in s
  BY InTaken
<1> QED
  BY <1>2, <1>3

\* The consumer takes the oldest batch of the queue.
LEMMA ApartPopped ==
    ASSUME NEW q \in Seq(Request), q # <<>>, NEW e, Apart(q, e, {})
    PROVE  /\ Apart(Tail(q), e, Head(q).items)
           /\ Taken(Tail(q), e, Head(q).items) = Taken(q, e, {})
<1>1. PICK n \in Nat : n = Len(q) /\ DOMAIN q = 1 .. n /\ n > 0
  BY LenProperties, EmptySeq
<1>2. /\ DOMAIN Tail(q) = 1 .. n - 1
      /\ \A i \in 1 .. n - 1 : Tail(q)[i] = q[i + 1]
  BY <1>1, HeadTailProperties, LenProperties
<1>3. Head(q) = q[1]
  BY <1>1
<1>4. /\ \A j \in DOMAIN Tail(q) : j + 1 \in DOMAIN q /\ j + 1 # 1 /\ Tail(q)[j] = q[j + 1]
      /\ 1 \in DOMAIN q
      /\ \A i, j \in DOMAIN Tail(q) : i # j => i + 1 # j + 1
  BY <1>1, <1>2
<1>5. ASSUME NEW j \in DOMAIN q, j # 1
      PROVE  j - 1 \in DOMAIN Tail(q) /\ Tail(q)[j - 1] = q[j]
  <2>1. j - 1 \in 1 .. n - 1 /\ (j - 1) + 1 = j
    BY <1>1, <1>5
  <2> QED
    BY <1>2, <2>1
<1>6. Apart(Tail(q), e, Head(q).items)
  <2>1. \A i, j \in DOMAIN Tail(q) : i # j => Tail(q)[i].items \cap Tail(q)[j].items = {}
    BY <1>4 DEF Apart
  <2>2. \A i \in DOMAIN e, j \in DOMAIN Tail(q) : e[i] \cap Tail(q)[j].items = {}
    BY <1>4 DEF Apart
  <2>3. \A i \in DOMAIN e : e[i] \cap Head(q).items = {}
    BY <1>3, <1>4 DEF Apart
  <2>4. \A j \in DOMAIN Tail(q) : Tail(q)[j].items \cap Head(q).items = {}
    BY <1>3, <1>4 DEF Apart
  <2> QED
    BY <2>1, <2>2, <2>3, <2>4 DEF Apart
<1>7. ASSUME NEW x PROVE x \in Taken(Tail(q), e, Head(q).items) <=> x \in Taken(q, e, {})
  <2>1. (\E j \in DOMAIN q : x \in q[j].items) <=>
            x \in Head(q).items \/ \E j \in DOMAIN Tail(q) : x \in Tail(q)[j].items
    BY <1>3, <1>4, <1>5
  <2>2. x \in Taken(Tail(q), e, Head(q).items) <=>
            \/ \E i \in DOMAIN e : x \in e[i]
            \/ x \in Head(q).items
            \/ \E j \in DOMAIN Tail(q) : x \in Tail(q)[j].items
    BY InTaken
  <2>3. x \in Taken(q, e, {}) <=>
            (\E i \in DOMAIN e : x \in e[i]) \/ (\E j \in DOMAIN q : x \in q[j].items)
    BY InTaken
  <2> QED
    BY ONLY <2>1, <2>2, <2>3, Zenon
<1> QED
  BY <1>6, <1>7

\* The consumer returns the batch it holds.
LEMMA ApartReturned ==
    ASSUME NEW q, NEW e \in Seq(SUBSET Items), NEW b \in SUBSET Items, Apart(q, e, b)
    PROVE  Apart(q, Append(e, b), {}) /\ Taken(q, Append(e, b), {}) = Taken(q, e, b)
<1>1. PICK n \in Nat : n = Len(e) /\ DOMAIN e = 1 .. n
  BY LenProperties
<1> DEFINE e2 == Append(e, b)
<1>2. e2 \in Seq(SUBSET Items) /\ Len(e2) = n + 1 /\ DOMAIN e2 = 1 .. n + 1
      /\ (\A i \in 1 .. n : e2[i] = e[i]) /\ e2[n + 1] = b
  BY <1>1
<1> HIDE DEF e2
<1>3. /\ DOMAIN e2 = DOMAIN e \cup {n + 1} /\ n + 1 \notin DOMAIN e
      /\ \A i \in DOMAIN e : e2[i] = e[i]
      /\ e2[n + 1] = b
  BY <1>1, <1>2
<1>4. Apart(q, e2, {})
  <2>1. \A i, j \in DOMAIN e2 : i # j => e2[i] \cap e2[j] = {}
    BY <1>3 DEF Apart
  <2>2. \A i \in DOMAIN e2, j \in DOMAIN q : e2[i] \cap q[j].items = {}
    BY <1>3 DEF Apart
  <2>3. /\ \A i, j \in DOMAIN q : i # j => q[i].items \cap q[j].items = {}
        /\ \A i \in DOMAIN e2 : e2[i] \cap {} = {}
        /\ \A j \in DOMAIN q : q[j].items \cap {} = {}
    BY DEF Apart
  <2> QED
    BY <2>1, <2>2, <2>3 DEF Apart
<1>5. ASSUME NEW x PROVE x \in Taken(q, e2, {}) <=> x \in Taken(q, e, b)
  <2>1. (\E i \in DOMAIN e2 : x \in e2[i]) <=> (\E i \in DOMAIN e : x \in e[i]) \/ x \in b
    BY <1>3
  <2> QED
    BY <2>1, InTaken
<1> QED
  BY <1>4, <1>5 DEF e2

\* The consumer requests a batch.
LEMMA ApartRequested ==
    ASSUME NEW q \in Seq(Request), NEW e, NEW b, Apart(q, e, b)
    PROVE  /\ Apart(Append(q, Pending), e, b)
           /\ Taken(Append(q, Pending), e, b) = Taken(q, e, b)
<1>1. PICK n \in Nat : n = Len(q) /\ DOMAIN q = 1 .. n
  BY LenProperties
<1>2. Pending \in Request /\ Pending.items = {}
  BY DEF Pending, Request
<1> DEFINE q2 == Append(q, Pending)
<1>3. q2 \in Seq(Request) /\ Len(q2) = n + 1 /\ DOMAIN q2 = 1 .. n + 1
      /\ (\A i \in 1 .. n : q2[i] = q[i]) /\ q2[n + 1] = Pending
  BY <1>1, <1>2
<1> HIDE DEF q2
<1>4. /\ DOMAIN q2 = DOMAIN q \cup {n + 1} /\ n + 1 \notin DOMAIN q
      /\ \A i \in DOMAIN q : q2[i] = q[i]
      /\ q2[n + 1].items = {}
  BY <1>1, <1>2, <1>3
<1>5. Apart(q2, e, b)
  BY <1>4 DEF Apart
<1>6. ASSUME NEW x PROVE x \in Taken(q2, e, b) <=> x \in Taken(q, e, b)
  <2>1. (\E i \in DOMAIN q2 : x \in q2[i].items) <=> (\E i \in DOMAIN q : x \in q[i].items)
    BY <1>4
  <2> QED
    BY <2>1, InTaken
<1> QED
  BY <1>5, <1>6 DEF q2

-----------------------------------------------------------------------------
(***************************************************************************)
(* What the steps of the pool and of the consumer make of an epoch.  q, e, *)
(* b and n are the queue, the batches returned, the batch held and whether *)
(* there is one.                                                           *)
(***************************************************************************)
LEMMA NumbersOfAnEpoch ==
    ASSUME dropLast \in BOOLEAN, NEW left \in SUBSET Items, NEW q \in Seq(Request),
           NEW e \in Seq(SUBSET Items)
    PROVE  /\ Batches(Cardinality(left)) \in Nat /\ Batches(Size) \in Nat
           /\ Len(q) \in Nat /\ Len(e) \in Nat
           /\ Cardinality(PendingIn(q)) \in Nat
           /\ Cardinality(PendingIn(q)) <= Len(q)
           /\ Cardinality(PendingIn(q)) = 0 <=> PendingIn(q) = {}
<1>1. Cardinality(left) \in Nat /\ Size \in Nat
  BY Counted, SizeType
<1>2. Batches(Cardinality(left)) \in Nat /\ Batches(Size) \in Nat
  BY <1>1, BatchesType
<1>3. Len(q) \in Nat /\ Len(e) \in Nat
  BY LenProperties
<1> QED
  BY <1>2, <1>3, PendingCounted

LEMMA EpochDrawn ==
    ASSUME dropLast \in BOOLEAN, NEW left \in SUBSET Items, NEW q \in Seq(Request),
           QueueOK(q), NEW e \in Seq(SUBSET Items), NEW b \in SUBSET Items, NEW n \in {0, 1},
           UnderWay(left, q, e, b, n), NEW i \in PendingIn(q), NEW s \in SUBSET left,
           NEW q2 \in Seq(Request), Len(q2) = Len(q), Serves(q2, q, i, s),
           Cardinality(PendingIn(q2)) = Cardinality(PendingIn(q)) - 1
    PROVE  /\ Batches(Cardinality(left \ s)) + 1 = Batches(Cardinality(left)) =>
                  UnderWay(left \ s, q2, e, b, n)
           /\ Batches(Cardinality(left)) = 1 /\ (dropLast \/ left = s) =>
                  Complete(q2, e, b, n)
<1>1. i \in DOMAIN q /\ q[i].items = {}
  BY DEF PendingIn, QueueOK
<1>2. /\ Apart(q, e, b) /\ Taken(q, e, b) = Items \ left
      /\ Len(e) + n + Len(q) - Cardinality(PendingIn(q)) + Batches(Cardinality(left))
             = Batches(Size)
      /\ Cardinality(PendingIn(q)) <= Batches(Cardinality(left))
  BY DEF UnderWay
<1>3. Apart(q2, e, b) /\ Taken(q2, e, b) = (Items \ left) \cup s
  <2>1. s \in SUBSET Items /\ Taken(q, e, b) \cap s = {}
    BY <1>2
  <2>2. Apart(q2, e, b) /\ Taken(q2, e, b) = Taken(q, e, b) \cup s
    <3>1. Apart(q, e, b)
      BY <1>2
    <3>2. i \in DOMAIN q /\ q[i].items = {}
      BY <1>1
    <3> QED
      BY ONLY <3>1, <3>2, <2>1, Serves(q2, q, i, s), ApartDrawn
  <2> QED
    BY <1>2, <2>2
<1>4. /\ Batches(Cardinality(left)) \in Nat /\ Batches(Size) \in Nat
      /\ Len(q) \in Nat /\ Len(e) \in Nat
      /\ Cardinality(PendingIn(q)) \in Nat
  BY NumbersOfAnEpoch
<1>5. /\ Cardinality(PendingIn(q2)) \in Nat
      /\ Cardinality(PendingIn(q2)) = 0 <=> PendingIn(q2) = {}
  BY NumbersOfAnEpoch
<1>6. ASSUME Batches(Cardinality(left \ s)) + 1 = Batches(Cardinality(left))
      PROVE  UnderWay(left \ s, q2, e, b, n)
  <2>1. Batches(Cardinality(left \ s)) \in Nat
    <3>1. left \ s \in SUBSET Items
      OBVIOUS
    <3> QED
      BY <3>1, NumbersOfAnEpoch
  <2>2. Taken(q2, e, b) = Items \ (left \ s)
    BY <1>3
  <2>3. /\ Len(e) + n + Len(q2) - Cardinality(PendingIn(q2)) + Batches(Cardinality(left \ s))
               = Batches(Size)
        /\ Cardinality(PendingIn(q2)) <= Batches(Cardinality(left \ s))
    <3>1. /\ n \in {0, 1} /\ Len(q2) = Len(q)
          /\ Cardinality(PendingIn(q2)) = Cardinality(PendingIn(q)) - 1
      OBVIOUS
    <3> QED
      BY ONLY <1>2, <1>4, <1>6, <2>1, <3>1
  <2> QED
    BY <1>3, <2>2, <2>3 DEF UnderWay
<1>7. ASSUME Batches(Cardinality(left)) = 1, dropLast \/ left = s
      PROVE  Complete(q2, e, b, n)
  <2>1. Cardinality(PendingIn(q2)) = 0 /\ Len(e) + n + Len(q2) = Batches(Size)
    BY <1>2, <1>4, <1>5, <1>7
  <2>2. dropLast \/ Taken(q2, e, b) = Items
    BY <1>3, <1>7
  <2> QED
    BY <1>3, <1>5, <2>1, <2>2 DEF Complete
<1> QED
  BY <1>6, <1>7

LEMMA EpochTaken ==
    ASSUME dropLast \in BOOLEAN, NEW left \in SUBSET Items, NEW e \in Seq(SUBSET Items),
           UnderWay(left, <<>>, e, {}, 0), NEW s \in SUBSET left
    PROVE  /\ Batches(Cardinality(left \ s)) + 1 = Batches(Cardinality(left)) =>
                  UnderWay(left \ s, <<>>, e, s, 1)
           /\ Batches(Cardinality(left)) = 1 /\ (dropLast \/ left = s) =>
                  Complete(<<>>, e, s, 1)
<1> DEFINE q == <<>>
<1>1. q \in Seq(Request) /\ Len(q) = 0 /\ PendingIn(q) = {}
  BY EmptySeq DEF PendingIn
<1> HIDE DEF q
<1>2. UnderWay(left, q, e, {}, 0)
  BY DEF q
<1>3. Cardinality(PendingIn(q)) = 0
  BY <1>1, FS_EmptySet
<1>4. /\ Apart(q, e, {}) /\ Taken(q, e, {}) = Items \ left
      /\ Len(e) + 0 + Len(q) - Cardinality(PendingIn(q)) + Batches(Cardinality(left))
             = Batches(Size)
  BY <1>2 DEF UnderWay
<1>5. Apart(q, e, s) /\ Taken(q, e, s) = (Items \ left) \cup s
  BY <1>4, ApartTaken
<1>6. /\ Batches(Cardinality(left)) \in Nat /\ Batches(Size) \in Nat /\ Len(e) \in Nat
  BY <1>1, NumbersOfAnEpoch
<1>7. ASSUME Batches(Cardinality(left \ s)) + 1 = Batches(Cardinality(left))
      PROVE  UnderWay(left \ s, q, e, s, 1)
  <2>1. Batches(Cardinality(left \ s)) \in Nat
    <3>1. left \ s \in SUBSET Items
      OBVIOUS
    <3> QED
      BY <1>1, <3>1, NumbersOfAnEpoch
  <2>2. Taken(q, e, s) = Items \ (left \ s)
    BY <1>5
  <2>3. /\ Len(e) + 1 + Len(q) - Cardinality(PendingIn(q)) + Batches(Cardinality(left \ s))
               = Batches(Size)
        /\ Cardinality(PendingIn(q)) <= Batches(Cardinality(left \ s))
    BY <1>1, <1>3, <1>4, <1>6, <1>7, <2>1
  <2> QED
    BY <1>5, <2>2, <2>3 DEF UnderWay
<1>8. ASSUME Batches(Cardinality(left)) = 1, dropLast \/ left = s
      PROVE  Complete(q, e, s, 1)
  <2>1. Len(e) + 1 + Len(q) = Batches(Size)
    BY <1>1, <1>3, <1>4, <1>6, <1>8
  <2>2. dropLast \/ Taken(q, e, s) = Items
    BY <1>5, <1>8
  <2> QED
    BY <1>1, <1>5, <2>1, <2>2 DEF Complete
<1> QED
  BY <1>7, <1>8 DEF q

LEMMA EpochPopped ==
    ASSUME dropLast \in BOOLEAN, NEW left \in SUBSET Items, NEW q \in Seq(Request),
           q # <<>>, Head(q).drawn, NEW e \in Seq(SUBSET Items)
    PROVE  /\ UnderWay(left, q, e, {}, 0) => UnderWay(left, Tail(q), e, Head(q).items, 1)
           /\ Complete(q, e, {}, 0) => Complete(Tail(q), e, Head(q).items, 1)
<1>1. Tail(q) \in Seq(Request) /\ Len(Tail(q)) = Len(q) - 1
  BY HeadTailProperties
<1>2. Cardinality(PendingIn(Tail(q))) = Cardinality(PendingIn(q))
  BY TailPending
<1>3. /\ Len(q) \in Nat /\ Len(e) \in Nat
      /\ Cardinality(PendingIn(q)) \in Nat
      /\ Cardinality(PendingIn(q)) = 0 <=> PendingIn(q) = {}
      /\ Cardinality(PendingIn(Tail(q))) = 0 <=> PendingIn(Tail(q)) = {}
      /\ Batches(Cardinality(left)) \in Nat /\ Batches(Size) \in Nat
  BY <1>1, NumbersOfAnEpoch
<1>4. Apart(q, e, {}) => /\ Apart(Tail(q), e, Head(q).items)
                         /\ Taken(Tail(q), e, Head(q).items) = Taken(q, e, {})
  BY ApartPopped
<1>5. ASSUME UnderWay(left, q, e, {}, 0) PROVE UnderWay(left, Tail(q), e, Head(q).items, 1)
  BY <1>1, <1>2, <1>3, <1>4, <1>5 DEF UnderWay
<1>6. ASSUME Complete(q, e, {}, 0) PROVE Complete(Tail(q), e, Head(q).items, 1)
  BY <1>1, <1>2, <1>3, <1>4, <1>6 DEF Complete
<1> QED
  BY <1>5, <1>6

LEMMA EpochReturns ==
    ASSUME dropLast \in BOOLEAN, NEW left \in SUBSET Items, NEW q \in Seq(Request),
           NEW e \in Seq(SUBSET Items), NEW b \in SUBSET Items
    PROVE  /\ UnderWay(left, q, e, b, 1) => UnderWay(left, q, Append(e, b), {}, 0)
           /\ Complete(q, e, b, 1) => Complete(q, Append(e, b), {}, 0)
<1>1. Len(Append(e, b)) = Len(e) + 1
  OBVIOUS
<1>2. /\ Len(q) \in Nat /\ Len(e) \in Nat
      /\ Cardinality(PendingIn(q)) \in Nat
      /\ Batches(Cardinality(left)) \in Nat /\ Batches(Size) \in Nat
  BY NumbersOfAnEpoch
<1>3. Apart(q, e, b) => /\ Apart(q, Append(e, b), {})
                        /\ Taken(q, Append(e, b), {}) = Taken(q, e, b)
  BY ApartReturned
<1>4. ASSUME UnderWay(left, q, e, b, 1) PROVE UnderWay(left, q, Append(e, b), {}, 0)
  BY <1>1, <1>2, <1>3, <1>4 DEF UnderWay
<1>5. ASSUME Complete(q, e, b, 1) PROVE Complete(q, Append(e, b), {}, 0)
  BY <1>1, <1>2, <1>3, <1>5 DEF Complete
<1> QED
  BY <1>4, <1>5

LEMMA EpochRequested ==
    ASSUME dropLast \in BOOLEAN, NEW left \in SUBSET Items, NEW q \in Seq(Request),
           NEW e \in Seq(SUBSET Items), NEW b, NEW n \in {0, 1}, UnderWay(left, q, e, b, n),
           Cardinality(PendingIn(q)) < Batches(Cardinality(left))
    PROVE  UnderWay(left, Append(q, Pending), e, b, n)
<1>1. Len(Append(q, Pending)) = Len(q) + 1
  OBVIOUS
<1>2. Cardinality(PendingIn(Append(q, Pending))) = Cardinality(PendingIn(q)) + 1
  BY AppendPending
<1>3. /\ Len(q) \in Nat /\ Len(e) \in Nat
      /\ Cardinality(PendingIn(q)) \in Nat
      /\ Batches(Cardinality(left)) \in Nat /\ Batches(Size) \in Nat
  BY NumbersOfAnEpoch
<1>4. /\ Apart(Append(q, Pending), e, b)
      /\ Taken(Append(q, Pending), e, b) = Taken(q, e, b)
  BY ApartRequested DEF UnderWay
<1> DEFINE q2 == Append(q, Pending)
<1> HIDE DEF q2
<1>5. /\ Len(q2) = Len(q) + 1
      /\ Cardinality(PendingIn(q2)) = Cardinality(PendingIn(q)) + 1
      /\ Apart(q2, e, b) /\ Taken(q2, e, b) = Taken(q, e, b)
  BY <1>1, <1>2, <1>4 DEF q2
<1>6. UnderWay(left, q2, e, b, n)
  BY <1>3, <1>5 DEF UnderWay
<1> QED
  BY <1>6 DEF q2

LEMMA EpochBegins ==
    ASSUME dropLast \in BOOLEAN
    PROVE  UnderWay(Items, <<>>, <<>>, {}, 0)
<1>1. /\ <<>> \in Seq(Request) /\ Len(<<>>) = 0 /\ DOMAIN <<>> = {} /\ PendingIn(<<>>) = {}
  BY EmptySeq DEF PendingIn
<1>2. Cardinality(PendingIn(<<>>)) = 0
  BY <1>1, FS_EmptySet
<1>3. Batches(Size) \in Nat /\ Size = Cardinality(Items)
  BY SizeType, BatchesType DEF Size
<1>4. Apart(<<>>, <<>>, {})
  BY <1>1 DEF Apart
<1>5. Taken(<<>>, <<>>, {}) = Items \ Items
  <2>1. ASSUME NEW x PROVE x \notin Taken(<<>>, <<>>, {})
    BY <1>1, InTaken
  <2> QED
    BY <2>1
<1> QED
  BY <1>1, <1>2, <1>3, <1>4, <1>5 DEF UnderWay

-----------------------------------------------------------------------------
(***************************************************************************)
(* The epochs, one action at a time.                                       *)
(***************************************************************************)
LEMMA InStepNext ==
    ASSUME dropLast' = dropLast,
           UnderWay(sampler'.left, queue', epoch', batch', Held'),
           sampler'.ranOut => /\ queue' = <<>> /\ epoch' = <<>> /\ ~iterating'
                              /\ pc' \in {"idle", "sample"},
           pc' \in {"refill", "flag"} \/ (pc' # "idle" /\ queue' # <<>>) =>
               sampler'.remaining <= Batches(Cardinality(sampler'.left)),
           pc' = "flag" =>
               Cardinality(PendingIn(queue')) < Batches(Cardinality(sampler'.left))
    PROVE  InStep'
<1>1. UnderWay(sampler.left, queue, epoch, batch, Held)'
  BY DEF UnderWay, Batches
<1>2. /\ (pc \in {"refill", "flag"} => Known)'
      /\ (pc # "idle" => queue = <<>> \/ Known)'
      /\ (pc = "flag" =>
              Cardinality(PendingIn(queue)) < Batches(Cardinality(sampler.left)))'
  BY DEF Known, Batches
<1> QED
  BY <1>1, <1>2 DEF InStep

LEMMA DrainingNext ==
    ASSUME dropLast' = dropLast, Complete(queue', epoch', batch', Held'), sampler'.ranOut,
           pc' \in {"idle", "sample"} => queue' # <<>>
    PROVE  Draining'
<1>1. Complete(queue, epoch, batch, Held)'
  BY DEF Complete, Batches
<1> QED
  BY <1>1 DEF Draining

LEMMA SavedEpochsStay ==
    ASSUME SavedEpochs, UNCHANGED <<dropLast, saved>>
    PROVE  SavedEpochs'
BY DEF SavedEpochs, UnderWay, Complete, Batches

LEMMA EpochInit == Init => EpochInv
<1> SUFFICES ASSUME Init PROVE EpochInv
  OBVIOUS
<1>1. StateInv
  BY StateInit
<1>2. /\ sampler.left = Items /\ sampler.ranOut = FALSE /\ queue = <<>> /\ epoch = <<>>
      /\ batch = {} /\ pc = "idle"
  BY DEF Init, NewSampler
<1>3. dropLast \in BOOLEAN
  BY <1>1 DEF StateInv, SamplerOK
<1>4. Held = 0
  BY <1>2 DEF Held, Holding
<1>5. UnderWay(sampler.left, queue, epoch, batch, Held)
  BY <1>2, <1>3, <1>4, EpochBegins
<1>6. InStep
  BY <1>2, <1>5 DEF InStep
<1>7. SavedEpochs
  BY DEF Init, SavedEpochs
<1> QED
  BY <1>1, <1>6, <1>7 DEF EpochInv, OneEpoch

LEMMA EpochRunRequest ==
    ASSUME StateInv, OneEpoch, RunRequest
    PROVE  OneEpoch'
<1>1. PICK i \in DOMAIN queue, b \in NextBatches :
          /\ ~queue[i].drawn
          /\ Draw(b)
          /\ queue' = [queue EXCEPT ![i] = Drawn(b)]
          /\ UNCHANGED <<dropLast, pc, batch, iterating, epoch, saved, regular, used>>
  BY DEF RunRequest
<1> SUFFICES ASSUME regular PROVE InStep' \/ Draining'
  BY <1>1 DEF OneEpoch
<1>2. i \in PendingIn(queue) /\ queue # <<>> /\ queue' # <<>>
  BY <1>1 DEF PendingIn
<1>3. /\ dropLast \in BOOLEAN /\ sampler.left \in (SUBSET Items) \ {{}}
      /\ ~Exhausted(sampler.left)
      /\ queue \in Seq(Request) /\ QueueOK(queue) /\ epoch \in Seq(SUBSET Items)
      /\ batch \in SUBSET Items
  BY DEF StateInv, SamplerOK, ListOK, QueueOK, ConsumerOK
<1>4. InStep
  BY <1>2 DEF OneEpoch, Draining, Complete
<1>5. Held \in {0, 1} /\ Held' = Held
  BY <1>1 DEF Held
<1>6. UnderWay(sampler.left, queue, epoch, batch, Held)
  BY <1>4 DEF InStep
<1>7. /\ ~sampler.ranOut
      /\ pc \in {"refill", "flag"} => Known
      /\ pc # "idle" => queue = <<>> \/ Known
      /\ pc = "flag" =>
             Cardinality(PendingIn(queue)) < Batches(Cardinality(sampler.left))
  BY <1>2, <1>4 DEF InStep
<1>8. /\ b \in SUBSET sampler.left
      /\ sampler'.remaining = Batches(Cardinality(sampler'.left))
      /\ sampler'.left \in SUBSET Items
      /\ \/ /\ sampler'.ranOut = FALSE
            /\ sampler'.left = sampler.left \ b
            /\ Batches(Cardinality(sampler.left \ b)) + 1
                   = Batches(Cardinality(sampler.left))
         \/ /\ sampler'.ranOut = TRUE
            /\ sampler'.left = Items
            /\ Batches(Cardinality(sampler.left)) = 1
            /\ dropLast \/ sampler.left = b
  <2>1. \/ /\ sampler'.ranOut = FALSE
           /\ sampler'.left = sampler.left \ b
           /\ Batches(Cardinality(sampler.left \ b)) + 1
                  = Batches(Cardinality(sampler.left))
        \/ /\ sampler'.ranOut = TRUE
           /\ sampler'.left = Items
           /\ Batches(Cardinality(sampler.left)) = 1
           /\ dropLast \/ sampler.left = b
    BY <1>1, <1>3, DrawEffect
  <2> QED
    BY <1>1, <1>3, <2>1, DrawEffect
<1>9. /\ Batches(Cardinality(sampler.left)) \in Nat /\ Batches(Cardinality(sampler'.left)) \in Nat
      /\ Cardinality(PendingIn(queue)) \in Nat
  BY <1>3, <1>8, NumbersOfAnEpoch
<1>10. /\ queue' \in Seq(Request) /\ Len(queue') = Len(queue)
       /\ Serves(queue', queue, i, b)
       /\ Cardinality(PendingIn(queue')) = Cardinality(PendingIn(queue)) - 1
  <2>1. b \in SUBSET Items
    BY <1>3, <1>8
  <2>2. queue' \in Seq(Request) /\ Cardinality(PendingIn(queue')) = Cardinality(PendingIn(queue)) - 1
    BY <1>1, <1>2, <1>3, <2>1, DrawnPending
  <2>3. Len(queue') = Len(queue) /\ Serves(queue', queue, i, b)
    BY <1>1, <1>3 DEF Drawn, Serves
  <2> QED
    BY <2>2, <2>3
<1>11. Cardinality(PendingIn(queue)) > 0 /\ Cardinality(PendingIn(queue)) <= Batches(Cardinality(sampler.left))
  BY <1>2, <1>3, <1>6, <1>9, NumbersOfAnEpoch DEF UnderWay
<1>12. CASE /\ sampler'.ranOut = FALSE
            /\ sampler'.left = sampler.left \ b
            /\ Batches(Cardinality(sampler.left \ b)) + 1
                   = Batches(Cardinality(sampler.left))
  <2>1. UnderWay(sampler'.left, queue', epoch', batch', Held')
    <3>1. UnderWay(sampler.left \ b, queue', epoch, batch, Held)
      <4>1. b \in SUBSET sampler.left /\ Held \in {0, 1} /\ sampler.left \in SUBSET Items
        BY <1>3, <1>5, <1>8
      <4>2. dropLast \in BOOLEAN /\ queue \in Seq(Request) /\ QueueOK(queue)
        BY <1>3
      <4>3. epoch \in Seq(SUBSET Items) /\ batch \in SUBSET Items
        BY <1>3
      <4>4. i \in PendingIn(queue)
        BY <1>2
      <4>5. Batches(Cardinality(sampler.left \ b)) + 1 = Batches(Cardinality(sampler.left))
        BY <1>12
      <4> QED
        BY ONLY <1>6, <1>10, <4>1, <4>2, <4>3, <4>4, <4>5, EpochDrawn
    <3> QED
      BY <1>1, <1>5, <1>12, <3>1
  <2>2. sampler'.remaining <= Batches(Cardinality(sampler'.left))
    BY <1>8, <1>9
  <2>3. pc' = "flag" =>
            Cardinality(PendingIn(queue')) < Batches(Cardinality(sampler'.left))
    BY <1>1, <1>7, <1>9, <1>10, <1>12
  <2> QED
    BY <1>1, <1>12, <2>1, <2>2, <2>3, InStepNext
<1>13. CASE /\ sampler'.ranOut = TRUE
            /\ sampler'.left = Items
            /\ Batches(Cardinality(sampler.left)) = 1
            /\ dropLast \/ sampler.left = b
  <2>1. Complete(queue', epoch', batch', Held')
    <3>1. Complete(queue', epoch, batch, Held)
      <4>1. b \in SUBSET sampler.left /\ Held \in {0, 1} /\ sampler.left \in SUBSET Items
        BY <1>3, <1>5, <1>8
      <4>2. dropLast \in BOOLEAN /\ queue \in Seq(Request) /\ QueueOK(queue)
        BY <1>3
      <4>3. epoch \in Seq(SUBSET Items) /\ batch \in SUBSET Items
        BY <1>3
      <4>4. i \in PendingIn(queue)
        BY <1>2
      <4> QED
        BY ONLY <1>6, <1>10, <1>13, <4>1, <4>2, <4>3, <4>4, EpochDrawn
    <3> QED
      BY <1>1, <1>5, <3>1
  <2> QED
    BY <1>1, <1>2, <1>13, <2>1, DrainingNext
<1> QED
  BY <1>8, <1>12, <1>13

\* The list a sampler keeps has a batch.
LEMMA HasBatch ==
    ASSUME StateInv
    PROVE  /\ Batches(Cardinality(sampler.left)) \in Nat
           /\ Batches(Cardinality(sampler.left)) > 0
           /\ sampler.remaining \in Nat
<1>1. PICK left \in SUBSET Items : left = sampler.left /\ left # {} /\ ~Exhausted(left)
  BY DEF StateInv, SamplerOK, ListOK
<1>2. dropLast \in BOOLEAN /\ BatchSize \in Nat /\ BatchSize > 0
  BY SizeType DEF StateInv, SamplerOK
<1>3. PICK n \in Nat : n = Cardinality(left) /\ n > 0
  BY <1>1, Counted
<1>4. dropLast => n >= BatchSize
  BY <1>1, <1>2, <1>3 DEF Exhausted
<1>5. PICK m \in Nat : m = IF n < BatchSize THEN 0 ELSE n - BatchSize
  BY <1>2
<1>6. Batches(n) = Batches(m) + 1 /\ Batches(m) \in Nat
  BY <1>2, <1>3, <1>4, <1>5, BatchesOfNext, BatchesType
<1>7. sampler.remaining \in Nat
  <2>1. sampler.remaining \in 0 .. Unlimited
    BY DEF StateInv, SamplerOK
  <2>2. Unlimited \in Nat
    BY <1>2, UnlimitedType
  <2> QED
    BY ONLY <2>1, <2>2
<1> QED
  BY <1>1, <1>3, <1>6, <1>7

LEMMA EpochStays ==
    ASSUME OneEpoch,
           UNCHANGED <<dropLast, sampler, queue, pc, batch, iterating, epoch, regular>>
    PROVE  OneEpoch'
<1>1. InStep => InStep'
  BY DEF InStep, UnderWay, Known, Held, Batches
<1>2. Draining => Draining'
  BY DEF Draining, Complete, Held, Batches
<1>3. regular' = regular
  OBVIOUS
<1> QED
  BY <1>1, <1>2, <1>3 DEF OneEpoch

LEMMA EpochStartIteration ==
    ASSUME StateInv, OneEpoch, StartIteration
    PROVE  OneEpoch'
<1> SUFFICES ASSUME regular' PROVE InStep'
  BY DEF OneEpoch
<1>1. regular /\ ~Misled /\ ~EpochIsQueued
  BY DEF StartIteration
<1>2. /\ UNCHANGED <<dropLast, queue, batch, epoch>> /\ pc = "idle" /\ pc' = "next"
      /\ sampler'.left = sampler.left /\ sampler'.remaining = sampler.remaining
      /\ sampler'.ranOut = FALSE
  BY DEF StartIteration, ClearRanOut, StateInv, SamplerOK
<1>3. InStep
  BY <1>1, <1>2 DEF OneEpoch, Draining, EpochIsQueued
<1>4. Held' = Held
  BY <1>2 DEF Held, Holding
<1>5. UnderWay(sampler'.left, queue', epoch', batch', Held')
  BY <1>2, <1>3, <1>4 DEF InStep
<1>6. queue # <<>> => sampler.remaining <= Batches(Cardinality(sampler.left))
  <2>1. queue # <<>> => ~(sampler.remaining > Batches(Cardinality(sampler.left)))
    BY <1>1 DEF Misled, EpochIsQueued
  <2> QED
    BY <2>1, HasBatch
<1>7. pc' \notin {"refill", "flag"} /\ pc' # "flag"
  BY <1>2
<1> QED
  BY ONLY <1>2, <1>5, <1>6, <1>7, InStepNext

LEMMA EpochNextOfIteration ==
    ASSUME StateInv, OneEpoch, NextOfIteration
    PROVE  OneEpoch'
<1>1. /\ UNCHANGED <<dropLast, regular, sampler, queue, batch, iterating, epoch>>
      /\ pc = "next" /\ pc' \in {"sample", "end"} /\ iterating
      /\ pc' = "sample" => Continues
      /\ pc' = "end" => ~Continues
  BY DEF NextOfIteration, StateInv, ConsumerOK
<1> SUFFICES ASSUME regular PROVE InStep' \/ Draining'
  BY <1>1 DEF OneEpoch
<1>2. Held' = Held
  BY <1>1 DEF Held, Holding
<1>3. CASE InStep
  <2>1. ~sampler.ranOut /\ (queue # <<>> => Known)
    BY <1>1, <1>3 DEF InStep
  <2>2. pc' = "sample"
    BY <1>1, <2>1 DEF Continues
  <2>3. UnderWay(sampler'.left, queue', epoch', batch', Held')
    BY <1>1, <1>2, <1>3 DEF InStep
  <2>4. /\ dropLast' = dropLast
        /\ ~sampler'.ranOut
        /\ queue' # <<>> => sampler'.remaining <= Batches(Cardinality(sampler'.left))
    BY <1>1, <2>1 DEF Known
  <2>5. pc' \notin {"refill", "flag"} /\ pc' # "flag"
    BY <2>2
  <2> QED
    BY ONLY <2>3, <2>4, <2>5, InStepNext
<1>4. CASE Draining
  <2>1. Complete(queue', epoch', batch', Held')
    BY <1>1, <1>2, <1>4 DEF Draining
  <2>2. sampler'.ranOut /\ dropLast' = dropLast
    BY <1>1, <1>4 DEF Draining
  <2>3. pc' \in {"idle", "sample"} => queue' # <<>>
    BY <1>1, <2>2 DEF Continues
  <2> QED
    BY ONLY <2>1, <2>2, <2>3, DrainingNext
<1> QED
  BY <1>3, <1>4 DEF OneEpoch

LEMMA EpochPlainSample ==
    ASSUME StateInv, OneEpoch, PlainSample
    PROVE  OneEpoch'
<1>1. /\ UNCHANGED <<dropLast, sampler, queue, batch, iterating, epoch>>
      /\ pc = "idle" /\ pc' = "sample" /\ ~iterating
  BY DEF PlainSample, StateInv, ConsumerOK
<1> SUFFICES ASSUME regular' PROVE InStep' \/ Draining'
  BY DEF OneEpoch
<1>2. regular /\ ~Misled
  BY DEF PlainSample
<1>3. Held' = Held
  BY <1>1 DEF Held, Holding
<1>4. CASE InStep
  <2>1. UnderWay(sampler'.left, queue', epoch', batch', Held')
    BY <1>1, <1>3, <1>4 DEF InStep
  <2>2. sampler.ranOut => queue = <<>> /\ epoch = <<>>
    BY <1>4 DEF InStep
  <2>3. queue # <<>> => sampler.remaining <= Batches(Cardinality(sampler.left))
    <3>1. queue # <<>> => ~(sampler.remaining > Batches(Cardinality(sampler.left)))
      BY <1>2, <2>2 DEF Misled
    <3> QED
      BY <3>1, HasBatch
  <2>4. pc' \notin {"refill", "flag"} /\ pc' # "flag" /\ pc' \in {"idle", "sample"}
    BY <1>1
  <2>5. /\ dropLast' = dropLast
        /\ sampler'.ranOut => queue' = <<>> /\ epoch' = <<>> /\ ~iterating'
        /\ queue' # <<>> => sampler'.remaining <= Batches(Cardinality(sampler'.left))
    BY <1>1, <2>2, <2>3
  <2> QED
    BY ONLY <2>1, <2>4, <2>5, InStepNext
<1>5. CASE Draining
  <2>1. Complete(queue', epoch', batch', Held')
    BY <1>1, <1>3, <1>5 DEF Draining
  <2>2. sampler'.ranOut /\ dropLast' = dropLast /\ queue' # <<>>
    BY <1>1, <1>5 DEF Draining
  <2> QED
    BY ONLY <2>1, <2>2, DrainingNext
<1> QED
  BY <1>2, <1>4, <1>5 DEF OneEpoch

LEMMA EpochEndIteration ==
    ASSUME StateInv, EndIteration
    PROVE  OneEpoch'
<1>1. /\ UNCHANGED <<dropLast, sampler, queue, batch>> /\ pc' = "idle" /\ iterating' = FALSE
      /\ epoch' = <<>>
  BY DEF EndIteration
<1>2. pc = "end" /\ sampler.ranOut /\ queue = <<>> /\ batch = {}
  BY DEF EndIteration, StateInv, ConsumerOK, Holding
<1>3. sampler.left = Items /\ dropLast \in BOOLEAN
  BY <1>2 DEF StateInv, SamplerOK, ListOK
<1>4. Held' = 0
  BY <1>1 DEF Held, Holding
<1>5. UnderWay(sampler'.left, queue', epoch', batch', Held')
  BY <1>1, <1>2, <1>3, <1>4, EpochBegins
<1>6. /\ pc' \notin {"refill", "flag"} /\ pc' # "flag" /\ ~(pc' # "idle")
      /\ pc' \in {"idle", "sample"} /\ queue' = <<>> /\ dropLast' = dropLast
  BY <1>1, <1>2
<1>7. InStep'
  BY ONLY <1>1, <1>5, <1>6, InStepNext
<1> QED
  BY <1>7 DEF OneEpoch

LEMMA EpochTakeBatch ==
    ASSUME StateInv, OneEpoch, TakeBatch
    PROVE  OneEpoch'
<1>1. /\ UNCHANGED <<dropLast, regular, epoch, iterating>>
      /\ pc = "sample" /\ pc' = "refill"
  BY DEF TakeBatch
<1> SUFFICES ASSUME regular PROVE InStep' \/ Draining'
  BY <1>1 DEF OneEpoch
<1>2. Held = 0 /\ Held' = 1 /\ batch = {}
  BY <1>1 DEF Held, Holding, StateInv, ConsumerOK
<1>3. /\ dropLast \in BOOLEAN /\ sampler.left \in SUBSET Items
      /\ sampler.left \in (SUBSET Items) \ {{}} /\ ~Exhausted(sampler.left)
      /\ queue \in Seq(Request) /\ epoch \in Seq(SUBSET Items)
  BY DEF StateInv, SamplerOK, ListOK, QueueOK, ConsumerOK
<1>4. CASE /\ queue # <<>>
           /\ Head(queue).drawn
           /\ batch' = Head(queue).items
           /\ queue' = Tail(queue)
           /\ UNCHANGED sampler
  <2>1. /\ UnderWay(sampler.left, queue, epoch, {}, 0) =>
               UnderWay(sampler.left, Tail(queue), epoch, Head(queue).items, 1)
        /\ Complete(queue, epoch, {}, 0) => Complete(Tail(queue), epoch, Head(queue).items, 1)
    BY <1>3, <1>4, EpochPopped
  <2>2. CASE InStep
    <3>1. ~sampler.ranOut /\ Known
      BY <1>1, <1>4, <2>2 DEF InStep
    <3>2. UnderWay(sampler'.left, queue', epoch', batch', Held')
      BY <1>1, <1>2, <1>4, <2>1, <2>2 DEF InStep
    <3>3. /\ dropLast' = dropLast /\ ~sampler'.ranOut /\ pc' # "flag"
          /\ sampler'.remaining <= Batches(Cardinality(sampler'.left))
      BY <1>1, <1>4, <3>1 DEF Known
    <3> QED
      BY ONLY <3>2, <3>3, InStepNext
  <2>3. CASE Draining
    <3>1. Complete(queue', epoch', batch', Held')
      BY <1>1, <1>2, <1>4, <2>1, <2>3 DEF Draining
    <3>2. dropLast' = dropLast /\ sampler'.ranOut /\ pc' \notin {"idle", "sample"}
      BY <1>1, <1>4, <2>3 DEF Draining
    <3> QED
      BY ONLY <3>1, <3>2, DrainingNext
  <2> QED
    BY <2>2, <2>3 DEF OneEpoch
<1>5. CASE /\ queue = <<>>
           /\ \E b \in NextBatches : Draw(b) /\ batch' = b
           /\ UNCHANGED queue
  <2>1. PICK b \in NextBatches : Draw(b) /\ batch' = b
    BY <1>5
  <2>2. InStep
    BY <1>1, <1>5 DEF OneEpoch, Draining
  <2>3. UnderWay(sampler.left, <<>>, epoch, {}, 0)
    BY <1>2, <1>5, <2>2 DEF InStep
  <2>4. /\ b \in SUBSET sampler.left
        /\ sampler'.remaining = Batches(Cardinality(sampler'.left))
        /\ sampler'.left \in SUBSET Items
    BY <1>3, <2>1, DrawEffect
  <2>5. \/ /\ sampler'.ranOut = FALSE
           /\ sampler'.left = sampler.left \ b
           /\ Batches(Cardinality(sampler.left \ b)) + 1
                  = Batches(Cardinality(sampler.left))
        \/ /\ sampler'.ranOut = TRUE
           /\ sampler'.left = Items
           /\ Batches(Cardinality(sampler.left)) = 1
           /\ dropLast \/ sampler.left = b
    BY <1>3, <2>1, DrawEffect
  <2>6. /\ Batches(Cardinality(sampler.left \ b)) + 1 = Batches(Cardinality(sampler.left)) =>
               UnderWay(sampler.left \ b, <<>>, epoch, b, 1)
        /\ Batches(Cardinality(sampler.left)) = 1 /\ (dropLast \/ sampler.left = b) =>
               Complete(<<>>, epoch, b, 1)
    BY <1>3, <2>3, <2>4, EpochTaken
  <2>7. CASE /\ sampler'.ranOut = FALSE
             /\ sampler'.left = sampler.left \ b
             /\ Batches(Cardinality(sampler.left \ b)) + 1
                    = Batches(Cardinality(sampler.left))
    <3>1. UnderWay(sampler'.left, queue', epoch', batch', Held')
      BY <1>1, <1>2, <1>5, <2>1, <2>6, <2>7
    <3>2. Batches(Cardinality(sampler'.left)) \in Nat
      BY <1>3, <2>4, NumbersOfAnEpoch
    <3>3. /\ dropLast' = dropLast /\ ~sampler'.ranOut /\ pc' # "flag"
          /\ sampler'.remaining <= Batches(Cardinality(sampler'.left))
      BY <1>1, <2>4, <2>7, <3>2
    <3> QED
      BY ONLY <3>1, <3>3, InStepNext
  <2>8. CASE /\ sampler'.ranOut = TRUE
             /\ sampler'.left = Items
             /\ Batches(Cardinality(sampler.left)) = 1
             /\ dropLast \/ sampler.left = b
    <3>1. Complete(queue', epoch', batch', Held')
      BY <1>1, <1>2, <1>5, <2>1, <2>6, <2>8
    <3>2. dropLast' = dropLast /\ sampler'.ranOut /\ pc' \notin {"idle", "sample"}
      BY <1>1, <2>8
    <3> QED
      BY ONLY <3>1, <3>2, DrainingNext
  <2> QED
    BY <2>5, <2>7, <2>8
<1> QED
  BY <1>4, <1>5 DEF TakeBatch

LEMMA EpochRefillTestRoom ==
    ASSUME StateInv, OneEpoch, RefillTestRoom
    PROVE  OneEpoch'
<1>1. /\ UNCHANGED <<dropLast, regular, sampler, queue, batch, iterating, epoch>>
      /\ pc = "refill" /\ pc' \in {"flag", "return"}
      /\ pc' = "flag" => HasRoom
  BY DEF RefillTestRoom
<1> SUFFICES ASSUME regular PROVE InStep' \/ Draining'
  BY <1>1 DEF OneEpoch
<1>2. Held' = Held
  BY <1>1 DEF Held, Holding
<1>3. CASE InStep
  <2>1. ~sampler.ranOut /\ Known
    BY <1>1, <1>3 DEF InStep
  <2>2. UnderWay(sampler'.left, queue', epoch', batch', Held')
    BY <1>1, <1>2, <1>3 DEF InStep
  <2>3. /\ dropLast' = dropLast /\ ~sampler'.ranOut
        /\ sampler'.remaining <= Batches(Cardinality(sampler'.left))
    BY <1>1, <2>1 DEF Known
  <2>4. pc' = "flag" =>
            Cardinality(PendingIn(queue')) < Batches(Cardinality(sampler'.left))
    <3>1. queue \in Seq(Request)
      BY DEF StateInv, QueueOK
    <3>2. /\ Cardinality(PendingIn(queue)) \in Nat /\ Len(queue) \in Nat
          /\ Cardinality(PendingIn(queue)) <= Len(queue)
      BY <3>1, PendingCounted, LenProperties
    <3>3. pc' = "flag" => Len(queue) < sampler.remaining
      BY <1>1 DEF HasRoom
    <3>4. /\ Batches(Cardinality(sampler.left)) \in Nat /\ sampler.remaining \in Nat
          /\ sampler.remaining <= Batches(Cardinality(sampler.left))
      BY <2>1, HasBatch DEF Known
    <3>5. pc' = "flag" => Cardinality(PendingIn(queue)) < Batches(Cardinality(sampler.left))
      BY ONLY <3>2, <3>3, <3>4
    <3> QED
      BY <1>1, <3>5
  <2> QED
    BY ONLY <2>2, <2>3, <2>4, InStepNext
<1>4. CASE Draining
  <2>1. Complete(queue', epoch', batch', Held')
    BY <1>1, <1>2, <1>4 DEF Draining
  <2>2. dropLast' = dropLast /\ sampler'.ranOut /\ pc' \notin {"idle", "sample"}
    BY <1>1, <1>4 DEF Draining
  <2> QED
    BY ONLY <2>1, <2>2, DrainingNext
<1> QED
  BY <1>3, <1>4 DEF OneEpoch

LEMMA EpochRefillTestRanOut ==
    ASSUME StateInv, OneEpoch, RefillTestRanOut
    PROVE  OneEpoch'
<1>1. /\ UNCHANGED <<dropLast, regular, sampler, batch, iterating, epoch>>
      /\ pc = "flag"
      /\ sampler.ranOut => pc' = "return" /\ UNCHANGED queue
      /\ ~sampler.ranOut => pc' = "refill" /\ queue' = Append(queue, Pending)
  BY DEF RefillTestRanOut
<1> SUFFICES ASSUME regular PROVE InStep' \/ Draining'
  BY <1>1 DEF OneEpoch
<1>2. Held = 1 /\ Held' = 1
  BY <1>1 DEF Held, Holding
<1>3. CASE InStep
  <2>1. ~sampler.ranOut /\ Known
    BY <1>1, <1>3 DEF InStep
  <2>2. /\ UnderWay(sampler.left, queue, epoch, batch, 1)
        /\ Cardinality(PendingIn(queue)) < Batches(Cardinality(sampler.left))
    BY <1>1, <1>2, <1>3 DEF InStep
  <2>3. /\ dropLast \in BOOLEAN /\ sampler.left \in SUBSET Items
        /\ queue \in Seq(Request) /\ epoch \in Seq(SUBSET Items)
    BY DEF StateInv, SamplerOK, QueueOK, ConsumerOK
  <2>4. UnderWay(sampler.left, Append(queue, Pending), epoch, batch, 1)
    <3>1. 1 \in {0, 1}
      OBVIOUS
    <3> QED
      BY ONLY <2>2, <2>3, <3>1, EpochRequested
  <2>5. UnderWay(sampler'.left, queue', epoch', batch', Held')
    BY <1>1, <1>2, <2>1, <2>4
  <2>6. /\ dropLast' = dropLast /\ ~sampler'.ranOut /\ pc' # "flag"
        /\ sampler'.remaining <= Batches(Cardinality(sampler'.left))
    BY <1>1, <2>1 DEF Known
  <2> QED
    BY ONLY <2>5, <2>6, InStepNext
<1>4. CASE Draining
  <2>1. Complete(queue', epoch', batch', Held')
    BY <1>1, <1>2, <1>4 DEF Draining
  <2>2. dropLast' = dropLast /\ sampler'.ranOut /\ pc' \notin {"idle", "sample"}
    BY <1>1, <1>4 DEF Draining
  <2> QED
    BY ONLY <2>1, <2>2, DrainingNext
<1> QED
  BY <1>3, <1>4 DEF OneEpoch

\* While an epoch is under way the batch returned is not its last; when it is drained,
\* calls outside an iteration begin the next with an empty queue.
LEMMA EpochReturnBatch ==
    ASSUME StateInv, OneEpoch, ReturnBatch
    PROVE  OneEpoch'
<1>1. /\ UNCHANGED <<dropLast, regular, sampler, queue, iterating>>
      /\ pc = "return" /\ pc' = (IF iterating THEN "next" ELSE "idle")
      /\ batch' = {}
      /\ epoch' = IF ~iterating /\ Len(epoch) + 1 = Batches(Size) THEN <<>>
                  ELSE Append(epoch, batch)
  BY DEF ReturnBatch
<1> SUFFICES ASSUME regular PROVE InStep' \/ Draining'
  BY <1>1 DEF OneEpoch
<1>2. Held = 1 /\ Held' = 0
  BY <1>1 DEF Held, Holding
<1>3. /\ dropLast \in BOOLEAN /\ sampler.left \in SUBSET Items
      /\ queue \in Seq(Request) /\ epoch \in Seq(SUBSET Items)
      /\ batch \in SUBSET Items /\ iterating \in BOOLEAN
  BY DEF StateInv, SamplerOK, QueueOK, ConsumerOK
<1>4. /\ Batches(Cardinality(sampler.left)) \in Nat /\ Batches(Size) \in Nat
      /\ Len(queue) \in Nat /\ Len(epoch) \in Nat
      /\ Cardinality(PendingIn(queue)) \in Nat
      /\ Cardinality(PendingIn(queue)) <= Len(queue)
  BY <1>3, NumbersOfAnEpoch
<1>5. /\ UnderWay(sampler.left, queue, epoch, batch, 1) =>
             UnderWay(sampler.left, queue, Append(epoch, batch), {}, 0)
      /\ Complete(queue, epoch, batch, 1) => Complete(queue, Append(epoch, batch), {}, 0)
  BY <1>3, EpochReturns
<1>6. CASE InStep
  <2>1. /\ UnderWay(sampler.left, queue, epoch, batch, 1)
        /\ ~sampler.ranOut
        /\ queue # <<>> => Known
    BY <1>1, <1>2, <1>6 DEF InStep
  <2>2. Len(epoch) + 1 # Batches(Size)
    <3>1. Len(epoch) + 1 + Len(queue) - Cardinality(PendingIn(queue))
              + Batches(Cardinality(sampler.left)) = Batches(Size)
      BY <2>1 DEF UnderWay
    <3> QED
      BY ONLY <1>4, <3>1, HasBatch, StateInv
  <2>3. UnderWay(sampler'.left, queue', epoch', batch', Held')
    BY <1>1, <1>2, <1>5, <2>1, <2>2
  <2>4. /\ dropLast' = dropLast /\ ~sampler'.ranOut
        /\ queue' # <<>> => sampler'.remaining <= Batches(Cardinality(sampler'.left))
        /\ pc' \notin {"refill", "flag"} /\ pc' # "flag"
    BY <1>1, <2>1 DEF Known
  <2> QED
    BY ONLY <2>3, <2>4, InStepNext
<1>7. CASE Draining
  <2>1. /\ Complete(queue, epoch, batch, 1) /\ sampler.ranOut
        /\ Len(epoch) + 1 + Len(queue) = Batches(Size)
    BY <1>2, <1>7 DEF Draining, Complete
  <2>2. CASE ~iterating /\ Len(epoch) + 1 = Batches(Size)
    <3>1. Len(queue) = 0
      BY ONLY <1>4, <2>1, <2>2
    <3>2. queue = <<>>
      BY <1>3, <3>1, EmptySeq
    <3>3. sampler.left = Items
      BY <2>1 DEF StateInv, SamplerOK, ListOK
    <3>4. epoch' = <<>> /\ pc' = "idle" /\ ~iterating'
      BY <1>1, <2>2
    <3>5. UnderWay(sampler'.left, queue', epoch', batch', Held')
      BY <1>1, <1>2, <1>3, <3>2, <3>3, <3>4, EpochBegins
    <3>6. /\ dropLast' = dropLast /\ queue' = <<>>
          /\ pc' \notin {"refill", "flag"} /\ pc' # "flag" /\ pc' \in {"idle", "sample"}
      BY <1>1, <3>2, <3>4
    <3> QED
      BY ONLY <3>4, <3>5, <3>6, InStepNext
  <2>3. CASE ~(~iterating /\ Len(epoch) + 1 = Batches(Size))
    <3>1. Complete(queue', epoch', batch', Held')
      BY <1>1, <1>2, <1>5, <2>1, <2>3
    <3>2. pc' \in {"idle", "sample"} => queue' # <<>>
      <4>1. ASSUME pc' \in {"idle", "sample"} PROVE Len(queue) # 0
        <5>1. ~iterating
          BY <1>1, <1>3, <4>1
        <5>2. Len(epoch) + 1 # Batches(Size)
          BY <2>3, <5>1
        <5> QED
          BY ONLY <1>4, <2>1, <5>2
      <4>2. Len(<<>>) = 0
        OBVIOUS
      <4> QED
        BY <1>1, <4>1, <4>2
    <3>3. dropLast' = dropLast /\ sampler'.ranOut
      BY <1>1, <2>1
    <3> QED
      BY ONLY <3>1, <3>2, <3>3, DrainingNext
  <2> QED
    BY <2>2, <2>3
<1> QED
  BY <1>6, <1>7 DEF OneEpoch

LEMMA EpochSave ==
    ASSUME StateInv, OneEpoch, SavedEpochs, Save
    PROVE  OneEpoch' /\ SavedEpochs'
<1>1. /\ UNCHANGED <<dropLast, regular, sampler, queue, pc, batch, iterating, epoch>>
      /\ pc = "idle"
      /\ saved' = saved \cup {StateDict}
  BY DEF Save
<1>2. OneEpoch'
  BY <1>1, EpochStays
<1>3. Held = 0 /\ batch = {}
  BY <1>1 DEF Held, Holding, StateInv, ConsumerOK
<1> DEFINE Sound(s) ==
        \/ /\ UnderWay(s.left, s.queue, s.epoch, {}, 0)
           /\ s.ranOut => s.queue = <<>> /\ s.epoch = <<>>
        \/ /\ Complete(s.queue, s.epoch, {}, 0)
           /\ s.ranOut /\ s.queue # <<>>
<1>4. /\ StateDict.left = sampler.left /\ StateDict.ranOut = sampler.ranOut
      /\ StateDict.queue = queue /\ StateDict.epoch = epoch /\ StateDict.regular = regular
  BY DEF StateDict
<1>5. ASSUME regular PROVE Sound(StateDict)
  <2>1. CASE InStep
    <3>1. UnderWay(sampler.left, queue, epoch, {}, 0)
      BY <1>3, <2>1 DEF InStep
    <3>2. sampler.ranOut => queue = <<>> /\ epoch = <<>>
      BY <2>1 DEF InStep
    <3> QED
      BY <1>4, <3>1, <3>2
  <2>2. CASE Draining
    <3>1. Complete(queue, epoch, {}, 0) /\ sampler.ranOut /\ queue # <<>>
      BY <1>1, <1>3, <2>2 DEF Draining
    <3> QED
      BY <1>4, <3>1
  <2> QED
    BY <1>5, <2>1, <2>2 DEF OneEpoch
<1>6. ASSUME NEW s \in saved, s.regular PROVE Sound(s)
  BY <1>6 DEF SavedEpochs
<1>7. \A s \in saved' : s.regular => Sound(s)
  <2> HIDE DEF Sound
  <2>1. \A s \in saved' : s \in saved \/ s = StateDict
    BY <1>1
  <2> QED
    BY <1>4, <1>5, <1>6, <2>1
<1>8. SavedEpochs'
  BY <1>1, <1>7 DEF SavedEpochs, UnderWay, Complete, Batches
<1> QED
  BY <1>2, <1>8

LEMMA EpochLoad ==
    ASSUME StateInv, SavedEpochs, Load
    PROVE  OneEpoch'
<1>1. PICK s \in saved, remaining \in {Unlimited, sampler.remaining} :
          /\ sampler' = [left |-> s.left, remaining |-> remaining, ranOut |-> s.ranOut]
          /\ queue' = s.queue
          /\ epoch' = s.epoch
          /\ regular' = s.regular
  BY DEF Load
<1>2. /\ UNCHANGED <<dropLast, batch, iterating>> /\ pc' = "idle"
      /\ batch = {} /\ ~iterating
  BY DEF Load, StateInv, ConsumerOK, Holding
<1> SUFFICES ASSUME regular' PROVE InStep' \/ Draining'
  BY DEF OneEpoch
<1>3. sampler'.left = s.left /\ sampler'.ranOut = s.ranOut
  BY <1>1
<1>4. Held' = 0
  BY <1>2 DEF Held, Holding
<1>5. s.regular
  BY <1>1
<1>6. CASE /\ UnderWay(s.left, s.queue, s.epoch, {}, 0)
           /\ s.ranOut => s.queue = <<>> /\ s.epoch = <<>>
  <2>1. UnderWay(sampler'.left, queue', epoch', batch', Held')
    BY <1>1, <1>2, <1>3, <1>4, <1>6
  <2>2. sampler'.ranOut => queue' = <<>> /\ epoch' = <<>> /\ ~iterating'
    BY <1>1, <1>2, <1>3, <1>6
  <2>3. /\ dropLast' = dropLast /\ pc' \notin {"refill", "flag"} /\ pc' # "flag"
        /\ ~(pc' # "idle") /\ pc' \in {"idle", "sample"}
    BY <1>2
  <2> QED
    BY ONLY <2>1, <2>2, <2>3, InStepNext
<1>7. CASE /\ Complete(s.queue, s.epoch, {}, 0)
           /\ s.ranOut /\ s.queue # <<>>
  <2>1. Complete(queue', epoch', batch', Held')
    BY <1>1, <1>2, <1>4, <1>7
  <2>2. dropLast' = dropLast /\ sampler'.ranOut /\ queue' # <<>>
    BY <1>1, <1>2, <1>3, <1>7
  <2> QED
    BY ONLY <2>1, <2>2, DrainingNext
<1> QED
  BY <1>5, <1>6, <1>7 DEF SavedEpochs

LEMMA EpochNext == EpochInv /\ [Next]_vars => EpochInv'
<1> SUFFICES ASSUME StateInv, OneEpoch, SavedEpochs, [Next]_vars PROVE EpochInv'
  BY DEF EpochInv
<1>1. StateInv'
  BY StateNext
<1>2. OneEpoch'
  <2>1. CASE UNCHANGED vars
    BY <2>1, EpochStays DEF vars
  <2>2. CASE Consumer
    BY <2>2, EpochStartIteration, EpochNextOfIteration, EpochEndIteration, EpochPlainSample,
       EpochTakeBatch, EpochRefillTestRoom, EpochRefillTestRanOut, EpochReturnBatch
       DEF Consumer
  <2> QED
    BY <2>1, <2>2, EpochRunRequest, EpochSave, EpochLoad DEF Next
<1>3. SavedEpochs'
  <2>1. CASE UNCHANGED <<dropLast, saved>>
    BY <2>1, SavedEpochsStay
  <2>2. CASE Save
    BY <2>2, EpochSave
  <2>3. [Next]_vars => UNCHANGED <<dropLast, saved>> \/ Save
    BY DEF Next, vars, Consumer, RunRequest, Load, StartIteration, NextOfIteration,
       EndIteration, PlainSample, TakeBatch, RefillTestRoom, RefillTestRanOut, ReturnBatch
  <2> QED
    BY <2>1, <2>2, <2>3
<1> QED
  BY <1>1, <1>2, <1>3 DEF EpochInv

\* A complete iteration returns one epoch.
LEMMA EndOfEpoch == EpochInv => IterationIsOneEpoch
<1> SUFFICES ASSUME StateInv, OneEpoch, pc = "end", regular PROVE EpochReturned
  BY DEF EpochInv, IterationIsOneEpoch
<1>1. sampler.ranOut /\ queue = <<>> /\ batch = {} /\ iterating /\ epoch \in Seq(SUBSET Items)
  BY DEF StateInv, ConsumerOK, Holding
<1>2. Held = 0
  BY DEF Held, Holding
<1>3. Complete(<<>>, epoch, {}, 0)
  BY <1>1, <1>2 DEF OneEpoch, InStep, Draining
<1>4. Len(epoch) + 0 + Len(<<>>) = Batches(Size)
  BY <1>3 DEF Complete
<1>5. Len(epoch) = Batches(Size)
  <2>1. Len(epoch) \in Nat /\ Len(<<>>) = 0
    BY <1>1, LenProperties
  <2> QED
    BY <1>4, <2>1
<1>6. \A i, j \in DOMAIN epoch : i # j => epoch[i] \cap epoch[j] = {}
  BY <1>3 DEF Complete, Apart
<1>7. Taken(<<>>, epoch, {}) = UNION ToSet(epoch)
  <2>1. DOMAIN <<>> = {} /\ ToSet(epoch) = {epoch[i] : i \in DOMAIN epoch}
    BY DEF ToSet
  <2> QED
    BY <2>1 DEF Taken
<1>8. dropLast \/ UNION ToSet(epoch) = Items
  BY <1>3, <1>7 DEF Complete
<1> QED
  BY <1>5, <1>6, <1>8 DEF EpochReturned

\* Nothing of the next epoch is in hand.
LEMMA NothingAhead == EpochInv => NeverAhead
<1> SUFFICES ASSUME OneEpoch, regular PROVE NeverAhead
  BY DEF EpochInv, NeverAhead
<1>1. Apart(queue, epoch, batch)
  BY DEF OneEpoch, InStep, Draining, UnderWay, Complete
<1>2. /\ \A i \in DOMAIN epoch : epoch[i] \cap batch = {}
      /\ \A i \in DOMAIN epoch, j \in DOMAIN queue : epoch[i] \cap queue[j].items = {}
  BY <1>1 DEF Apart
<1> QED
  BY <1>2 DEF NeverAhead

\* Epochs never mix: until a call is misled by the counters of a restored sampler, an
\* iteration returns the batches of one epoch, each item once, whatever the pool's
\* threads and the consumer do in between (ReplayBuffer.sample, __iter__).
THEOREM TheEpochsStayApart == Spec => []EpochsStayApart
<1>1. EpochInv => EpochsStayApart
  BY EndOfEpoch, NothingAhead DEF EpochsStayApart
<1> QED
  BY <1>1, EpochInit, EpochNext, PTL DEF Spec

(***************************************************************************)
(* Ordered updates: OrderedUpdates.                                        *)
(***************************************************************************)
Labels == {"idle", "sample", "await", "popped", "inline", "refill", "synchronize",
           "stopping", "draining", "closing", "joining"}

Future == [kind : {"prefetch", "inline", "update"}, state : Outcomes,
           deps : SUBSET Nat, after : SUBSET Nat, before : SUBSET Nat, sees : SUBSET Nat]

Indices == 1 .. Len(futures)

\* The types of the variables: a future refers to earlier ones only.
Types ==
    /\ cap \in Nat
    /\ futures \in Seq(Future)
    /\ \A f \in Indices : futures[f].deps \cup futures[f].after \cup futures[f].before
                              \subseteq 1 .. f - 1
    /\ \A f \in Indices : futures[f].kind = "inline" => futures[f].state = "done"
    /\ requests \in Seq(Nat) /\ updates \in Seq(Nat)
    /\ taken \in Seq(Nat) /\ applied \in Seq(Nat)
    /\ stage \in [Callers -> Labels]
    /\ target \in [Callers -> Nat]
    /\ asked \in [Callers -> Nat]
    /\ \A c \in Callers : asked[c] <= Len(futures)

\* What the queues hold.
QueuesKnown ==
    /\ ToSet(requests) \subseteq Prefetched
    /\ ToSet(updates) \subseteq Updates
    /\ dependency \in Updates \cup {0}
    /\ Len(requests) <= cap

\* The pool of the updates has a single thread.
UpdatesSettleInOrder ==
    \A u, v \in Updates : u < v /\ Settled(v) => Settled(u)

\* No update is forgotten while it is pending.
PendingAreQueued == \A u \in Updates : Settled(u) \/ u \in ToSet(updates)

\* A future that waits for d waits for all updates up to n.
Covers(d, n) ==
    /\ d \in Updates \cup {0}
    /\ \A u \in Updates : u <= n => Settled(u) \/ u <= d

RequestsWait ==
    \A f \in Prefetched : \A u \in futures[f].after :
        u \in Updates /\ (Settled(u) \/ \E d \in futures[f].deps \cap Updates : u <= d)

CallersWait == \A c \in Callers : stage[c] = "await" => Covers(target[c], asked[c])

UpdatesWait == \A u \in Updates : futures[u].before \subseteq futures[u].deps

DoneUpdates == {u \in Updates : futures[u].state = "done"}

AppliedAreDone == ToSet(applied) = DoneUpdates

SeenAreDone == \A f \in Indices : futures[f].sees \subseteq DoneUpdates

\* The inductive invariant behind UpdatesAreOrdered.
OrderInv ==
    /\ Types
    /\ QueuesKnown
    /\ UpdatesSettleInOrder
    /\ PendingAreQueued
    /\ Covers(dependency, Len(futures))
    /\ RequestsWait
    /\ CallersWait
    /\ UpdatesWait
    /\ AppliedAreDone
    /\ SeenAreDone
    /\ UpdatesAreOrdered

-----------------------------------------------------------------------------
\* The elements of a sequence.
LEMMA Elements ==
    ASSUME NEW S, NEW s \in Seq(S)
    PROVE  /\ Len(s) \in Nat /\ DOMAIN s = 1 .. Len(s)
           /\ \A i \in 1 .. Len(s) : s[i] \in S /\ s[i] \in ToSet(s)
           /\ \A x \in ToSet(s) : \E i \in 1 .. Len(s) : x = s[i]
BY ElementOfSeq, LenProperties DEF ToSet

LEMMA AppendedElements ==
    ASSUME NEW S, NEW s \in Seq(S), NEW x \in S
    PROVE  ToSet(Append(s, x)) = ToSet(s) \cup {x}
<1>1. /\ Len(s) \in Nat /\ Len(Append(s, x)) = Len(s) + 1 /\ Append(s, x) \in Seq(S)
      /\ \A i \in 1 .. Len(s) : Append(s, x)[i] = s[i]
      /\ Append(s, x)[Len(s) + 1] = x
  BY AppendProperties, LenProperties
<1>2. 1 .. Len(s) + 1 = (1 .. Len(s)) \cup {Len(s) + 1}
  BY <1>1
<1>3. DOMAIN Append(s, x) = 1 .. Len(s) + 1 /\ DOMAIN s = 1 .. Len(s)
  BY <1>1, LenProperties
<1> QED
  BY <1>1, <1>2, <1>3 DEF ToSet

LEMMA FunctionIsSeq ==
    ASSUME NEW S, NEW n \in Nat, NEW t \in [1 .. n -> S]
    PROVE  t \in Seq(S) /\ Len(t) = n
<1>1. t \in Seq(S)
  BY SeqDef
<1> QED
  BY <1>1, LenProperties

\* What the sets of futures are, in terms of their indices.
LEMMA FutureSets ==
    ASSUME Types
    PROVE  /\ Len(futures) \in Nat /\ DOMAIN futures = Indices
           /\ \A f \in Indices : futures[f] \in Future
           /\ Updates = {f \in Indices : futures[f].kind = "update"}
           /\ Samples = {f \in Indices : futures[f].kind # "update"}
           /\ Prefetched = {f \in Indices : futures[f].kind = "prefetch"}
           /\ \A f \in Indices : f # 0 /\ (Settled(f) <=> futures[f].state # "pending")
<1>1. Len(futures) \in Nat /\ DOMAIN futures = Indices /\ \A f \in Indices : futures[f] \in Future
  BY Elements DEF Types, Indices
<1>2. \A f \in Indices : f # 0
  BY <1>1 DEF Indices
<1> QED
  BY <1>1, <1>2 DEF Updates, Samples, Prefetched, Settled, StateOf

\* When what covers the updates up to n has settled, so have they.
LEMMA AllBeforeSettled ==
    ASSUME OrderInv, NEW d \in Nat, NEW n \in Nat, Covers(d, n), Settled(d)
    PROVE  \A u \in Updates : u <= n => Settled(u)
<1>1. SUFFICES ASSUME NEW u \in Updates, u <= n, ~Settled(u) PROVE FALSE
  OBVIOUS
<1>2. u <= d /\ d \in Updates \cup {0} /\ u \in 1 .. Len(futures) /\ Len(futures) \in Nat
  BY <1>1, FutureSets DEF Covers, OrderInv, Indices
<1>3. d \in Updates /\ u # d /\ d \in Nat
  BY <1>1, <1>2
<1>4. u < d
  BY <1>2, <1>3
<1> QED
  BY <1>1, <1>3, <1>4 DEF OrderInv, UpdatesSettleInOrder

\* The pool of the updates has no thread for one while an earlier one is pending.
LEMMA OneThread ==
    ASSUME Types, NEW f \in Updates, HasThread(f)
    PROVE  \A u \in Updates : u < f => Settled(u)
<1>1. f \in Indices /\ Len(futures) \in Nat /\ futures[f].kind = "update" /\ f \in Nat
  BY FutureSets DEF Indices
<1>2. IsFiniteSet(Earlier(f))
  <2>1. IsFiniteSet(1 .. f - 1)
    BY <1>1, FS_Interval
  <2> QED
    BY <2>1, FS_Subset DEF Earlier
<1>3. Cardinality(Earlier(f)) < 1 /\ Cardinality(Earlier(f)) \in Nat
  BY <1>1, <1>2, FS_CardinalityType DEF HasThread
<1>4. Earlier(f) = {}
  BY <1>2, <1>3, FS_EmptySet
<1>5. ASSUME NEW u \in Updates, u < f PROVE Settled(u)
  <2>1. u \in 1 .. f - 1 /\ futures[u].kind = "update"
    BY <1>1, <1>5, FutureSets DEF Indices
  <2> QED
    BY <1>1, <1>4, <2>1 DEF Earlier
<1> QED
  BY <1>5

-----------------------------------------------------------------------------
Settles(f, state, seen) ==
    \E new \in Future :
        /\ futures' = [futures EXCEPT ![f] = new]
        /\ new.state = state /\ new.sees = seen
        /\ new.kind = futures[f].kind /\ new.deps = futures[f].deps
        /\ new.after = futures[f].after /\ new.before = futures[f].before

\* A future settles, on a thread of its pool and after all it waits for.
LEMMA SettleStep ==
    ASSUME OrderInv, NEW f \in Indices, ~Settled(f), Ready(f),
           NEW state \in Outcomes \ {"pending"}, NEW seen \in SUBSET DoneUpdates,
           Settles(f, state, seen),
           state = "done" /\ f \in Samples => seen = ToSet(applied),
           applied' \in Seq(Nat),
           ToSet(applied') = ToSet(applied)
                \cup (IF f \in Updates /\ state = "done" THEN {f} ELSE {}),
           UNCHANGED <<cap, requests, updates, dependency, stage, target, asked, taken>>
    PROVE  OrderInv'
<1>0. Types
  BY DEF OrderInv
<1>1. /\ Len(futures) \in Nat /\ DOMAIN futures = Indices
      /\ \A g \in Indices : futures[g] \in Future
      /\ Updates = {g \in Indices : futures[g].kind = "update"}
      /\ Samples = {g \in Indices : futures[g].kind # "update"}
      /\ Prefetched = {g \in Indices : futures[g].kind = "prefetch"}
      /\ \A g \in Indices : g # 0 /\ (Settled(g) <=> futures[g].state # "pending")
  BY <1>0, FutureSets
<1>2. seen \in SUBSET Nat
  BY <1>1 DEF DoneUpdates, Indices
<1>3. /\ futures' \in Seq(Future) /\ Len(futures') = Len(futures)
      /\ \A g \in Indices \ {f} : futures'[g] = futures[g]
      /\ futures'[f].state = state /\ futures'[f].sees = seen
      /\ futures'[f].kind = futures[f].kind /\ futures'[f].deps = futures[f].deps
      /\ futures'[f].after = futures[f].after /\ futures'[f].before = futures[f].before
  <2>1. PICK new \in Future :
          /\ futures' = [futures EXCEPT ![f] = new]
          /\ new.state = state /\ new.sees = seen
          /\ new.kind = futures[f].kind /\ new.deps = futures[f].deps
          /\ new.after = futures[f].after /\ new.before = futures[f].before
    BY DEF Settles
  <2>2. futures'[f] = new /\ \A g \in Indices \ {f} : futures'[g] = futures[g]
    BY <1>1, <2>1
  <2>3. futures' = [g \in 1 .. Len(futures) |-> futures'[g]]
    BY <1>1, <2>1 DEF Indices
  <2>4. \A g \in 1 .. Len(futures) : futures'[g] \in Future
    BY <1>1, <2>2 DEF Indices
  <2>5. futures' \in [1 .. Len(futures) -> Future]
    BY ONLY <2>3, <2>4
  <2>6. futures' \in Seq(Future) /\ Len(futures') = Len(futures)
    BY ONLY <1>1, <2>5, FunctionIsSeq
  <2> QED
    BY <2>1, <2>2, <2>6
<1>4. Indices' = Indices /\ DOMAIN futures' = Indices
  BY <1>3, LenProperties DEF Indices
<1>5. /\ \A g \in Indices : /\ futures'[g].kind = futures[g].kind
                            /\ futures'[g].deps = futures[g].deps
                            /\ futures'[g].after = futures[g].after
                            /\ futures'[g].before = futures[g].before
      /\ Updates' = Updates /\ Samples' = Samples /\ Prefetched' = Prefetched
  BY <1>1, <1>3, <1>4 DEF Updates, Samples, Prefetched
<1>6. \A g \in Indices : Settled(g)' <=> Settled(g) \/ g = f
  BY <1>1, <1>3 DEF Settled, StateOf
<1>7. Types'
  <2>1. f \in Indices /\ futures[f].kind # "inline"
    BY <1>1 DEF OrderInv, Types
  <2> QED
    BY <1>0, <1>3, <1>4, <1>5, <2>1 DEF Types
<1>8. QueuesKnown'
  BY <1>5 DEF OrderInv, QueuesKnown
<1>9. UpdatesSettleInOrder'
  <2>1. f \in Updates => \A u \in Updates : u < f => Settled(u)
    BY <1>0, OneThread DEF Ready
  <2> QED
    BY <1>1, <1>5, <1>6, <2>1 DEF OrderInv, UpdatesSettleInOrder
<1>10. PendingAreQueued'
  BY <1>1, <1>5, <1>6 DEF OrderInv, PendingAreQueued
<1>11. Covers(dependency, Len(futures))'
  BY <1>1, <1>3, <1>5, <1>6 DEF OrderInv, Covers
<1>12. RequestsWait'
  <2>1. ASSUME NEW g \in Prefetched, NEW u \in futures[g].after
        PROVE  u \in Updates /\ (Settled(u)' \/ \E d \in futures[g].deps \cap Updates : u <= d)
    BY <1>1, <1>6, <2>1 DEF OrderInv, RequestsWait
  <2> QED
    BY <1>1, <1>5, <2>1 DEF RequestsWait
<1>13. CallersWait'
  <2>1. ASSUME NEW c \in Callers, stage[c] = "await" PROVE Covers(target[c], asked[c])'
    BY <1>1, <1>5, <1>6, <2>1 DEF OrderInv, CallersWait, Covers
  <2> QED
    BY <2>1 DEF CallersWait
<1>14. UpdatesWait'
  BY <1>1, <1>5 DEF OrderInv, UpdatesWait
<1>15. /\ DoneUpdates' = DoneUpdates \cup (IF f \in Updates /\ state = "done" THEN {f} ELSE {})
       /\ f \notin DoneUpdates
  BY <1>1, <1>3, <1>5 DEF DoneUpdates
<1>16. AppliedAreDone'
  BY <1>15 DEF OrderInv, AppliedAreDone
<1>17. SeenAreDone'
  BY <1>3, <1>4, <1>15 DEF OrderInv, SeenAreDone
<1>18. SamplesSeeEarlierUpdates'
  <2>1. SUFFICES ASSUME NEW g \in Samples, futures'[g].state = "done",
                        NEW u \in futures[g].after
                 PROVE  Settled(u)' /\ (futures'[u].state = "done" => u \in futures'[g].sees)
    BY <1>1, <1>5 DEF SamplesSeeEarlierUpdates
  <2>2. g \in Indices /\ u \in Indices
    BY <1>0, <1>1 DEF Types, Indices
  <2>3. CASE g # f
    BY <1>1, <1>3, <1>6, <2>1, <2>2, <2>3
       DEF OrderInv, UpdatesAreOrdered, SamplesSeeEarlierUpdates
  <2>4. CASE g = f
    <3>1. f \in Prefetched
      BY <1>0, <1>1, <2>1, <2>2, <2>4 DEF Types, Future
    <3>2. u \in Updates /\ (Settled(u) \/ \E d \in futures[f].deps \cap Updates : u <= d)
      BY <2>4, <3>1 DEF OrderInv, RequestsWait
    <3>3. Settled(u)
      <4>1. CASE \E d \in futures[f].deps \cap Updates : u <= d
        <5>1. PICK d \in Updates : u <= d /\ d \in futures[f].deps
          BY <4>1
        <5>2. Settled(d)
          BY <5>1 DEF Ready
        <5>3. u = d \/ u < d
          BY <1>1, <2>2, <5>1 DEF Indices
        <5> QED
          BY <3>2, <5>2, <5>3 DEF OrderInv, UpdatesSettleInOrder
      <4> QED
        BY <3>2, <4>1
    <3>4. u # f /\ futures'[u] = futures[u]
      BY <1>3, <2>2, <3>3
    <3>5. futures[u].state = "done" => u \in seen
      BY <2>1, <2>4, <1>3, <3>2 DEF OrderInv, AppliedAreDone, DoneUpdates
    <3> QED
      BY <1>3, <1>6, <2>2, <2>4, <3>3, <3>4, <3>5
  <2> QED
    BY <2>3, <2>4
<1>19. UpdatesFollowPrefetched'
  <2>1. SUFFICES ASSUME NEW u \in Updates, futures'[u].state = "done",
                        NEW g \in futures[u].before
                 PROVE  Settled(g)' /\ u \notin futures'[g].sees
    <3>1. \A u \in Updates : u \in Indices /\ futures'[u].before = futures[u].before
      BY <1>1, <1>5
    <3> QED
      BY <1>5, <2>1, <3>1 DEF UpdatesFollowPrefetched
  <2>2. g \in Indices /\ u \in Indices
    BY <1>0, <1>1 DEF Types, Indices
  <2>3. CASE u # f
    BY <1>1, <1>3, <1>6, <2>1, <2>2, <2>3
       DEF OrderInv, UpdatesAreOrdered, UpdatesFollowPrefetched
  <2>4. CASE u = f
    <3>1. g \in futures[f].deps
      BY <2>1, <2>4 DEF OrderInv, UpdatesWait
    <3>2. Settled(g)
      BY <3>1 DEF Ready
    <3>3. g # f /\ u \notin futures[g].sees
      BY <1>15, <2>2, <2>4, <3>2 DEF OrderInv, SeenAreDone
    <3> QED
      BY <1>3, <1>6, <2>2, <3>2, <3>3
  <2> QED
    BY <2>3, <2>4
<1> QED
  BY <1>7, <1>8, <1>9, <1>10, <1>11, <1>12, <1>13, <1>14, <1>16, <1>17, <1>18, <1>19
     DEF OrderInv, UpdatesAreOrdered

LEMMA RunKeepsOrder ==
    ASSUME OrderInv, NEW f \in DOMAIN futures, Run(f)
    PROVE  OrderInv'
<1>0. Types /\ AppliedAreDone /\ SeenAreDone
  BY DEF OrderInv
<1>1. /\ f \in Indices /\ futures[f] \in Future /\ Len(futures) \in Nat /\ f \in Nat
      /\ DOMAIN futures = Indices
      /\ f \in Updates <=> f \notin Samples
  BY <1>0, FutureSets DEF Indices
<1>2. ~Settled(f) /\ Ready(f)
  BY DEF Run, RunSkipped, RunFails, RunSucceeds
<1>3. UNCHANGED <<cap, requests, updates, dependency, stage, target, asked, taken>>
  BY DEF Run, RunSkipped, RunFails, RunSucceeds, queues, service, ghosts
<1>4. futures[f].sees \in SUBSET DoneUpdates /\ DoneUpdates \subseteq Nat
  BY <1>0, <1>1, FutureSets DEF SeenAreDone, DoneUpdates, Indices
<1>5. ASSUME NEW state \in {"skipped", "failed"},
             futures' = [futures EXCEPT ![f].state = state], UNCHANGED applied
      PROVE  OrderInv'
  <2> DEFINE new == [futures[f] EXCEPT !.state = state]
  <2>1. /\ new \in Future /\ new.state = state /\ new.sees = futures[f].sees
        /\ new.kind = futures[f].kind /\ new.deps = futures[f].deps
        /\ new.after = futures[f].after /\ new.before = futures[f].before
    BY <1>1 DEF Future, Outcomes
  <2>2. futures' = [futures EXCEPT ![f] = new]
    BY <1>5
  <2>3. Settles(f, state, futures[f].sees)
    <3> HIDE DEF new
    <3> QED
      BY <2>1, <2>2 DEF Settles
  <2>4. /\ state \in Outcomes \ {"pending"} /\ state # "done"
        /\ applied' \in Seq(Nat) /\ ToSet(applied') = ToSet(applied)
    BY <1>0, <1>5 DEF Outcomes, Types
  <2> QED
    BY ONLY OrderInv, <1>1, <1>2, <1>3, <1>4, <2>3, <2>4, SettleStep
<1>6. CASE RunSkipped(f)
  BY <1>5, <1>6 DEF RunSkipped, outcome
<1>7. CASE RunFails(f)
  BY <1>5, <1>7 DEF RunFails
<1>8. CASE RunSucceeds(f)
  <2> DEFINE seen == IF f \in Samples THEN ToSet(applied) ELSE {}
             new == [futures[f] EXCEPT !.state = "done", !.sees = seen]
  <2>1. seen \in SUBSET DoneUpdates
    BY <1>0 DEF AppliedAreDone
  <2>2. /\ new \in Future /\ new.state = "done" /\ new.sees = seen
        /\ new.kind = futures[f].kind /\ new.deps = futures[f].deps
        /\ new.after = futures[f].after /\ new.before = futures[f].before
    <3> HIDE DEF seen
    <3> QED
      BY <1>1, <1>4, <2>1 DEF Future, Outcomes
  <2>3. futures' = [futures EXCEPT ![f] = new]
    BY <1>8 DEF RunSucceeds
  <2>4. Settles(f, "done", seen)
    <3> HIDE DEF new, seen
    <3> QED
      BY <2>2, <2>3 DEF Settles
  <2>5. /\ applied' \in Seq(Nat)
        /\ ToSet(applied') = ToSet(applied) \cup (IF f \in Updates THEN {f} ELSE {})
    <3>1. applied' = IF f \in Updates THEN Append(applied, f) ELSE applied
      BY <1>8 DEF RunSucceeds
    <3>2. applied \in Seq(Nat)
      BY <1>0 DEF Types
    <3> QED
      BY ONLY <1>1, <3>1, <3>2, AppendProperties, AppendedElements
  <2>6. "done" \in Outcomes \ {"pending"} /\ (f \in Samples => seen = ToSet(applied))
    BY DEF Outcomes
  <2> HIDE DEF seen
  <2> QED
    BY ONLY OrderInv, <1>1, <1>2, <1>3, <2>1, <2>4, <2>5, <2>6, SettleStep
<1> QED
  BY <1>6, <1>7, <1>8 DEF Run

-----------------------------------------------------------------------------
(***************************************************************************)
(* New futures.                                                            *)
(***************************************************************************)
Grows(n) ==
    /\ futures' \in Seq(Future) /\ Len(futures') = Len(futures) + n
    /\ \A f \in Indices : futures'[f] = futures[f]

EarlierOnly(f) ==
    futures'[f].deps \cup futures'[f].after \cup futures'[f].before \subseteq 1 .. f - 1

NewRequest(f) ==
    /\ futures'[f].kind = "prefetch" /\ futures'[f].state = "pending"
    /\ futures'[f].sees = {}
    /\ \A u \in futures'[f].after :
         u \in Updates /\ (Settled(u) \/ \E d \in futures'[f].deps \cap Updates : u <= d)

NewInline(f) ==
    /\ futures'[f].kind = "inline" /\ futures'[f].state = "done"
    /\ futures'[f].sees = ToSet(applied)
    /\ \A u \in futures'[f].after : u \in Updates /\ Settled(u)

NewUpdate(f) ==
    /\ futures'[f].kind = "update" /\ futures'[f].state = "pending"
    /\ futures'[f].sees = {}
    /\ futures'[f].before \subseteq futures'[f].deps

\* What new futures leave as it was, whatever kind they are.
LEMMA GrowStep ==
    ASSUME OrderInv, NEW n \in Nat, Grows(n), UNCHANGED applied,
           \A f \in Len(futures) + 1 .. Len(futures) + n :
               EarlierOnly(f) /\ (NewRequest(f) \/ NewInline(f) \/ NewUpdate(f))
    PROVE  /\ Indices' = 1 .. Len(futures) + n
           /\ \A f \in Indices' :
                /\ futures'[f].deps \cup futures'[f].after \cup futures'[f].before
                       \subseteq 1 .. f - 1
                /\ futures'[f].kind = "inline" => futures'[f].state = "done"
           /\ Updates \subseteq Updates' /\ Prefetched \subseteq Prefetched'
           /\ \A u \in Updates' : u \in Updates \/ (u > Len(futures) /\ NewUpdate(u))
           /\ \A u \in Indices : Settled(u)' <=> Settled(u)
           /\ UpdatesSettleInOrder' /\ RequestsWait' /\ UpdatesWait'
           /\ AppliedAreDone' /\ SeenAreDone' /\ UpdatesAreOrdered'
<1>0. Types
  BY DEF OrderInv
<1>1. /\ Len(futures) \in Nat /\ DOMAIN futures = Indices
      /\ Updates = {g \in Indices : futures[g].kind = "update"}
      /\ Samples = {g \in Indices : futures[g].kind # "update"}
      /\ Prefetched = {g \in Indices : futures[g].kind = "prefetch"}
      /\ \A g \in Indices : g # 0 /\ (Settled(g) <=> futures[g].state # "pending")
  BY <1>0, FutureSets
<1> DEFINE new == Len(futures) + 1 .. Len(futures) + n
<1>2. /\ Len(futures') = Len(futures) + n
      /\ Indices' = Indices \cup new /\ DOMAIN futures' = Indices'
      /\ Indices' = 1 .. Len(futures) + n
      /\ \A f \in Indices : f \notin new /\ futures'[f] = futures[f]
      /\ \A f \in Indices' : f # 0
  BY <1>1, LenProperties DEF Grows, Indices
<1>3. \A f \in new : EarlierOnly(f) /\ (NewRequest(f) \/ NewInline(f) \/ NewUpdate(f))
  OBVIOUS
<1>a. \A f \in new : f > Len(futures)
  BY <1>1
<1> HIDE DEF new
<1>4. \A f \in Indices' :
        /\ futures'[f].deps \cup futures'[f].after \cup futures'[f].before \subseteq 1 .. f - 1
        /\ futures'[f].kind = "inline" => futures'[f].state = "done"
  BY <1>0, <1>2, <1>3 DEF Types, EarlierOnly, NewRequest, NewInline, NewUpdate
<1>5. /\ Updates' = {f \in Indices' : futures'[f].kind = "update"}
      /\ Samples' = {f \in Indices' : futures'[f].kind # "update"}
      /\ Prefetched' = {f \in Indices' : futures'[f].kind = "prefetch"}
  BY <1>2 DEF Updates, Samples, Prefetched
<1>6. /\ Updates \subseteq Updates' /\ Prefetched \subseteq Prefetched'
      /\ \A u \in Updates' : u \in Updates \/ (u \in new /\ NewUpdate(u))
      /\ \A f \in Samples' : f \in Samples \/ (f \in new /\ (NewRequest(f) \/ NewInline(f)))
      /\ \A f \in Prefetched' : f \in Prefetched \/ (f \in new /\ NewRequest(f))
  BY <1>1, <1>2, <1>3, <1>5 DEF NewRequest, NewInline, NewUpdate
<1>7. \A f \in Indices' : Settled(f)' <=> futures'[f].state # "pending"
  BY <1>2 DEF Settled, StateOf
<1>8. \A f \in Indices : Settled(f)' <=> Settled(f)
  BY <1>1, <1>2, <1>7
<1>9. \A u \in new : NewUpdate(u) => ~Settled(u)'
  BY <1>2, <1>7 DEF NewUpdate
<1>10. UpdatesSettleInOrder'
  <2>1. SUFFICES ASSUME NEW u \in Updates', NEW v \in Updates', u < v, Settled(v)'
                 PROVE  Settled(u)'
    BY DEF UpdatesSettleInOrder
  <2>2. v \in Updates /\ v \in Indices
    BY <1>1, <1>6, <1>9, <2>1
  <2>3. u \in Updates /\ u \in Indices
    BY <1>1, <1>6, <1>a, <2>1, <2>2 DEF Indices
  <2> QED
    BY <1>8, <2>1, <2>2, <2>3 DEF OrderInv, UpdatesSettleInOrder
<1>11. RequestsWait'
  <2>1. SUFFICES ASSUME NEW f \in Prefetched', NEW u \in futures'[f].after
                 PROVE  u \in Updates' /\ (Settled(u)' \/ \E d \in futures'[f].deps \cap Updates' : u <= d)
    BY DEF RequestsWait
  <2>2. u \in Updates /\ (Settled(u) \/ \E d \in futures'[f].deps \cap Updates : u <= d)
    <3>1. CASE f \in Prefetched
      BY <1>1, <1>2, <2>1, <3>1 DEF OrderInv, RequestsWait
    <3>2. CASE f \notin Prefetched
      BY <1>6, <2>1, <3>2 DEF NewRequest
    <3> QED
      BY <3>1, <3>2
  <2> QED
    BY <1>1, <1>6, <1>8, <2>2
<1>12. UpdatesWait'
  <2>1. ASSUME NEW u \in Updates' PROVE futures'[u].before \subseteq futures'[u].deps
    BY <1>1, <1>2, <1>6 DEF OrderInv, UpdatesWait, NewUpdate
  <2> QED
    BY <2>1 DEF UpdatesWait
<1>13. DoneUpdates' = DoneUpdates
  BY <1>1, <1>2, <1>5, <1>6 DEF DoneUpdates, NewUpdate
<1>14. AppliedAreDone'
  BY <1>13 DEF OrderInv, AppliedAreDone
<1>15. SeenAreDone'
  <2>1. ASSUME NEW f \in Indices' PROVE futures'[f].sees \subseteq DoneUpdates
    BY <1>2, <1>3 DEF OrderInv, SeenAreDone, AppliedAreDone, NewRequest, NewInline, NewUpdate
  <2> QED
    BY <1>13, <2>1 DEF SeenAreDone
<1>16. SamplesSeeEarlierUpdates'
  <2>1. SUFFICES ASSUME NEW f \in Samples', futures'[f].state = "done",
                        NEW u \in futures'[f].after
                 PROVE  Settled(u)' /\ (futures'[u].state = "done" => u \in futures'[f].sees)
    BY DEF SamplesSeeEarlierUpdates
  <2>2. CASE f \in Samples
    <3>1. f \in Indices /\ futures'[f] = futures[f]
      BY <1>1, <1>2, <2>2
    <3>2. u \in Indices
      BY <1>0, <1>1, <2>1, <3>1 DEF Types, Indices
    <3> QED
      BY <1>2, <1>8, <2>1, <2>2, <3>1, <3>2
         DEF OrderInv, UpdatesAreOrdered, SamplesSeeEarlierUpdates
  <2>3. CASE f \notin Samples
    <3>1. u \in Updates /\ Settled(u) /\ futures'[f].sees = ToSet(applied)
      BY <1>6, <2>1, <2>3 DEF NewRequest, NewInline
    <3> QED
      BY <1>1, <1>2, <1>8, <3>1 DEF OrderInv, AppliedAreDone, DoneUpdates
  <2> QED
    BY <2>2, <2>3
<1>17. UpdatesFollowPrefetched'
  <2>1. SUFFICES ASSUME NEW u \in Updates', futures'[u].state = "done",
                        NEW f \in futures'[u].before
                 PROVE  Settled(f)' /\ u \notin futures'[f].sees
    BY DEF UpdatesFollowPrefetched
  <2>2. u \in Updates /\ u \in Indices /\ futures'[u] = futures[u]
    BY <1>1, <1>2, <1>6, <2>1 DEF NewUpdate
  <2>3. f \in Indices
    BY <1>0, <1>1, <2>1, <2>2 DEF Types, Indices
  <2> QED
    BY <1>2, <1>8, <2>1, <2>2, <2>3 DEF OrderInv, UpdatesAreOrdered, UpdatesFollowPrefetched
<1> QED
  BY <1>2, <1>4, <1>6, <1>8, <1>10, <1>11, <1>12, <1>14, <1>15, <1>16, <1>17, <1>a
     DEF UpdatesAreOrdered

-----------------------------------------------------------------------------
(***************************************************************************)
(* The calls.                                                              *)
(***************************************************************************)
\* A call moves on, takes from the queues, and no future changes.
LEMMA CallStep ==
    ASSUME OrderInv, NEW c \in Callers, NEW label \in Labels, Goto(c, label),
           UNCHANGED <<cap, futures, applied>>,
           requests' \in Seq(Nat), ToSet(requests') \subseteq ToSet(requests), Len(requests') <= Len(requests),
           updates' \in Seq(Nat), ToSet(updates') \subseteq ToSet(updates),
           \A u \in ToSet(updates) : Settled(u) \/ u \in ToSet(updates'),
           taken' \in Seq(Nat),
           NEW d, dependency' = d, Covers(d, Len(futures)),
           NEW t \in Nat, target' = [target EXCEPT ![c] = t],
           NEW a \in Nat, asked' = [asked EXCEPT ![c] = a], a <= Len(futures),
           label = "await" => Covers(t, a)
    PROVE  OrderInv'
<1>0. Types
  BY DEF OrderInv
<1>1. /\ Updates' = Updates /\ Prefetched' = Prefetched /\ Indices' = Indices
      /\ \A u : Settled(u)' <=> Settled(u)
  BY DEF Updates, Prefetched, Samples, Indices, Settled, StateOf
<1>2. /\ UpdatesSettleInOrder' /\ RequestsWait' /\ UpdatesWait'
      /\ AppliedAreDone' /\ SeenAreDone' /\ UpdatesAreOrdered'
  BY DEF OrderInv, UpdatesSettleInOrder, RequestsWait, UpdatesWait, AppliedAreDone, SeenAreDone,
         UpdatesAreOrdered, SamplesSeeEarlierUpdates, UpdatesFollowPrefetched, DoneUpdates,
         Updates, Prefetched, Samples, Indices, Settled, StateOf
<1>3. /\ stage' \in [Callers -> Labels] /\ target' \in [Callers -> Nat] /\ asked' \in [Callers -> Nat]
      /\ stage'[c] = label /\ target'[c] = t /\ asked'[c] = a
      /\ \A e \in Callers \ {c} : stage'[e] = stage[e] /\ target'[e] = target[e] /\ asked'[e] = asked[e]
  BY <1>0 DEF Types, Goto
<1>4. Types'
  <2>1. \A e \in Callers : asked'[e] <= Len(futures)
    BY <1>0, <1>3 DEF Types
  <2> QED
    BY <1>0, <1>1, <1>3, <2>1 DEF Types
<1>5. QueuesKnown'
  <2>1. Len(requests) \in Nat /\ Len(requests') \in Nat /\ cap \in Nat /\ Len(requests) <= cap
    BY <1>0, LenProperties DEF Types, OrderInv, QueuesKnown
  <2>2. Len(requests') <= cap
    BY <2>1
  <2>3. d \in Updates \cup {0}
    BY DEF Covers
  <2> QED
    BY <1>1, <2>2, <2>3 DEF OrderInv, QueuesKnown
<1>6. PendingAreQueued'
  BY <1>1 DEF OrderInv, PendingAreQueued
<1>7. Covers(dependency, Len(futures))'
  BY <1>1 DEF Covers
<1>8. CallersWait'
  <2>1. ASSUME NEW e \in Callers, stage'[e] = "await"
        PROVE  /\ target'[e] \in Updates \cup {0}
               /\ \A u \in Updates : u <= asked'[e] => Settled(u) \/ u <= target'[e]
    <3>1. CASE e = c
      BY <1>3, <2>1, <3>1 DEF Covers
    <3>2. CASE e # c
      BY <1>3, <2>1, <3>2 DEF OrderInv, CallersWait, Covers
    <3> QED
      BY <3>1, <3>2
  <2> QED
    BY <1>1, <2>1 DEF CallersWait, Covers
<1> QED
  BY <1>2, <1>4, <1>5, <1>6, <1>7, <1>8 DEF OrderInv

\* A call moves on, and leaves the queues as they are.
LEMMA QuietStep ==
    ASSUME OrderInv, NEW c \in Callers, NEW label \in Labels \ {"await"}, Goto(c, label),
           UNCHANGED <<cap, futures, applied, requests, updates, dependency, taken, asked>>,
           target' = target \/ (target' = [target EXCEPT ![c] = 0])
    PROVE  OrderInv'
<1>0. Types
  BY DEF OrderInv
<1>1. /\ requests' \in Seq(Nat) /\ updates' \in Seq(Nat) /\ taken' \in Seq(Nat)
      /\ Len(requests') \in Nat
  BY <1>0, LenProperties DEF Types
<1>2. PICK t \in {0, target[c]} : t \in Nat /\ target' = [target EXCEPT ![c] = t]
  BY <1>0 DEF Types
<1>3. /\ asked' = [asked EXCEPT ![c] = asked[c]] /\ asked[c] \in Nat
      /\ asked[c] <= Len(futures)
  BY <1>0 DEF Types
<1>4. Covers(dependency, Len(futures)) /\ dependency' = dependency
  BY DEF OrderInv
<1>5. /\ ToSet(requests') \subseteq ToSet(requests) /\ Len(requests') <= Len(requests)
      /\ ToSet(updates') \subseteq ToSet(updates)
      /\ \A u \in ToSet(updates) : Settled(u) \/ u \in ToSet(updates')
  BY <1>1
<1>6. label # "await" /\ label \in Labels
  OBVIOUS
<1>7. UNCHANGED <<cap, futures, applied>>
  OBVIOUS
<1> QED
  BY ONLY OrderInv, c \in Callers, Goto(c, label), <1>1, <1>2, <1>3, <1>4, <1>5, <1>6, <1>7, CallStep

\* sample without prefetching: the dependency is what the caller goes on to await.
LEMMA UnqueuedKeepsOrder ==
    ASSUME OrderInv, NEW c \in Callers, SampleUnqueued(c)
    PROVE  OrderInv'
<1>0. Types
  BY DEF OrderInv
<1>1. /\ Len(futures) \in Nat /\ Len(requests) \in Nat /\ dependency \in Nat
      /\ requests \in Seq(Nat) /\ updates \in Seq(Nat) /\ taken \in Seq(Nat)
  <2>1. dependency \in Updates \cup {0}
    BY DEF OrderInv, QueuesKnown
  <2> QED
    BY <1>0, <2>1, FutureSets, LenProperties DEF Types, Indices
<1>2. /\ "await" \in Labels /\ Goto(c, "await")
      /\ UNCHANGED <<cap, futures, applied, requests, updates, dependency, taken>>
      /\ target' = [target EXCEPT ![c] = dependency]
      /\ asked' = [asked EXCEPT ![c] = Len(futures)]
  BY DEF SampleUnqueued, AwaitedBySample, Labels, queues, service, outcome
<1>3. Covers(dependency, Len(futures))
  BY DEF OrderInv
<1>4. /\ ToSet(requests') \subseteq ToSet(requests) /\ Len(requests') <= Len(requests) /\ requests' \in Seq(Nat)
      /\ ToSet(updates') \subseteq ToSet(updates) /\ updates' \in Seq(Nat) /\ taken' \in Seq(Nat)
      /\ \A u \in ToSet(updates) : Settled(u) \/ u \in ToSet(updates')
  BY <1>1, <1>2
<1>5. Len(futures) <= Len(futures)
  BY <1>1
<1> QED
  BY ONLY OrderInv, c \in Callers, <1>1, <1>2, <1>3, <1>4, <1>5, CallStep

\* sample takes the head of the queue, if there is one.
LEMMA LockedKeepsOrder ==
    ASSUME OrderInv, NEW c \in Callers, SampleLocked(c)
    PROVE  OrderInv'
<1>0. Types
  BY DEF OrderInv
<1>1. /\ Len(futures) \in Nat /\ Len(requests) \in Nat
      /\ requests \in Seq(Nat) /\ updates \in Seq(Nat) /\ taken \in Seq(Nat)
      /\ asked[c] \in Nat /\ asked[c] <= Len(futures) /\ asked = [asked EXCEPT ![c] = asked[c]]
  BY <1>0, FutureSets, LenProperties DEF Types, Indices
<1>2. UNCHANGED <<cap, futures, applied, updates, dependency, asked>>
  BY DEF SampleLocked, service, outcome
<1>3. CASE requests = <<>>
  <2>1. /\ Goto(c, "inline") /\ UNCHANGED <<requests, target, taken>>
        /\ "inline" \in Labels \ {"await"}
    BY <1>3 DEF SampleLocked, Labels
  <2> QED
    BY ONLY OrderInv, c \in Callers, <1>2, <2>1, QuietStep
<1>4. CASE requests # <<>>
  <2>1. /\ target' = [target EXCEPT ![c] = Head(requests)]
        /\ requests' = Tail(requests) /\ taken' = Append(taken, Head(requests))
        /\ Goto(c, "popped") /\ "popped" \in Labels /\ "popped" # "await"
    BY <1>4 DEF SampleLocked, Labels
  <2>2. /\ Head(requests) \in Nat /\ Tail(requests) \in Seq(Nat) /\ Len(Tail(requests)) = Len(requests) - 1
        /\ \A i \in 1 .. Len(Tail(requests)) : Tail(requests)[i] = requests[i + 1]
    BY <1>1, <1>4, HeadTailProperties
  <2>3. ToSet(Tail(requests)) \subseteq ToSet(requests)
    <3>1. SUFFICES ASSUME NEW x \in ToSet(Tail(requests)) PROVE x \in ToSet(requests)
      OBVIOUS
    <3>2. PICK i \in 1 .. Len(Tail(requests)) : x = Tail(requests)[i]
      BY <2>2, Elements
    <3>3. i + 1 \in 1 .. Len(requests) /\ x = requests[i + 1]
      BY <1>1, <2>2, <3>2
    <3> QED
      BY <1>1, <3>3, Elements
  <2>4. taken' \in Seq(Nat)
    BY <1>1, <2>1, <2>2, AppendProperties
  <2>5. /\ requests' \in Seq(Nat) /\ ToSet(requests') \subseteq ToSet(requests) /\ Len(requests') <= Len(requests)
        /\ updates' \in Seq(Nat) /\ ToSet(updates') \subseteq ToSet(updates)
        /\ \A u \in ToSet(updates) : Settled(u) \/ u \in ToSet(updates')
    BY <1>1, <1>2, <2>1, <2>2, <2>3
  <2>6. Covers(dependency, Len(futures)) /\ dependency' = dependency
    BY <1>2 DEF OrderInv
  <2>7. asked' = [asked EXCEPT ![c] = asked[c]]
    BY <1>1, <1>2
  <2>8. PICK t \in Nat : t = Head(requests)
    BY <2>2
  <2>9. target' = [target EXCEPT ![c] = t] /\ UNCHANGED <<cap, futures, applied>>
    BY <1>2, <2>1, <2>8
  <2> QED
    BY ONLY OrderInv, c \in Callers, <1>1, <2>1, <2>4, <2>5, <2>6, <2>7, <2>9, CallStep
<1> QED
  BY <1>3, <1>4

\* What a call that submits an update collects has settled.
LEMMA UncollectedStay ==
    ASSUME Types
    PROVE  /\ Uncollected \in Seq(Nat) /\ ToSet(Uncollected) \subseteq ToSet(updates)
           /\ \A u \in ToSet(updates) : Settled(u) \/ u \in ToSet(Uncollected)
<1>1. updates \in Seq(Nat) /\ Len(updates) \in Nat /\ DOMAIN updates = 1 .. Len(updates)
  BY LenProperties DEF Types
<1>2. IsFiniteSet(Collected) /\ Cardinality(Collected) \in Nat
  <2>1. IsFiniteSet(1 .. Len(updates)) /\ Collected \subseteq 1 .. Len(updates)
    BY <1>1, FS_Interval DEF Collected
  <2> QED
    BY <2>1, FS_Subset, FS_CardinalityType
<1>k. PICK k \in Nat : k = Cardinality(Collected)
  BY <1>2
<1>3. ASSUME NEW i \in 1 .. Len(updates), ~Settled(updates[i]) PROVE k < i
  <2>1. Collected \subseteq 1 .. (i - 1)
    <3>1. SUFFICES ASSUME NEW j \in Collected, j >= i PROVE FALSE
      BY <1>1 DEF Collected
    <3>2. i \in 1 .. j
      BY <1>1, <3>1 DEF Collected
    <3> QED
      BY <1>3, <3>2 DEF Collected
  <2>2. IsFiniteSet(1 .. (i - 1)) /\ Cardinality(1 .. (i - 1)) = i - 1
    BY FS_Interval
  <2>3. k <= i - 1
    BY <1>k, <2>1, <2>2, FS_Subset
  <2> QED
    BY <2>3
<1>n. PICK n \in Nat : n = Len(updates)
  BY <1>1
<1>4. Uncollected = SubSeq(updates, k + 1, Len(updates))
  BY <1>k DEF Uncollected
<1>5. \A i \in k + 1 .. Len(updates) : updates[i] \in Nat
  BY <1>1, <1>2, Elements
<1>6. /\ Uncollected \in Seq(Nat)
      /\ \A i : i \in 1 .. Len(Uncollected) <=> i \in 1 .. n - k
      /\ \A i \in 1 .. n - k : Uncollected[i] = updates[k + i]
  <2>1. /\ Uncollected \in Seq(Nat)
        /\ Len(Uncollected) = IF k + 1 <= n THEN n - (k + 1) + 1 ELSE 0
        /\ \A i \in 1 .. n - (k + 1) + 1 : Uncollected[i] = updates[k + 1 + i - 1]
    BY <1>1, <1>2, <1>4, <1>5, <1>n, SubSeqProperties
  <2>2. n - (k + 1) + 1 = n - k /\ \A i \in Int : k + 1 + i - 1 = k + i
    OBVIOUS
  <2>3. PICK m : m = Len(Uncollected)
    OBVIOUS
  <2>4. m = IF k + 1 <= n THEN n - (k + 1) + 1 ELSE 0
    BY <2>1, <2>3
  <2>5. \A i : i \in 1 .. m <=> i \in 1 .. n - k
    BY ONLY k \in Nat, n \in Nat, <2>4
  <2>6. ASSUME NEW i \in 1 .. n - k PROVE Uncollected[i] = updates[k + i]
    <3>1. i \in 1 .. n - (k + 1) + 1 /\ k + 1 + i - 1 = k + i
      BY ONLY k \in Nat, n \in Nat, <2>6
    <3>2. Uncollected[i] = updates[k + 1 + i - 1]
      BY <2>1, <3>1
    <3> QED
      BY <3>1, <3>2
  <2> QED
    BY <2>1, <2>3, <2>5, <2>6
<1>7. ToSet(Uncollected) \subseteq ToSet(updates)
  <2>1. SUFFICES ASSUME NEW x \in ToSet(Uncollected) PROVE x \in ToSet(updates)
    OBVIOUS
  <2>2. PICK i \in 1 .. n - k : x = Uncollected[i]
    BY <1>6, Elements
  <2>3. k + i \in 1 .. n /\ x = updates[k + i]
    <3>1. k + i \in 1 .. n
      BY ONLY k \in Nat, n \in Nat, i \in 1 .. n - k
    <3> QED
      BY <1>6, <2>2, <3>1
  <2> QED
    BY <1>1, <1>n, <2>3, Elements
<1>8. ASSUME NEW u \in ToSet(updates), ~Settled(u) PROVE u \in ToSet(Uncollected)
  <2>1. PICK i \in 1 .. n : u = updates[i]
    BY <1>1, <1>n, Elements
  <2>2. k < i
    BY <1>3, <1>8, <1>n, <2>1
  <2>3. i - k \in 1 .. n - k /\ k + (i - k) = i
    BY ONLY k \in Nat, n \in Nat, i \in 1 .. n, <2>2
  <2>4. Uncollected[i - k] = updates[k + (i - k)]
    BY <1>6, <2>3
  <2>5. i - k \in 1 .. Len(Uncollected) /\ u = Uncollected[i - k]
    BY <1>6, <2>1, <2>3, <2>4
  <2> QED
    BY <1>6, <2>5, Elements
<1> QED
  BY <1>6, <1>7, <1>8

LEMMA SubmitRaisesKeepsOrder ==
    ASSUME OrderInv, NEW c \in Callers, SubmitRaises(c)
    PROVE  OrderInv'
<1>0. Types
  BY DEF OrderInv
<1>1. /\ Len(futures) \in Nat /\ Len(requests) \in Nat /\ requests \in Seq(Nat) /\ taken \in Seq(Nat)
      /\ asked[c] \in Nat /\ asked[c] <= Len(futures) /\ asked = [asked EXCEPT ![c] = asked[c]]
      /\ target[c] \in Nat /\ target = [target EXCEPT ![c] = target[c]]
      /\ stage = [stage EXCEPT ![c] = stage[c]] /\ stage[c] = "idle" /\ "idle" \in Labels
  BY <1>0, FutureSets, LenProperties DEF Types, Indices, SubmitRaises, Labels
<1>2. /\ UNCHANGED <<cap, futures, applied, requests, dependency, taken, asked, target, stage>>
      /\ updates' = Uncollected
  BY DEF SubmitRaises, service, outcome, ghosts
<1>3. /\ Goto(c, "idle") /\ "idle" # "await" /\ target' = [target EXCEPT ![c] = target[c]]
      /\ asked' = [asked EXCEPT ![c] = asked[c]]
      /\ dependency' = dependency /\ Covers(dependency, Len(futures))
  BY <1>1, <1>2 DEF Goto, OrderInv
<1>4. /\ requests' \in Seq(Nat) /\ ToSet(requests') \subseteq ToSet(requests) /\ Len(requests') <= Len(requests)
      /\ taken' \in Seq(Nat) /\ UNCHANGED <<cap, futures, applied>>
  BY <1>1, <1>2
<1>5. /\ updates' \in Seq(Nat) /\ ToSet(updates') \subseteq ToSet(updates)
      /\ \A u \in ToSet(updates) : Settled(u) \/ u \in ToSet(updates')
  BY <1>0, <1>2, UncollectedStay
<1> QED
  BY ONLY OrderInv, c \in Callers, <1>1, <1>3, <1>4, <1>5, CallStep

\* synchronize forgets the updates once they have settled.
LEMMA SynchronizedKeepsOrder ==
    ASSUME OrderInv, NEW c \in Callers, Synchronized(c)
    PROVE  OrderInv'
<1>0. Types
  BY DEF OrderInv
<1>1. /\ Len(futures) \in Nat /\ Len(requests) \in Nat /\ requests \in Seq(Nat) /\ taken \in Seq(Nat)
      /\ asked[c] \in Nat /\ asked[c] <= Len(futures) /\ asked = [asked EXCEPT ![c] = asked[c]]
      /\ target[c] \in Nat /\ target = [target EXCEPT ![c] = target[c]]
  BY <1>0, FutureSets, LenProperties DEF Types, Indices
<1>2. /\ UNCHANGED <<cap, futures, applied, requests, taken, asked, target>>
      /\ updates' = <<>> /\ dependency' = 0
      /\ \A u \in ToSet(updates) : Settled(u)
  BY DEF Synchronized, service, outcome, ghosts, QueueAfterSync
<1>3. PICK label \in {"idle", "closing"} : Goto(c, label)
  BY DEF Synchronized
<1>4. /\ label \in Labels /\ label # "await"
      /\ target' = [target EXCEPT ![c] = target[c]] /\ asked' = [asked EXCEPT ![c] = asked[c]]
  BY <1>1, <1>2 DEF Labels
<1>5. Covers(0, Len(futures))
  BY <1>2 DEF OrderInv, PendingAreQueued, Covers
<1>6. /\ requests' \in Seq(Nat) /\ ToSet(requests') \subseteq ToSet(requests) /\ Len(requests') <= Len(requests)
      /\ taken' \in Seq(Nat) /\ UNCHANGED <<cap, futures, applied>>
  BY <1>1, <1>2
<1>7. /\ updates' \in Seq(Nat) /\ ToSet(updates') = {}
  <2>1. DOMAIN <<>> = {}
    BY LenProperties, EmptySeq
  <2> QED
    BY <1>2, <2>1, EmptySeq DEF ToSet
<1>8. /\ ToSet(updates') \subseteq ToSet(updates)
      /\ \A u \in ToSet(updates) : Settled(u) \/ u \in ToSet(updates')
  BY <1>2, <1>7
<1> QED
  BY ONLY OrderInv, c \in Callers, <1>1, <1>2, <1>3, <1>4, <1>5, <1>6, <1>7, <1>8, CallStep

\* A call that adds futures keeps the order, if the queues hold what they promise.
LEMMA GrowKeepsOrder ==
    ASSUME OrderInv, NEW n \in Nat, Grows(n), UNCHANGED <<cap, applied, taken, asked>>,
           \A f \in Len(futures) + 1 .. Len(futures) + n :
               EarlierOnly(f) /\ (NewRequest(f) \/ NewInline(f) \/ NewUpdate(f)),
           stage' \in [Callers -> Labels], target' \in [Callers -> Nat],
           \A e \in Callers : stage'[e] = "await" => stage[e] = "await" /\ target'[e] = target[e],
           requests' \in Seq(Nat), updates' \in Seq(Nat), QueuesKnown',
           \A u \in ToSet(updates) : Settled(u) \/ u \in ToSet(updates'),
           \A u \in Updates' \ Updates : u \in ToSet(updates') /\ u <= dependency',
           dependency' = dependency \/ dependency' > Len(futures)
    PROVE  OrderInv'
<1>0. Types
  BY DEF OrderInv
<1>1. /\ Indices' = 1 .. Len(futures) + n
      /\ \A f \in Indices' :
           /\ futures'[f].deps \cup futures'[f].after \cup futures'[f].before \subseteq 1 .. f - 1
           /\ futures'[f].kind = "inline" => futures'[f].state = "done"
      /\ Updates \subseteq Updates' /\ Prefetched \subseteq Prefetched'
      /\ \A u \in Updates' : u \in Updates \/ (u > Len(futures) /\ NewUpdate(u))
      /\ \A u \in Indices : Settled(u)' <=> Settled(u)
  BY GrowStep
<1>2. /\ UpdatesSettleInOrder' /\ RequestsWait' /\ UpdatesWait'
      /\ AppliedAreDone' /\ SeenAreDone' /\ UpdatesAreOrdered'
  BY GrowStep
<1>3. /\ Len(futures) \in Nat /\ Updates \subseteq Indices /\ Updates \subseteq Nat
      /\ \A u \in Updates : u <= Len(futures)
      /\ \A u \in Updates : Settled(u)' <=> Settled(u)
  BY <1>0, <1>1, FutureSets DEF Indices
<1>4. Types'
  <2>1. futures' \in Seq(Future) /\ Len(futures') = Len(futures) + n
    BY DEF Grows
  <2>2. taken' \in Seq(Nat) /\ applied' \in Seq(Nat) /\ asked' \in [Callers -> Nat] /\ cap' \in Nat
    BY <1>0 DEF Types
  <2>3. \A c \in Callers : asked'[c] <= Len(futures')
    <3>1. \A c \in Callers : asked[c] <= Len(futures) /\ asked[c] \in Nat
      BY <1>0 DEF Types
    <3> QED
      BY <1>3, <2>1, <3>1
  <2> QED
    BY <1>1, <2>1, <2>2, <2>3 DEF Types
<1>n. \A u \in Updates' : u \in Nat
  <2>1. DOMAIN futures' = 1 .. Len(futures') /\ Len(futures') \in Nat
    BY LenProperties DEF Grows
  <2> QED
    BY <2>1 DEF Updates
<1>5. PendingAreQueued'
  <2>1. ASSUME NEW u \in Updates' PROVE Settled(u)' \/ u \in ToSet(updates')
    BY <1>3 DEF OrderInv, PendingAreQueued
  <2> QED
    BY <2>1 DEF PendingAreQueued
<1>6. Covers(dependency, Len(futures))'
  <2>1. ASSUME NEW u \in Updates' PROVE Settled(u)' \/ u <= dependency'
    <3>1. CASE u \in Updates
      <4>1. Settled(u) \/ u <= dependency
        BY <1>3, <3>1 DEF OrderInv, Covers
      <4>2. u <= Len(futures) /\ u \in Nat
        BY <1>3, <3>1
      <4>3. dependency' \in Updates' \cup {0}
        BY DEF QueuesKnown
      <4>4. dependency' > Len(futures) => u <= dependency'
        <5>1. dependency' \in Nat
          BY <1>n, <4>3
        <5> QED
          BY <1>3, <4>2, <5>1
      <4> QED
        BY <1>3, <3>1, <4>1, <4>4
    <3> QED
      BY <3>1
  <2>2. dependency' \in Updates' \cup {0}
    BY DEF QueuesKnown
  <2> QED
    BY <2>1, <2>2 DEF Covers
<1>7. CallersWait'
  <2>1. ASSUME NEW c \in Callers, stage'[c] = "await"
        PROVE  /\ target'[c] \in Updates' \cup {0}
               /\ \A u \in Updates' : u <= asked'[c] => Settled(u)' \/ u <= target'[c]
    <3>1. Covers(target[c], asked[c]) /\ target'[c] = target[c] /\ asked'[c] = asked[c]
      BY <2>1 DEF OrderInv, CallersWait
    <3>2. asked[c] \in Nat /\ asked[c] <= Len(futures)
      BY <1>0 DEF Types
    <3>3. \A u \in Updates' : u <= asked[c] => u \in Updates
      <4>1. SUFFICES ASSUME NEW u \in Updates', u <= asked[c], u > Len(futures) PROVE FALSE
        BY <1>1
      <4>2. u \in Nat
        BY <1>n
      <4> QED
        BY <1>3, <3>2, <4>1, <4>2
    <3> QED
      BY <1>1, <1>3, <3>1, <3>3 DEF Covers
  <2> QED
    BY <2>1 DEF CallersWait, Covers
<1> QED
  BY <1>2, <1>4, <1>5, <1>6, <1>7 DEF OrderInv

\* One future is added at the end.
LEMMA AppendGrows ==
    ASSUME Types, NEW new \in Future, futures' = Append(futures, new)
    PROVE  /\ Grows(1) /\ futures'[Len(futures) + 1] = new /\ Len(futures) \in Nat
           /\ \A f \in Len(futures) + 1 .. Len(futures) + 1 : f = Len(futures) + 1
           /\ DOMAIN futures' = 1 .. Len(futures) + 1
<1>1. futures \in Seq(Future) /\ Len(futures) \in Nat
  BY LenProperties DEF Types
<1>2. /\ Append(futures, new) \in Seq(Future) /\ Len(Append(futures, new)) = Len(futures) + 1
      /\ \A i \in 1 .. Len(futures) : Append(futures, new)[i] = futures[i]
      /\ Append(futures, new)[Len(futures) + 1] = new
  BY <1>1, AppendProperties
<1>3. DOMAIN Append(futures, new) = 1 .. Len(futures) + 1
  BY <1>2, LenProperties
<1> QED
  BY <1>1, <1>2, <1>3 DEF Grows, Indices

\* What the queues and the applied updates refer to.
LEMMA KnownFutures ==
    ASSUME OrderInv
    PROVE  /\ Len(futures) \in Nat
           /\ Updates \subseteq 1 .. Len(futures)
           /\ ToSet(requests) \subseteq 1 .. Len(futures) /\ ToSet(updates) \subseteq Updates
           /\ dependency \in (1 .. Len(futures)) \cup {0}
           /\ ToSet(applied) \subseteq Nat
<1>1. Types
  BY DEF OrderInv
<1> QED
  BY <1>1, FutureSets DEF OrderInv, QueuesKnown, AppliedAreDone, DoneUpdates, Indices

LEMMA SubmitKeepsOrder ==
    ASSUME OrderInv, NEW c \in Callers, Submit(c)
    PROVE  OrderInv'
<1>0. Types
  BY DEF OrderInv
<1>1. PICK N \in Nat : N = Len(futures)
  BY KnownFutures
<1>2. /\ Updates \subseteq 1 .. N /\ ToSet(requests) \subseteq 1 .. N /\ dependency \in (1 .. N) \cup {0}
      /\ ToSet(updates) \subseteq Updates
  BY <1>1, KnownFutures
<1>3. /\ UNCHANGED <<cap, applied, taken, asked, stage, target, requests>>
      /\ futures' = Append(futures, Update(AwaitedByUpdate))
      /\ updates' = Append(Uncollected, N + 1) /\ dependency' = N + 1
  BY <1>1 DEF Submit, service, outcome, ghosts
<1>4. PICK new : new = Update(AwaitedByUpdate)
  OBVIOUS
<1>5. /\ new \in Future /\ new.kind = "update" /\ new.state = "pending" /\ new.sees = {}
      /\ new.before \subseteq new.deps
      /\ new.deps \cup new.after \cup new.before \subseteq 1 .. N
  <2>1. PreviousUpdate \in (1 .. N) \cup {0}
    BY <1>2 DEF PreviousUpdate
  <2>2. AwaitedByUpdate \ {0} \subseteq 1 .. N /\ ToSet(requests) \subseteq AwaitedByUpdate \ {0}
    BY <1>2, <2>1 DEF AwaitedByUpdate
  <2>3. new = [kind |-> "update", state |-> "pending", deps |-> AwaitedByUpdate \ {0},
               after |-> Updates, before |-> ToSet(requests), sees |-> {}]
    BY <1>4 DEF Update
  <2>4. 1 .. N \subseteq Nat
    OBVIOUS
  <2>5. /\ AwaitedByUpdate \ {0} \in SUBSET Nat /\ Updates \in SUBSET Nat
        /\ ToSet(requests) \in SUBSET Nat /\ {} \in SUBSET Nat
    BY <1>2, <2>2, <2>4
  <2>6. new \in Future
    BY ONLY <2>3, <2>5 DEF Future, Outcomes
  <2> QED
    BY <1>2, <2>2, <2>3, <2>6
<1>6. /\ Grows(1) /\ futures'[N + 1] = new /\ \A f \in N + 1 .. N + 1 : f = N + 1
      /\ DOMAIN futures' = 1 .. N + 1
  BY ONLY <1>0, <1>1, <1>3, <1>4, <1>5, AppendGrows
<1>7. EarlierOnly(N + 1) /\ NewUpdate(N + 1)
  <2>1. (N + 1) - 1 = N
    OBVIOUS
  <2> QED
    BY <1>5, <1>6, <2>1 DEF EarlierOnly, NewUpdate
<1>8. \A f \in Len(futures) + 1 .. Len(futures) + 1 :
          EarlierOnly(f) /\ (NewRequest(f) \/ NewInline(f) \/ NewUpdate(f))
  BY <1>1, <1>6, <1>7
<1>9. /\ Updates \subseteq Updates' /\ Prefetched \subseteq Prefetched'
      /\ \A u \in Updates' : u \in Updates \/ u > N
  BY ONLY OrderInv, <1>1, <1>3, <1>6, <1>8, GrowStep
<1>10. N + 1 \in Updates' /\ \A u \in Updates' \ Updates : u = N + 1
  <2>1. N + 1 \in DOMAIN futures' /\ futures'[N + 1].kind = "update"
    BY <1>5, <1>6
  <2>2. \A u \in Updates' : u \in 1 .. N + 1
    BY <1>6 DEF Updates
  <2> QED
    BY <1>9, <2>1, <2>2 DEF Updates
<1>11. /\ updates' \in Seq(Nat) /\ ToSet(updates') = ToSet(Uncollected) \cup {N + 1}
       /\ ToSet(Uncollected) \subseteq ToSet(updates)
       /\ \A u \in ToSet(updates) : Settled(u) \/ u \in ToSet(Uncollected)
  <2>1. Uncollected \in Seq(Nat) /\ N + 1 \in Nat
    BY <1>0, UncollectedStay
  <2> QED
    BY <1>0, <1>3, <2>1, UncollectedStay, AppendedElements, AppendProperties
<1>12. QueuesKnown'
  <2>1. ToSet(requests') \subseteq Prefetched' /\ Len(requests') <= cap'
    BY <1>3, <1>9 DEF OrderInv, QueuesKnown
  <2>2. ToSet(updates') \subseteq Updates'
    BY <1>2, <1>9, <1>10, <1>11
  <2> QED
    BY <1>3, <1>10, <2>1, <2>2 DEF QueuesKnown
<1>13. \A u \in Updates' \ Updates : u \in ToSet(updates') /\ u <= dependency'
  BY <1>3, <1>10, <1>11
<1>14. dependency' > Len(futures)
  BY <1>1, <1>3
<1>15. /\ stage' \in [Callers -> Labels] /\ target' \in [Callers -> Nat] /\ requests' \in Seq(Nat)
       /\ \A e \in Callers : stage'[e] = "await" => stage[e] = "await" /\ target'[e] = target[e]
  BY <1>0, <1>3 DEF Types
<1>16. \A u \in ToSet(updates) : Settled(u) \/ u \in ToSet(updates')
  BY <1>11
<1>17. UNCHANGED <<cap, applied, taken, asked>>
  BY <1>3
<1> QED
  BY ONLY OrderInv, <1>6, <1>8, <1>11, <1>12, <1>13, <1>14, <1>15, <1>16, <1>17, GrowKeepsOrder

\* A sample that a caller draws itself, after all updates accepted before it asked.
LEMMA InlineKeepsOrder ==
    ASSUME OrderInv, NEW c \in Callers, NEW label \in Labels \ {"await"}, Goto(c, label),
           NEW t \in Nat, target' = [target EXCEPT ![c] = t],
           NEW after \in SUBSET Updates, \A u \in after : Settled(u),
           futures' = Append(futures, Inline(after)),
           UNCHANGED <<cap, requests, updates, dependency, applied, taken, asked>>
    PROVE  OrderInv'
<1>0. Types
  BY DEF OrderInv
<1>1. PICK N \in Nat : N = Len(futures)
  BY KnownFutures
<1>2. after \subseteq 1 .. N /\ ToSet(applied) \subseteq Nat
  BY <1>1, KnownFutures
<1>3. PICK new : new = Inline(after)
  OBVIOUS
<1>4. /\ new \in Future /\ new.kind = "inline" /\ new.state = "done"
      /\ new.sees = ToSet(applied) /\ new.after = after
      /\ new.deps \cup new.after \cup new.before \subseteq 1 .. N
  <2>1. new = [kind |-> "inline", state |-> "done", deps |-> {},
               after |-> after, before |-> {}, sees |-> ToSet(applied)]
    BY <1>3 DEF Inline
  <2>2. after \in SUBSET Nat /\ ToSet(applied) \in SUBSET Nat /\ {} \in SUBSET Nat
    BY <1>2
  <2>3. new \in Future
    BY ONLY <2>1, <2>2 DEF Future, Outcomes
  <2> QED
    BY <1>2, <2>1, <2>3
<1>5. /\ Grows(1) /\ futures'[N + 1] = new /\ \A f \in N + 1 .. N + 1 : f = N + 1
      /\ DOMAIN futures' = 1 .. N + 1
  BY ONLY <1>0, <1>1, <1>3, <1>4, futures' = Append(futures, Inline(after)), AppendGrows
<1>6. EarlierOnly(N + 1) /\ NewInline(N + 1)
  <2>1. (N + 1) - 1 = N
    OBVIOUS
  <2> QED
    BY <1>4, <1>5, <2>1 DEF EarlierOnly, NewInline
<1>7. \A f \in Len(futures) + 1 .. Len(futures) + 1 :
          EarlierOnly(f) /\ (NewRequest(f) \/ NewInline(f) \/ NewUpdate(f))
  BY <1>1, <1>5, <1>6
<1>8. /\ Updates \subseteq Updates' /\ Prefetched \subseteq Prefetched'
      /\ \A u \in Updates' : u \in Updates \/ (u > N /\ NewUpdate(u))
  BY ONLY OrderInv, <1>1, UNCHANGED applied, <1>5, <1>7, GrowStep
<1>9. Updates' \subseteq Updates
  <2>1. \A u \in Updates' : u \in 1 .. N + 1
    BY <1>5 DEF Updates
  <2>2. \A u \in Updates' : u # N + 1
    BY <1>4, <1>5, <1>8 DEF Updates
  <2> QED
    BY <1>8, <2>1, <2>2
<1>10. QueuesKnown'
  BY <1>8 DEF OrderInv, QueuesKnown
<1>11. /\ stage' \in [Callers -> Labels] /\ target' \in [Callers -> Nat]
       /\ requests' \in Seq(Nat) /\ updates' \in Seq(Nat)
       /\ \A e \in Callers : stage'[e] = "await" => stage[e] = "await" /\ target'[e] = target[e]
  BY <1>0 DEF Types, Goto
<1>12. /\ \A u \in ToSet(updates) : Settled(u) \/ u \in ToSet(updates')
       /\ \A u \in Updates' \ Updates : u \in ToSet(updates') /\ u <= dependency'
       /\ dependency' = dependency /\ UNCHANGED <<cap, applied, taken, asked>>
  BY <1>9
<1> QED
  BY ONLY OrderInv, <1>5, <1>7, <1>10, <1>11, <1>12, GrowKeepsOrder

\* A sequence continued by n elements.
LEMMA Continued ==
    ASSUME NEW S, NEW s \in Seq(S), NEW n \in Nat, NEW t \in [1 .. n -> S]
    PROVE  /\ s \o t \in Seq(S) /\ Len(s \o t) = Len(s) + n /\ Len(s) \in Nat
           /\ \A i \in 1 .. Len(s) : (s \o t)[i] = s[i]
           /\ \A i \in 1 .. n : (s \o t)[Len(s) + i] = t[i]
<1>1. t \in Seq(S) /\ Len(t) = n /\ Len(s) \in Nat
  BY FunctionIsSeq, LenProperties
<1>2. /\ s \o t \in Seq(S) /\ Len(s \o t) = Len(s) + n
      /\ \A i \in 1 .. Len(s) + n : (s \o t)[i] = IF i <= Len(s) THEN s[i] ELSE t[i - Len(s)]
  BY <1>1, ConcatProperties
<1>3. ASSUME NEW i \in 1 .. Len(s) PROVE (s \o t)[i] = s[i]
  <2>1. i \in 1 .. Len(s) + n /\ i <= Len(s)
    BY <1>1
  <2> QED
    BY <1>2, <2>1
<1>4. ASSUME NEW i \in 1 .. n PROVE (s \o t)[Len(s) + i] = t[i]
  <2>1. Len(s) + i \in 1 .. Len(s) + n /\ ~(Len(s) + i <= Len(s)) /\ (Len(s) + i) - Len(s) = i
    BY <1>1
  <2> QED
    BY <1>2, <2>1
<1> QED
  BY <1>1, <1>2, <1>3, <1>4

\* The requests for further samples wait for the last update, and so for all.
LEMMA RefillKeepsOrder ==
    ASSUME OrderInv, NEW c \in Callers, Refill(c)
    PROVE  OrderInv'
<1>0. Types
  BY DEF OrderInv
<1>1. PICK N \in Nat : N = Len(futures)
  BY KnownFutures
<1>2. /\ Updates \subseteq 1 .. N /\ ToSet(requests) \subseteq 1 .. N /\ dependency \in (1 .. N) \cup {0}
  BY <1>1, KnownFutures
<1>3. /\ UNCHANGED <<cap, applied, taken, asked, updates, dependency>>
      /\ Goto(c, "idle") /\ target' = [target EXCEPT ![c] = 0] /\ "idle" \in Labels \ {"await"}
  BY DEF Refill, Leave, service, outcome, ghosts, Labels
<1>4. CASE ~open
  <2>1. UNCHANGED <<futures, requests>>
    BY <1>4 DEF Refill
  <2> QED
    BY ONLY OrderInv, c \in Callers, <1>3, <2>1, QuietStep
<1>5. CASE open
  <2>1. PICK n \in Nat : n = Room /\ n = cap - Len(requests)
    <3>1. cap \in Nat /\ Len(requests) \in Nat /\ Len(requests) <= cap
      BY <1>0, LenProperties DEF Types, OrderInv, QueuesKnown
    <3> QED
      BY <3>1 DEF Room
  <2>2. PICK new : new = PrefetchRequest(Barrier)
    OBVIOUS
  <2>3. /\ new \in Future /\ new.kind = "prefetch" /\ new.state = "pending" /\ new.sees = {}
        /\ new.deps = {dependency} \ {0} /\ new.after = Updates
        /\ new.deps \cup new.after \cup new.before \subseteq 1 .. N
    <3>1. new = [kind |-> "prefetch", state |-> "pending", deps |-> {dependency} \ {0},
                 after |-> Updates, before |-> {}, sees |-> {}]
      BY <2>2 DEF PrefetchRequest, Barrier
    <3>2. {dependency} \ {0} \subseteq 1 .. N
      BY <1>2
    <3>3. {dependency} \ {0} \in SUBSET Nat /\ Updates \in SUBSET Nat /\ {} \in SUBSET Nat
      BY <1>2, <3>2
    <3>4. new \in Future
      BY ONLY <3>1, <3>3 DEF Future, Outcomes
    <3> QED
      BY <1>2, <3>1, <3>2, <3>4
  <2>4. PICK more \in [1 .. n -> Future] :
            futures' = futures \o more /\ \A i \in 1 .. n : more[i] = new
    <3> DEFINE more == [i \in 1 .. n |-> new]
    <3>1. more \in [1 .. n -> Future] /\ \A i \in 1 .. n : more[i] = new
      BY <2>3
    <3>2. futures' = futures \o more
      BY <1>5, <2>1, <2>2 DEF Refill
    <3> HIDE DEF more
    <3> QED
      BY <3>1, <3>2
  <2>5. /\ futures' \in Seq(Future) /\ Len(futures') = N + n
        /\ \A i \in 1 .. N : futures'[i] = futures[i]
        /\ \A i \in 1 .. n : futures'[N + i] = new
    <3>1. futures \in Seq(Future)
      BY <1>0 DEF Types
    <3> QED
      BY ONLY <1>1, n \in Nat, <2>4, <3>1, Continued
  <2>6. Grows(n) /\ DOMAIN futures' = 1 .. N + n
    BY <1>1, <2>5, LenProperties DEF Grows, Indices
  <2>7. \A f \in N + 1 .. N + n : futures'[f] = new
    <3>1. SUFFICES ASSUME NEW f \in N + 1 .. N + n PROVE futures'[f] = new
      OBVIOUS
    <3>2. f - N \in 1 .. n /\ N + (f - N) = f
      BY ONLY N \in Nat, n \in Nat, <3>1
    <3>3. futures'[N + (f - N)] = new
      BY <2>5, <3>2
    <3> QED
      BY <3>2, <3>3
  <2>8. \A u \in Updates : Settled(u) \/ \E d \in new.deps \cap Updates : u <= d
    <3>1. SUFFICES ASSUME NEW u \in Updates, ~Settled(u)
                   PROVE  \E d \in new.deps \cap Updates : u <= d
      OBVIOUS
    <3>2. u <= N /\ u \in Nat /\ u > 0
      BY <1>2
    <3>3. u <= dependency /\ dependency \in Updates \cup {0}
      BY <1>1, <3>1, <3>2 DEF OrderInv, Covers
    <3>4. dependency # 0
      BY <3>2, <3>3
    <3> QED
      BY <2>3, <3>3, <3>4
  <2>9. \A f \in N + 1 .. N + n : EarlierOnly(f) /\ NewRequest(f)
    <3>1. SUFFICES ASSUME NEW f \in N + 1 .. N + n PROVE EarlierOnly(f) /\ NewRequest(f)
      OBVIOUS
    <3>2. futures'[f] = new
      BY <2>7
    <3>3. 1 .. N \subseteq 1 .. f - 1
      OBVIOUS
    <3> QED
      BY <2>3, <2>8, <3>2, <3>3 DEF EarlierOnly, NewRequest
  <2>10. \A f \in Len(futures) + 1 .. Len(futures) + n :
            EarlierOnly(f) /\ (NewRequest(f) \/ NewInline(f) \/ NewUpdate(f))
    BY <1>1, <2>9
  <2>11. /\ Updates \subseteq Updates' /\ Prefetched \subseteq Prefetched'
         /\ \A u \in Updates' : u \in Updates \/ (u > N /\ NewUpdate(u))
    BY ONLY OrderInv, <1>1, <1>3, <2>6, <2>10, n \in Nat, GrowStep
  <2>12. Updates' \subseteq Updates
    <3>1. SUFFICES ASSUME NEW u \in Updates', u > N PROVE FALSE
      BY <2>11
    <3>2. u \in 1 .. N + n /\ futures'[u].kind = "update"
      BY <2>6 DEF Updates
    <3>3. u \in N + 1 .. N + n
      BY ONLY N \in Nat, n \in Nat, <3>1, <3>2
    <3> QED
      BY <2>3, <2>7, <3>2, <3>3
  <2>13. PICK added \in [1 .. n -> Nat] :
            requests' = requests \o added /\ \A i \in 1 .. n : added[i] = N + i
    <3> DEFINE added == [i \in 1 .. n |-> N + i]
    <3>1. added \in [1 .. n -> Nat] /\ \A i \in 1 .. n : added[i] = N + i
      OBVIOUS
    <3>2. requests' = requests \o added
      BY <1>1, <1>5, <2>1 DEF Refill
    <3> HIDE DEF added
    <3> QED
      BY <3>1, <3>2
  <2>14. PICK q \in Nat : q = Len(requests)
    BY <1>0, LenProperties DEF Types
  <2>15. /\ requests' \in Seq(Nat) /\ Len(requests') = q + n
         /\ \A i \in 1 .. q : requests'[i] = requests[i]
         /\ \A i \in 1 .. n : requests'[q + i] = N + i
    <3>1. requests \in Seq(Nat)
      BY <1>0 DEF Types
    <3>2. /\ requests' \in Seq(Nat) /\ Len(requests') = q + n
          /\ \A i \in 1 .. q : requests'[i] = requests[i]
          /\ \A i \in 1 .. n : requests'[q + i] = added[i]
      BY ONLY <2>13, <2>14, <3>1, n \in Nat, Continued
    <3> QED
      BY ONLY <2>13, <3>2
  <2>16. ToSet(requests') \subseteq Prefetched'
    <3>1. SUFFICES ASSUME NEW x \in ToSet(requests') PROVE x \in Prefetched'
      OBVIOUS
    <3>2. PICK i \in 1 .. q + n : x = requests'[i]
      BY <2>15, Elements
    <3>3. CASE i <= q
      <4>1. i \in 1 .. q
        BY <3>3
      <4>2. x \in ToSet(requests)
        BY <1>0, <2>14, <2>15, <3>2, <4>1, Elements DEF Types
      <4> QED
        BY <2>11, <4>2 DEF OrderInv, QueuesKnown
    <3>4. CASE i > q
      <4>1. i - q \in 1 .. n /\ q + (i - q) = i
        BY ONLY q \in Nat, n \in Nat, i \in 1 .. q + n, <3>4
      <4>2. requests'[q + (i - q)] = N + (i - q)
        BY <2>15, <4>1
      <4>3. x = N + (i - q)
        BY <3>2, <4>1, <4>2
      <4>4. x \in N + 1 .. N + n /\ x \in 1 .. N + n
        BY ONLY N \in Nat, n \in Nat, q \in Nat, i \in 1 .. q + n, <4>1, <4>3
      <4>5. futures'[x].kind = "prefetch" /\ x \in DOMAIN futures'
        BY <2>3, <2>6, <2>7, <4>4
      <4> QED
        BY <4>5 DEF Prefetched, Samples, Updates
    <3> QED
      BY <2>14, <3>3, <3>4
  <2>17. QueuesKnown'
    <3>1. Len(requests') <= cap'
      <4>1. cap \in Nat
        BY <1>0 DEF Types
      <4> QED
        BY <1>3, <2>1, <2>14, <2>15, <4>1
    <3> QED
      BY <1>3, <2>11, <2>16, <3>1 DEF OrderInv, QueuesKnown
  <2>18. /\ stage' \in [Callers -> Labels] /\ target' \in [Callers -> Nat]
         /\ requests' \in Seq(Nat) /\ updates' \in Seq(Nat)
         /\ \A e \in Callers : stage'[e] = "await" => stage[e] = "await" /\ target'[e] = target[e]
    BY <1>0, <1>3, <2>15 DEF Types, Goto
  <2>19. /\ \A u \in ToSet(updates) : Settled(u) \/ u \in ToSet(updates')
         /\ \A u \in Updates' \ Updates : u \in ToSet(updates') /\ u <= dependency'
         /\ dependency' = dependency /\ UNCHANGED <<cap, applied, taken, asked>>
    BY <1>3, <2>12
  <2> QED
    BY ONLY OrderInv, n \in Nat, <2>6, <2>10, <2>17, <2>18, <2>19, GrowKeepsOrder
<1> QED
  BY <1>4, <1>5

-----------------------------------------------------------------------------
LEMMA InitOrder == UInit => OrderInv
<1>1. SUFFICES ASSUME UInit PROVE OrderInv
  OBVIOUS
<1>2. /\ futures = <<>> /\ requests = <<>> /\ updates = <<>> /\ taken = <<>> /\ applied = <<>>
      /\ dependency = 0 /\ cap \in Nat
      /\ stage = [c \in Callers |-> "idle"] /\ target = [c \in Callers |-> 0]
      /\ asked = [c \in Callers |-> 0]
  BY <1>1, OrderedUpdatesAssumption DEF UInit
<1>3. /\ Len(<<>>) = 0 /\ <<>> \in Seq(Nat) /\ <<>> \in Seq(Future)
      /\ DOMAIN <<>> = {} /\ ToSet(<<>>) = {}
  BY EmptySeq, LenProperties DEF ToSet
<1>4. Indices = {} /\ Updates = {} /\ Samples = {} /\ Prefetched = {} /\ DoneUpdates = {}
  BY <1>2, <1>3 DEF Indices, Updates, Samples, Prefetched, DoneUpdates
<1>5. Types
  <2>1. \A c \in Callers : asked[c] = 0 /\ asked[c] <= Len(futures)
    BY <1>2, <1>3
  <2> QED
    BY <1>2, <1>3, <1>4, <2>1 DEF Types, Labels
<1>6. QueuesKnown
  BY <1>2, <1>3 DEF QueuesKnown
<1>7. Covers(dependency, Len(futures)) /\ CallersWait
  BY <1>2, <1>4 DEF Covers, CallersWait
<1> QED
  BY <1>2, <1>3, <1>4, <1>5, <1>6, <1>7
     DEF OrderInv, UpdatesSettleInOrder, PendingAreQueued, RequestsWait, UpdatesWait,
         AppliedAreDone, SeenAreDone, UpdatesAreOrdered, SamplesSeeEarlierUpdates,
         UpdatesFollowPrefetched

LEMMA CallsKeepOrder ==
    ASSUME OrderInv, NEW c \in Callers, Calls(c)
    PROVE  OrderInv'
<1> USE DEF queues, service, outcome, ghosts
<1>1. ASSUME NEW label \in {"sample", "synchronize", "stopping"}, Goto(c, label),
             UNCHANGED <<cap, futures, applied, requests, updates, dependency, taken, asked, target>>
      PROVE  OrderInv'
  <2>1. label \in Labels \ {"await"}
    BY DEF Labels
  <2> QED
    BY <1>1, <2>1, QuietStep
<1>2. CASE SampleCall(c)
  BY <1>1, <1>2 DEF SampleCall
<1>3. CASE SubmitRaises(c)
  BY <1>3, SubmitRaisesKeepsOrder
<1>4. CASE Submit(c)
  BY <1>4, SubmitKeepsOrder
<1>5. CASE SynchronizeCall(c)
  BY <1>1, <1>5 DEF SynchronizeCall
<1>6. CASE ShutdownCall(c)
  BY <1>1, <1>6 DEF ShutdownCall
<1> QED
  BY <1>2, <1>3, <1>4, <1>5, <1>6 DEF Calls

LEMMA ProceedingKeepsOrder ==
    ASSUME OrderInv, NEW c \in Callers, Proceeds(c)
    PROVE  OrderInv'
<1>0. /\ Types /\ \A u \in Updates : u \in Nat /\ u <= Len(futures)
      /\ Len(futures) \in Nat /\ dependency \in Nat
  BY KnownFutures DEF OrderInv
<1>1. ASSUME NEW label \in {"idle", "refill", "draining", "closing", "joining"}, Goto(c, label),
             UNCHANGED <<cap, futures, applied, requests, updates, dependency, taken, asked>>,
             target' = target \/ (target' = [target EXCEPT ![c] = 0])
      PROVE  OrderInv'
  <2>1. label \in Labels \ {"await"}
    BY DEF Labels
  <2> QED
    BY <1>1, <2>1, QuietStep
<1>2. CASE SampleUnqueued(c)
  BY <1>2, UnqueuedKeepsOrder
<1>3. CASE AwaitThenSample(c)
  <2>1. /\ stage[c] = "await" /\ Settled(target[c]) /\ Goto(c, "idle")
        /\ target' = [target EXCEPT ![c] = 0]
        /\ UNCHANGED <<cap, requests, updates, dependency, applied, taken, asked>>
    BY <1>3 DEF AwaitThenSample, Leave, queues, service, outcome, ghosts
  <2>2. futures' = Append(futures, Inline({u \in Updates : u <= asked[c]}))
    BY <1>3 DEF AwaitThenSample
  <2>3. PICK after \in SUBSET Updates : after = {u \in Updates : u <= asked[c]}
    OBVIOUS
  <2>4. \A u \in after : Settled(u)
    <3>1. Covers(target[c], asked[c]) /\ target[c] \in Nat /\ asked[c] \in Nat
      BY <1>0, <2>1 DEF OrderInv, CallersWait, Types
    <3> QED
      BY <2>1, <2>3, <3>1, AllBeforeSettled
  <2>5. "idle" \in Labels \ {"await"} /\ 0 \in Nat /\ futures' = Append(futures, Inline(after))
    BY <2>2, <2>3 DEF Labels
  <2> QED
    BY ONLY OrderInv, c \in Callers, <2>1, <2>3, <2>4, <2>5, InlineKeepsOrder
<1>4. CASE AwaitRaises(c)
  BY <1>1, <1>4 DEF AwaitRaises, Leave, queues, service, outcome, ghosts
<1>5. CASE SampleLocked(c)
  BY <1>5, LockedKeepsOrder
<1>6. CASE PoppedSettles(c)
  BY <1>1, <1>6 DEF PoppedSettles, Leave, queues, service, outcome, ghosts
<1>7. CASE InlineSample(c)
  <2>1. /\ Settled(dependency) /\ Goto(c, "refill")
        /\ target' = [target EXCEPT ![c] = Len(futures) + 1]
        /\ UNCHANGED <<cap, requests, updates, dependency, applied, taken, asked>>
        /\ futures' = Append(futures, Inline(Updates))
    BY <1>7 DEF InlineSample, queues, service, outcome, ghosts
  <2>2. \A u \in Updates : Settled(u)
    BY <1>0, <2>1, AllBeforeSettled DEF OrderInv
  <2>3. PICK t \in Nat : t = Len(futures) + 1
    BY <1>0
  <2>4. "refill" \in Labels \ {"await"} /\ Updates \in SUBSET Updates
    BY DEF Labels
  <2> QED
    BY ONLY OrderInv, c \in Callers, <2>1, <2>2, <2>3, <2>4, InlineKeepsOrder
<1>8. CASE InlineRaises(c)
  BY <1>1, <1>8 DEF InlineRaises, Leave, queues, service, outcome, ghosts
<1>9. CASE Refill(c)
  BY <1>9, RefillKeepsOrder
<1>10. CASE ShutdownSynchronizes(c)
  BY <1>1, <1>10 DEF ShutdownSynchronizes, queues, service, outcome, ghosts
<1>11. CASE Synchronized(c)
  BY <1>11, SynchronizedKeepsOrder
<1>12. CASE Close(c)
  BY <1>1, <1>12 DEF Close, queues, service, outcome, ghosts
<1>13. CASE Joined(c)
  BY <1>1, <1>13 DEF Joined, queues, service, outcome, ghosts
<1> QED
  BY <1>2, <1>3, <1>4, <1>5, <1>6, <1>7, <1>8, <1>9, <1>10, <1>11, <1>12, <1>13 DEF Proceeds

LEMMA NextKeepsOrder == OrderInv /\ [UNext]_uvars => OrderInv'
<1>1. SUFFICES ASSUME OrderInv, [UNext]_uvars PROVE OrderInv'
  OBVIOUS
<1>2. CASE UNCHANGED uvars
  BY <1>1, <1>2
     DEF uvars, OrderInv, Types, QueuesKnown, UpdatesSettleInOrder, PendingAreQueued, Covers,
         RequestsWait, CallersWait, UpdatesWait, AppliedAreDone, SeenAreDone, DoneUpdates,
         UpdatesAreOrdered, SamplesSeeEarlierUpdates, UpdatesFollowPrefetched,
         Updates, Prefetched, Samples, Indices, Settled, StateOf
<1>3. CASE \E c \in Callers : Calls(c) \/ Proceeds(c)
  BY <1>1, <1>3, CallsKeepOrder, ProceedingKeepsOrder
<1>4. CASE \E f \in DOMAIN futures : Run(f)
  BY <1>1, <1>4, RunKeepsOrder
<1> QED
  BY <1>1, <1>2, <1>3, <1>4 DEF UNext

LEMMA OrderKept == USpec => []OrderInv
BY InitOrder, NextKeepsOrder, PTL DEF USpec

\* The types of the variables, and the bound of the prefetch queue, whatever
\* prefetch is and however many threads sample (sample, submit_update_if_present).
THEOREM UpdateTypes == USpec => []UTypeOK
<1>1. OrderInv => UTypeOK
  <2>1. SUFFICES ASSUME OrderInv PROVE UTypeOK
    OBVIOUS
  <2>2. Types /\ QueuesKnown
    BY <2>1 DEF OrderInv
  <2>3. DOMAIN futures = Indices /\ \A f \in Indices : futures[f] \in Future
    BY <2>2, FutureSets
  <2>4. \A f \in DOMAIN futures : futures[f].state \in Outcomes
                                 /\ futures[f].deps \subseteq 1 .. (f - 1)
    BY <2>2, <2>3 DEF Types, Future
  <2> QED
    BY <2>2, <2>4 DEF UTypeOK, QueuesKnown, Prefetched
<1> QED
  BY <1>1, OrderKept, PTL

\* "Samples prefetched after this call wait for the update", which itself
\* "runs after all samples that were already prefetched": no interleaving of
\* callers, pool threads and failures makes a sample read the storage without
\* an update accepted before it was asked for, or with one accepted later than
\* the queue it was in (submit_update_if_present, _run_after_futures).
THEOREM UpdatesTakeEffectInOrder == USpec => []UpdatesAreOrdered
<1>1. OrderInv => UpdatesAreOrdered
  BY DEF OrderInv
<1> QED
  BY <1>1, OrderKept, PTL

-----------------------------------------------------------------------------
(***************************************************************************)
(* The order in which prefetched batches are served.                       *)
(***************************************************************************)
Served == taken \o requests

\* Moving the head of the queue to the end of taken changes nothing in all.
LEMMA HeadMoves ==
    ASSUME NEW s \in Seq(Nat), NEW q \in Seq(Nat), q # <<>>
    PROVE  Append(s, Head(q)) \o Tail(q) = s \o q
<1>1. PICK m \in Nat : m = Len(s)
  BY LenProperties
<1>2. PICK n \in Nat : n + 1 = Len(q)
  <2>1. Len(q) \in Nat \ {0}
    BY EmptySeq
  <2>2. Len(q) - 1 \in Nat /\ (Len(q) - 1) + 1 = Len(q)
    BY <2>1
  <2> QED
    BY <2>2
<1>3. /\ Head(q) = q[1] /\ Head(q) \in Nat /\ Tail(q) \in Seq(Nat) /\ Len(Tail(q)) = n
      /\ \A i \in 1 .. n : Tail(q)[i] = q[i + 1]
  <2>1. Head(q) = q[1]
    OBVIOUS
  <2> QED
    BY <1>2, <2>1, HeadTailProperties
<1>4. /\ Append(s, Head(q)) \in Seq(Nat) /\ Len(Append(s, Head(q))) = m + 1
      /\ \A i \in 1 .. m : Append(s, Head(q))[i] = s[i]
      /\ Append(s, Head(q))[m + 1] = q[1]
  BY <1>1, <1>3, AppendProperties
<1> DEFINE l == Append(s, Head(q)) \o Tail(q)
           r == s \o q
<1>5. /\ l \in Seq(Nat) /\ Len(l) = (m + 1) + n
      /\ \A i \in 1 .. (m + 1) + n : l[i] = IF i <= m + 1 THEN Append(s, Head(q))[i]
                                                       ELSE Tail(q)[i - (m + 1)]
  BY <1>3, <1>4, ConcatProperties
<1>6. /\ r \in Seq(Nat) /\ Len(r) = m + (n + 1)
      /\ \A i \in 1 .. m + (n + 1) : r[i] = IF i <= m THEN s[i] ELSE q[i - m]
  <2>1. PICK k \in Nat : k = Len(q)
    BY <1>2
  <2>2. /\ r \in Seq(Nat) /\ Len(r) = m + k
        /\ \A i \in 1 .. m + k : r[i] = IF i <= m THEN s[i] ELSE q[i - m]
    BY <1>1, <2>1, ConcatProperties
  <2>3. k = n + 1
    BY <1>2, <2>1
  <2> HIDE DEF l, r
  <2> QED
    BY ONLY <2>2, <2>3
<1> HIDE DEF l, r
<1>7. ASSUME NEW i \in 1 .. m + (n + 1) PROVE l[i] = r[i]
  <2>1. i \in 1 .. (m + 1) + n
    OBVIOUS
  <2>2. CASE i <= m
    <3>1. i \in 1 .. m /\ i <= m + 1
      BY <2>2
    <3> QED
      BY <1>4, <1>5, <1>6, <2>1, <2>2, <3>1
  <2>3. CASE i = m + 1
    <3>1. i - m = 1 /\ ~(i <= m) /\ i <= m + 1
      BY <2>3
    <3>2. l[i] = Append(s, Head(q))[i] /\ r[i] = q[i - m]
      BY <1>5, <1>6, <2>1, <3>1
    <3> QED
      BY <1>4, <2>3, <3>1, <3>2
  <2>4. CASE i > m + 1
    <3>1. /\ i - (m + 1) \in 1 .. n /\ (i - (m + 1)) + 1 = i - m
          /\ ~(i <= m) /\ ~(i <= m + 1)
      BY ONLY m \in Nat, n \in Nat, i \in 1 .. m + (n + 1), <2>4
    <3>2. l[i] = Tail(q)[i - (m + 1)] /\ r[i] = q[i - m]
      BY <1>5, <1>6, <2>1, <3>1
    <3>3. Tail(q)[i - (m + 1)] = q[(i - (m + 1)) + 1]
      BY <1>3, <3>1
    <3> QED
      BY <3>1, <3>2, <3>3
  <2> QED
    BY <2>2, <2>3, <2>4
<1>8. Len(l) = Len(r) /\ DOMAIN l = DOMAIN r /\ DOMAIN r = 1 .. m + (n + 1)
  BY <1>5, <1>6, LenProperties
<1>9. l = [i \in DOMAIN l |-> l[i]] /\ r = [i \in DOMAIN r |-> r[i]]
  BY <1>5, <1>6, LenProperties
<1>10. l = r
  BY <1>7, <1>8, <1>9
<1> QED
  BY <1>10 DEF l, r

LEMMA ServedUnchanged ==
    ASSUME RequestsServedInOrder, Prefetched' = Prefetched, Served' = Served
    PROVE  RequestsServedInOrder'
BY DEF RequestsServedInOrder, Served

\* A future of another kind is no request.
LEMMA NoRequest ==
    ASSUME Types, NEW new, new.kind # "prefetch", futures' = Append(futures, new)
    PROVE  Prefetched' = Prefetched
<1>1. /\ Len(futures) \in Nat /\ DOMAIN futures = 1 .. Len(futures)
      /\ DOMAIN futures' = 1 .. Len(futures) + 1
      /\ \A i \in 1 .. Len(futures) : futures'[i] = futures[i]
      /\ futures'[Len(futures) + 1] = new
  BY LenProperties DEF Types
<1>2. DOMAIN futures' = DOMAIN futures \cup {Len(futures) + 1} /\ Len(futures) + 1 \notin DOMAIN futures
  BY <1>1
<1> QED
  BY <1>1, <1>2 DEF Prefetched, Samples, Updates

LEMMA RunKeepsServed ==
    ASSUME OrderInv, RequestsServedInOrder, NEW f \in DOMAIN futures, Run(f)
    PROVE  RequestsServedInOrder'
<1>0. \A g \in DOMAIN futures : futures[g] \in Future
  BY FutureSets DEF OrderInv
<1>1. Served' = Served
  BY DEF Run, RunSkipped, RunFails, RunSucceeds, queues, ghosts, Served
<1>2. DOMAIN futures' = DOMAIN futures
  BY DEF Run, RunSkipped, RunFails, RunSucceeds
<1>3. \A g \in DOMAIN futures : futures'[g].kind = futures[g].kind
  <2>1. CASE RunSkipped(f)
    BY <1>0, <2>1 DEF RunSkipped, Future
  <2>2. CASE RunFails(f)
    BY <1>0, <2>2 DEF RunFails, Future
  <2>3. CASE RunSucceeds(f)
    BY <1>0, <2>3 DEF RunSucceeds, Future
  <2> QED
    BY <2>1, <2>2, <2>3 DEF Run
<1>4. Prefetched' = Prefetched
  BY <1>2, <1>3 DEF Prefetched, Samples, Updates
<1> QED
  BY <1>1, <1>4, ServedUnchanged

\* The requests that refill the queue are the latest of all.
LEMMA RefillKeepsServed ==
    ASSUME OrderInv, RequestsServedInOrder, NEW c \in Callers, Refill(c)
    PROVE  RequestsServedInOrder'
<1>0. Types
  BY DEF OrderInv
<1>1. CASE ~open
  <2>1. UNCHANGED <<futures, requests, taken>>
    BY <1>1 DEF Refill, ghosts
  <2>2. Prefetched' = Prefetched /\ Served' = Served
    BY <2>1 DEF Prefetched, Samples, Updates, Served
  <2> QED
    BY <2>2, ServedUnchanged
<1>2. CASE open
  <2>1. PICK N \in Nat : N = Len(futures)
    BY KnownFutures
  <2>2. PICK n \in Nat : n = Room
    <3>1. cap \in Nat /\ Len(requests) \in Nat /\ Len(requests) <= cap
      BY <1>0, LenProperties DEF Types, OrderInv, QueuesKnown
    <3> QED
      BY <3>1 DEF Room
  <2>3. PICK more \in [1 .. n -> {PrefetchRequest(Barrier)}], added \in [1 .. n -> Nat] :
            /\ futures' = futures \o more /\ requests' = requests \o added
            /\ \A i \in 1 .. n : added[i] = N + i
    <3> DEFINE more == [i \in 1 .. n |-> PrefetchRequest(Barrier)]
               added == [i \in 1 .. n |-> N + i]
    <3>1. more \in [1 .. n -> {PrefetchRequest(Barrier)}] /\ added \in [1 .. n -> Nat]
          /\ \A i \in 1 .. n : added[i] = N + i
      OBVIOUS
    <3>2. futures' = futures \o more /\ requests' = requests \o added
      BY <1>2, <2>1, <2>2 DEF Refill
    <3> HIDE DEF more, added
    <3> QED
      BY <3>1, <3>2
  <2>4. PrefetchRequest(Barrier).kind = "prefetch"
    BY DEF PrefetchRequest
  <2>5. /\ DOMAIN futures = 1 .. N /\ DOMAIN futures' = 1 .. N + n
        /\ \A i \in 1 .. N : futures'[i] = futures[i]
        /\ \A i \in 1 .. n : futures'[N + i].kind = "prefetch"
    <3> DEFINE S == Future \cup {PrefetchRequest(Barrier)}
    <3>1. futures \in Seq(Future) /\ DOMAIN futures = 1 .. N
      BY <1>0, <2>1, LenProperties DEF Types
    <3>2. futures \in Seq(S)
      <4>1. futures \in [1 .. N -> S]
        BY <1>0, <2>1, <3>1, LenProperties
      <4> HIDE DEF S
      <4> QED
        BY <4>1, FunctionIsSeq
    <3>3. more \in [1 .. n -> S] /\ \A i \in 1 .. n : more[i] = PrefetchRequest(Barrier)
      OBVIOUS
    <3> HIDE DEF S
    <3>4. /\ futures' \in Seq(S) /\ Len(futures') = N + n
          /\ \A i \in 1 .. N : futures'[i] = futures[i]
          /\ \A i \in 1 .. n : futures'[N + i] = more[i]
      <4> DEFINE whole == futures \o more
      <4>1. /\ whole \in Seq(S) /\ Len(whole) = N + n
            /\ \A i \in 1 .. N : whole[i] = futures[i]
            /\ \A i \in 1 .. n : whole[N + i] = more[i]
        BY ONLY <2>1, <3>2, <3>3, n \in Nat, Continued
      <4>2. futures' = whole
        BY <2>3
      <4> HIDE DEF whole
      <4> QED
        BY <4>1, <4>2
    <3>5. DOMAIN futures' = 1 .. N + n
      BY <3>4, LenProperties
    <3> QED
      BY <2>4, <3>1, <3>3, <3>4, <3>5
  <2>6. \A f \in N + 1 .. N + n : futures'[f].kind = "prefetch"
    <3>1. SUFFICES ASSUME NEW f \in N + 1 .. N + n PROVE futures'[f].kind = "prefetch"
      OBVIOUS
    <3>2. f - N \in 1 .. n /\ N + (f - N) = f
      BY ONLY N \in Nat, n \in Nat, <3>1
    <3>3. futures'[N + (f - N)].kind = "prefetch"
      BY <2>5, <3>2
    <3> QED
      BY <3>2, <3>3
  <2>7. Prefetched' = Prefetched \cup (N + 1 .. N + n) /\ Prefetched \subseteq 1 .. N
    <3>1. \A f : f \in 1 .. N + n <=> f \in 1 .. N \/ f \in N + 1 .. N + n
      OBVIOUS
    <3>2. \A f \in 1 .. N : f \notin N + 1 .. N + n
      OBVIOUS
    <3> QED
      BY <2>5, <2>6, <3>1, <3>2 DEF Prefetched, Samples, Updates
  <2>8. PICK m \in Nat : m = Len(Served)
    BY <1>0, ConcatProperties, LenProperties DEF Types, Served
  <2>9. Served \in Seq(Nat) /\ DOMAIN Served = 1 .. m
    <3>1. Served \in Seq(Nat)
      BY <1>0, ConcatProperties DEF Types, Served
    <3> QED
      BY <2>8, <3>1, LenProperties
  <2>10. Served' = Served \o added
    <3>1. taken \in Seq(Nat) /\ requests \in Seq(Nat) /\ added \in Seq(Nat)
      BY <1>0, FunctionIsSeq DEF Types
    <3>2. Served' = taken \o (requests \o added)
      BY <2>3 DEF Refill, ghosts, Served
    <3>3. taken \o (requests \o added) = (taken \o requests) \o added
      <4>1. \A r, t, u \in Seq(Nat) : (r \o t) \o u = r \o (t \o u)
        OBVIOUS
      <4> QED
        BY ONLY <3>1, <4>1, Zenon
    <3>4. taken \o requests = Served
      BY DEF Served
    <3> QED
      BY <3>2, <3>3, <3>4
  <2>11. PICK s \in Seq(Nat) : s = Served'
    <3>1. Served' \in Seq(Nat)
      BY <2>9, <2>10, n \in Nat, Continued
    <3> QED
      BY <3>1
  <2>12. /\ DOMAIN s = 1 .. m + n
         /\ \A i \in 1 .. m : s[i] = Served[i]
         /\ \A i \in 1 .. n : s[m + i] = N + i
    <3>1. /\ Len(s) = m + n
          /\ \A i \in 1 .. m : s[i] = Served[i]
          /\ \A i \in 1 .. n : s[m + i] = added[i]
      BY ONLY <2>3, <2>8, <2>9, <2>10, <2>11, n \in Nat, Continued
    <3> QED
      BY <2>3, <2>11, <3>1, LenProperties
  <2>13. \A i \in m + 1 .. m + n : s[i] = N + (i - m)
    <3>1. SUFFICES ASSUME NEW i \in m + 1 .. m + n PROVE s[i] = N + (i - m)
      OBVIOUS
    <3>2. i - m \in 1 .. n /\ m + (i - m) = i
      BY ONLY m \in Nat, n \in Nat, <3>1
    <3>3. s[m + (i - m)] = N + (i - m)
      BY <2>12, <3>2
    <3> QED
      BY <3>2, <3>3
  <2>14. \A i \in 1 .. m : Served[i] \in 1 .. N
    BY <2>7, <2>9 DEF RequestsServedInOrder, Served, ToSet
  <2>15. ToSet(s) = Prefetched'
    <3>1. ASSUME NEW x \in ToSet(s) PROVE x \in Prefetched'
      <4>1. PICK i \in 1 .. m + n : x = s[i]
        BY <2>12 DEF ToSet
      <4>2. CASE i <= m
        <5>1. i \in 1 .. m
          BY <4>2
        <5>2. x \in ToSet(Served)
          BY <2>9, <2>12, <4>1, <5>1 DEF ToSet
        <5> QED
          BY <2>7, <5>2 DEF RequestsServedInOrder, Served
      <4>3. CASE i > m
        <5>1. i \in m + 1 .. m + n /\ N + (i - m) \in N + 1 .. N + n
          BY ONLY m \in Nat, n \in Nat, N \in Nat, i \in 1 .. m + n, <4>3
        <5> QED
          BY <2>7, <2>13, <4>1, <5>1
      <4> QED
        BY <4>2, <4>3
    <3>2. ASSUME NEW x \in Prefetched PROVE x \in ToSet(s)
      <4>1. PICK i \in 1 .. m : x = Served[i]
        BY <2>9 DEF RequestsServedInOrder, Served, ToSet
      <4>2. i \in 1 .. m + n
        OBVIOUS
      <4> QED
        BY <2>12, <4>1, <4>2 DEF ToSet
    <3>3. ASSUME NEW x \in N + 1 .. N + n PROVE x \in ToSet(s)
      <4>1. x - N \in 1 .. n /\ N + (x - N) = x /\ m + (x - N) \in 1 .. m + n
        BY ONLY N \in Nat, n \in Nat, m \in Nat, <3>3
      <4>2. s[m + (x - N)] = N + (x - N)
        BY <2>12, <4>1
      <4> QED
        BY <2>12, <4>1, <4>2 DEF ToSet
    <3> QED
      BY <2>7, <3>1, <3>2, <3>3
  <2>16. \A i, j \in DOMAIN s : i < j => s[i] < s[j]
    <3>1. SUFFICES ASSUME NEW i \in 1 .. m + n, NEW j \in 1 .. m + n, i < j PROVE s[i] < s[j]
      BY <2>12
    <3>2. CASE j <= m
      <4>1. i \in 1 .. m /\ j \in 1 .. m
        BY <3>1, <3>2
      <4>2. Served[i] < Served[j]
        BY <2>9, <3>1, <4>1 DEF RequestsServedInOrder, Served
      <4> QED
        BY <2>12, <4>1, <4>2
    <3>3. CASE j > m /\ i <= m
      <4>1. i \in 1 .. m /\ j \in m + 1 .. m + n
        BY <3>1, <3>3
      <4>2. s[i] \in 1 .. N /\ s[j] = N + (j - m)
        BY <2>12, <2>13, <2>14, <4>1
      <4>3. N < N + (j - m) /\ s[i] <= N
        BY <4>1, <4>2
      <4> QED
        BY <4>1, <4>2, <4>3
    <3>4. CASE i > m
      <4>1. i \in m + 1 .. m + n /\ j \in m + 1 .. m + n
        BY <3>1, <3>4
      <4>2. s[i] = N + (i - m) /\ s[j] = N + (j - m)
        BY <2>13, <4>1
      <4> QED
        BY <3>1, <4>1, <4>2
    <3> QED
      BY <3>2, <3>3, <3>4
  <2> QED
    BY <2>11, <2>15, <2>16 DEF RequestsServedInOrder, Served
<1> QED
  BY <1>1, <1>2

LEMMA NextKeepsServed ==
    OrderInv /\ RequestsServedInOrder /\ [UNext]_uvars => RequestsServedInOrder'
<1>1. SUFFICES ASSUME OrderInv, RequestsServedInOrder, [UNext]_uvars PROVE RequestsServedInOrder'
  OBVIOUS
<1>0. Types
  BY <1>1 DEF OrderInv
<1>2. ASSUME UNCHANGED <<futures, requests, taken>> PROVE RequestsServedInOrder'
  BY <1>1, <1>2, ServedUnchanged DEF Prefetched, Samples, Updates, Served
<1>3. ASSUME NEW new, new.kind # "prefetch", futures' = Append(futures, new),
             UNCHANGED <<requests, taken>>
      PROVE  RequestsServedInOrder'
  <2>1. Prefetched' = Prefetched
    BY <1>0, <1>3, NoRequest
  <2> QED
    BY <1>1, <1>3, <2>1, ServedUnchanged DEF Served
<1>4. CASE UNCHANGED uvars
  BY <1>2, <1>4 DEF uvars
<1>5. ASSUME NEW c \in Callers, Calls(c) PROVE RequestsServedInOrder'
  <2>1. CASE Submit(c)
    BY <1>3, <2>1 DEF Submit, Update, ghosts
  <2>2. CASE SampleCall(c) \/ SubmitRaises(c) \/ SynchronizeCall(c) \/ ShutdownCall(c)
    BY <1>2, <2>2 DEF SampleCall, SubmitRaises, SynchronizeCall, ShutdownCall, queues, ghosts
  <2> QED
    BY <1>5, <2>1, <2>2 DEF Calls
<1>6. ASSUME NEW c \in Callers, Proceeds(c) PROVE RequestsServedInOrder'
  <2>1. CASE AwaitThenSample(c) \/ InlineSample(c)
    BY <1>3, <2>1 DEF AwaitThenSample, InlineSample, Inline, queues, ghosts
  <2>2. CASE SampleLocked(c)
    <3>1. CASE requests = <<>>
      BY <1>2, <2>2, <3>1 DEF SampleLocked
    <3>2. CASE requests # <<>>
      <4>1. UNCHANGED futures /\ requests' = Tail(requests) /\ taken' = Append(taken, Head(requests))
        BY <2>2, <3>2 DEF SampleLocked
      <4>2. Served' = Served
        <5>1. taken' \o requests' = taken \o requests
          BY <1>0, <3>2, <4>1, HeadMoves DEF Types
        <5> QED
          BY <5>1 DEF Served
      <4>3. Prefetched' = Prefetched
        BY <4>1 DEF Prefetched, Samples, Updates
      <4> QED
        BY <1>1, <4>2, <4>3, ServedUnchanged
    <3> QED
      BY <3>1, <3>2
  <2>3. CASE Refill(c)
    BY <1>1, <2>3, RefillKeepsServed
  <2>4. CASE SampleUnqueued(c) \/ AwaitRaises(c) \/ PoppedSettles(c) \/ InlineRaises(c)
    BY <1>2, <2>4 DEF SampleUnqueued, AwaitRaises, PoppedSettles, InlineRaises, queues, ghosts
  <2>5. CASE ShutdownSynchronizes(c) \/ Synchronized(c) \/ Close(c) \/ Joined(c)
    BY <1>2, <2>5 DEF ShutdownSynchronizes, Synchronized, QueueAfterSync, Close, Joined, queues, ghosts
  <2> QED
    BY <1>6, <2>1, <2>2, <2>3, <2>4, <2>5 DEF Proceeds
<1>7. CASE \E f \in DOMAIN futures : Run(f)
  BY <1>1, <1>7, RunKeepsServed
<1> QED
  BY <1>1, <1>4, <1>5, <1>6, <1>7 DEF UNext

LEMMA InitServed == UInit => RequestsServedInOrder
<1>1. SUFFICES ASSUME UInit PROVE RequestsServedInOrder
  OBVIOUS
<1>2. futures = <<>> /\ taken \o requests = <<>>
  BY <1>1, EmptySeq, ConcatEmptySeq DEF UInit
<1>3. DOMAIN <<>> = {} /\ ToSet(<<>>) = {}
  BY EmptySeq, LenProperties DEF ToSet
<1>4. Prefetched = {}
  BY <1>2, <1>3 DEF Prefetched, Samples, Updates
<1> QED
  BY <1>2, <1>3, <1>4 DEF RequestsServedInOrder

\* "Prefetched results remain queued and are returned by subsequent calls to
\* sample in the same order": whatever calls, errors and shutdowns interleave,
\* no prefetched batch is dropped, overtaken or served twice (sample, synchronize).
THEOREM PrefetchedServedInOrder == USpec => []RequestsServedInOrder
BY InitServed, InitOrder, NextKeepsOrder, NextKeepsServed, PTL DEF USpec

-----------------------------------------------------------------------------
(***************************************************************************)
(* Something can always go on.                                             *)
(***************************************************************************)
\* The guards of the steps by which a call proceeds.
CanGoOn(c) ==
    \/ stage[c] \in {"sample", "stopping", "closing"} /\ holder = NoCaller
    \/ stage[c] \in {"await", "popped"} /\ Settled(target[c])
    \/ stage[c] = "inline" /\ Settled(dependency)
    \/ stage[c] = "refill"
    \/ /\ stage[c] \in {"synchronize", "draining"}
       /\ \A f \in ToSet(requests) \cup ToSet(updates) : Settled(f)
    \/ stage[c] = "joining" /\ \A f \in DOMAIN futures : Settled(f)

\* NobodyIsStuck, with those guards for ENABLED.
SomethingCanGoOn ==
    \/ /\ \A c \in Callers : stage[c] = "idle"
       /\ \A f \in DOMAIN futures : Settled(f)
    \/ \E c \in Callers : CanGoOn(c)
    \/ \E f \in DOMAIN futures : ~Settled(f) /\ Ready(f)

\* Where a caller holds the lock.
LockedLabels == {"popped", "inline", "refill", "synchronize", "draining"}

LockKnown == holder = NoCaller \/ (holder \in Callers /\ stage[holder] \in LockedLabels)

\* A request that a caller has popped has been asked for; without prefetching there
\* are none.
PoppedTaken == \A c \in Callers : stage[c] = "popped" => target[c] \in ToSet(taken)
NoneTaken == cap = 0 => taken = <<>>

\* The inductive invariant behind SomethingCanGoOn.
GoingInv == OrderInv /\ RequestsServedInOrder /\ LockKnown /\ PoppedTaken /\ NoneTaken

\* A set of numbers has a least one.
LEMMA SmallestNat ==
    ASSUME NEW T \in SUBSET Nat, T # {}
    PROVE  \E x \in T : \A y \in T : x <= y
<1> DEFINE R == {ss \in Nat \X Nat : ss[1] < ss[2]}
<1>1. IsWellFoundedOn(R, Nat)
  BY NatLessThanWellFounded DEF OpToRel
<1> HIDE DEF R
<1>2. PICK x \in T : \A y \in T : ~ (<<y, x>> \in R)
  BY <1>1, WFMin
<1>3. ASSUME NEW y \in T PROVE x <= y
  <2>1. x \in Nat /\ y \in Nat
    OBVIOUS
  <2>2. ~ (y < x)
    BY <1>2, <2>1 DEF R
  <2> QED
    BY <2>1, <2>2
<1> QED
  BY <1>3

LEMMA ConcatElements ==
    ASSUME NEW S, NEW s \in Seq(S), NEW t \in Seq(S)
    PROVE  ToSet(s \o t) = ToSet(s) \cup ToSet(t)
<1>1. /\ s \o t \in Seq(S) /\ Len(s \o t) = Len(s) + Len(t)
      /\ \A i \in 1 .. Len(s) + Len(t) :
             (s \o t)[i] = IF i <= Len(s) THEN s[i] ELSE t[i - Len(s)]
      /\ Len(s) \in Nat /\ Len(t) \in Nat
  BY ConcatProperties, LenProperties
<1>2. ASSUME NEW x \in ToSet(s) PROVE x \in ToSet(s \o t)
  <2>1. PICK i \in 1 .. Len(s) : x = s[i]
    BY Elements
  <2>2. i \in 1 .. Len(s) + Len(t) /\ i <= Len(s)
    BY <1>1
  <2>3. (s \o t)[i] = x
    BY <1>1, <2>1, <2>2
  <2> QED
    BY <1>1, <2>2, <2>3, Elements
<1>3. ASSUME NEW x \in ToSet(t) PROVE x \in ToSet(s \o t)
  <2>1. PICK i \in 1 .. Len(t) : x = t[i]
    BY Elements
  <2>2. /\ i + Len(s) \in 1 .. Len(s) + Len(t) /\ ~(i + Len(s) <= Len(s))
        /\ (i + Len(s)) - Len(s) = i
    BY <1>1
  <2>3. (s \o t)[i + Len(s)] = x
    BY <1>1, <2>1, <2>2
  <2> QED
    BY <1>1, <2>2, <2>3, Elements
<1>4. ASSUME NEW x \in ToSet(s \o t) PROVE x \in ToSet(s) \cup ToSet(t)
  <2>1. PICK i \in 1 .. Len(s) + Len(t) : x = (s \o t)[i]
    BY <1>1, Elements
  <2>2. CASE i <= Len(s)
    <3>1. i \in 1 .. Len(s) /\ x = s[i]
      BY <1>1, <2>1, <2>2
    <3> QED
      BY <3>1, Elements
  <2>3. CASE ~(i <= Len(s))
    <3>1. i - Len(s) \in 1 .. Len(t) /\ x = t[i - Len(s)]
      BY <1>1, <2>1, <2>3
    <3> QED
      BY <3>1, Elements
  <2> QED
    BY <2>2, <2>3
<1> QED
  BY <1>2, <1>3, <1>4

\* A caller moves on; it holds the lock, or gave it up, or did not have it.
LEMMA CallerMoves ==
    ASSUME GoingInv, NEW c \in Callers, NEW label \in Labels, Goto(c, label),
           UNCHANGED cap,
           \/ holder' = NoCaller
           \/ holder' = c /\ label \in LockedLabels
           \/ holder' = holder /\ holder # c,
           label = "popped" => target'[c] \in ToSet(taken'),
           \A e \in Callers \ {c} : target'[e] = target[e],
           \/ taken' = taken
           \/ cap # 0 /\ ToSet(taken) \subseteq ToSet(taken')
    PROVE  LockKnown' /\ PoppedTaken' /\ NoneTaken'
<1>1. stage'[c] = label /\ \A e \in Callers \ {c} : stage'[e] = stage[e]
  BY DEF Goto, GoingInv, OrderInv, Types
<1>2. LockKnown'
  BY <1>1 DEF GoingInv, LockKnown
<1>3. PoppedTaken'
  BY <1>1 DEF GoingInv, PoppedTaken
<1>4. NoneTaken'
  BY DEF GoingInv, NoneTaken
<1> QED
  BY <1>2, <1>3, <1>4

LEMMA GoingStays ==
    ASSUME GoingInv, UNCHANGED <<cap, holder, stage, target, taken>>
    PROVE  LockKnown' /\ PoppedTaken' /\ NoneTaken'
BY DEF GoingInv, LockKnown, PoppedTaken, NoneTaken

LEMMA NextKeepsGoing == GoingInv /\ [UNext]_uvars => GoingInv'
<1>1. SUFFICES ASSUME GoingInv, [UNext]_uvars PROVE GoingInv'
  OBVIOUS
<1>2. OrderInv' /\ RequestsServedInOrder'
  BY <1>1, NextKeepsOrder, NextKeepsServed DEF GoingInv
<1>3. SUFFICES LockKnown' /\ PoppedTaken' /\ NoneTaken'
  BY <1>2 DEF GoingInv
<1>4. /\ taken \in Seq(Nat) /\ requests \in Seq(Nat) /\ target \in [Callers -> Nat]
      /\ cap \in Nat /\ LockKnown /\ NoCaller \notin Callers
  BY <1>1, OrderedUpdatesAssumption DEF GoingInv, OrderInv, Types
<1> USE DEF queues, service, outcome, ghosts, Labels, LockedLabels
<1>5. CASE UNCHANGED uvars
  BY <1>1, <1>5, GoingStays DEF uvars
<1>6. ASSUME NEW f \in DOMAIN futures, Run(f) PROVE LockKnown' /\ PoppedTaken' /\ NoneTaken'
  BY <1>1, <1>6, GoingStays DEF Run, RunSkipped, RunFails, RunSucceeds
<1>7. ASSUME NEW c \in Callers, Calls(c) PROVE LockKnown' /\ PoppedTaken' /\ NoneTaken'
  <2>1. CASE SampleCall(c)
    BY <1>1, <1>4, <2>1, CallerMoves DEF SampleCall, LockKnown
  <2>2. CASE SubmitRaises(c) \/ Submit(c)
    BY <1>1, <2>2, GoingStays DEF SubmitRaises, Submit
  <2>3. CASE SynchronizeCall(c)
    BY <1>1, <1>4, <2>3, CallerMoves DEF SynchronizeCall, Lock
  <2>4. CASE ShutdownCall(c)
    BY <1>1, <1>4, <2>4, CallerMoves DEF ShutdownCall
  <2> QED
    BY <1>7, <2>1, <2>2, <2>3, <2>4 DEF Calls
<1>8. ASSUME NEW c \in Callers, Proceeds(c) PROVE LockKnown' /\ PoppedTaken' /\ NoneTaken'
  <2>1. CASE SampleUnqueued(c)
    BY <1>1, <1>4, <2>1, CallerMoves DEF SampleUnqueued
  <2>2. CASE AwaitThenSample(c) \/ AwaitRaises(c)
    BY <1>1, <1>4, <2>2, CallerMoves DEF AwaitThenSample, AwaitRaises, Leave, LockKnown
  <2>3. CASE SampleLocked(c)
    <3>1. CASE requests = <<>>
      BY <1>1, <1>4, <2>3, <3>1, CallerMoves DEF SampleLocked, Lock
    <3>2. CASE requests # <<>>
      <4>1. /\ Goto(c, "popped") /\ holder' = c /\ UNCHANGED cap /\ cap # 0
            /\ target' = [target EXCEPT ![c] = Head(requests)]
            /\ taken' = Append(taken, Head(requests))
        BY <1>4, <2>3, <3>2 DEF SampleLocked, Lock
      <4>2. Head(requests) \in Nat
        BY <1>4, <3>2, HeadTailProperties
      <4>3. ToSet(taken') = ToSet(taken) \cup {Head(requests)}
        BY <1>4, <4>1, <4>2, AppendedElements
      <4>4. /\ target'[c] \in ToSet(taken') /\ ToSet(taken) \subseteq ToSet(taken')
            /\ \A e \in Callers \ {c} : target'[e] = target[e]
        BY <1>4, <4>1, <4>3
      <4> QED
        BY <1>1, <4>1, <4>4, CallerMoves
    <3> QED
      BY <3>1, <3>2
  <2>4. CASE PoppedSettles(c)
    BY <1>1, <1>4, <2>4, CallerMoves DEF PoppedSettles, Leave, Unlock
  <2>5. CASE InlineSample(c)
    BY <1>1, <1>4, <2>5, CallerMoves DEF InlineSample
  <2>6. CASE InlineRaises(c) \/ Refill(c)
    BY <1>1, <1>4, <2>6, CallerMoves DEF InlineRaises, Refill, Leave, Unlock
  <2>7. CASE ShutdownSynchronizes(c)
    BY <1>1, <1>4, <2>7, CallerMoves DEF ShutdownSynchronizes, Lock
  <2>8. CASE Synchronized(c)
    BY <1>1, <1>4, <2>8, CallerMoves DEF Synchronized, Unlock
  <2>9. CASE Close(c) \/ Joined(c)
    BY <1>1, <1>4, <2>9, CallerMoves DEF Close, Joined, LockKnown
  <2> QED
    BY <1>8, <2>1, <2>2, <2>3, <2>4, <2>5, <2>6, <2>7, <2>8, <2>9 DEF Proceeds
<1> QED
  BY <1>1, <1>5, <1>6, <1>7, <1>8 DEF UNext

\* The first future that is unsettled has a thread and waits for nobody.
LEMMA FirstIsReady ==
    ASSUME GoingInv, \E f \in DOMAIN futures : ~Settled(f)
    PROVE  \E f \in DOMAIN futures : ~Settled(f) /\ Ready(f)
<1>1. Types /\ QueuesKnown /\ NoneTaken /\ cap \in Nat
  BY DEF GoingInv, OrderInv, Types
<1>2. /\ DOMAIN futures = 1 .. Len(futures) /\ Len(futures) \in Nat
      /\ \A f \in DOMAIN futures : futures[f].deps \subseteq 1 .. f - 1
      /\ \A f \in DOMAIN futures : futures[f].kind = "inline" => Settled(f)
      /\ \A f \in DOMAIN futures : futures[f] \in Future
  BY <1>1, FutureSets DEF Types, Indices
<1>3. {f \in DOMAIN futures : ~Settled(f)} \in SUBSET Nat
  BY <1>2
<1>4. PICK f \in DOMAIN futures : ~Settled(f) /\ \A g \in DOMAIN futures : ~Settled(g) => f <= g
  BY <1>3, SmallestNat
<1>5. \A g \in 1 .. (f - 1) : Settled(g)
  BY <1>2, <1>4
<1>6. Earlier(f) = {} /\ \A g \in futures[f].deps : Settled(g)
  BY <1>2, <1>5 DEF Earlier
<1>7. Cardinality(Earlier(f)) = 0
  BY <1>6, FS_EmptySet
<1>8. ASSUME futures[f].kind = "prefetch" PROVE cap > 0
  <2>1. SUFFICES ASSUME cap = 0 PROVE FALSE
    BY <1>1
  <2>2. f \in Prefetched
    BY <1>1, <1>8, FutureSets DEF Indices
  <2>3. taken = <<>> /\ requests = <<>>
    <3>1. Len(requests) = 0 /\ requests \in Seq(Nat)
      BY <1>1, <2>1, LenProperties DEF QueuesKnown, Types
    <3> QED
      BY <1>1, <2>1, <3>1, EmptySeq DEF NoneTaken
  <2>4. Prefetched = {}
    <3>1. taken \o requests = <<>>
      BY <2>3, EmptySeq, ConcatEmptySeq
    <3>2. ToSet(<<>>) = {}
      BY EmptySeq, LenProperties DEF ToSet
    <3> QED
      BY <3>1, <3>2 DEF GoingInv, RequestsServedInOrder
  <2> QED
    BY <2>2, <2>4
<1>9. HasThread(f)
  BY <1>1, <1>7, <1>8 DEF HasThread
<1> QED
  BY <1>4, <1>6, <1>9 DEF Ready

\* Once every future has settled, whoever holds the lock goes on, and if nobody
\* does, every call does.
LEMMA CallsGoOn ==
    ASSUME GoingInv, \A f \in DOMAIN futures : Settled(f),
           NEW c \in Callers, stage[c] # "idle"
    PROVE  \E e \in Callers : CanGoOn(e)
<1>1. /\ Types /\ QueuesKnown /\ CallersWait /\ PoppedTaken /\ LockKnown
      /\ RequestsServedInOrder
  BY DEF GoingInv, OrderInv
<1>2. Settled(0) /\ \A f \in Updates \cup Prefetched : Settled(f)
  BY DEF Settled, StateOf, Updates, Prefetched, Samples
<1>3. ToSet(taken) \subseteq Prefetched
  <2>1. ToSet(taken \o requests) = ToSet(taken) \cup ToSet(requests)
    BY <1>1, ConcatElements DEF Types
  <2> QED
    BY <1>1, <2>1 DEF RequestsServedInOrder
<1>4. /\ Settled(dependency)
      /\ \A f \in ToSet(requests) \cup ToSet(updates) : Settled(f)
      /\ \A e \in Callers : stage[e] \in {"await", "popped"} => Settled(target[e])
  BY <1>1, <1>2, <1>3 DEF QueuesKnown, CallersWait, Covers, PoppedTaken
<1>5. CASE holder = NoCaller
  <2>1. stage[c] \in Labels \ {"idle"}
    BY <1>1 DEF Types
  <2>2. CanGoOn(c)
    BY <1>4, <1>5, <2>1 DEF CanGoOn, Labels
  <2> QED
    BY <2>2
<1>6. CASE holder # NoCaller
  <2>1. holder \in Callers /\ stage[holder] \in LockedLabels
    BY <1>1, <1>6 DEF LockKnown
  <2>2. CanGoOn(holder)
    BY <1>4, <2>1 DEF CanGoOn, LockedLabels
  <2> QED
    BY <2>1, <2>2
<1> QED
  BY <1>5, <1>6

\* The two pools, the dependencies of the futures and the lock, which callers hold
\* while they wait for futures, never wait for each other in a circle: for any
\* prefetch and any number of callers, while a call has not returned or a future
\* has not settled, a call can take its next step or a future has a thread and
\* nothing to wait for (sample, _run_after_futures, synchronize, shutdown).
THEOREM SomethingAlwaysGoesOn == USpec => []SomethingCanGoOn
<1>1. UInit => GoingInv
  <2>1. SUFFICES ASSUME UInit PROVE GoingInv
    OBVIOUS
  <2>2. LockKnown /\ PoppedTaken /\ NoneTaken
    BY <2>1 DEF UInit, LockKnown, PoppedTaken, NoneTaken
  <2> QED
    BY <2>1, <2>2, InitOrder, InitServed DEF GoingInv
<1>2. GoingInv => SomethingCanGoOn
  BY FirstIsReady, CallsGoOn DEF SomethingCanGoOn
<1> QED
  BY <1>1, <1>2, NextKeepsGoing, PTL DEF USpec
=============================================================================
