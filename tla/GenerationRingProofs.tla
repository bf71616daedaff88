------------------------ MODULE GenerationRingProofs ------------------------
(***************************************************************************)
(* Proofs about GenerationRing and GenerationRingCheckpoint, for every     *)
(* capacity, batch size, number of writers and clients: type correctness,  *)
(* soundness and completeness of the (index, generation) handles, that     *)
(* conditional updates only touch records their caller sampled, that       *)
(* versions and reports are truthful, and what a restored checkpoint keeps *)
(* of all that.  With a single writer the ring has no gap below its        *)
(* length, and implements RecentWindow.                                    *)
(***************************************************************************)
EXTENDS GenerationRingCheckpoint, FiniteSetTheorems, SequenceTheorems, TLAPS

\* No slot has a stamp before a generation buffer is installed.
UninstalledUnstamped == ~installed => \A s \in Slots : gen[s] = NoStamp

\* Stamps only grow, so no handle of a client is ahead of its slot.
StampsBelow(D) ==
    \A c \in D, i \in Rows : batch[c][i].stamp <= gen[batch[c][i].slot]

\* HandleSound, of some of the clients.
SoundFor(D) ==
    \A c \in D, i \in Rows :
        Live(batch[c][i]) => rec[batch[c][i].slot] = batch[c][i].rec

\* The inductive invariant behind HandleSound, of all clients, and behind
\* FreshHandlesSound, of those that sampled since the last load.
SoundInv(D) == TypeOK /\ UninstalledUnstamped /\ StampsBelow(D) /\ SoundFor(D)

\* Record identities are handed out in order.
RecordsKnown ==
    /\ \A s \in Slots : rec[s] <= written
    /\ \A c \in Clients, i \in Rows : batch[c][i].rec <= written

\* The inductive invariant behind HandleComplete.
CompleteInv == TypeOK /\ RecordsKnown /\ HandleComplete

-----------------------------------------------------------------------------
\* A slot no row hits has no hits to count; one that is hit has at least one.
LEMMA HitsCounted ==
    ASSUME NEW n \in Nat, NEW at \in [0 .. n - 1 -> Slots], NEW s \in Slots
    PROVE  /\ Cardinality(Hits(at, s)) \in Nat
           /\ s \in Hit(at) => Cardinality(Hits(at, s)) > 0
           /\ s \notin Hit(at) => Cardinality(Hits(at, s)) = 0
<1>1. IsFiniteSet(0 .. n - 1)
  BY FS_Interval
<1>2. Hits(at, s) \subseteq 0 .. n - 1
  BY DEF Hits
<1>3. IsFiniteSet(Hits(at, s)) /\ Cardinality(Hits(at, s)) \in Nat
  BY <1>1, <1>2, FS_Subset, FS_CardinalityType
<1>4. Cardinality(Hits(at, s)) = 0 <=> Hits(at, s) = {}
  BY <1>3, FS_EmptySet
<1> QED
  BY <1>3, <1>4 DEF Hit

\* The rows of one ring write are slots.
LEMMA RingRowsAreSlots ==
    ASSUME NEW w \in Writers, NEW n \in Nat, cursor \in [Writers -> Slots]
    PROVE  RingRows(w, n) \in [0 .. n - 1 -> Slots]
<1>1. cursor[w] \in Nat
  BY DEF Slots
<1>2. ASSUME NEW i \in 0 .. n - 1 PROVE (cursor[w] + i) % Capacity \in Slots
  BY <1>1, <1>2, RingAssumption DEF Slots
<1> QED
  BY <1>2 DEF RingRows

\* Storing rows gives every slot hit a record not seen before and leaves the
\* other slots alone.
LEMMA SetStorageEffect ==
    ASSUME NEW n \in Nat, NEW at \in [0 .. n - 1 -> Slots],
           rec \in [Slots -> Nat], version \in [Slots -> Nat],
           patchedBy \in [Slots -> 0 .. BatchSize], written \in Nat,
           SetStorage(at, n)
    PROVE  /\ rec' \in [Slots -> Nat]
           /\ version' \in [Slots -> Nat]
           /\ patchedBy' \in [Slots -> 0 .. BatchSize]
           /\ written' = written + n
           /\ \A s \in Slots \ Hit(at) : rec'[s] = rec[s]
           /\ \A s \in Hit(at) : rec'[s] > written /\ rec'[s] <= written'
<1>1. PICK row \in Placements(at) :
          /\ rec' = [s \in Slots |-> IF s \in Hit(at) THEN written + 1 + row[s]
                                                      ELSE rec[s]]
          /\ version' = [s \in Slots |-> IF s \in Hit(at) THEN 0 ELSE version[s]]
          /\ patchedBy' = [s \in Slots |-> IF s \in Hit(at) THEN 0 ELSE patchedBy[s]]
          /\ written' = written + n
  BY DEF SetStorage
<1>2. \A s \in Hit(at) : row[s] \in 0 .. n - 1
  BY DEF Placements
<1>3. Hit(at) \subseteq Slots
  BY DEF Hit
<1>4. \A s \in Hit(at) : rec'[s] \in Nat /\ rec'[s] > written /\ rec'[s] <= written'
  BY <1>1, <1>2, <1>3
<1>5. rec' \in [Slots -> Nat]
  BY <1>1, <1>2
<1>6. patchedBy' \in [Slots -> 0 .. BatchSize] /\ version' \in [Slots -> Nat]
  BY <1>1, RingAssumption
<1> QED
  BY <1>1, <1>4, <1>5, <1>6

\* Stamps never go down, and those of the slots hit go up once there is a
\* generation buffer.
LEMMA BumpEffect ==
    ASSUME NEW w \in Writers, NEW n \in Nat, NEW at \in [0 .. n - 1 -> Slots],
           gen \in [Slots -> Int], installed \in BOOLEAN, BumpGeneration(w, at)
    PROVE  /\ gen' \in [Slots -> Int]
           /\ installed' \in BOOLEAN
           /\ installed => installed'
           /\ ~installed' => gen' = gen
           /\ \A s \in Slots : gen'[s] >= gen[s]
           /\ \A s \in Slots \ Hit(at) : gen'[s] = gen[s]
           /\ installed' => \A s \in Hit(at) : gen'[s] > gen[s]
<1>1. Hit(at) \subseteq Slots
  BY DEF Hit
<1>2. CASE installed'
  <2>1. gen' = [s \in Slots |-> gen[s] + Cardinality(Hits(at, s))]
    BY <1>2 DEF BumpGeneration
  <2> QED
    BY <1>1, <1>2, <2>1, HitsCounted DEF BumpGeneration
<1>3. CASE ~installed'
  BY <1>3 DEF BumpGeneration
<1> QED
  BY <1>2, <1>3 DEF BumpGeneration

-----------------------------------------------------------------------------
\* What every write does to the handles, wherever its rows go.
LEMMA StoreKeepsHandles ==
    ASSUME NEW D \in SUBSET Clients, SoundInv(D),
           NEW w \in Writers, NEW n \in Nat, NEW at \in [0 .. n - 1 -> Slots],
           SetStorage(at, n), BumpGeneration(w, at), UNCHANGED batch
    PROVE  UninstalledUnstamped' /\ StampsBelow(D)' /\ SoundFor(D)'
<1> USE DEF SoundInv
<1>1. /\ \A s \in Slots : gen[s] \in Int /\ gen'[s] \in Int
      /\ \A s \in Slots : gen'[s] >= gen[s]
      /\ \A s \in Slots \ Hit(at) : gen'[s] = gen[s]
      /\ installed => installed'
      /\ ~installed' => gen' = gen
      /\ installed' => \A s \in Hit(at) : gen'[s] > gen[s]
  BY BumpEffect DEF TypeOK
<1>2. \A s \in Slots \ Hit(at) : rec'[s] = rec[s]
  BY SetStorageEffect DEF TypeOK
<1>3. \A c \in Clients, i \in Rows :
          batch'[c][i] = batch[c][i] /\ batch[c][i] \in Handle
  BY DEF TypeOK
<1>4. UninstalledUnstamped'
  BY <1>1 DEF UninstalledUnstamped
<1>5. StampsBelow(D)'
  <2> SUFFICES ASSUME NEW c \in D, NEW i \in Rows
               PROVE  batch[c][i].stamp <= gen'[batch[c][i].slot]
    BY <1>3 DEF StampsBelow
  <2>1. batch[c][i].slot \in Slots /\ batch[c][i].stamp \in Int
    BY <1>3 DEF Handle
  <2>2. batch[c][i].stamp <= gen[batch[c][i].slot]
    BY DEF StampsBelow
  <2> QED
    BY <1>1, <2>1, <2>2
<1>6. SoundFor(D)'
  <2> SUFFICES ASSUME NEW c \in D, NEW i \in Rows, Live(batch[c][i])'
               PROVE  rec'[batch[c][i].slot] = batch[c][i].rec
    BY <1>3 DEF SoundFor
  <2> DEFINE h == batch[c][i]
  <2>1. h.slot \in Slots /\ h.stamp \in Int
    BY <1>3 DEF Handle
  <2>2. h.stamp <= gen[h.slot]
    BY DEF StampsBelow
  <2>3. gen'[h.slot] = h.stamp /\ h.stamp >= 0
    BY <1>3 DEF Live, GenerationOf
  <2>4. installed'
    <3> SUFFICES ASSUME ~installed' PROVE FALSE
      OBVIOUS
    <3>1. ~installed /\ gen' = gen
      BY <1>1
    <3> QED
      BY <2>1, <2>3, <3>1 DEF UninstalledUnstamped, NoStamp
  <2>5. h.slot \notin Hit(at)
    BY <1>1, <2>1, <2>2, <2>3, <2>4
  <2>6. gen[h.slot] = h.stamp
    BY <1>1, <2>1, <2>3, <2>5
  <2>7. Live(h)
    BY <2>3, <2>6 DEF Live, GenerationOf
  <2> QED
    BY <1>2, <2>1, <2>5, <2>7 DEF SoundFor
<1> QED
  BY <1>4, <1>5, <1>6

\* Steps that leave the stamps, the records and the handles alone.
LEMMA StutterKeepsHandles ==
    ASSUME NEW D \in SUBSET Clients, SoundInv(D), UNCHANGED <<gen, installed, rec, batch>>
    PROVE  UninstalledUnstamped' /\ StampsBelow(D)' /\ SoundFor(D)'
BY DEF SoundInv, UninstalledUnstamped, StampsBelow, SoundFor, Live, GenerationOf

-----------------------------------------------------------------------------
\* The type invariant, one action at a time.
LEMMA TypeInit == Init => TypeOK
<1>1. NoHandle \in Handle
  BY RingAssumption DEF NoHandle, Handle, Slots, NoStamp, NoRecord
<1>2. 0 \in Slots /\ 0 \in 0 .. Capacity /\ 0 \in 0 .. BatchSize /\ NoStamp \in Int
  BY RingAssumption DEF Slots, NoStamp
<1> SUFFICES ASSUME Init PROVE TypeOK
  OBVIOUS
<1>3. cursor \in [Writers -> Slots] /\ writeCount \in [Writers -> Nat] /\ len \in 0 .. Capacity
  BY <1>2 DEF Init
<1>4. gen \in [Slots -> Int] /\ rec \in [Slots -> Nat] /\ version \in [Slots -> Nat]
  BY <1>2 DEF Init, NoRecord
<1>5. patchedBy \in [Slots -> 0 .. BatchSize] /\ written \in Nat
  BY <1>2 DEF Init
<1>6. batch \in [Clients -> [Rows -> Handle]]
  BY <1>1 DEF Init
<1>7. installed \in BOOLEAN
  BY DEF Init
<1> QED
  BY <1>3, <1>4, <1>5, <1>6, <1>7 DEF TypeOK

LEMMA TypeWrite ==
    ASSUME TypeOK, NEW w \in Writers, NEW n \in 1 .. MaxBatch, Write(w, n)
    PROVE  TypeOK'
<1>1. n \in Nat
  BY RingAssumption
<1>2. RingRows(w, n) \in [0 .. n - 1 -> Slots]
  BY <1>1, RingRowsAreSlots DEF TypeOK
<1>3. cursor' \in [Writers -> Slots]
  <2>1. cursor[w] \in Nat
    BY DEF TypeOK, Slots
  <2>2. (n + cursor[w]) % Capacity \in Slots
    BY <1>1, <2>1, RingAssumption DEF Slots
  <2> QED
    BY <2>2 DEF Write, TypeOK, NextCursor
<1>4. writeCount' \in [Writers -> Nat]
  BY <1>1 DEF Write, TypeOK
<1>5. len' \in 0 .. Capacity
  BY <1>1, RingAssumption DEF Write, TypeOK, Smaller, NewLen
<1>6. /\ rec' \in [Slots -> Nat] /\ version' \in [Slots -> Nat]
      /\ patchedBy' \in [Slots -> 0 .. BatchSize] /\ written' \in Nat
  <2>1. SetStorage(RingRows(w, n), n)
    BY DEF Write
  <2>2. /\ rec \in [Slots -> Nat] /\ version \in [Slots -> Nat]
        /\ patchedBy \in [Slots -> 0 .. BatchSize] /\ written \in Nat
    BY DEF TypeOK
  <2>3. /\ rec' \in [Slots -> Nat] /\ version' \in [Slots -> Nat]
        /\ patchedBy' \in [Slots -> 0 .. BatchSize] /\ written' = written + n
    BY <1>1, <1>2, <2>1, <2>2, SetStorageEffect
  <2> QED
    BY <1>1, <2>2, <2>3
<1>7. gen' \in [Slots -> Int] /\ installed' \in BOOLEAN
  BY <1>1, <1>2, BumpEffect DEF Write, TypeOK
<1> QED
  BY <1>3, <1>4, <1>5, <1>6, <1>7 DEF Write, TypeOK

LEMMA TypeWriteAt ==
    ASSUME TypeOK, NEW w \in Writers, NEW n \in 1 .. MaxBatch,
           NEW at \in [0 .. n - 1 -> Slots], WriteAt(w, n, at)
    PROVE  TypeOK'
<1>1. n \in Nat
  BY RingAssumption
<1>2. writeCount' \in [Writers -> Nat]
  <2>1. writeCount' = [writeCount EXCEPT ![w] = @ + n]
    BY DEF WriteAt
  <2>2. writeCount \in [Writers -> Nat]
    BY DEF TypeOK
  <2> QED
    BY <1>1, <2>1, <2>2
<1>3. len' \in 0 .. Capacity
  BY RingAssumption DEF WriteAt, TypeOK, Smaller, Larger, Hit, Slots
<1>4. /\ rec' \in [Slots -> Nat] /\ version' \in [Slots -> Nat]
      /\ patchedBy' \in [Slots -> 0 .. BatchSize] /\ written' \in Nat
  <2>1. SetStorage(at, n)
    BY DEF WriteAt
  <2>2. /\ rec \in [Slots -> Nat] /\ version \in [Slots -> Nat]
        /\ patchedBy \in [Slots -> 0 .. BatchSize] /\ written \in Nat
    BY DEF TypeOK
  <2>3. /\ rec' \in [Slots -> Nat] /\ version' \in [Slots -> Nat]
        /\ patchedBy' \in [Slots -> 0 .. BatchSize] /\ written' = written + n
    BY <1>1, <2>1, <2>2, SetStorageEffect
  <2> QED
    BY <1>1, <2>2, <2>3
<1>5. gen' \in [Slots -> Int] /\ installed' \in BOOLEAN
  BY <1>1, BumpEffect DEF WriteAt, TypeOK
<1> QED
  BY <1>2, <1>3, <1>4, <1>5 DEF WriteAt, TypeOK

LEMMA TypeEmpty ==
    ASSUME TypeOK, NEW w \in Writers, NEW all \in BOOLEAN, Empty(w, all)
    PROVE  TypeOK'
<1>1. 0 \in Slots
  BY RingAssumption DEF Slots
<1> QED
  BY <1>1, RingAssumption DEF Empty, TypeOK, NoRecord, InvalidateStamps, RewindCursor

LEMMA TypeSample ==
    ASSUME TypeOK, NEW w \in Writers, NEW c \in Clients, Sample(w, c)
    PROVE  TypeOK'
<1>1. PICK index \in [Rows -> 0 .. len - 1] :
          batch' = [batch EXCEPT ![c] =
                        [i \in Rows |-> [slot  |-> index[i],
                                         stamp |-> GenerationOf(index[i]),
                                         rec   |-> rec[index[i]]]]]
  BY DEF Sample
<1>2. \A i \in Rows : index[i] \in Slots
  BY RingAssumption DEF TypeOK, Slots
<1>3. \A i \in Rows : [slot  |-> index[i], stamp |-> GenerationOf(index[i]),
                       rec   |-> rec[index[i]]] \in Handle
  BY <1>2 DEF TypeOK, Handle, GenerationOf
<1>4. batch' \in [Clients -> [Rows -> Handle]]
  BY <1>1, <1>3 DEF TypeOK
<1> QED
  BY <1>4 DEF Sample, TypeOK

\* A scatter of rows is a patch of slots by rows.
LEMMA PatchType ==
    ASSUME TypeOK, NEW c \in Clients, NEW rows \in SUBSET Rows,
           NEW by \in Scatters(c, rows), ApplyPatch(by)
    PROVE  /\ patchedBy' \in [Slots -> 0 .. BatchSize]
           /\ \A s \in DOMAIN by : by[s] \in rows /\ batch[c][by[s]].slot = s
<1>1. \A s \in DOMAIN by : by[s] \in rows /\ batch[c][by[s]].slot = s
  BY DEF Scatters
<1>2. \A i \in rows : i \in 0 .. BatchSize
  BY RingAssumption DEF Rows
<1> QED
  BY <1>1, <1>2 DEF ApplyPatch, TypeOK

LEMMA TypeUpdateIfPresent ==
    ASSUME TypeOK, NEW c \in Clients, UpdateIfPresent(c)
    PROVE  TypeOK'
<1>1. PICK by \in Scatters(c, LiveRows(c)) : ApplyPatch(by)
  BY DEF UpdateIfPresent
<1>2. patchedBy' \in [Slots -> 0 .. BatchSize]
  BY <1>1, PatchType DEF LiveRows
<1> QED
  BY <1>2 DEF UpdateIfPresent, TypeOK, Restamp

LEMMA TypeUpdateIfNewer ==
    ASSUME TypeOK, NEW c \in Clients, NEW v \in [Rows -> Versions],
           NEW newer \in BOOLEAN, UpdateIfNewer(c, v, newer)
    PROVE  TypeOK'
<1>1. Updated(c, v, newer) \in SUBSET Rows
  BY DEF Updated, LiveRows
<1>2. PICK by \in Scatters(c, Updated(c, v, newer)) :
          /\ ApplyPatch(by)
          /\ version' = [s \in Slots |-> IF s \in DOMAIN by THEN v[by[s]]
                                                           ELSE version[s]]
  BY DEF UpdateIfNewer
<1>3. /\ patchedBy' \in [Slots -> 0 .. BatchSize]
      /\ \A s \in DOMAIN by : by[s] \in Rows
  BY <1>1, <1>2, PatchType
<1>4. version' \in [Slots -> Nat]
  BY <1>2, <1>3, RingAssumption DEF TypeOK, Versions
<1> QED
  BY <1>3, <1>4 DEF UpdateIfNewer, TypeOK, Restamp

LEMMA TypeNext == TypeOK /\ [Next]_vars => TypeOK'
<1> SUFFICES ASSUME TypeOK, [Next]_vars PROVE TypeOK'
  OBVIOUS
<1>1. CASE \E w \in Writers, n \in 1 .. MaxBatch : Write(w, n)
  BY <1>1, TypeWrite
<1>2. CASE \E w \in Writers, all \in BOOLEAN : Empty(w, all)
  BY <1>2, TypeEmpty
<1>3. CASE \E w \in Writers, c \in Clients : Sample(w, c)
  BY <1>3, TypeSample
<1>4. CASE \E c \in Clients : UpdateIfPresent(c)
  BY <1>4, TypeUpdateIfPresent
<1>5. CASE \E c \in Clients, v \in [Rows -> Versions], newer \in BOOLEAN :
               UpdateIfNewer(c, v, newer)
  BY <1>5, TypeUpdateIfNewer
<1>6. CASE \E w \in Writers, n \in 1 .. MaxBatch :
               \E at \in [0 .. n - 1 -> Slots] : WriteAt(w, n, at)
  BY <1>6, TypeWriteAt
<1>7. CASE UNCHANGED vars
  BY <1>7 DEF vars, TypeOK
<1> QED
  BY <1>1, <1>2, <1>3, <1>4, <1>5, <1>6, <1>7 DEF Next, RingNext

\* Every variable keeps its type, whatever the bounds.
THEOREM TypeCorrect == Spec => []TypeOK
BY TypeInit, TypeNext, PTL DEF Spec

-----------------------------------------------------------------------------
\* Soundness of the handles, one action at a time.
LEMMA SoundInit == Init => SoundInv(Clients)
<1> SUFFICES ASSUME Init PROVE UninstalledUnstamped /\ StampsBelow(Clients) /\ SoundFor(Clients)
  BY TypeInit DEF SoundInv
<1>1. 0 \in Slots
  BY RingAssumption DEF Slots
<1>2. \A c \in Clients, i \in Rows : batch[c][i] = NoHandle
  BY DEF Init
<1>3. NoHandle.slot = 0 /\ NoHandle.stamp = NoStamp /\ gen[0] = NoStamp
  BY <1>1 DEF Init, NoHandle
<1>4. \A c \in Clients, i \in Rows : ~Live(batch[c][i])
  BY <1>2, <1>3 DEF Live, NoStamp
<1> QED
  BY <1>2, <1>3, <1>4 DEF Init, UninstalledUnstamped, StampsBelow, SoundFor, NoStamp

LEMMA SoundEmpty ==
    ASSUME NEW D \in SUBSET Clients, SoundInv(D), NEW w \in Writers, NEW all \in BOOLEAN, Empty(w, all)
    PROVE  UninstalledUnstamped' /\ StampsBelow(D)' /\ SoundFor(D)'
<1> USE DEF SoundInv
<1>1. \A s \in Slots : /\ gen[s] \in Int
                       /\ gen'[s] = IF gen[s] >= 0 THEN gen[s] + 1 ELSE gen[s]
  BY DEF Empty, TypeOK, InvalidateStamps
<1>2. \A c \in D, i \in Rows :
          /\ batch'[c][i] = batch[c][i]
          /\ batch[c][i].slot \in Slots /\ batch[c][i].stamp \in Int
          /\ batch[c][i].stamp <= gen[batch[c][i].slot]
  BY DEF Empty, TypeOK, Handle, StampsBelow
<1>3. UninstalledUnstamped'
  BY <1>1 DEF UninstalledUnstamped, NoStamp, Empty
<1>4. StampsBelow(D)'
  BY <1>1, <1>2 DEF StampsBelow
<1>5. SoundFor(D)'
  BY <1>1, <1>2 DEF SoundFor, Live, GenerationOf
<1> QED
  BY <1>3, <1>4, <1>5

\* Whoever samples holds sound handles.
LEMMA SoundSample ==
    ASSUME NEW D \in SUBSET Clients, SoundInv(D), NEW w \in Writers, NEW c \in Clients, Sample(w, c)
    PROVE  UninstalledUnstamped' /\ StampsBelow(D \cup {c})' /\ SoundFor(D \cup {c})'
<1> USE DEF SoundInv
<1>1. PICK index \in [Rows -> 0 .. len - 1] :
          batch' = [batch EXCEPT ![c] =
                        [i \in Rows |-> [slot  |-> index[i],
                                         stamp |-> GenerationOf(index[i]),
                                         rec   |-> rec[index[i]]]]]
  BY DEF Sample
<1>2. \A i \in Rows : /\ index[i] \in Slots
                      /\ batch'[c][i].slot = index[i]
                      /\ batch'[c][i].stamp = gen[index[i]]
                      /\ batch'[c][i].rec = rec[index[i]]
  BY <1>1, RingAssumption DEF TypeOK, Slots, GenerationOf
<1>3. \A d \in Clients \ {c}, i \in Rows : batch'[d][i] = batch[d][i]
  BY <1>1 DEF TypeOK
<1>4. gen' = gen /\ rec' = rec /\ installed' = installed /\ gen \in [Slots -> Int]
  BY DEF Sample, TypeOK
<1>5. UninstalledUnstamped'
  BY <1>4 DEF UninstalledUnstamped
<1>6. StampsBelow(D \cup {c})'
  BY <1>2, <1>3, <1>4 DEF StampsBelow
<1>7. SoundFor(D \cup {c})'
  BY <1>2, <1>3, <1>4 DEF SoundFor, Live, GenerationOf
<1> QED
  BY <1>5, <1>6, <1>7

LEMMA SoundNext == SoundInv(Clients) /\ [Next]_vars => SoundInv(Clients)'
<1> SUFFICES ASSUME SoundInv(Clients), [Next]_vars
             PROVE  UninstalledUnstamped' /\ StampsBelow(Clients)' /\ SoundFor(Clients)'
  BY TypeNext DEF SoundInv
<1>1. ASSUME NEW w \in Writers, NEW n \in 1 .. MaxBatch, Write(w, n)
      PROVE  UninstalledUnstamped' /\ StampsBelow(Clients)' /\ SoundFor(Clients)'
  <2>1. n \in Nat
    BY RingAssumption
  <2>2. RingRows(w, n) \in [0 .. n - 1 -> Slots]
    BY <2>1, RingRowsAreSlots DEF SoundInv, TypeOK
  <2>3. SetStorage(RingRows(w, n), n) /\ BumpGeneration(w, RingRows(w, n)) /\ batch' = batch
    BY <1>1 DEF Write
  <2> QED
    BY <2>1, <2>2, <2>3, StoreKeepsHandles
<1>2. ASSUME NEW w \in Writers, NEW n \in 1 .. MaxBatch,
             NEW at \in [0 .. n - 1 -> Slots], WriteAt(w, n, at)
      PROVE  UninstalledUnstamped' /\ StampsBelow(Clients)' /\ SoundFor(Clients)'
  <2>1. n \in Nat
    BY RingAssumption
  <2>2. SetStorage(at, n) /\ BumpGeneration(w, at) /\ batch' = batch
    BY <1>2 DEF WriteAt
  <2> QED
    BY <2>1, <2>2, StoreKeepsHandles
<1>3. CASE \E w \in Writers, all \in BOOLEAN : Empty(w, all)
  BY <1>3, SoundEmpty
<1>4. CASE \E w \in Writers, c \in Clients : Sample(w, c)
  BY <1>4, SoundSample
<1>5. CASE \E c \in Clients : UpdateIfPresent(c)
  BY <1>5, StutterKeepsHandles DEF UpdateIfPresent, Restamp
<1>6. CASE \E c \in Clients, v \in [Rows -> Versions], newer \in BOOLEAN :
               UpdateIfNewer(c, v, newer)
  BY <1>6, StutterKeepsHandles DEF UpdateIfNewer, Restamp
<1>7. CASE UNCHANGED vars
  BY <1>7, StutterKeepsHandles DEF vars
<1> QED
  BY <1>1, <1>2, <1>3, <1>4, <1>5, <1>6, <1>7 DEF Next, RingNext

\* A handle that reads as live names the record its client sampled.
THEOREM HandlesAreSound == Spec => []HandleSound
<1>1. SoundInv(Clients) => HandleSound
  BY DEF SoundInv, SoundFor, HandleSound
<1> QED
  BY <1>1, SoundInit, SoundNext, PTL DEF Spec

-----------------------------------------------------------------------------
\* The converse: a stamped handle whose record is still stored is live.
LEMMA CompleteInit == Init => CompleteInv
<1> SUFFICES ASSUME Init PROVE RecordsKnown /\ HandleComplete
  BY TypeInit DEF CompleteInv
<1>1. \A c \in Clients, i \in Rows :
          batch[c][i].rec = NoRecord /\ batch[c][i].stamp = NoStamp
  BY DEF Init, NoHandle
<1> QED
  BY <1>1 DEF Init, RecordsKnown, HandleComplete, NoRecord, NoStamp

\* A write only replaces records by newer ones, and leaves the stamps of the
\* records it does not replace.
LEMMA StoreKeepsComplete ==
    ASSUME CompleteInv,
           NEW w \in Writers, NEW n \in Nat, NEW at \in [0 .. n - 1 -> Slots],
           SetStorage(at, n), BumpGeneration(w, at), UNCHANGED batch
    PROVE  RecordsKnown' /\ HandleComplete'
<1> USE DEF CompleteInv
<1>1. /\ \A s \in Slots \ Hit(at) : rec'[s] = rec[s]
      /\ \A s \in Hit(at) : rec'[s] > written /\ rec'[s] <= written'
      /\ written' = written + n
      /\ rec' \in [Slots -> Nat]
  BY SetStorageEffect DEF TypeOK
<1>2. \A s \in Slots \ Hit(at) : gen'[s] = gen[s]
  BY BumpEffect DEF TypeOK
<1>3. \A c \in Clients, i \in Rows :
          /\ batch'[c][i] = batch[c][i]
          /\ batch[c][i].slot \in Slots /\ batch[c][i].stamp \in Int
          /\ batch[c][i].rec \in Nat /\ batch[c][i].rec <= written
  BY DEF TypeOK, Handle, RecordsKnown
<1>4. \A s \in Slots : rec[s] <= written /\ rec[s] \in Nat /\ written \in Nat
  BY DEF TypeOK, RecordsKnown
<1>5. RecordsKnown'
  BY <1>1, <1>3, <1>4 DEF RecordsKnown
<1>6. HandleComplete'
  <2> SUFFICES ASSUME NEW c \in Clients, NEW i \in Rows,
                      batch[c][i].stamp >= 0, batch[c][i].rec # NoRecord,
                      rec'[batch[c][i].slot] = batch[c][i].rec
               PROVE  gen'[batch[c][i].slot] = batch[c][i].stamp
    BY <1>3 DEF HandleComplete, Live, GenerationOf
  <2>1. batch[c][i].slot \notin Hit(at)
    BY <1>1, <1>3, <1>4
  <2>2. rec[batch[c][i].slot] = batch[c][i].rec
    BY <1>1, <1>3, <2>1
  <2> QED
    BY <1>2, <1>3, <2>1, <2>2 DEF HandleComplete, Live, GenerationOf
<1> QED
  BY <1>5, <1>6

LEMMA StutterKeepsComplete ==
    ASSUME CompleteInv, UNCHANGED <<gen, rec, written, batch>>
    PROVE  RecordsKnown' /\ HandleComplete'
BY DEF CompleteInv, RecordsKnown, HandleComplete, Live, GenerationOf

LEMMA CompleteEmpty ==
    ASSUME CompleteInv, NEW w \in Writers, NEW all \in BOOLEAN, Empty(w, all)
    PROVE  RecordsKnown' /\ HandleComplete'
<1>1. \A c \in Clients, i \in Rows :
          batch'[c][i] = batch[c][i] /\ batch[c][i].slot \in Slots
  BY DEF CompleteInv, TypeOK, Handle, Empty
<1>2. \A s \in Slots : rec'[s] = NoRecord
  BY DEF Empty
<1>3. written' = written /\ written \in Nat
  BY DEF Empty, CompleteInv, TypeOK
<1>4. RecordsKnown'
  BY <1>1, <1>2, <1>3 DEF CompleteInv, RecordsKnown, NoRecord
<1>5. HandleComplete'
  BY <1>1, <1>2 DEF HandleComplete
<1> QED
  BY <1>4, <1>5

LEMMA CompleteSample ==
    ASSUME CompleteInv, NEW w \in Writers, NEW c \in Clients, Sample(w, c)
    PROVE  RecordsKnown' /\ HandleComplete'
<1> USE DEF CompleteInv
<1>1. PICK index \in [Rows -> 0 .. len - 1] :
          batch' = [batch EXCEPT ![c] =
                        [i \in Rows |-> [slot  |-> index[i],
                                         stamp |-> GenerationOf(index[i]),
                                         rec   |-> rec[index[i]]]]]
  BY DEF Sample
<1>2. \A i \in Rows : /\ index[i] \in Slots
                      /\ batch'[c][i].slot = index[i]
                      /\ batch'[c][i].stamp = gen[index[i]]
                      /\ batch'[c][i].rec = rec[index[i]]
  BY <1>1, RingAssumption DEF TypeOK, Slots, GenerationOf
<1>3. \A d \in Clients \ {c}, i \in Rows : batch'[d][i] = batch[d][i]
  BY <1>1 DEF TypeOK
<1>4. gen' = gen /\ rec' = rec /\ written' = written
  BY DEF Sample
<1>5. RecordsKnown'
  BY <1>2, <1>3, <1>4 DEF RecordsKnown
<1>6. HandleComplete'
  BY <1>2, <1>3, <1>4 DEF HandleComplete, Live, GenerationOf
<1> QED
  BY <1>5, <1>6

LEMMA CompleteNext == CompleteInv /\ [Next]_vars => CompleteInv'
<1> SUFFICES ASSUME CompleteInv, [Next]_vars PROVE RecordsKnown' /\ HandleComplete'
  BY TypeNext DEF CompleteInv
<1>1. ASSUME NEW w \in Writers, NEW n \in 1 .. MaxBatch, Write(w, n)
      PROVE  RecordsKnown' /\ HandleComplete'
  <2>1. n \in Nat
    BY RingAssumption
  <2>2. RingRows(w, n) \in [0 .. n - 1 -> Slots]
    BY <2>1, RingRowsAreSlots DEF CompleteInv, TypeOK
  <2>3. SetStorage(RingRows(w, n), n) /\ BumpGeneration(w, RingRows(w, n)) /\ batch' = batch
    BY <1>1 DEF Write
  <2> QED
    BY <2>1, <2>2, <2>3, StoreKeepsComplete
<1>2. ASSUME NEW w \in Writers, NEW n \in 1 .. MaxBatch,
             NEW at \in [0 .. n - 1 -> Slots], WriteAt(w, n, at)
      PROVE  RecordsKnown' /\ HandleComplete'
  <2>1. n \in Nat
    BY RingAssumption
  <2>2. SetStorage(at, n) /\ BumpGeneration(w, at) /\ batch' = batch
    BY <1>2 DEF WriteAt
  <2> QED
    BY <2>1, <2>2, StoreKeepsComplete
<1>3. CASE \E w \in Writers, all \in BOOLEAN : Empty(w, all)
  BY <1>3, CompleteEmpty
<1>4. CASE \E w \in Writers, c \in Clients : Sample(w, c)
  BY <1>4, CompleteSample
<1>5. CASE \E c \in Clients : UpdateIfPresent(c)
  BY <1>5, StutterKeepsComplete DEF UpdateIfPresent, Restamp
<1>6. CASE \E c \in Clients, v \in [Rows -> Versions], newer \in BOOLEAN :
               UpdateIfNewer(c, v, newer)
  BY <1>6, StutterKeepsComplete DEF UpdateIfNewer, Restamp
<1>7. CASE UNCHANGED vars
  BY <1>7, StutterKeepsComplete DEF vars
<1> QED
  BY <1>1, <1>2, <1>3, <1>4, <1>5, <1>6, <1>7 DEF Next, RingNext

\* A stamped handle stays live for as long as its record is stored.
THEOREM HandlesAreComplete == Spec => []HandleComplete
<1>1. CompleteInv => HandleComplete
  BY DEF CompleteInv
<1> QED
  BY <1>1, CompleteInit, CompleteNext, PTL DEF Spec

-----------------------------------------------------------------------------
\* What an update patches are slots named by live rows, and those still hold
\* the record of the row.
LEMMA PatchedRowsAreSampled ==
    ASSUME SoundInv(Clients), NEW c \in Clients, NEW rows \in SUBSET LiveRows(c),
           NEW by \in Scatters(c, rows), NEW s \in DOMAIN by
    PROVE  \E i \in Rows : batch[c][i].slot = s /\ batch[c][i].rec = rec[s]
<1>1. by[s] \in rows /\ batch[c][by[s]].slot = s
  BY DEF Scatters
<1>2. by[s] \in Rows /\ Live(batch[c][by[s]])
  BY <1>1 DEF LiveRows
<1> QED
  BY <1>1, <1>2 DEF SoundInv, SoundFor

LEMMA PatchesLandStep ==
    ASSUME SoundInv(Clients), NEW c \in Clients,
           \/ UpdateIfPresent(c)
           \/ \E v \in [Rows -> Versions], newer \in BOOLEAN : UpdateIfNewer(c, v, newer),
           NEW s \in Refreshed
    PROVE  \E i \in Rows : batch[c][i].slot = s /\ batch[c][i].rec = rec[s]
<1>1. s \in Slots /\ (patchedBy'[s] # patchedBy[s] \/ version'[s] # version[s])
  BY DEF Refreshed
<1>2. CASE UpdateIfPresent(c)
  <2>1. PICK by \in Scatters(c, LiveRows(c)) : ApplyPatch(by)
    BY <1>2 DEF UpdateIfPresent
  <2>2. s \in DOMAIN by
    BY <1>1, <1>2, <2>1 DEF ApplyPatch, UpdateIfPresent
  <2> QED
    BY <2>1, <2>2, PatchedRowsAreSampled
<1>3. ASSUME NEW v \in [Rows -> Versions], NEW newer \in BOOLEAN, UpdateIfNewer(c, v, newer)
      PROVE  \E i \in Rows : batch[c][i].slot = s /\ batch[c][i].rec = rec[s]
  <2>1. PICK by \in Scatters(c, Updated(c, v, newer)) :
            /\ ApplyPatch(by)
            /\ version' = [t \in Slots |-> IF t \in DOMAIN by THEN v[by[t]]
                                                             ELSE version[t]]
    BY <1>3 DEF UpdateIfNewer
  <2>2. s \in DOMAIN by
    BY <1>1, <2>1 DEF ApplyPatch
  <2>3. Updated(c, v, newer) \in SUBSET LiveRows(c)
    BY DEF Updated
  <2> QED
    BY <2>1, <2>2, <2>3, PatchedRowsAreSampled
<1> QED
  BY <1>2, <1>3

\* A conditional update never modifies a record its caller did not sample.
THEOREM PatchesLand == Spec => PatchesLandOnSampledRecords
<1> DEFINE A == \A c \in Clients :
                   \/ UpdateIfPresent(c)
                   \/ \E v \in [Rows -> Versions], newer \in BOOLEAN :
                          UpdateIfNewer(c, v, newer)
                   => \A s \in Refreshed :
                          \E i \in Rows : /\ batch[c][i].slot = s
                                         /\ batch[c][i].rec = rec[s]
<1>1. SoundInv(Clients) => A
  BY PatchesLandStep
<1>2. SoundInv(Clients) /\ [Next]_vars => [A]_vars
  BY <1>1
<1> QED
  BY <1>2, SoundInit, SoundNext, PTL DEF Spec, PatchesLandOnSampledRecords

-----------------------------------------------------------------------------
\* Versions: a write gives the slots it hits another record, so only a
\* conditional update can change the version of a record that stays.
LEMMA StoreKeepsVersions ==
    ASSUME CompleteInv, NEW n \in Nat, NEW at \in [0 .. n - 1 -> Slots],
           SetStorage(at, n), NEW s \in Slots, rec'[s] = rec[s]
    PROVE  version'[s] = version[s]
<1>1. /\ rec[s] \in Nat /\ written \in Nat /\ rec[s] <= written
      /\ \A t \in Hit(at) : rec'[t] \in Nat /\ rec'[t] > written
  BY SetStorageEffect DEF CompleteInv, TypeOK, RecordsKnown, Hit
<1>2. s \notin Hit(at)
  BY <1>1
<1> QED
  BY <1>2 DEF SetStorage

LEMMA VersionsStep ==
    ASSUME CompleteInv, Next, NEW s \in Slots, rec'[s] = rec[s], rec[s] # NoRecord
    PROVE  version'[s] >= version[s]
<1>1. version[s] \in Nat
  BY DEF CompleteInv, TypeOK
<1>2. ASSUME NEW w \in Writers, NEW n \in 1 .. MaxBatch, Write(w, n)
      PROVE  version'[s] = version[s]
  <2>1. n \in Nat
    BY RingAssumption
  <2>2. RingRows(w, n) \in [0 .. n - 1 -> Slots]
    BY <2>1, RingRowsAreSlots DEF CompleteInv, TypeOK
  <2>3. SetStorage(RingRows(w, n), n)
    BY <1>2 DEF Write
  <2> QED
    BY <2>1, <2>2, <2>3, StoreKeepsVersions
<1>3. ASSUME NEW w \in Writers, NEW n \in 1 .. MaxBatch,
             NEW at \in [0 .. n - 1 -> Slots], WriteAt(w, n, at)
      PROVE  version'[s] = version[s]
  <2>1. n \in Nat
    BY RingAssumption
  <2>2. SetStorage(at, n)
    BY <1>3 DEF WriteAt
  <2> QED
    BY <2>1, <2>2, StoreKeepsVersions
<1>4. ASSUME NEW w \in Writers, NEW all \in BOOLEAN, Empty(w, all)
      PROVE  FALSE
  BY <1>4 DEF Empty, NoRecord
<1>5. ASSUME NEW c \in Clients, NEW v \in [Rows -> Versions], NEW newer \in BOOLEAN,
             UpdateIfNewer(c, v, newer)
      PROVE  version'[s] >= version[s]
  <2>1. PICK by \in Scatters(c, Updated(c, v, newer)) :
            version' = [t \in Slots |-> IF t \in DOMAIN by THEN v[by[t]]
                                                           ELSE version[t]]
    BY <1>5 DEF UpdateIfNewer
  <2>2. CASE s \in DOMAIN by
    <3>1. by[s] \in Updated(c, v, newer) /\ batch[c][by[s]].slot = s
      BY <2>2 DEF Scatters
    <3>2. by[s] \in Rows /\ Favourable(v[by[s]], version[s], newer)
      BY <3>1 DEF Updated, LiveRows
    <3>3. v[by[s]] \in Nat /\ version'[s] = v[by[s]]
      BY <2>1, <2>2, <3>2, RingAssumption DEF Versions
    <3> QED
      BY <1>1, <3>2, <3>3 DEF Favourable
  <2>3. CASE s \notin DOMAIN by
    BY <1>1, <2>1, <2>3
  <2> QED
    BY <2>2, <2>3
<1>6. ASSUME NEW w \in Writers, NEW c \in Clients, Sample(w, c)
      PROVE  version'[s] = version[s]
  BY <1>6 DEF Sample
<1>7. ASSUME NEW c \in Clients, UpdateIfPresent(c)
      PROVE  version'[s] = version[s]
  BY <1>7 DEF UpdateIfPresent
<1> QED
  BY <1>1, <1>2, <1>3, <1>4, <1>5, <1>6, <1>7 DEF Next, RingNext

\* A record's version never goes down while the record is stored.
THEOREM VersionsAreMonotone == Spec => VersionsNeverRegress
<1> DEFINE A == \A s \in Slots :
                   rec'[s] = rec[s] /\ rec[s] # NoRecord => version'[s] >= version[s]
<1>1. CompleteInv /\ [Next]_vars => [A]_vars
  BY VersionsStep
<1> QED
  BY <1>1, CompleteInit, CompleteNext, PTL DEF Spec, VersionsNeverRegress

-----------------------------------------------------------------------------
\* Of the live rows that name a slot one is the best, so the row a slot holds is the
\* one reported.
LEMMA BestRowIsUnique ==
    ASSUME NEW c \in Clients, NEW v \in [Rows -> Versions], NEW newer \in BOOLEAN,
           NEW i \in Updated(c, v, newer), NEW j \in Updated(c, v, newer),
           batch[c][i].slot = batch[c][j].slot
    PROVE  i = j
<1>1. i \in LiveRows(c) /\ j \in LiveRows(c) /\ BestRow(c, v, i) /\ BestRow(c, v, j)
  BY DEF Updated
<1>2. /\ i \in RowsOn(c, LiveRows(c), batch[c][j].slot)
      /\ j \in RowsOn(c, LiveRows(c), batch[c][i].slot)
  BY <1>1 DEF RowsOn
<1>3. i \in Nat /\ j \in Nat /\ v[i] \in Nat /\ v[j] \in Nat
  BY <1>1, RingAssumption DEF LiveRows, Rows, Versions
<1>4. /\ v[j] < v[i] \/ (v[j] = v[i] /\ j <= i)
      /\ v[i] < v[j] \/ (v[i] = v[j] /\ i <= j)
  BY <1>1, <1>2 DEF BestRow
<1> QED
  BY ONLY <1>3, <1>4

LEMMA ReportIsTrue ==
    ASSUME TypeOK, NEW c \in Clients, NEW v \in [Rows -> Versions], NEW newer \in BOOLEAN,
           UpdateIfNewer(c, v, newer), NEW i \in Updated(c, v, newer)
    PROVE  /\ patchedBy'[batch[c][i].slot] = i
           /\ version'[batch[c][i].slot] = v[i]
<1> DEFINE s == batch[c][i].slot
<1>1. PICK by \in Scatters(c, Updated(c, v, newer)) :
          /\ ApplyPatch(by)
          /\ version' = [t \in Slots |-> IF t \in DOMAIN by THEN v[by[t]] ELSE version[t]]
  BY DEF UpdateIfNewer
<1>2. s \in Slots
  BY DEF Updated, LiveRows, TypeOK, Handle
<1>3. s \in DOMAIN by /\ by[s] \in Updated(c, v, newer) /\ batch[c][by[s]].slot = s
  BY DEF Scatters
<1>4. by[s] = i
  BY <1>3, BestRowIsUnique
<1> QED
  BY <1>1, <1>2, <1>3, <1>4 DEF ApplyPatch

\* The result of a versioned update names the rows it wrote, also where rows of the
\* call share a slot and torch leaves the order of the scatter open.
THEOREM ReportsAreTruthful == Spec => ReportsWhatItWrote
<1> DEFINE A == \A c \in Clients, v \in [Rows -> Versions], newer \in BOOLEAN :
                   UpdateIfNewer(c, v, newer) =>
                       \A i \in Updated(c, v, newer) :
                           /\ patchedBy'[batch[c][i].slot] = i
                           /\ version'[batch[c][i].slot] = v[i]
<1>1. TypeOK => A
  BY ReportIsTrue
<1>2. TypeOK /\ [Next]_vars => [A]_vars
  BY <1>1
<1> QED
  BY <1>2, TypeInit, TypeNext, PTL DEF Spec, ReportsWhatItWrote

-----------------------------------------------------------------------------
(***************************************************************************)
(* Checkpoints.                                                            *)
(***************************************************************************)
Checkpoint ==
    [len : 0 .. Capacity, rec : [Slots -> Nat], version : [Slots -> Nat],
     patchedBy : [Slots -> 0 .. BatchSize], cursor : Slots, writeCount : Nat,
     stamped : BOOLEAN, gen : [Slots -> Int]]

\* The inductive invariant behind FreshHandlesSound: what was sampled before a load
\* may be ahead of its slot after it, what was sampled since is not.
FreshInv == ckpt \in Checkpoint /\ fresh \in SUBSET Clients /\ SoundInv(fresh)

\* A ring that is not full is filled from its first slot on.
FilledFromStart(at, n, records) ==
    /\ n < Capacity => at = n
    /\ \A s \in Slots : s < n => records[s] # NoRecord

\* The inductive invariant behind ReadableSlotsAreWritten.
FilledInv ==
    /\ TypeOK /\ ckpt \in Checkpoint
    /\ FilledFromStart(cursor[TheWriter], len, rec)
    /\ FilledFromStart(ckpt.cursor, ckpt.len, ckpt.rec)

OneWriter == \E w : Writers = {w}

\* Checkpoints hold what the variables of the buffer may hold.
LEMMA CheckpointTyped ==
    ASSUME TypeOK, NEW w \in Writers, NEW stamped \in BOOLEAN
    PROVE  StateDict(w, stamped) \in Checkpoint
BY DEF TypeOK, StateDict, Checkpoint

\* Loading a checkpoint keeps the types.
LEMMA TypeLoad ==
    ASSUME TypeOK, ckpt \in Checkpoint, NEW w \in Writers, Load(w)
    PROVE  TypeOK'
<1>1. /\ ckpt.len \in 0 .. Capacity /\ ckpt.rec \in [Slots -> Nat]
      /\ ckpt.version \in [Slots -> Nat] /\ ckpt.patchedBy \in [Slots -> 0 .. BatchSize]
      /\ ckpt.cursor \in Slots /\ ckpt.writeCount \in Nat /\ ckpt.gen \in [Slots -> Int]
  BY DEF Checkpoint
<1>2. cursor' \in [Writers -> Slots] /\ writeCount' \in [Writers -> Nat]
  <2>1. /\ cursor' = [cursor EXCEPT ![w] = ckpt.cursor]
        /\ writeCount' = [writeCount EXCEPT ![w] = ckpt.writeCount]
    BY DEF Load, RestoreWriter
  <2> QED
    BY <1>1, <2>1 DEF TypeOK
<1>3. installed' \in BOOLEAN /\ gen' \in [Slots -> Int]
  BY <1>1 DEF Load, LoadGenerations, TypeOK
<1> QED
  BY <1>1, <1>2, <1>3 DEF Load, TypeOK

LEMMA CheckpointInit == CInit => TypeOK /\ ckpt \in Checkpoint /\ fresh = {}
BY TypeInit, CheckpointTyped DEF CInit

LEMMA CheckpointNext ==
    ASSUME TypeOK, ckpt \in Checkpoint, [CNext]_cvars
    PROVE  TypeOK' /\ ckpt' \in Checkpoint
<1>1. ASSUME RingNext, UNCHANGED ckpt PROVE TypeOK' /\ ckpt' \in Checkpoint
  BY <1>1, TypeNext DEF Next
<1>2. ASSUME NEW w \in Writers, NEW stamped \in CheckpointKinds, Save(w, stamped)
      PROVE  TypeOK' /\ ckpt' \in Checkpoint
  <2>1. TypeOK'
    BY <1>2, TypeNext DEF Save
  <2> QED
    BY <1>2, <2>1, CheckpointTyped, CheckpointAssumption DEF Save
<1>3. ASSUME NEW w \in Writers, Load(w) PROVE TypeOK' /\ ckpt' \in Checkpoint
  BY <1>3, TypeLoad DEF Load
<1>4. CASE UNCHANGED cvars
  BY <1>4, TypeNext DEF cvars
<1> QED
  BY <1>1, <1>2, <1>3, <1>4 DEF CNext

\* Steps of the buffer, as far as the handles sampled since the last load go.
LEMMA FreshRing ==
    ASSUME NEW D \in SUBSET Clients, SoundInv(D), RingNext
    PROVE  \/ UNCHANGED batch /\ SoundInv(D)'
           \/ \E c \in Clients : /\ SoundInv(D \cup {c})'
                                 /\ \A d \in Clients \ {c} : batch'[d] = batch[d]
<1>0. TypeOK'
  BY TypeNext DEF SoundInv, Next
<1>1. ASSUME NEW w \in Writers, NEW n \in 1 .. MaxBatch, Write(w, n)
      PROVE  UNCHANGED batch /\ SoundInv(D)'
  <2>1. n \in Nat
    BY RingAssumption
  <2>2. RingRows(w, n) \in [0 .. n - 1 -> Slots]
    BY <2>1, RingRowsAreSlots DEF SoundInv, TypeOK
  <2>3. SetStorage(RingRows(w, n), n) /\ BumpGeneration(w, RingRows(w, n)) /\ batch' = batch
    BY <1>1 DEF Write
  <2>4. UninstalledUnstamped' /\ StampsBelow(D)' /\ SoundFor(D)'
    BY <2>1, <2>2, <2>3, StoreKeepsHandles
  <2> QED
    BY <1>0, <2>3, <2>4 DEF SoundInv
<1>2. ASSUME NEW w \in Writers, NEW all \in BOOLEAN, Empty(w, all)
      PROVE  UNCHANGED batch /\ SoundInv(D)'
  <2>1. UninstalledUnstamped' /\ StampsBelow(D)' /\ SoundFor(D)'
    BY <1>2, SoundEmpty
  <2> QED
    BY <1>0, <1>2, <2>1 DEF SoundInv, Empty
<1>3. ASSUME NEW w \in Writers, NEW c \in Clients, Sample(w, c)
      PROVE  /\ SoundInv(D \cup {c})'
             /\ \A d \in Clients \ {c} : batch'[d] = batch[d]
  <2>1. UninstalledUnstamped' /\ StampsBelow(D \cup {c})' /\ SoundFor(D \cup {c})'
    BY <1>3, SoundSample
  <2>2. \A d \in Clients \ {c} : batch'[d] = batch[d]
    BY <1>3 DEF Sample, SoundInv, TypeOK
  <2> QED
    BY <1>0, <2>1, <2>2 DEF SoundInv
<1>4. ASSUME NEW c \in Clients, \/ UpdateIfPresent(c)
                                \/ \E v \in [Rows -> Versions], newer \in BOOLEAN :
                                       UpdateIfNewer(c, v, newer)
      PROVE  UNCHANGED batch /\ SoundInv(D)'
  <2>1. UNCHANGED <<gen, installed, rec, batch>>
    BY <1>4 DEF UpdateIfPresent, UpdateIfNewer, Restamp
  <2>2. UninstalledUnstamped' /\ StampsBelow(D)' /\ SoundFor(D)'
    BY <2>1, StutterKeepsHandles
  <2> QED
    BY <1>0, <2>1, <2>2 DEF SoundInv
<1> QED
  BY <1>1, <1>2, <1>3, <1>4 DEF RingNext

LEMMA SoundForFewer ==
    ASSUME NEW D, NEW E \in SUBSET D, SoundInv(D)
    PROVE  SoundInv(E)
BY DEF SoundInv, StampsBelow, SoundFor

LEMMA FreshNext == FreshInv /\ [CNext]_cvars => FreshInv'
<1> SUFFICES ASSUME FreshInv, [CNext]_cvars PROVE FreshInv'
  OBVIOUS
<1>1. TypeOK' /\ ckpt' \in Checkpoint
  BY CheckpointNext DEF FreshInv, SoundInv
<1> SUFFICES fresh' \in SUBSET Clients /\ SoundInv(fresh)'
  BY <1>1 DEF FreshInv
<1>2. PICK D \in SUBSET Clients : D = fresh /\ SoundInv(D)
  BY DEF FreshInv
<1>3. CASE /\ RingNext
           /\ fresh' = IF batch' = batch THEN fresh
                       ELSE fresh \cup {c \in Clients : batch'[c] # batch[c]}
  <2>1. CASE UNCHANGED batch /\ SoundInv(D)'
    <3>1. fresh' = D
      BY <1>2, <1>3, <2>1
    <3> QED
      BY <1>2, <2>1, <3>1 DEF SoundInv, StampsBelow, SoundFor
  <2>2. ASSUME NEW c \in Clients, SoundInv(D \cup {c})',
               \A d \in Clients \ {c} : batch'[d] = batch[d]
        PROVE  fresh' \in SUBSET Clients /\ SoundInv(fresh)'
    <3>1. PICK E \in SUBSET (D \cup {c}) : E = fresh'
      BY <1>2, <1>3, <2>2
    <3>2. SoundInv(E)'
      BY <2>2 DEF SoundInv, StampsBelow, SoundFor
    <3> QED
      BY <3>1, <3>2 DEF SoundInv, StampsBelow, SoundFor
  <2> QED
    BY <1>2, <1>3, <2>1, <2>2, FreshRing
<1>4. ASSUME NEW w \in Writers, NEW stamped \in CheckpointKinds, Save(w, stamped)
      PROVE  fresh' \in SUBSET Clients /\ SoundInv(fresh)'
  <2>1. fresh' = D /\ UNCHANGED <<gen, installed, rec, batch>>
    BY <1>2, <1>4 DEF Save, vars
  <2>2. UninstalledUnstamped' /\ StampsBelow(D)' /\ SoundFor(D)'
    BY <1>2, <2>1, StutterKeepsHandles
  <2> QED
    BY <1>1, <2>1, <2>2 DEF SoundInv, StampsBelow, SoundFor
<1>5. ASSUME NEW w \in Writers, Load(w)
      PROVE  fresh' \in SUBSET Clients /\ SoundInv(fresh)'
  <2>1. fresh' = {}
    BY <1>5 DEF Load
  <2>2. UninstalledUnstamped'
    BY <1>2, <1>5 DEF Load, LoadGenerations, SoundInv, UninstalledUnstamped
  <2> QED
    BY <1>1, <2>1, <2>2 DEF SoundInv, StampsBelow, SoundFor
<1>6. CASE UNCHANGED cvars
  <2>1. fresh' = D /\ UNCHANGED <<gen, installed, rec, batch>>
    BY <1>2, <1>6 DEF cvars, vars
  <2>2. UninstalledUnstamped' /\ StampsBelow(D)' /\ SoundFor(D)'
    BY <1>2, <2>1, StutterKeepsHandles
  <2> QED
    BY <1>1, <2>1, <2>2 DEF SoundInv, StampsBelow, SoundFor
<1> QED
  BY <1>3, <1>4, <1>5, <1>6 DEF CNext

\* A handle sampled since the last load is live only while its record is stored,
\* whatever checkpoint was loaded and however many writers share the storage: the
\* stamps go back with the load, and every handle read after it with them.
THEOREM FreshHandlesAreSound == CSpec => []FreshHandlesSound
<1>1. CInit => FreshInv
  <2> SUFFICES ASSUME CInit PROVE FreshInv
    OBVIOUS
  <2>1. TypeOK /\ ckpt \in Checkpoint /\ fresh = {}
    BY CheckpointInit
  <2>2. UninstalledUnstamped
    BY DEF CInit, Init, UninstalledUnstamped
  <2> QED
    BY <2>1, <2>2 DEF FreshInv, SoundInv, StampsBelow, SoundFor
<1>2. FreshInv => FreshHandlesSound
  BY DEF FreshInv, SoundInv, SoundFor, FreshHandlesSound
<1> QED
  BY <1>1, <1>2, FreshNext, PTL DEF CSpec

-----------------------------------------------------------------------------
\* Where a slot number lands that is at most one round off the ring.
LEMMA ModCases ==
    ASSUME NEW x \in Int
    PROVE  /\ 0 <= x /\ x < Capacity => x % Capacity = x
           /\ Capacity <= x /\ x < 2 * Capacity => x % Capacity = x - Capacity
           /\ 0 - Capacity <= x /\ x < 0 => x % Capacity = x + Capacity
BY RingAssumption

LEMMA TheOnlyWriter ==
    ASSUME OneWriter
    PROVE  TheWriter \in Writers /\ \A w \in Writers : w = TheWriter
BY DEF OneWriter, TheWriter

\* A write through the only writer leaves no gap below the length.
LEMMA FilledWrite ==
    ASSUME TypeOK, OneWriter, FilledFromStart(cursor[TheWriter], len, rec),
           NEW w \in Writers, NEW n \in 1 .. MaxBatch, Write(w, n)
    PROVE  FilledFromStart(cursor[TheWriter], len, rec)'
<1> DEFINE at == cursor[w]
<1>0. w = TheWriter /\ w \in Writers
  BY TheOnlyWriter
<1>1. n \in Nat /\ n > 0 /\ Capacity \in Nat /\ Capacity > 0
  BY RingAssumption
<1>2. at \in Nat /\ at < Capacity /\ len \in Nat /\ len <= Capacity /\ cursor \in [Writers -> Slots]
  <2>1. cursor \in [Writers -> Slots] /\ len \in 0 .. Capacity
    BY DEF TypeOK
  <2>2. at \in 0 .. Capacity - 1
    BY <2>1 DEF Slots
  <2> QED
    BY <1>1, <2>1, <2>2
<1>3. /\ len < Capacity => at = len
      /\ \A s \in Slots : s < len => rec[s] # NoRecord
  BY <1>0 DEF FilledFromStart
<1>4. cursor'[w] = (n + at) % Capacity /\ len' = IF len + n < Capacity THEN len + n ELSE Capacity
  <2>1. cursor' = [cursor EXCEPT ![w] = NextCursor(w, n)]
    BY DEF Write
  <2>2. cursor'[w] = (n + at) % Capacity
    BY <1>2, <2>1 DEF NextCursor
  <2> QED
    BY <2>2, <1>1, <1>2 DEF Write, NewLen, Smaller
<1>5. len' < Capacity => cursor'[w] = len'
  <2> SUFFICES ASSUME len' < Capacity PROVE cursor'[w] = len'
    OBVIOUS
  <2> HIDE DEF at
  <2>1. len + n < Capacity /\ len' = len + n /\ at = len
    BY <1>1, <1>2, <1>3, <1>4
  <2>2. n + at \in Int /\ 0 <= n + at /\ n + at < Capacity
    BY <1>1, <1>2, <2>1
  <2>3. (n + at) % Capacity = n + at
    BY <2>2, ModCases
  <2> QED
    BY <1>1, <1>2, <1>4, <2>1, <2>3
<1>6. RingRows(w, n) \in [0 .. n - 1 -> Slots]
  BY <1>1, <1>2, RingRowsAreSlots
<1>7. /\ \A s \in Slots \ Hit(RingRows(w, n)) : rec'[s] = rec[s]
      /\ \A s \in Hit(RingRows(w, n)) : rec'[s] > written
      /\ rec' \in [Slots -> Nat] /\ written \in Nat
  BY <1>1, <1>6, SetStorageEffect DEF Write, TypeOK
<1>8. ASSUME NEW s \in Slots, s < len' PROVE rec'[s] # NoRecord
  <2>0. s \in Nat /\ s < Capacity
    BY <1>1 DEF Slots
  <2>1. CASE s \in Hit(RingRows(w, n))
    BY <1>7, <2>1 DEF NoRecord
  <2>2. CASE s \notin Hit(RingRows(w, n))
    <3>1. SUFFICES ASSUME len <= s PROVE FALSE
      BY <1>2, <1>3, <1>7, <2>0, <2>2
    <3> DEFINE i == s - len
    <3> HIDE DEF at
    <3>2. at = len /\ i \in 0 .. n - 1 /\ at + i = s
      BY <1>1, <1>2, <1>3, <1>4, <1>8, <2>0, <3>1
    <3>3. (at + i) % Capacity = s
      <4>1. s % Capacity = s
        BY <2>0, ModCases
      <4> QED
        BY <3>2, <4>1
    <3>4. RingRows(w, n)[i] = s
      BY <3>2, <3>3 DEF RingRows, at
    <3>5. i \in Hits(RingRows(w, n), s)
      BY <1>6, <3>2, <3>4 DEF Hits
    <3> QED
      BY <2>2, <3>5 DEF Hit
  <2> QED
    BY <2>1, <2>2
<1> QED
  BY <1>0, <1>5, <1>8 DEF FilledFromStart

LEMMA FilledNext == OneWriter /\ FilledInv /\ [CNext]_cvars => FilledInv'
<1> SUFFICES ASSUME OneWriter, FilledInv, [CNext]_cvars PROVE FilledInv'
  OBVIOUS
<1>1. TypeOK' /\ ckpt' \in Checkpoint
  BY CheckpointNext DEF FilledInv
<1> SUFFICES /\ FilledFromStart(cursor[TheWriter], len, rec)'
             /\ FilledFromStart(ckpt.cursor, ckpt.len, ckpt.rec)'
  BY <1>1 DEF FilledInv
<1>2. /\ TypeOK /\ ckpt \in Checkpoint
      /\ FilledFromStart(cursor[TheWriter], len, rec)
      /\ FilledFromStart(ckpt.cursor, ckpt.len, ckpt.rec)
  BY DEF FilledInv
<1>3. CASE RingNext /\ UNCHANGED ckpt
  <2> SUFFICES FilledFromStart(cursor[TheWriter], len, rec)'
    BY <1>2, <1>3 DEF FilledFromStart
  <2>1. ASSUME NEW w \in Writers, NEW n \in 1 .. MaxBatch, Write(w, n)
        PROVE  FilledFromStart(cursor[TheWriter], len, rec)'
    BY <1>2, <2>1, FilledWrite
  <2>2. ASSUME NEW w \in Writers, NEW all \in BOOLEAN, Empty(w, all)
        PROVE  FilledFromStart(cursor[TheWriter], len, rec)'
    <3>1. len' = 0 /\ cursor' = [cursor EXCEPT ![w] = 0]
      BY <2>2 DEF Empty, RewindCursor
    <3>2. cursor'[TheWriter] = 0
      BY <1>2, <3>1, TheOnlyWriter DEF TypeOK
    <3> QED
      BY <3>1, <3>2 DEF FilledFromStart, Slots
  <2>3. ASSUME UNCHANGED <<cursor, len, rec>>
        PROVE  FilledFromStart(cursor[TheWriter], len, rec)'
    BY <1>2, <2>3 DEF FilledFromStart
  <2> QED
    BY <1>3, <2>1, <2>2, <2>3 DEF RingNext, Sample, UpdateIfPresent, UpdateIfNewer
<1>4. ASSUME NEW w \in Writers, NEW stamped \in CheckpointKinds, Save(w, stamped)
      PROVE  /\ FilledFromStart(cursor[TheWriter], len, rec)'
             /\ FilledFromStart(ckpt.cursor, ckpt.len, ckpt.rec)'
  <2>1. UNCHANGED <<cursor, len, rec>>
    BY <1>4 DEF Save, vars
  <2>2. ckpt'.cursor = cursor[TheWriter] /\ ckpt'.len = len /\ ckpt'.rec = rec
    BY <1>4, TheOnlyWriter DEF Save, StateDict
  <2> QED
    BY <1>2, <2>1, <2>2 DEF FilledFromStart
<1>5. ASSUME NEW w \in Writers, Load(w)
      PROVE  /\ FilledFromStart(cursor[TheWriter], len, rec)'
             /\ FilledFromStart(ckpt.cursor, ckpt.len, ckpt.rec)'
  <2>1. len' = ckpt.len /\ rec' = ckpt.rec /\ ckpt' = ckpt
    BY <1>5 DEF Load
  <2>2. cursor' = [cursor EXCEPT ![w] = ckpt.cursor]
    BY <1>5 DEF Load, RestoreWriter
  <2>3. cursor'[TheWriter] = ckpt.cursor
    BY <1>2, <2>2, TheOnlyWriter DEF TypeOK
  <2> QED
    BY <1>2, <2>1, <2>3 DEF FilledFromStart
<1>6. CASE UNCHANGED cvars
  BY <1>2, <1>6 DEF cvars, vars, FilledFromStart
<1> QED
  BY <1>3, <1>4, <1>5, <1>6 DEF CNext

LEMMA FilledInit == OneWriter /\ CInit => FilledInv
<1> SUFFICES ASSUME OneWriter, CInit PROVE FilledInv
  OBVIOUS
<1>1. TypeOK /\ ckpt \in Checkpoint
  BY CheckpointInit
<1>2. cursor[TheWriter] = 0 /\ len = 0
  BY TheOnlyWriter DEF CInit, Init
<1>3. ckpt.cursor = 0 /\ ckpt.len = 0
  BY <1>2, TheOnlyWriter DEF CInit, StateDict
<1> QED
  BY <1>1, <1>2, <1>3 DEF FilledInv, FilledFromStart, Slots

\* A sampler never reads a slot that was not written since the buffer was emptied, also
\* after checkpoints were loaded: of a storage with one writer, written in ring order.
THEOREM NoGapBelowTheLength == ASSUME OneWriter PROVE CSpec => []ReadableSlotsAreWritten
<1>1. FilledInv => ReadableSlotsAreWritten
  BY DEF FilledInv, FilledFromStart, ReadableSlotsAreWritten
<1>2. CInit => FilledInv
  BY FilledInit
<1>3. FilledInv /\ [CNext]_cvars => FilledInv'
  BY FilledNext
<1> QED
  BY <1>1, <1>2, <1>3, PTL DEF CSpec

-----------------------------------------------------------------------------
(***************************************************************************)
(* The ring keeps the most recent records: GenerationRingCheckpoint        *)
(* implements RecentWindow.                                                *)
(***************************************************************************)
\* Slot numbers less than a round apart are different slots.
LEMMA ModApart ==
    ASSUME NEW x \in Int, NEW y \in Int, 0 - Capacity <= y, y < x,
           x < 2 * Capacity, x - y < Capacity
    PROVE  x % Capacity # y % Capacity
<1>1. Capacity \in Nat /\ Capacity > 0
  BY RingAssumption
<1>2. /\ 0 <= x /\ x < Capacity => x % Capacity = x
      /\ Capacity <= x /\ x < 2 * Capacity => x % Capacity = x - Capacity
      /\ 0 - Capacity <= x /\ x < 0 => x % Capacity = x + Capacity
  BY ModCases
<1>3. /\ 0 <= y /\ y < Capacity => y % Capacity = y
      /\ Capacity <= y /\ y < 2 * Capacity => y % Capacity = y - Capacity
      /\ 0 - Capacity <= y /\ y < 0 => y % Capacity = y + Capacity
  BY ModCases
<1> DEFINE p == x % Capacity
           q == y % Capacity
<1> SUFFICES p # q
  OBVIOUS
<1> HIDE DEF p, q
<1>4. /\ 0 <= x /\ x < Capacity => p = x
      /\ Capacity <= x /\ x < 2 * Capacity => p = x - Capacity
      /\ 0 - Capacity <= x /\ x < 0 => p = x + Capacity
  BY <1>2 DEF p
<1>5. /\ 0 <= y /\ y < Capacity => q = y
      /\ Capacity <= y /\ y < 2 * Capacity => q = y - Capacity
      /\ 0 - Capacity <= y /\ y < 0 => q = y + Capacity
  BY <1>3 DEF q
<1> QED
  BY ONLY x \in Int, y \in Int, 0 - Capacity <= y, y < x,
          x < 2 * Capacity, x - y < Capacity, <1>1, <1>4, <1>5

\* Going one round back leads to the same slot.
LEMMA ModRound ==
    ASSUME NEW x \in Int, 0 <= x, x < 2 * Capacity
    PROVE  (x - Capacity) % Capacity = x % Capacity
<1>1. Capacity \in Nat /\ Capacity > 0
  BY RingAssumption
<1>2. CASE x < Capacity
  <2>1. (x - Capacity) % Capacity = (x - Capacity) + Capacity
    BY <1>1, <1>2, ModCases
  <2>2. x % Capacity = x
    BY <1>2, ModCases
  <2> QED
    BY <1>1, <2>1, <2>2
<1>3. CASE Capacity <= x
  <2>1. (x - Capacity) % Capacity = x - Capacity
    BY <1>1, <1>3, ModCases
  <2>2. x % Capacity = x - Capacity
    BY <1>1, <1>3, ModCases
  <2> QED
    BY <2>1, <2>2
<1> QED
  BY <1>1, <1>2, <1>3

\* A write no longer than the ring stores row i at the i-th slot from the cursor and
\* leaves the records of the other slots alone.
LEMMA RingWriteStores ==
    ASSUME TypeOK, NEW w \in Writers, NEW n \in 1 .. Capacity, Write(w, n)
    PROVE  /\ \A i \in 0 .. n - 1 : rec'[(cursor[w] + i) % Capacity] = written + 1 + i
           /\ \A x \in Int : cursor[w] + n - Capacity <= x /\ x < cursor[w]
                               => rec'[x % Capacity] = rec[x % Capacity]
<1>1. Capacity \in Nat /\ Capacity > 0 /\ n \in Nat /\ n > 0 /\ n <= Capacity
  BY RingAssumption
<1>2. cursor \in [Writers -> Slots] /\ rec \in [Slots -> Nat] /\ written \in Nat
  BY DEF TypeOK
<1>3. PICK at \in Int : at = cursor[w] /\ 0 <= at /\ at < Capacity
  BY <1>1, <1>2 DEF Slots
<1>4. RingRows(w, n) \in [0 .. n - 1 -> Slots]
  BY <1>1, <1>2, RingRowsAreSlots
<1>5. \A i \in 0 .. n - 1 : RingRows(w, n)[i] = (at + i) % Capacity
  BY <1>3 DEF RingRows
<1>6. PICK row \in Placements(RingRows(w, n)) :
          rec' = [s \in Slots |-> IF s \in Hit(RingRows(w, n)) THEN written + 1 + row[s]
                                                                ELSE rec[s]]
  BY DEF Write, SetStorage
<1>7. \A s \in Hit(RingRows(w, n)) :
          row[s] \in 0 .. n - 1 /\ RingRows(w, n)[row[s]] = s
  BY <1>4, <1>6 DEF Placements
<1>8. ASSUME NEW i \in 0 .. n - 1, NEW j \in 0 .. n - 1, (at + i) % Capacity = (at + j) % Capacity
      PROVE  i = j
  <2>1. at + i \in Int /\ at + j \in Int /\ i \in Int /\ j \in Int
    BY <1>1, <1>3
  <2>2. ~(i < j)
    <3> SUFFICES ASSUME i < j PROVE FALSE
      OBVIOUS
    <3>1. /\ 0 - Capacity <= at + i /\ at + i < at + j
          /\ at + j < 2 * Capacity /\ (at + j) - (at + i) < Capacity
      BY <1>1, <1>3
    <3> QED
      BY <1>8, <2>1, <3>1, ModApart
  <2>3. ~(j < i)
    <3> SUFFICES ASSUME j < i PROVE FALSE
      OBVIOUS
    <3>1. /\ 0 - Capacity <= at + j /\ at + j < at + i
          /\ at + i < 2 * Capacity /\ (at + i) - (at + j) < Capacity
      BY <1>1, <1>3
    <3> QED
      BY <1>8, <2>1, <3>1, ModApart
  <2> QED
    BY <2>1, <2>2, <2>3
<1>9. ASSUME NEW i \in 0 .. n - 1 PROVE rec'[(at + i) % Capacity] = written + 1 + i
  <2> DEFINE s == RingRows(w, n)[i]
  <2>1. s \in Slots /\ s = (at + i) % Capacity
    BY <1>4, <1>5
  <2>2. s \in Hit(RingRows(w, n))
    BY <1>4, <2>1 DEF Hit, Hits
  <2>3. row[s] = i
    <3>1. PICK j \in 0 .. n - 1 : j = row[s] /\ RingRows(w, n)[j] = s
      BY <1>7, <2>2
    <3>2. (at + i) % Capacity = (at + j) % Capacity
      BY <1>5, <2>1, <3>1
    <3> QED
      BY <1>8, <3>1, <3>2
  <2> QED
    BY <1>6, <2>1, <2>2, <2>3
<1>10. ASSUME NEW x \in Int, at + n - Capacity <= x, x < at
       PROVE  rec'[x % Capacity] = rec[x % Capacity]
  <2>1. x % Capacity \in Slots
    BY <1>1 DEF Slots
  <2>2. ASSUME NEW i \in 0 .. n - 1 PROVE RingRows(w, n)[i] # x % Capacity
    <3>1. at + i \in Int
      BY <1>1, <1>3
    <3>2. /\ 0 - Capacity <= x /\ x < at + i
          /\ at + i < 2 * Capacity /\ (at + i) - x < Capacity
      BY <1>1, <1>3, <1>10
    <3>3. (at + i) % Capacity # x % Capacity
      BY <3>1, <3>2, ModApart
    <3> QED
      BY <1>5, <3>3
  <2>3. x % Capacity \notin Hit(RingRows(w, n))
    BY <1>4, <2>2 DEF Hit, Hits
  <2> QED
    BY <1>6, <2>1, <2>3
<1> QED
  BY <1>3, <1>9, <1>10

LEMMA FunctionIsSeq ==
    ASSUME NEW n \in Nat, NEW f \in [1 .. n -> Nat]
    PROVE  f \in Seq(Nat) /\ Len(f) = n
OBVIOUS

LEMMA ContentsAreASeq ==
    ASSUME NEW at \in Int, NEW n \in Nat, NEW records \in [Slots -> Nat]
    PROVE  /\ Contents(at, n, records) \in Seq(Nat)
           /\ Len(Contents(at, n, records)) = n
           /\ \A k \in 1 .. n :
                  Contents(at, n, records)[k] = records[(at - n + k - 1) % Capacity]
<1>1. \A x \in Int : x % Capacity \in Slots
  BY RingAssumption DEF Slots
<1>2. \A k \in 1 .. n : records[(at - n + k - 1) % Capacity] \in Nat
  <2> SUFFICES ASSUME NEW k \in 1 .. n
               PROVE  records[(at - n + k - 1) % Capacity] \in Nat
    OBVIOUS
  <2>1. at - n + k - 1 \in Int
    OBVIOUS
  <2>2. (at - n + k - 1) % Capacity \in Slots
    BY <1>1, <2>1
  <2> QED
    BY <2>2
<1>3. Contents(at, n, records) \in [1 .. n -> Nat]
  BY <1>2 DEF Contents
<1> QED
  BY <1>3, FunctionIsSeq DEF Contents

\* What is left of a sequence when only its newest entries are kept.
LEMMA NewestEntries ==
    ASSUME NEW s \in Seq(Nat), NEW n \in Nat, NEW d \in Nat,
           d = IF Len(s) <= n THEN 0 ELSE Len(s) - n
    PROVE  /\ Recent!Newest(s, n) \in Seq(Nat)
           /\ Len(Recent!Newest(s, n)) = Len(s) - d
           /\ \A k \in 1 .. Len(s) - d : Recent!Newest(s, n)[k] = s[k + d]
<1>0. Len(s) \in Nat
  BY LenProperties
<1>1. CASE Len(s) <= n
  <2>1. Recent!Newest(s, n) = s /\ d = 0
    BY <1>1 DEF Recent!Newest
  <2> QED
    BY <1>0, <2>1
<1>2. CASE ~(Len(s) <= n)
  <2>0. PICK hi \in Nat : hi = Len(s)
    BY <1>0
  <2>1. PICK lo \in Nat : lo = d + 1 /\ hi = Len(s)
    BY ONLY <2>0, d \in Nat
  <2>2. 1 <= lo /\ lo <= hi + 1 /\ hi <= Len(s) /\ d = hi - n
    BY <1>2, <2>1
  <2>3. Recent!Newest(s, n) = SubSeq(s, lo, hi)
    <3>1. Len(s) - n + 1 = lo
      BY <1>0, <1>2, <2>1, <2>2
    <3> QED
      BY <1>2, <2>1, <3>1 DEF Recent!Newest
  <2>4. /\ SubSeq(s, lo, hi) \in Seq(Nat)
        /\ Len(SubSeq(s, lo, hi)) = hi - lo + 1
        /\ \A i \in 1 .. hi - lo + 1 : SubSeq(s, lo, hi)[i] = s[lo + i - 1]
    BY <2>2
  <2>5. PICK t \in Seq(Nat) : t = SubSeq(s, lo, hi)
    BY <2>4
  <2>6. Len(t) = hi - lo + 1 /\ \A i \in 1 .. hi - lo + 1 : t[i] = s[lo + i - 1]
    BY <2>4, <2>5
  <2>7. hi - lo + 1 = Len(s) - d
    BY ONLY <2>1, d \in Nat
  <2>8. ASSUME NEW i \in 1 .. hi - lo + 1 PROVE lo + i - 1 = i + d
    BY ONLY <2>1, d \in Nat, i \in 1 .. hi - lo + 1
  <2> QED
    BY <2>3, <2>5, <2>6, <2>7, <2>8
<1> QED
  BY <1>1, <1>2

\* A write appends the new records to the window and drops the oldest.
LEMMA WriteKeepsTheMostRecent ==
    ASSUME TypeOK, OneWriter, FilledFromStart(cursor[TheWriter], len, rec),
           NEW w \in Writers, NEW n \in 1 .. MaxBatch, MaxBatch <= Capacity, Write(w, n)
    PROVE  Contents(cursor[TheWriter], len, rec)' =
               Recent!Newest(Contents(cursor[TheWriter], len, rec)
                                 \o [k \in 1 .. n |-> written + k], Capacity)
<1>1. /\ Capacity \in Nat /\ Capacity > 0 /\ n \in Nat /\ n > 0 /\ n <= Capacity
      /\ n \in 1 .. Capacity
  BY RingAssumption
<1>2. /\ cursor \in [Writers -> Slots] /\ rec \in [Slots -> Nat] /\ written \in Nat
      /\ len \in Nat /\ len <= Capacity
  BY <1>1 DEF TypeOK
<1>3. PICK at \in Int : at = cursor[w] /\ 0 <= at /\ at < Capacity
  BY <1>1, <1>2 DEF Slots
<1>4. w = TheWriter
  BY TheOnlyWriter
<1>5. PICK size \in Nat : size = len' /\ size = IF len + n < Capacity THEN len + n ELSE Capacity
  BY <1>1, <1>2 DEF Write, NewLen, Smaller
<1>6. PICK to \in Int : to = cursor'[w] /\ to = (n + at) % Capacity
  <2>1. cursor' = [cursor EXCEPT ![w] = NextCursor(w, n)]
    BY DEF Write
  <2>2. cursor'[w] = (n + at) % Capacity
    BY <1>2, <1>3, <2>1 DEF NextCursor
  <2> QED
    BY <1>1, <1>3, <2>2
<1>7. to = IF n + at < Capacity THEN n + at ELSE n + at - Capacity
  <2>1. n + at \in Int /\ 0 <= n + at /\ n + at < 2 * Capacity
    BY <1>1, <1>3
  <2> QED
    BY <1>1, <1>6, <2>1, ModCases
<1>8. rec' \in [Slots -> Nat]
  BY <1>1, TypeWrite DEF TypeOK
<1> DEFINE old == Contents(at, len, rec)
           new == [k \in 1 .. n |-> written + k]
           both == old \o new
           d == len + n - size
           after == Contents(to, size, rec')
<1>9. /\ old \in Seq(Nat) /\ Len(old) = len
      /\ \A k \in 1 .. len : old[k] = rec[(at - len + k - 1) % Capacity]
  BY <1>2, ContentsAreASeq
<1>10. /\ new \in Seq(Nat) /\ Len(new) = n
       /\ \A k \in 1 .. n : new[k] = written + k
  <2>1. new \in [1 .. n -> Nat]
    BY <1>2
  <2> QED
    BY <1>1, <2>1, FunctionIsSeq
<1>11. /\ after \in Seq(Nat) /\ Len(after) = size
       /\ \A k \in 1 .. size : after[k] = rec'[(to - size + k - 1) % Capacity]
  BY <1>8, ContentsAreASeq
<1> HIDE DEF old, new, after
<1>12. /\ both \in Seq(Nat) /\ Len(both) = len + n
       /\ \A k \in 1 .. len + n : both[k] = IF k <= len THEN old[k] ELSE new[k - len]
  BY <1>9, <1>10, ConcatProperties
<1>13. d \in Nat /\ d = IF len + n <= Capacity THEN 0 ELSE len + n - Capacity
  BY <1>1, <1>2, <1>5
<1> HIDE DEF both, d
<1>14. /\ Recent!Newest(both, Capacity) \in Seq(Nat)
       /\ Len(Recent!Newest(both, Capacity)) = Len(both) - d
       /\ \A k \in 1 .. Len(both) - d : Recent!Newest(both, Capacity)[k] = both[k + d]
  <2>1. d = IF Len(both) <= Capacity THEN 0 ELSE Len(both) - Capacity
    <3>1. Len(both) = len + n
      BY <1>12
    <3> QED
      BY ONLY <1>1, <1>2, <1>13, <3>1
  <2> QED
    BY <1>1, <1>12, <1>13, <2>1, NewestEntries
<1>15. ASSUME NEW k \in 1 .. size PROVE after[k] = both[k + d]
  <2> DEFINE j == k + d
             x == at - len + j - 1
  <2>1. j \in 1 .. len + n /\ x \in Int /\ k \in Int /\ j \in Int
    BY <1>1, <1>2, <1>5, <1>13
  <2>2. after[k] = rec'[x % Capacity]
    <3>1. after[k] = rec'[(to - size + k - 1) % Capacity]
      BY <1>11
    <3>2. CASE n + at < Capacity
      <4>1. to - size + k - 1 = x
        BY <1>1, <1>2, <1>3, <1>5, <1>7, <3>2 DEF d
      <4> QED
        BY <3>1, <4>1
    <3>3. CASE ~(n + at < Capacity)
      <4>1. to - size + k - 1 = x - Capacity
        BY <1>1, <1>2, <1>3, <1>5, <1>7, <3>3 DEF d
      <4>2. 0 <= x /\ x < 2 * Capacity
        BY <1>1, <1>2, <1>3, <1>5, <3>3 DEF d
      <4>3. (x - Capacity) % Capacity = x % Capacity
        BY <2>1, <4>2, ModRound
      <4> QED
        BY <3>1, <4>1, <4>3
    <3> QED
      BY <3>2, <3>3
  <2>3. CASE j <= len
    <3>1. both[j] = rec[x % Capacity]
      <4>1. j \in 1 .. len
        BY <1>2, <2>1, <2>3
      <4>2. both[j] = old[j]
        BY <1>12, <2>1, <2>3
      <4>3. old[j] = rec[(at - len + j - 1) % Capacity]
        BY <1>9, <4>1
      <4> QED
        BY <4>2, <4>3
    <3>2. at + n - Capacity <= x /\ x < at
      BY <1>1, <1>2, <1>3, <1>5, <2>3 DEF d
    <3>3. rec'[x % Capacity] = rec[x % Capacity]
      BY <1>1, <1>3, <2>1, <3>2, RingWriteStores
    <3> QED
      BY <2>2, <3>1, <3>3
  <2>4. CASE ~(j <= len)
    <3>1. both[j] = written + (j - len)
      <4>1. j - len \in 1 .. n
        BY <1>1, <1>2, <2>1, <2>4
      <4> QED
        BY <1>10, <1>12, <2>1, <2>4, <4>1
    <3> DEFINE i == j - len - 1
    <3>2. i \in 0 .. n - 1 /\ x = at + i
      BY <1>1, <1>2, <1>3, <2>1, <2>4
    <3>3. rec'[x % Capacity] = written + 1 + i
      BY <1>1, <1>3, <3>2, RingWriteStores
    <3>4. written + 1 + i = written + (j - len)
      BY <1>2, <2>1
    <3> QED
      BY <2>2, <3>1, <3>3, <3>4
  <2> QED
    BY <2>3, <2>4
<1>16. Len(both) - d = size
  BY <1>1, <1>2, <1>5, <1>12 DEF d
<1>17. after = Recent!Newest(both, Capacity)
  <2>1. Len(after) = Len(Recent!Newest(both, Capacity))
    BY <1>11, <1>14, <1>16
  <2>2. \A k \in 1 .. Len(after) : after[k] = Recent!Newest(both, Capacity)[k]
    BY <1>11, <1>14, <1>15, <1>16
  <2> QED
    BY <1>11, <1>14, <2>1, <2>2, SeqEqual
<1> QED
  BY <1>3, <1>4, <1>5, <1>6, <1>17 DEF after, both, old, new

\* What a step of the buffer does to the window and to the records handed out.
LEMMA RingStepKeepsTheMostRecent ==
    ASSUME TypeOK, OneWriter, FilledFromStart(cursor[TheWriter], len, rec),
           MaxBatch <= Capacity, RingNext, UNCHANGED <<saved, ckpt>>
    PROVE  \/ \E n \in 1 .. MaxBatch : Recent!Write(n)
           \/ Recent!Clear
           \/ UNCHANGED <<cursor, len, rec, written>>
<1>1. ASSUME NEW w \in Writers, NEW n \in 1 .. MaxBatch, Write(w, n)
      PROVE  Recent!Write(n)
  <2>1. Contents(cursor[TheWriter], len, rec)' =
            Recent!Newest(Contents(cursor[TheWriter], len, rec)
                              \o [k \in 1 .. n |-> written + k], Capacity)
    BY <1>1, WriteKeepsTheMostRecent
  <2>2. written' = written + n
    BY <1>1 DEF Write, SetStorage
  <2> QED
    BY <2>1, <2>2 DEF Recent!Write
<1>2. ASSUME NEW w \in Writers, NEW all \in BOOLEAN, Empty(w, all)
      PROVE  Recent!Clear
  <2>1. len' = 0 /\ written' = written
    BY <1>2 DEF Empty
  <2>2. Contents(cursor[TheWriter], len, rec)' = <<>>
    BY <2>1 DEF Contents
  <2> QED
    BY <2>1, <2>2 DEF Recent!Clear
<1> QED
  BY <1>1, <1>2 DEF RingNext, Sample, UpdateIfPresent, UpdateIfNewer

LEMMA RecentStep ==
    ASSUME OneWriter, FilledInv, MaxBatch <= Capacity, [CNext]_cvars
    PROVE  [Recent!Next]_<<Contents(cursor[TheWriter], len, rec), written,
                           IF saved THEN {Contents(ckpt.cursor, ckpt.len, ckpt.rec)} ELSE {}>>
<1>1. CASE RingNext /\ UNCHANGED <<saved, ckpt>>
  <2>1. \/ \E n \in 1 .. MaxBatch : Recent!Write(n)
        \/ Recent!Clear
        \/ UNCHANGED <<cursor, len, rec, written>>
    BY <1>1, RingStepKeepsTheMostRecent DEF FilledInv
  <2> QED
    BY <1>1, <2>1 DEF Recent!Next
<1>2. ASSUME NEW w \in Writers, NEW stamped \in CheckpointKinds, Save(w, stamped)
      PROVE  Recent!Keep
  <2>1. UNCHANGED <<cursor, len, rec, written>> /\ saved' = TRUE
    BY <1>2 DEF Save, vars
  <2>2. ckpt'.cursor = cursor[TheWriter] /\ ckpt'.len = len /\ ckpt'.rec = rec
    BY <1>2, TheOnlyWriter DEF Save, StateDict
  <2> QED
    BY <2>1, <2>2 DEF Recent!Keep
<1>3. ASSUME NEW w \in Writers, Load(w)
      PROVE  Recent!Restore
  <2>1. /\ len' = ckpt.len /\ rec' = ckpt.rec /\ UNCHANGED <<written, saved, ckpt>> /\ saved
    BY <1>3 DEF Load
  <2>2. cursor' = [cursor EXCEPT ![w] = ckpt.cursor]
    BY <1>3 DEF Load, RestoreWriter
  <2>3. cursor'[TheWriter] = ckpt.cursor
    BY <2>2, TheOnlyWriter DEF FilledInv, TypeOK
  <2> QED
    BY <2>1, <2>3 DEF Recent!Restore
<1>4. CASE UNCHANGED cvars
  BY <1>4 DEF cvars, vars
<1> QED
  BY <1>1, <1>2, <1>3, <1>4 DEF CNext, Recent!Next

\* The buffer implements RecentWindow: with one writer and no extend longer than the
\* ring it holds the most recent records in the order they were written, also after
\* it was emptied and after checkpoints were saved and loaded.
THEOREM TheMostRecentAreKept ==
    ASSUME OneWriter, MaxBatch <= Capacity PROVE CSpec => KeepsTheMostRecent
<1>1. CInit => Recent!Init
  <2> SUFFICES ASSUME CInit PROVE Recent!Init
    OBVIOUS
  <2>1. len = 0 /\ written = 0 /\ saved = FALSE
    BY DEF CInit, Init
  <2>2. Contents(cursor[TheWriter], len, rec) = <<>>
    BY <2>1 DEF Contents
  <2> QED
    BY <2>1, <2>2 DEF Recent!Init
<1>2. FilledInv /\ [CNext]_cvars =>
          [Recent!Next]_<<Contents(cursor[TheWriter], len, rec), written,
                          IF saved THEN {Contents(ckpt.cursor, ckpt.len, ckpt.rec)} ELSE {}>>
  BY RecentStep
<1>3. CInit => FilledInv
  BY FilledInit
<1>4. FilledInv /\ [CNext]_cvars => FilledInv'
  BY FilledNext
<1> QED
  BY <1>1, <1>2, <1>3, <1>4, PTL DEF CSpec, KeepsTheMostRecent, Recent!Spec
=============================================================================
