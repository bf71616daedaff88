--------------------------- MODULE ConsumingBuffer ---------------------------
(***************************************************************************)
(* A replay buffer with a ConsumingSampler: records leave the set that can *)
(* be sampled after MaxSampleCount samples, and their slots go to a free   *)
(* list from which add and extend take slots before they use the writer's  *)
(* ring.                                                                   *)
(*                                                                         *)
(* The storage may have a second writer, that of another buffer: it knows  *)
(* nothing of the free list, and tells the sampler of its writes through   *)
(* mark_update.  Each action is one call under the locks of its buffer.    *)
(* `rec` gives every record an identity, and the sampler's tensors, which  *)
(* grow with the storage, have Capacity entries from the start.            *)
(*                                                                         *)
(* A definition named X_Something is X as a plausible bug would have it;   *)
(* no specification uses it.                                               *)
(***************************************************************************)
EXTENDS Naturals, FiniteSets, Sequences, SequencesExt

CONSTANTS
    Capacity,        \* storage slots
    MaxSampleCount,  \* samples after which a record is consumed
    BatchSize,       \* records asked for by sample
    OtherWriters,    \* whether the storage may, or must, have a second writer
    LiveOnly,        \* it only reaches slots whose record is not consumed
    Checkpoints,     \* bound: checkpoints restored
    MaxRecords       \* bound: records written

ASSUME ConsumingAssumption ==
    /\ Capacity \in Nat \ {0}
    /\ MaxSampleCount \in Nat \ {0}
    /\ BatchSize \in Nat \ {0}
    /\ OtherWriters \subseteq BOOLEAN
    /\ LiveOnly \in BOOLEAN
    /\ {Checkpoints, MaxRecords} \subseteq Nat

VARIABLES
    alone,     \* no other buffer writes to the storage
    cursor,    \* of the buffer's own writer
    other,     \* of the other buffer's writer
    len,       \* the length of the storage
    rec,       \* the record each slot holds
    count,     \* _sample_count
    live,      \* the slots _live_mask is set for
    known,     \* _known_storage_len
    free,      \* _free_indices from _free_head on
    written,   \* record identities handed out so far
    saved,     \* checkpoints taken
    restores   \* checkpoints restored

sampler == <<count, live, known, free>>
vars == <<alone, cursor, other, len, rec, sampler, written, saved, restores>>

Slots == 0 .. Capacity - 1
NoRecord == 0

Smaller(a, b) == IF a < b THEN a ELSE b

Init ==
    /\ alone \in {~w : w \in OtherWriters}
    /\ cursor = 0
    /\ other = 0
    /\ len = 0
    /\ rec = [s \in Slots |-> NoRecord]
    /\ count = [s \in Slots |-> 0]
    /\ live = {}
    /\ known = 0
    /\ free = <<>>
    /\ written = 0
    /\ saved = {}
    /\ restores = 0

-----------------------------------------------------------------------------
(***************************************************************************)
(* Storing the rows 1..n of some data at the slots `at`, and what the      *)
(* sampler makes of it.  Where a slot repeats, torch leaves open which row *)
(* it keeps.                                                               *)
(***************************************************************************)
Store(at) ==
    /\ written + Len(at) <= MaxRecords
    /\ \E row \in {f \in [ToSet(at) -> DOMAIN at] : \A s \in ToSet(at) : at[f[s]] = s} :
           rec' = [s \in Slots |-> IF s \in ToSet(at) THEN written + row[s] ELSE rec[s]]
    /\ written' = written + Len(at)
    /\ \E top \in ToSet(at) :
           /\ \A s \in ToSet(at) : s <= top
           /\ len' = IF top < len THEN len ELSE top + 1

\* The sampler notices that the storage has grown, then marks the slots.
MarkLive_KeepsCount(at) ==
    /\ count' = count
    /\ live' = live \cup ToSet(at)
    /\ known' = len'
MarkLive(at) ==
    /\ count' = [s \in Slots |-> IF s \in ToSet(at) THEN 0 ELSE count[s]]
    /\ live' = live \cup ToSet(at)
    /\ known' = len'

\* The k-th smallest of a set of numbers.
Nth(S, k) == CHOOSE i \in S : Cardinality({j \in S : j <= i}) = k

\* n places of a ring from `from` on, none of them in `skip`.
RingPlaces(from, n, skip) ==
    LET open == {k \in 0 .. Capacity - 1 : (from + k) % Capacity \notin skip}
    IN  [i \in 1 .. n |-> Nth(open, i)]

SlotsAt(from, places) == [i \in DOMAIN places |-> (from + places[i]) % Capacity]

(***************************************************************************)
(* The free list.                                                          *)
(***************************************************************************)
Reusable(s) == s < known /\ s \notin live /\ count[s] >= MaxSampleCount

\* Where the list has them; other entries are passed over.
Offered == {i \in DOMAIN free : Reusable(free[i])}

\* The first n reusable entries.
Popped(n) ==
    [k \in 1 .. Smaller(n, Cardinality(Offered)) |-> free[Nth(Offered, k)]]

\* What is left behind the last popped entry.
Unpopped_All(n) == free
Unpopped(n) ==
    IF Cardinality(Offered) < n THEN <<>>
    ELSE SubSeq(free, Nth(Offered, n) + 1, Len(free))

-----------------------------------------------------------------------------
\* add and extend, with no more records than the storage has slots.
Extend(n) ==
    LET reused == Popped(n)
        places == RingPlaces(cursor, n - Len(reused), ToSet(reused))
        at == reused \o SlotsAt(cursor, places)
    IN  /\ Store(at)
        /\ MarkLive(at)
        /\ free' = Unpopped(n)
        /\ cursor' = IF places = <<>> THEN cursor
                     ELSE (cursor + Last(places) + 1) % Capacity
        /\ UNCHANGED <<alone, other, saved, restores>>

\* extend of the other buffer.
ExtendOther(n) ==
    LET at == SlotsAt(other, RingPlaces(other, n, {}))
    IN  /\ ~alone
        /\ other <= len   \* a ring that is ahead of the storage raises
        /\ LiveOnly => \A s \in ToSet(at) : ~Reusable(s)
        /\ Store(at)
        /\ MarkLive(at)
        /\ other' = (other + n) % Capacity
        /\ UNCHANGED <<alone, cursor, free, saved, restores>>

\* The records of `index` are sampled once more.
Sample ==
    /\ live # {}
    /\ \E index \in SUBSET live :
        /\ Cardinality(index) = Smaller(BatchSize, Cardinality(live))
        /\ count' = [s \in Slots |-> IF s \in index THEN count[s] + 1 ELSE count[s]]
        /\ LET consumed == {s \in index : count[s] + 1 >= MaxSampleCount}
           IN  /\ live' = live \ consumed
               /\ \E order \in SetToSeqs(consumed) : free' = free \o order
    /\ UNCHANGED <<alone, cursor, other, len, rec, known, written, saved, restores>>

\* empty, of every buffer of the storage.
Empty ==
    /\ cursor' = 0
    /\ other' = 0
    /\ len' = 0
    /\ rec' = [s \in Slots |-> NoRecord]
    /\ count' = [s \in Slots |-> 0]
    /\ live' = {}
    /\ known' = 0
    /\ free' = <<>>
    /\ UNCHANGED <<alone, written, saved, restores>>

StateDict_NoCounts == [cursor |-> cursor, len |-> len, rec |-> rec,
                       count |-> [s \in Slots |-> 0], live |-> live,
                       known |-> known, free |-> free]
StateDict == [cursor |-> cursor, len |-> len, rec |-> rec, count |-> count,
              live |-> live, known |-> known, free |-> free]

Save ==
    /\ restores < Checkpoints
    /\ saved' = {StateDict}
    /\ UNCHANGED <<alone, cursor, other, len, rec, sampler, written, restores>>

Load ==
    /\ restores < Checkpoints
    /\ restores' = restores + 1
    /\ \E s \in saved :
        /\ cursor' = s.cursor
        /\ len' = s.len
        /\ rec' = s.rec
        /\ count' = s.count
        /\ live' = s.live
        /\ known' = s.known
        /\ free' = s.free
    /\ UNCHANGED <<alone, other, written, saved>>

Next ==
    \/ \E n \in 1 .. Capacity : Extend(n) \/ ExtendOther(n)
    \/ Sample
    \/ Empty
    \/ Save \/ Load

Spec == Init /\ [][Next]_vars

-----------------------------------------------------------------------------
\* The types of the variables; the sampler's idea of the storage's length is
\* never stale after a call (_ensure_state, _mark_indices_live).
TypeOK ==
    /\ cursor \in Slots /\ other \in Slots
    /\ len \in 0 .. Capacity /\ known = len
    /\ count \in [Slots -> 0 .. MaxSampleCount]
    /\ live \subseteq 0 .. known - 1
    /\ free \in Seq(Slots)

\* The free list offers every consumed slot exactly once: none is lost to the
\* buffer, and none is given to two records.
FreeListExact ==
    \A s \in Slots : Reusable(s) =>
        \E i \in DOMAIN free : \A j \in DOMAIN free : free[j] = s <=> j = i

\* The buffer is the pool that its users are promised: every record can be
\* sampled MaxSampleCount times and no more, checkpoints included, and a write
\* never gives up more records than it must (_extend, sample, load_state_dict).
UsesOf(records, counts, slots) ==
    [r \in {records[s] : s \in slots} |->
        MaxSampleCount - counts[CHOOSE s \in slots : records[s] = r]]

Promised == INSTANCE ConsumingPool
                WITH uses <- UsesOf(rec, count, live),
                     kept <- {UsesOf(s.rec, s.count, s.live) : s \in saved}
ImplementsPool == Promised!Spec

\* Every record of an extend gets a slot of its own; false when another buffer
\* wrote to a consumed slot, which then enters the free list twice.
EveryRecordIsStored ==
    [][\A r \in written + 1 .. written' : \E s \in Slots : rec'[s] = r]_vars
=============================================================================
