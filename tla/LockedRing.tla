----------------------------- MODULE LockedRing -----------------------------
(***************************************************************************)
(* The calls of GenerationRing made by threads, one shared access at a     *)
(* time.  Every ReplayBuffer has a lock of its own (_replay_lock, together *)
(* with _write_lock) and holds it for the whole of add/extend, sample,     *)
(* update_if_present and empty.  The storage, its length and its stamps    *)
(* may be shared by several buffers.                                       *)
(*                                                                         *)
(* A buffer alone on its storage implements GenerationRing: the lock makes *)
(* each call one step.  Buffers that share a storage share no lock.        *)
(*                                                                         *)
(* A definition named X_Something is X as a plausible bug would have it;   *)
(* no specification uses it.                                               *)
(***************************************************************************)
EXTENDS Integers, FiniteSets

CONSTANTS
    Clients,     \* threads
    Buffers,
    BufferOf,    \* the buffer a thread uses
    Capacity,
    MaxBatch,    \* bound: largest extend
    MaxRecords,  \* bound: records written in a behaviour
    MaxStamp,    \* bound: largest stamp at which the buffer is still emptied
    NoClient

ASSUME LockedAssumption ==
    /\ BufferOf \in [Clients -> Buffers]
    /\ Capacity \in Nat \ {0}
    /\ MaxBatch \in 0 .. Capacity
    /\ NoClient \notin Clients

VARIABLES
    lock,        \* per buffer: the thread inside a call
    access,      \* per thread: the shared access it makes next
    rows,        \* per thread: the slots of the rows it is writing
    picked,      \* per thread: the index and stamp of the sample being made
    handle,      \* per thread: the handle of its last sample
    cursor, writeCount,            \* per buffer
    len, gen, rec, patched, written,   \* the storage
    before       \* history: the buffers and the storage when the lock was taken

ring == <<cursor, writeCount, len, gen, rec, patched, written>>
lvars == <<lock, access, rows, picked, handle, ring, before>>

Slots == 0 .. Capacity - 1
NoRecord == 0
NoPick == [slot |-> 0, stamp |-> -1]
NoHandle == [slot |-> 0, stamp |-> -1, rec |-> NoRecord]

LInit ==
    /\ lock = [b \in Buffers |-> NoClient]
    /\ access = [t \in Clients |-> "idle"]
    /\ rows = [t \in Clients |-> <<>>]
    /\ picked = [t \in Clients |-> NoPick]
    /\ handle = [t \in Clients |-> NoHandle]
    /\ cursor = [b \in Buffers |-> 0]
    /\ writeCount = [b \in Buffers |-> 0]
    /\ len = 0
    /\ gen = [s \in Slots |-> -1]
    /\ rec = [s \in Slots |-> NoRecord]
    /\ patched = [s \in Slots |-> 0]
    /\ written = 0
    /\ before = ring

-----------------------------------------------------------------------------
FirstStep == {"advance", "choose", "compare", "rewind"}

Free_Ignored(b) == TRUE
Free(b)         == lock[b] = NoClient

\* with self._replay_lock, self._write_lock:
Enter(t) ==
    LET b == BufferOf[t]
    IN  /\ access[t] = "idle"
        /\ Free(b)
        /\ lock' = [lock EXCEPT ![b] = t]
        /\ \E first \in FirstStep : access' = [access EXCEPT ![t] = first]
        /\ before' = ring
        /\ UNCHANGED <<rows, picked, handle, ring>>

Proceed(t, label) == access' = [access EXCEPT ![t] = label] /\ UNCHANGED lock

Leave(t) ==
    /\ access' = [access EXCEPT ![t] = "idle"]
    /\ lock' = [lock EXCEPT ![BufferOf[t]] = NoClient]

\* RoundRobinWriter.extend: the cursor and the write count move first ...
Advance(t) ==
    LET b == BufferOf[t]
    IN  /\ access[t] = "advance"
        /\ \E n \in 1 .. MaxBatch :
               /\ written + n <= MaxRecords
               /\ rows' = [rows EXCEPT ![t] =
                              [i \in 0 .. n - 1 |-> (cursor[b] + i) % Capacity]]
               /\ cursor' = [cursor EXCEPT ![b] = (n + cursor[b]) % Capacity]
               /\ writeCount' = [writeCount EXCEPT ![b] = @ + n]
        /\ Proceed(t, "store")
        /\ UNCHANGED <<picked, handle, len, gen, rec, patched, written, before>>

NewLen_Unclamped(n) == len + n
NewLen(n) == IF len + n < Capacity THEN len + n ELSE Capacity

\* ... then the length and the data ...
Store(t) ==
    LET n == Cardinality(DOMAIN rows[t])
    IN  /\ access[t] = "store"
        /\ len' = NewLen(n)
        /\ rec' = [s \in Slots |->
                      IF \E i \in DOMAIN rows[t] : rows[t][i] = s
                      THEN written + 1 + CHOOSE i \in DOMAIN rows[t] : rows[t][i] = s
                      ELSE rec[s]]
        /\ patched' = [s \in Slots |->
                          IF \E i \in DOMAIN rows[t] : rows[t][i] = s THEN 0 ELSE patched[s]]
        /\ written' = written + n
        /\ Proceed(t, "bump")
        /\ UNCHANGED <<rows, picked, handle, cursor, writeCount, gen, before>>

\* ... and the stamps last.
Bump(t) ==
    /\ access[t] = "bump"
    /\ gen' = [s \in Slots |-> gen[s] + Cardinality({i \in DOMAIN rows[t] : rows[t][i] = s})]
    /\ rows' = [rows EXCEPT ![t] = <<>>]
    /\ Leave(t)
    /\ UNCHANGED <<picked, handle, cursor, writeCount, len, rec, patched, written, before>>

\* ReplayBuffer._sample: the sampler picks an index, the writer is asked for
\* its stamp, then the data is read.
Choose(t) ==
    /\ access[t] = "choose"
    /\ \E s \in 0 .. len - 1 :
           picked' = [picked EXCEPT ![t] = [slot |-> s, stamp |-> gen[s]]]
    /\ Proceed(t, "fetch")
    /\ UNCHANGED <<rows, handle, ring, before>>

Fetch(t) ==
    /\ access[t] = "fetch"
    /\ handle' = [handle EXCEPT ![t] = [slot  |-> picked[t].slot,
                                       stamp |-> picked[t].stamp,
                                       rec   |-> rec[picked[t].slot]]]
    /\ picked' = [picked EXCEPT ![t] = NoPick]
    /\ Leave(t)
    /\ UNCHANGED <<rows, ring, before>>

\* sampler.sample on an empty storage raises, and the lock is released.
ChooseRaises(t) ==
    /\ access[t] = "choose"
    /\ len = 0
    /\ Leave(t)
    /\ UNCHANGED <<rows, picked, handle, ring, before>>

\* The bounds on records and stamps are reached: the call is not made.
CallSkipped(t) ==
    /\ \/ access[t] = "advance" /\ written = MaxRecords
       \/ access[t] = "rewind" /\ \E s \in Slots : gen[s] >= MaxStamp
    /\ Leave(t)
    /\ UNCHANGED <<rows, picked, handle, ring, before>>

\* ReplayBuffer.update_if_present compares the stamps, then applies the patch.
Live(h) == gen[h.slot] >= 0 /\ h.stamp >= 0 /\ gen[h.slot] = h.stamp

AfterCompare_Unlocked(t) ==
    /\ access' = [access EXCEPT ![t] = "patch"]
    /\ lock' = [lock EXCEPT ![BufferOf[t]] = NoClient]
AfterCompare(t) == Proceed(t, "patch")

Compare(t) ==
    /\ access[t] = "compare"
    /\ IF Live(handle[t]) THEN AfterCompare(t) ELSE Leave(t)
    /\ UNCHANGED <<rows, picked, handle, ring, before>>

Patch(t) ==
    /\ access[t] = "patch"
    /\ patched' = [patched EXCEPT ![handle[t].slot] = 1]
    /\ Leave(t)
    /\ UNCHANGED <<rows, picked, handle, cursor, writeCount, len, gen, rec, written, before>>

\* ReplayBuffer.empty: the writer first, then the storage.
Rewind(t) ==
    LET b == BufferOf[t]
    IN  /\ access[t] = "rewind"
        /\ \A s \in Slots : gen[s] < MaxStamp
        /\ cursor' = [cursor EXCEPT ![b] = 0]
        /\ gen' = [s \in Slots |-> IF gen[s] >= 0 THEN gen[s] + 1 ELSE gen[s]]
        /\ writeCount' \in {writeCount, [writeCount EXCEPT ![b] = 0]}
        /\ Proceed(t, "drop")
        /\ UNCHANGED <<rows, picked, handle, len, rec, patched, written, before>>

Drop(t) ==
    /\ access[t] = "drop"
    /\ len' = 0
    /\ rec' = [s \in Slots |-> NoRecord]
    /\ patched' = [s \in Slots |-> 0]
    /\ Leave(t)
    /\ UNCHANGED <<rows, picked, handle, cursor, writeCount, gen, written, before>>

Step(t) ==
    \/ Enter(t)
    \/ Advance(t) \/ Store(t) \/ Bump(t)
    \/ Choose(t) \/ Fetch(t) \/ ChooseRaises(t)
    \/ Compare(t) \/ Patch(t)
    \/ Rewind(t) \/ Drop(t)
    \/ CallSkipped(t)

LNext == \E t \in Clients : Step(t)

LSpec == LInit /\ [][LNext]_lvars

-----------------------------------------------------------------------------
\* The types of the variables; the length stays within the capacity (_get_new_len).
LTypeOK ==
    /\ lock \in [Buffers -> Clients \cup {NoClient}]
    /\ access \in [Clients -> FirstStep \cup {"idle", "store", "bump", "fetch", "patch", "drop"}]
    /\ cursor \in [Buffers -> Slots]
    /\ len \in 0 .. Capacity
    /\ gen \in [Slots -> Int]
    /\ rec \in [Slots -> 0 .. MaxRecords]
    /\ patched \in [Slots -> {0, 1}]

\* Between the comparison of the stamps and the write of the patch the slot
\* keeps the record the thread sampled: no writer gets in between.
PatchTargetStillThere ==
    \A t \in Clients :
        access[t] = "patch" => rec[handle[t].slot] = handle[t].rec

(***************************************************************************)
(* The atomic view of a buffer alone on its storage.  While a call is under *)
(* way it has not happened yet; it happens when the lock is released.      *)
(***************************************************************************)
CallUnderWay == \E b \in Buffers : lock[b] # NoClient

Seen(k) == IF CallUnderWay THEN before[k] ELSE ring[k]

Atomic == INSTANCE GenerationRing WITH
    Writers    <- Buffers,
    Tracking   <- Buffers,
    BatchSize  <- 1,
    MaxVersion <- 0,
    cursor     <- Seen(1),
    writeCount <- Seen(2),
    len        <- Seen(3),
    installed  <- Seen(7) > 0,
    gen        <- Seen(4),
    rec        <- Seen(5),
    version    <- [s \in Slots |-> 0],
    patchedBy  <- Seen(6),
    written    <- Seen(7),
    batch      <- [t \in Clients |-> [i \in 1 .. 1 |-> handle[t]]]

\* The calls of one buffer take effect one after the other, as GenerationRing
\* has them, although threads interleave inside them.
CallsAreAtomic == Atomic!RingSpec
=============================================================================
