--------------------------- MODULE GenerationRing ---------------------------
(***************************************************************************)
(* A TensorStorage written by RoundRobinWriters that stamp every slot with *)
(* a generation, and the conditional updates a ReplayBuffer applies        *)
(* through (index, generation) handles.                                    *)
(*                                                                         *)
(* Each action is one call made under the buffer's _replay_lock and        *)
(* _write_lock, so it is one step.  Several writers may be registered on   *)
(* the one storage: each has its own cursor and write count, the length    *)
(* and the stamps belong to the storage.  Calls on buffers that share a    *)
(* storage are made one at a time here; LockedRing interleaves their       *)
(* steps.                                                                  *)
(*                                                                         *)
(* A definition named X_Something is X as a plausible bug would have it;   *)
(* no specification uses it.                                               *)
(*                                                                         *)
(* Data is reduced to what the handles must tell apart: `rec` gives every  *)
(* stored record an identity of its own, `version` is the version field,   *)
(* `patchedBy` the row of the last patch applied to the record.            *)
(***************************************************************************)
EXTENDS Integers, FiniteSets

CONSTANTS
    Writers,     \* writers registered on the storage
    Tracking,    \* those built with track_generations=True
    Clients,     \* consumers that sample, compute, and write back later
    Capacity,    \* storage slots
    MaxBatch,    \* bound: largest batch of one extend or write_at
    BatchSize,   \* rows in a sampled batch
    MaxVersion,  \* bound: largest version a client passes
    MaxRecords,  \* bound: records written in a behaviour
    MaxStamp     \* bound: largest stamp at which the buffer is still emptied

ASSUME RingAssumption ==
    /\ Tracking \subseteq Writers
    /\ Capacity \in Nat \ {0}
    /\ BatchSize \in Nat \ {0}
    /\ MaxBatch \in Nat
    /\ MaxVersion \in Nat
    /\ MaxRecords \in Nat
    /\ MaxStamp \in Nat

VARIABLES
    cursor,      \* per writer: the next slot of its ring
    writeCount,  \* per writer: records written through it
    len,         \* the storage's _len
    installed,   \* the storage carries a generation buffer
    gen,         \* the stamp of each slot, -1 when it has none
    rec,         \* the record each slot holds
    version,     \* the version field of each slot
    patchedBy,   \* the row of the last patch of the record, 0 for none
    written,     \* record identities handed out so far
    batch        \* per client: the handles of the last batch it sampled

vars == <<cursor, writeCount, len, installed, gen, rec, version, patchedBy,
          written, batch>>

Slots    == 0 .. Capacity - 1
Rows     == 1 .. BatchSize
Versions == 0 .. MaxVersion
NoRecord == 0
NoStamp  == -1

Smaller(a, b) == IF a < b THEN a ELSE b
Larger(a, b)  == IF a > b THEN a ELSE b

Handle == [slot : Slots, stamp : Int, rec : Nat]

\* What a client that has not sampled yet presents: a row without a stamp.
NoHandle == [slot |-> 0, stamp |-> NoStamp, rec |-> NoRecord]

-----------------------------------------------------------------------------
Init ==
    /\ cursor = [w \in Writers |-> 0]
    /\ writeCount = [w \in Writers |-> 0]
    /\ len = 0
    /\ installed = FALSE
    /\ gen = [s \in Slots |-> NoStamp]
    /\ rec = [s \in Slots |-> NoRecord]
    /\ version = [s \in Slots |-> 0]
    /\ patchedBy = [s \in Slots |-> 0]
    /\ written = 0
    /\ batch = [c \in Clients |-> [i \in Rows |-> NoHandle]]

(***************************************************************************)
(* Writing.  `at` maps the rows 0..n-1 of the data to their slots; a slot  *)
(* may be hit by several rows.                                             *)
(***************************************************************************)
Hits(at, s)  == {i \in DOMAIN at : at[i] = s}
Hit(at)      == {s \in Slots : Hits(at, s) # {}}

\* When an index repeats, `storage[index] = data` is an index_put without
\* accumulate: which of the rows a slot keeps is left open by torch.
Placements(at) == {f \in [Hit(at) -> DOMAIN at] : \A s \in Hit(at) : at[f[s]] = s}

SetStorage(at, n) ==
    \E row \in Placements(at) :
        /\ rec' = [s \in Slots |-> IF s \in Hit(at) THEN written + 1 + row[s]
                                                    ELSE rec[s]]
        /\ version' = [s \in Slots |-> IF s \in Hit(at) THEN 0 ELSE version[s]]
        /\ patchedBy' = [s \in Slots |-> IF s \in Hit(at) THEN 0 ELSE patchedBy[s]]
        /\ written' = written + n

\* One stamp per write; a writer that does not track still advances a buffer
\* another writer installed, but installs none.
BumpGeneration(w, at) ==
    /\ installed' = (installed \/ w \in Tracking)
    /\ gen' = IF installed'
              THEN [s \in Slots |-> gen[s] + Cardinality(Hits(at, s))]
              ELSE gen

RingRows(w, n) == [i \in 0 .. n - 1 |-> (cursor[w] + i) % Capacity]

NextCursor_Wrap0(w, n) == IF n + cursor[w] >= Capacity THEN 0 ELSE n + cursor[w]
NextCursor(w, n) == (n + cursor[w]) % Capacity

NewLen_Unclamped(n) == len + n
NewLen(n) == Smaller(len + n, Capacity)

\* RoundRobinWriter.add is the case n = 1, extend every n > 0.
Write(w, n) ==
    /\ written + n <= MaxRecords
    /\ cursor' = [cursor EXCEPT ![w] = NextCursor(w, n)]
    /\ writeCount' = [writeCount EXCEPT ![w] = @ + n]
    /\ len' = NewLen(n)
    /\ SetStorage(RingRows(w, n), n)
    /\ BumpGeneration(w, RingRows(w, n))
    /\ UNCHANGED batch

WriteAt(w, n, at) ==
    /\ written + n <= MaxRecords
    /\ writeCount' = [writeCount EXCEPT ![w] = @ + n]
    /\ SetStorage(at, n)
    /\ BumpGeneration(w, at)
    /\ \E top \in Hit(at) :
           /\ \A s \in Hit(at) : s <= top
           /\ len' = Smaller(Larger(len, top + 1), Capacity)
    /\ UNCHANGED <<cursor, batch>>

\* ReplayBuffer.empty: the data stays in the tensors, but no slot holds a
\* record any more.  Stamps advance, they are not reset.
InvalidateStamps_Reset == gen' = [s \in Slots |-> NoStamp]
InvalidateStamps ==
    gen' = [s \in Slots |-> IF gen[s] >= 0 THEN gen[s] + 1 ELSE gen[s]]

RewindCursor(w) == cursor' = [cursor EXCEPT ![w] = 0]

Empty(w, emptyWriteCount) ==
    /\ \A s \in Slots : gen[s] < MaxStamp
    /\ RewindCursor(w)
    /\ InvalidateStamps
    /\ writeCount' = IF emptyWriteCount THEN [writeCount EXCEPT ![w] = 0]
                                        ELSE writeCount
    /\ len' = 0
    /\ rec' = [s \in Slots |-> NoRecord]
    /\ version' = [s \in Slots |-> 0]
    /\ patchedBy' = [s \in Slots |-> 0]
    /\ UNCHANGED <<installed, written, batch>>

(***************************************************************************)
(* Sampling, through a buffer whose writer tracks.  The sampler is the     *)
(* random one: any rows below the length, repeats included.                *)
(***************************************************************************)
GenerationOf(s) == gen[s]

Sample(w, c) ==
    /\ w \in Tracking
    /\ len > 0
    /\ \E index \in [Rows -> 0 .. len - 1] :
           batch' = [batch EXCEPT ![c] =
                        [i \in Rows |-> [slot  |-> index[i],
                                         stamp |-> GenerationOf(index[i]),
                                         rec   |-> rec[index[i]]]]]
    /\ UNCHANGED <<cursor, writeCount, len, installed, gen, rec, version,
                   patchedBy, written>>

(***************************************************************************)
(* Conditional updates.                                                    *)
(***************************************************************************)
Live_AnyStamp(h) == GenerationOf(h.slot) >= 0 /\ h.stamp >= 0
Live(h) ==
    /\ GenerationOf(h.slot) >= 0
    /\ h.stamp >= 0
    /\ GenerationOf(h.slot) = h.stamp

LiveRows(c) == {i \in Rows : Live(batch[c][i])}

RowsOn(c, rows, s) == {i \in rows : batch[c][i].slot = s}

\* The ways a scatter of `rows` may land: some row of the call on every slot
\* it names.
Scatters(c, rows) ==
    {f \in [{batch[c][i].slot : i \in rows} -> rows] :
        \A s \in DOMAIN f : batch[c][f[s]].slot = s}

ApplyPatch(by) ==
    patchedBy' = [s \in Slots |-> IF s \in DOMAIN by THEN by[s] ELSE patchedBy[s]]

Restamp_Patched(by) ==
    gen' = [s \in Slots |-> IF s \in DOMAIN by THEN gen[s] + 1 ELSE gen[s]]
Restamp(by) == UNCHANGED gen   \* a patch refreshes the content, not the identity

\* Without versions every live row is reported updated; rows that repeat a
\* slot are scattered in an order torch leaves open.
UpdateIfPresent(c) ==
    /\ \E by \in Scatters(c, LiveRows(c)) : ApplyPatch(by) /\ Restamp(by)
    /\ UNCHANGED <<cursor, writeCount, len, installed, rec, version, written, batch>>

Favourable_OnlyWhenStrict(new, old, requireNewer) == requireNewer => new > old
Favourable(new, old, requireNewer) == IF requireNewer THEN new > old ELSE new >= old

\* The highest incoming version on its slot, the last such row on ties.
BestRow_Any(c, v, i) == TRUE
BestRow(c, v, i) ==
    \A j \in RowsOn(c, LiveRows(c), batch[c][i].slot) :
        v[j] < v[i] \/ (v[j] = v[i] /\ j <= i)

\* The rows reported updated; the other live rows are reported
\* version_rejected, the rows that are not live stale.
Updated(c, v, requireNewer) ==
    {i \in LiveRows(c) : /\ Favourable(v[i], version[batch[c][i].slot], requireNewer)
                         /\ BestRow(c, v, i)}

UpdateIfNewer(c, v, requireNewer) ==
    /\ \E by \in Scatters(c, Updated(c, v, requireNewer)) :
           /\ ApplyPatch(by)
           /\ Restamp(by)
           /\ version' = [s \in Slots |-> IF s \in DOMAIN by THEN v[by[s]]
                                                            ELSE version[s]]
    /\ UNCHANGED <<cursor, writeCount, len, installed, rec, written, batch>>

-----------------------------------------------------------------------------
\* A buffer used through its own interface: add, extend, sample, conditional
\* updates and empty.
RingNext ==
    \/ \E w \in Writers, n \in 1 .. MaxBatch : Write(w, n)
    \/ \E w \in Writers, all \in BOOLEAN : Empty(w, all)
    \/ \E w \in Writers, c \in Clients : Sample(w, c)
    \/ \E c \in Clients : UpdateIfPresent(c)
    \/ \E c \in Clients, v \in [Rows -> Versions], newer \in BOOLEAN :
           UpdateIfNewer(c, v, newer)

\* Direct writes at explicit slots as well.
Next ==
    \/ RingNext
    \/ \E w \in Writers, n \in 1 .. MaxBatch :
           \E at \in [0 .. n - 1 -> Slots] : WriteAt(w, n, at)

RingSpec == Init /\ [][RingNext]_vars
Spec     == Init /\ [][Next]_vars

-----------------------------------------------------------------------------
(***************************************************************************)
(* Properties.                                                             *)
(***************************************************************************)
\* The types of the variables; a storage never believes to be longer than it is
\* (_get_new_len).
TypeOK ==
    /\ cursor \in [Writers -> Slots]
    /\ writeCount \in [Writers -> Nat]
    /\ len \in 0 .. Capacity
    /\ installed \in BOOLEAN
    /\ gen \in [Slots -> Int]
    /\ rec \in [Slots -> Nat]
    /\ version \in [Slots -> Nat]
    /\ patchedBy \in [Slots -> 0 .. BatchSize]
    /\ written \in Nat
    /\ batch \in [Clients -> [Rows -> Handle]]

\* A handle that still reads as live names a slot that still holds the record
\* the client sampled: neither ring reuse by any writer of the storage, nor a
\* write at an explicit slot, nor emptying the buffer lets a stale handle
\* through (ReplayBuffer.update_if_present, RoundRobinWriter._bump_generation
\* and _empty).
HandleSound ==
    \A c \in Clients, i \in Rows :
        Live(batch[c][i]) => rec[batch[c][i].slot] = batch[c][i].rec

\* The converse: while its record is stored, a stamped handle stays live, so
\* a patch for a record that is still there is never dropped ("the same
\* handle keeps working until the slot is rewritten").
HandleComplete ==
    \A c \in Clients, i \in Rows :
        LET h == batch[c][i]
        IN  h.stamp >= 0 /\ h.rec # NoRecord /\ rec[h.slot] = h.rec => Live(h)

Refreshed == {s \in Slots : patchedBy'[s] # patchedBy[s] \/ version'[s] # version[s]}

\* Whatever a conditional update changes is a record of which the caller holds
\* a handle: skipped records are never modified.
PatchesLandOnSampledRecords ==
    [][\A c \in Clients :
          \/ UpdateIfPresent(c)
          \/ \E v \in [Rows -> Versions], newer \in BOOLEAN : UpdateIfNewer(c, v, newer)
          => \A s \in Refreshed :
                 \E i \in Rows : /\ batch[c][i].slot = s
                                /\ batch[c][i].rec = rec[s]]_vars

\* As long as a slot keeps its record, the version stored with it never goes
\* down, whichever clients update it and in whichever order.
VersionsNeverRegress ==
    [][\A s \in Slots :
          rec'[s] = rec[s] /\ rec[s] # NoRecord => version'[s] >= version[s]]_vars

\* The result of a versioned update is truthful even when it names a slot
\* several times: each row reported updated is the row the record holds.
ReportsWhatItWrote ==
    [][\A c \in Clients, v \in [Rows -> Versions], newer \in BOOLEAN :
          UpdateIfNewer(c, v, newer) =>
              \A i \in Updated(c, v, newer) :
                  /\ patchedBy'[batch[c][i].slot] = i
                  /\ version'[batch[c][i].slot] = v[i]]_vars

\* Every slot a sampler may read (below the length) has been written since the
\* buffer was last emptied.  Holds of a storage with one writer whose slots
\* are written in ring order.
ReadableSlotsAreWritten ==
    \A s \in Slots : s < len => rec[s] # NoRecord
=============================================================================
