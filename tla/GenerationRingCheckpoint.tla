---------------------- MODULE GenerationRingCheckpoint ----------------------
(***************************************************************************)
(* The buffer of GenerationRing together with one checkpoint of it:        *)
(* ReplayBuffer.state_dict / load_state_dict (and dumps / loads), which    *)
(* save and restore the storage, the writer and, when the checkpointed     *)
(* writer tracked them, the stamps.                                        *)
(***************************************************************************)
EXTENDS GenerationRing

CONSTANT CheckpointKinds   \* which of stamped (TRUE) and unstamped checkpoints are taken

ASSUME CheckpointAssumption == CheckpointKinds \subseteq BOOLEAN

VARIABLES
    saved,    \* a checkpoint exists
    ckpt,     \* what it holds
    fresh     \* clients that sampled since the last load

cvars == <<vars, saved, ckpt, fresh>>

\* The state a checkpoint of writer w's buffer holds.  `stamped` is FALSE for
\* a checkpoint without generations: an older version wrote it, or a buffer
\* that did not track.
StateDict(w, stamped) ==
    [len |-> len, rec |-> rec, version |-> version, patchedBy |-> patchedBy,
     cursor |-> cursor[w], writeCount |-> writeCount[w],
     stamped |-> stamped, gen |-> gen]

CInit ==
    /\ Init
    /\ saved = FALSE
    /\ \E w \in Writers : ckpt = StateDict(w, FALSE)
    /\ fresh = {}

Save(w, stamped) ==
    /\ stamped => installed /\ w \in Tracking
    /\ saved' = TRUE
    /\ ckpt' = StateDict(w, stamped)
    /\ UNCHANGED <<vars, fresh>>

\* A checkpoint without stamps leaves the storage's generation buffer alone.
LoadGenerations ==
    IF ckpt.stamped
    THEN installed' = TRUE /\ gen' = ckpt.gen
    ELSE UNCHANGED <<installed, gen>>

RestoreWriter_CountOnly(w) ==
    /\ writeCount' = [writeCount EXCEPT ![w] = ckpt.writeCount]
    /\ UNCHANGED cursor
RestoreWriter(w) ==
    /\ cursor' = [cursor EXCEPT ![w] = ckpt.cursor]
    /\ writeCount' = [writeCount EXCEPT ![w] = ckpt.writeCount]

Load(w) ==
    /\ saved
    /\ len' = ckpt.len
    /\ rec' = ckpt.rec
    /\ version' = ckpt.version
    /\ patchedBy' = ckpt.patchedBy
    /\ RestoreWriter(w)
    /\ LoadGenerations
    /\ fresh' = {}
    /\ UNCHANGED <<written, batch, saved, ckpt>>

CNext ==
    \/ /\ RingNext
       /\ fresh' = IF batch' = batch THEN fresh
                   ELSE fresh \cup {c \in Clients : batch'[c] # batch[c]}
       /\ UNCHANGED <<saved, ckpt>>
    \/ \E w \in Writers, stamped \in CheckpointKinds : Save(w, stamped)
    \/ \E w \in Writers : Load(w)

CSpec == CInit /\ [][CNext]_cvars

-----------------------------------------------------------------------------
\* Handles sampled since the last load obey HandleSound: restoring a
\* checkpoint leaves the stamps usable by whoever samples afterwards.
FreshHandlesSound ==
    \A c \in fresh, i \in Rows :
        Live(batch[c][i]) => rec[batch[c][i].slot] = batch[c][i].rec

\* The records in a ring, oldest first.
Contents(at, n, records) == [k \in 1 .. n |-> records[(at - n + k - 1) % Capacity]]

\* A buffer with one writer keeps the most recent records in the order they were
\* written, also after it was emptied, and a restore brings back the ring as it
\* was saved: what is written afterwards replaces the oldest record.
TheWriter == CHOOSE w \in Writers : TRUE
Recent == INSTANCE RecentWindow
              WITH window <- Contents(cursor[TheWriter], len, rec),
                   kept <- IF saved THEN {Contents(ckpt.cursor, ckpt.len, ckpt.rec)} ELSE {}
KeepsTheMostRecent == Recent!Spec

\* "A checkpoint written without them ... loads fine -- tracking simply starts
\* from scratch": after such a load no slot has a stamp of the time before it.
UnstampedLoadStartsFromScratch ==
    [][\A w \in Writers :
          Load(w) /\ ~ckpt.stamped => \A s \in Slots : gen'[s] = NoStamp]_cvars
=============================================================================
