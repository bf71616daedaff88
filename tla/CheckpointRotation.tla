------------------------- MODULE CheckpointRotation -------------------------
(***************************************************************************)
(* Checkpoints of a training run: a loop that saves to a directory of      *)
(* rotated checkpoints, dies at any moment, and is started again from what *)
(* it finds there.                                                         *)
(*                                                                         *)
(* A save fills a hidden directory, renames it to its place -- after       *)
(* renaming away what is there -- removes a checkpoint of the same step in *)
(* the other format and prunes.  Names that begin with a dot are read by   *)
(* nobody, so a hidden file exists only as a step of the program that      *)
(* wrote it.  Renames are atomic; what the program wrote before it died is *)
(* on disk.                                                                *)
(*                                                                         *)
(* The loop is one of three: "run" is a script with a RunCheckpointer,     *)
(* "sync" and "async" are Trainer.train.  keep_best is part of the two     *)
(* Trainer loops; without it all metrics are the same, which retains what  *)
(* no keep_best retains.                                                   *)
(*                                                                         *)
(* A definition named X_Something is X as a plausible bug would have it;   *)
(* no specification uses it.                                               *)
(***************************************************************************)
EXTENDS Naturals, FiniteSets

CONSTANTS
    KeepLast,     \* keep_last
    Interval,     \* interval, save_trainer_interval
    MaxFrames,    \* frames of a batch
    Metrics,      \* values of the keep_best metric; 0 is one
    TotalFrames,
    MaxStarts     \* bound: starts of the program

ASSUME RotationAssumption ==
    /\ {KeepLast, Interval, MaxFrames} \subseteq Nat \ {0}
    /\ Metrics \subseteq Nat /\ 0 \in Metrics
    /\ TotalFrames \in Nat /\ MaxStarts \in Nat

VARIABLES
    files,        \* the checkpoints in the directory, as their manifests tell
    loop,         \* "run", "sync" or "async"
    pc,           \* where the program is; "down": it does not run
    format,       \* the format it writes
    step,         \* collected_frames
    last,         \* _last_step, _last_save
    stopping,     \* this is its last save
    new,          \* the checkpoint it is saving
    aside,        \* the backup of the one it replaces
    saves,        \* the clock: manifests written so far
    starts,
    regular       \* history: every start resumed from the newest checkpoint

program == <<pc, format, step, last, stopping, new, aside>>
vars == <<files, loop, program, saves, starts, regular>>

Formats == {"directory", "archive"}

\* What the manifest of a checkpoint tells, and the _last_save in its components.
Checkpoints ==
    [step : Nat, format : Formats, at : Nat, metric : Metrics, last : Nat]

Init ==
    /\ files = {} /\ aside = {} /\ new = {}
    /\ loop \in {"run", "sync", "async"}
    /\ pc = "down" /\ format \in Formats
    /\ step = 0 /\ last = 0 /\ saves = 0 /\ starts = 0
    /\ stopping = FALSE /\ regular = TRUE

(***************************************************************************)
(* The records of the directory.                                           *)
(***************************************************************************)
Latest(S) == {c \in S : \A d \in S : d.step = c.step => d.at <= c.at}

Newest(S) == {c \in Latest(S) : \A d \in S : d.step <= c.step}

Better(d, c) == d.metric > c.metric \/ (d.metric = c.metric /\ d.step > c.step)

Best(S) == {c \in Latest(S) : \A d \in Latest(S) : ~Better(d, c)}

\* The records are cut at the wrong end.
Retained_First(S) ==
    Best(S) \cup
    {c \in Latest(S) : Cardinality({d \in Latest(S) : d.step < c.step}) < KeepLast}

\* keep_best is forgotten.
Retained_NoBest(S) ==
    {c \in Latest(S) : Cardinality({d \in Latest(S) : d.step > c.step}) < KeepLast}

Retained(S) ==
    Best(S) \cup
    {c \in Latest(S) : Cardinality({d \in Latest(S) : d.step > c.step}) < KeepLast}

Doomed(S) == S \ Retained(S)

\* The order of the records.
Before(c, d) == c.step < d.step \/ (c.step = d.step /\ c.at <= d.at)

(***************************************************************************)
(* The program starts, and collects.                                       *)
(***************************************************************************)
\* What the loop takes its _last_save from.
RestoredLast(c) == IF loop = "run" THEN c.step ELSE c.last

\* From scratch, or from a checkpoint: the newest when the directory is named,
\* any when a path is.
Start ==
    /\ pc \in {"down", "ended"}
    /\ starts < MaxStarts
    /\ starts' = starts + 1
    /\ \/ /\ step' = 0 /\ last' = 0
          /\ regular' = (regular /\ files = {})
       \/ \E c \in files :
            /\ step' = c.step /\ last' = RestoredLast(c)
            /\ regular' = (regular /\ c \in Newest(files))
    /\ format' \in Formats
    /\ pc' = "train" /\ stopping' = FALSE /\ new' = {} /\ aside' = {}
    /\ UNCHANGED <<files, loop, saves>>

\* An asynchronous loop may go round without new frames.
Batch ==
    /\ pc = "train" /\ step < TotalFrames
    /\ \E n \in 0 .. MaxFrames :
         /\ n = 0 => loop = "async"
         /\ step' = step + n
    /\ pc' = "boundary"
    /\ UNCHANGED <<files, loop, format, last, stopping, new, aside, saves, starts, regular>>

\* The iterator ends: at once when the run was complete, and in an asynchronous
\* loop as soon as the buffer has all frames, counted by the loop or not.
Exhausted ==
    /\ pc = "train"
    /\ step >= TotalFrames \/ loop = "async"
    /\ pc' = "ended"
    /\ UNCHANGED <<files, loop, format, step, last, stopping, new, aside, saves, starts,
                   regular>>

(***************************************************************************)
(* A save.                                                                 *)
(***************************************************************************)
Elapsed == IF loop = "run" THEN step >= last + Interval ELSE step > last + Interval

\* The final save waits for the interval too.
Due_NotForced(stops) == Elapsed

Due(stops) ==
    IF ~stops THEN Elapsed ELSE IF loop = "run" THEN step # last ELSE TRUE

\* A trainer notes a scheduled save before it makes it, a RunCheckpointer after.
LastWhenSaving == IF loop # "run" /\ Elapsed THEN step ELSE last

\* The loop looks whether it has been asked to stop.
Boundary ==
    /\ pc = "boundary"
    /\ stopping' \in {b \in BOOLEAN : step >= TotalFrames => b}
    /\ IF Due(stopping')
         THEN /\ pc' = "write"
              /\ last' = LastWhenSaving
         ELSE /\ pc' = IF stopping' THEN "ended" ELSE "train"
              /\ UNCHANGED last
    /\ UNCHANGED <<files, loop, format, step, new, aside, saves, starts, regular>>

\* The components and the manifest go to a hidden directory, and from there to a
\* hidden archive.
Write ==
    /\ pc = "write"
    /\ saves' = saves + 1
    /\ \E metric \in Metrics :
         /\ loop = "run" => metric = 0
         /\ new' = {[step |-> step, format |-> format, at |-> saves', metric |-> metric,
                     last |-> last]}
    /\ pc' = "publish"
    /\ UNCHANGED <<files, loop, format, step, last, stopping, aside, starts, regular>>

\* What is at the path the checkpoint goes to.
AtItsPath == {d \in files : d.step = step /\ d.format = format}

\* The first rename, or the only one.
Publish ==
    /\ pc = "publish"
    /\ IF AtItsPath = {}
         THEN files' = files \cup new /\ pc' = "alternate"
         ELSE files' = files \ AtItsPath /\ pc' = "replace"
    /\ aside' = AtItsPath
    /\ UNCHANGED <<loop, format, step, last, stopping, new, saves, starts, regular>>

Replace ==
    /\ pc = "replace"
    /\ files' = files \cup new /\ aside' = {}
    /\ pc' = "alternate"
    /\ UNCHANGED <<loop, format, step, last, stopping, new, saves, starts, regular>>

\* The second rename fails: the backup is put back, and the error ends the program.
ReplaceFails ==
    /\ pc = "replace"
    /\ files' = files \cup aside /\ aside' = {} /\ new' = {}
    /\ pc' = "down"
    /\ UNCHANGED <<loop, format, step, last, stopping, saves, starts, regular>>

\* Every other format of any step is removed.
Alternates_AnyStep == {d \in files : d.format # format}

Alternates == {d \in files : d.step = step /\ d.format # format}

RemoveAlternate ==
    /\ pc = "alternate"
    /\ files' = files \ Alternates
    /\ pc' = "prune"
    /\ UNCHANGED <<loop, format, step, last, stopping, new, aside, saves, starts, regular>>

\* One removal of prune.  It lists the records once; listing them again between
\* two removals would doom the same ones.
Prune ==
    /\ pc = "prune"
    /\ \E c \in Doomed(files) :
         /\ \A d \in Doomed(files) : Before(c, d)
         /\ files' = files \ {c}
    /\ UNCHANGED <<loop, program, saves, starts, regular>>

Saved ==
    /\ pc = "prune" /\ Doomed(files) = {}
    /\ last' = IF loop = "run" THEN step ELSE last
    /\ pc' = IF stopping THEN "ended" ELSE "train"
    /\ new' = {}
    /\ UNCHANGED <<files, loop, format, step, stopping, aside, saves, starts, regular>>

\* The program is killed, or an error ends it.
Die ==
    /\ pc \notin {"down", "ended"}
    /\ pc' = "down" /\ new' = {} /\ aside' = {}
    /\ UNCHANGED <<files, loop, format, step, last, stopping, saves, starts, regular>>

Next ==
    \/ Start \/ Batch \/ Exhausted \/ Boundary
    \/ Write \/ Publish \/ Replace \/ ReplaceFails \/ RemoveAlternate
    \/ Prune \/ Saved
    \/ Die

Spec == Init /\ [][Next]_vars

(***************************************************************************)
(* Properties.                                                             *)
(***************************************************************************)
Places == {"down", "train", "boundary", "write", "publish", "replace", "alternate",
           "prune", "ended"}

\* Types of the state of the loop, and of the names in the directory: one file
\* for each step and format.
TypeOK ==
    /\ files \subseteq Checkpoints /\ IsFiniteSet(files)
    /\ new \subseteq Checkpoints /\ aside \subseteq Checkpoints
    /\ \A c, d \in files : c.step = d.step /\ c.format = d.format => c = d
    /\ loop \in {"run", "sync", "async"} /\ pc \in Places /\ format \in Formats
    /\ step \in Nat /\ last \in Nat /\ saves \in Nat /\ starts \in Nat
    /\ stopping \in BOOLEAN /\ regular \in BOOLEAN

\* From the moment a checkpoint is at its place it is the one a restart takes:
\* neither the other format of its step nor the retention policy comes before it
\* (CheckpointRotation.save).  Holds while every start resumes from the newest
\* checkpoint of the directory, see ReturnedPathExists.
SavedIsFound ==
    regular /\ pc \in {"alternate", "prune"} => new = Newest(files)

\* The most frames a loop does between two saves.
Exposure == IF loop = "run" THEN Interval - 1 + MaxFrames ELSE Interval + MaxFrames

\* Wherever the program dies, the newest checkpoint is no more than one interval
\* and one batch old; and a loop that ends by itself has saved its last frame.
\* Of an asynchronous loop neither is true (see the further instances).
LossIsBounded ==
    regular /\ loop # "async" =>
        /\ pc # "down" =>
             step <= Exposure \/ \E c \in files : step <= c.step + Exposure
        /\ pc = "ended" => step = 0 \/ \E c \in files : c.step = step

Store == INSTANCE CheckpointStore WITH
    kept   <- files,
    saving <- IF pc \in {"write", "publish", "replace", "alternate", "prune"}
                THEN {step} ELSE {}

\* The directory keeps the promise of CheckpointStore through every rename and
\* removal, the failures and deaths between them included.
ImplementsStore == Store!StoreSpec

\* _checkpoint.py:918 saves "atomically", and 1586 saves "and appl[ies] the
\* retention policy".  A second save of a step renames its checkpoint away first.
SavesAreAtomic ==
    [][\A c \in files : c \notin files' => \E d \in files' : d.step >= c.step]_vars

\* "keep_last: Number of newest checkpoints to retain" (_checkpoint.py:1533): the
\* path save returns is pruned at once when the directory holds later steps of
\* the run that was abandoned.
ReturnedPathExists == [][Saved => new \subseteq files]_vars

\* "a final checkpoint is written before the process exits" (checkpoint.rst:515).
EndsSaved ==
    regular /\ pc = "ended" => step = 0 \/ \E c \in files : c.step = step
=============================================================================
