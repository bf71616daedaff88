--------------------------- MODULE CheckpointStore ---------------------------
(***************************************************************************)
(* What a directory of rotated checkpoints promises, however its files are *)
(* written, moved and deleted, and whenever the program dies: a checkpoint *)
(* appears in one step and is the latest; it disappears only when a later  *)
(* one of its step is there, when KeepLast later steps and a better        *)
(* checkpoint are there, or when its own step is being saved again.        *)
(***************************************************************************)
EXTENDS Naturals, FiniteSets

CONSTANT KeepLast     \* how many steps to retain, at least one

\* A checkpoint is a record with a step, a time of saving and a metric.
VARIABLES
    kept,         \* the checkpoints one finds
    saving,       \* the steps being saved, at most one
    aside         \* the checkpoint of that step, while it is replaced

storeVars == <<kept, saving, aside>>

StoreInit == kept = {} /\ saving = {} /\ aside = {}

Begin ==
    /\ saving = {} /\ aside = {}
    /\ \E step \in saving' : step \in Nat /\ saving' = {step}
    /\ UNCHANGED <<kept, aside>>

Withdraw(c) ==
    /\ c.step \in saving
    /\ kept' = kept \ {c} /\ aside' = {c}
    /\ UNCHANGED saving

Publish(c) ==
    /\ c.step \in saving
    /\ \A d \in kept \cup aside : d.at < c.at
    /\ kept' = kept \cup {c} /\ aside' = {}
    /\ UNCHANGED saving

\* The save fails after a checkpoint was taken away.
PutBack ==
    /\ aside # {}
    /\ kept' = kept \cup aside /\ aside' = {} /\ saving' = {}

Superseded(c) == \E d \in kept : d.step = c.step /\ d.at > c.at

LaterSteps(c) == {d.step : d \in {e \in kept : e.step > c.step}}

Better(d, c) == d.metric > c.metric \/ (d.metric = c.metric /\ d.step > c.step)

Outranked(c) ==
    /\ Cardinality(LaterSteps(c)) >= KeepLast
    /\ \E d \in kept : Better(d, c)

Forget(c) ==
    /\ Superseded(c) \/ Outranked(c)
    /\ kept' = kept \ {c}
    /\ UNCHANGED <<saving, aside>>

\* The save is done, or its program is gone.
End ==
    /\ saving # {}
    /\ saving' = {} /\ aside' = {}
    /\ UNCHANGED kept

StoreNext ==
    \/ Begin
    \/ \E c \in kept : Withdraw(c) \/ Forget(c)
    \/ \E c \in kept' : Publish(c)
    \/ PutBack
    \/ End

StoreSpec == StoreInit /\ [][StoreNext]_storeVars
=============================================================================
