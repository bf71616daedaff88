-------------------------- MODULE RateLimitedBuffer --------------------------
(***************************************************************************)
(* RateLimitedReplayBuffer: sampling waits until the records written so    *)
(* far pay for it.                                                         *)
(*                                                                         *)
(* sample reserves its batch in one critical section, draws it in another, *)
(* adds it to the counter of returned records in a third and gives the     *)
(* reservation back in a fourth.  Writers, empty, load_state_dict and      *)
(* shutdown run in between.                                                *)
(*                                                                         *)
(* One thread makes one kind of call.  The storage is the number of its    *)
(* records; every call asks for BatchSize records, of which the sampler    *)
(* returns at least one and each is expanded by the sample unit to         *)
(* UnitLength.  A definition named X_Something is X as a plausible bug     *)
(* would have it; no specification uses it.                                *)
(***************************************************************************)
EXTENDS Integers, FiniteSets

CONSTANTS
    Samplers,      \* threads in sample
    Waiting,       \* the samplers that pass wait=True
    Impatient,     \* the waiting samplers with a timeout or a cancel_event
    Writers,       \* threads in extend
    Num, Den,      \* samples_per_insert is Num / Den
    BatchSize,
    UnitLength,    \* records that the sample unit makes of a sampled one
    Capacity,      \* of the storage
    MaxWritten,    \* bound: records written
    Clears,        \* empty may be called
    Restores       \* bound: checkpoints loaded

ASSUME RateAssumption ==
    /\ IsFiniteSet(Samplers)
    /\ Waiting \subseteq Samplers
    /\ Impatient \subseteq Waiting
    /\ Num \in Nat \ {0} /\ Den \in Nat \ {0}
    /\ BatchSize \in Nat \ {0}
    /\ UnitLength \in Nat \ {0}
    /\ Capacity \in Nat \ {0}
    /\ MaxWritten \in Nat
    /\ Clears \in BOOLEAN
    /\ Restores \in Nat

VARIABLES
    items,       \* records in the storage
    writeCount,  \* the writer's _write_count
    returned,    \* _sampled_item_count_value
    reserved,    \* _reserved_sample_count_value
    pc,          \* per thread: where it is in its call
    drawn,       \* per sampler: records of the batch it has drawn
    shutdown,    \* _service_shutdown
    saved,       \* checkpoints: items, writeCount and returned
    restores,    \* checkpoints loaded
    loading,     \* load_state_dict has restored the contents and the counters
    inserted,    \* records written, in the history that a restore returns to
    interrupted  \* samples that were under way at a step of a restore

vars == <<items, writeCount, returned, reserved, pc, drawn, shutdown, saved,
          restores, loading, inserted, interrupted>>

Init ==
    /\ items = 0
    /\ writeCount = 0
    /\ returned = 0
    /\ reserved = 0
    /\ pc = [t \in Samplers \cup Writers |-> "idle"]
    /\ drawn = [s \in Samplers |-> 0]
    /\ shutdown = FALSE
    /\ saved = {}
    /\ restores = 0
    /\ loading = FALSE
    /\ inserted = 0
    /\ interrupted = 0

-----------------------------------------------------------------------------
Goto(t, label) == pc' = [pc EXCEPT ![t] = label]

\* condition.notify_all, by a thread that goes on to label.
NotifyAll(t, label) ==
    pc' = [u \in DOMAIN pc |-> IF u = t THEN label
                               ELSE IF pc[u] = "asleep" THEN "reserve" ELSE pc[u]]
NotifyOthers == pc' = [u \in DOMAIN pc |-> IF pc[u] = "asleep" THEN "reserve" ELSE pc[u]]

\* floor(written * samples_per_insert)
Allowance(written) == (written * Num) \div Den

Budget_ReturnedOnly == Allowance(writeCount) - returned
Budget == Allowance(writeCount) - returned - reserved

\* The sampler has something to sample and the budget covers the batch.
Permitted == items > 0 /\ Budget >= BatchSize

\* Samples between their reservation and its release.
InFlight == {s \in Samplers : pc[s] \in {"draw", "count", "release"}}

(***************************************************************************)
(* sample.                                                                 *)
(***************************************************************************)
Call(s) ==
    /\ s \in Samplers /\ pc[s] = "idle"
    /\ ~shutdown
    /\ Goto(s, "reserve")
    /\ UNCHANGED <<items, writeCount, returned, reserved, drawn, shutdown, saved, restores, loading, inserted, interrupted>>

Reserve(s) ==
    /\ s \in Samplers /\ pc[s] = "reserve"
    /\ ~shutdown
    /\ Permitted
    /\ reserved' = reserved + BatchSize
    /\ Goto(s, "draw")
    /\ UNCHANGED <<items, writeCount, returned, drawn, shutdown, saved, restores, loading, inserted, interrupted>>

\* Shut down, or not permitted and not waiting: raises.
Refuse(s) ==
    /\ s \in Samplers /\ pc[s] = "reserve"
    /\ shutdown \/ (~Permitted /\ s \notin Waiting)
    /\ Goto(s, "idle")
    /\ UNCHANGED <<items, writeCount, returned, reserved, drawn, shutdown, saved, restores, loading, inserted, interrupted>>

Sleep(s) ==
    /\ s \in Waiting /\ pc[s] = "reserve"
    /\ ~shutdown /\ ~Permitted
    /\ Goto(s, "asleep")
    /\ UNCHANGED <<items, writeCount, returned, reserved, drawn, shutdown, saved, restores, loading, inserted, interrupted>>

\* The deadline passes or the cancel event is set.
GiveUp(s) ==
    /\ s \in Impatient /\ pc[s] = "asleep"
    /\ Goto(s, "idle")
    /\ UNCHANGED <<items, writeCount, returned, reserved, drawn, shutdown, saved, restores, loading, inserted, interrupted>>

\* The sampler may return less than a batch.
Draw(s) ==
    /\ s \in Samplers /\ pc[s] = "draw"
    /\ items > 0
    /\ \E n \in 1 .. BatchSize : drawn' = [drawn EXCEPT ![s] = n * UnitLength]
    /\ Goto(s, "count")
    /\ UNCHANGED <<items, writeCount, returned, reserved, shutdown, saved, restores, loading, inserted, interrupted>>

\* An error reaches the finally clause too.
AfterError_NoFinally(s) == Goto(s, "idle")
AfterError(s) == Goto(s, "release")

\* Shut down or emptied in the meantime.  A sampler that waits does so until
\* something is written, unless it is impatient.
DrawRaises(s) ==
    /\ s \in Samplers /\ pc[s] = "draw"
    /\ shutdown \/ (items = 0 /\ s \notin Waiting \ Impatient)
    /\ AfterError(s)
    /\ UNCHANGED <<items, writeCount, returned, reserved, drawn, shutdown, saved, restores, loading, inserted, interrupted>>

Count(s) ==
    /\ s \in Samplers /\ pc[s] = "count"
    /\ returned' = returned + drawn[s]
    /\ drawn' = [drawn EXCEPT ![s] = 0]
    /\ Goto(s, "release")
    /\ UNCHANGED <<items, writeCount, reserved, shutdown, saved, restores, loading, inserted, interrupted>>

AfterRelease_Silent(s) == Goto(s, "idle")
AfterRelease(s) == NotifyAll(s, "idle")

\* The finally clause.
Release(s) ==
    /\ s \in Samplers /\ pc[s] = "release"
    /\ reserved' = reserved - BatchSize
    /\ AfterRelease(s)
    /\ UNCHANGED <<items, writeCount, returned, drawn, shutdown, saved, restores, loading, inserted, interrupted>>

(***************************************************************************)
(* extend, empty, state_dict, load_state_dict and shutdown.                *)
(***************************************************************************)
Stored_Unclamped(n) == items + n
Stored(n) == IF items + n < Capacity THEN items + n ELSE Capacity

Write(w) ==
    /\ w \in Writers /\ pc[w] = "idle"
    /\ \E n \in 1 .. MaxWritten - inserted :
        /\ items' = Stored(n)
        /\ writeCount' = writeCount + n
        /\ inserted' = inserted + n
    /\ Goto(w, "notify")
    /\ UNCHANGED <<returned, reserved, drawn, shutdown, saved, restores, loading, interrupted>>

Notify(w) ==
    /\ w \in Writers /\ pc[w] = "notify"
    /\ NotifyAll(w, "idle")
    /\ UNCHANGED <<items, writeCount, returned, reserved, drawn, shutdown, saved, restores, loading, inserted, interrupted>>

\* The counter of returned records is kept.  The notification only makes the
\* sleepers look again at a buffer that is empty.
Empty(count) ==
    /\ Clears
    /\ items' = 0
    /\ writeCount' = IF count THEN 0 ELSE writeCount
    /\ NotifyOthers
    /\ UNCHANGED <<returned, reserved, drawn, shutdown, saved, restores, loading, inserted, interrupted>>

Save ==
    /\ restores < Restores
    /\ saved' = {[items |-> items, writeCount |-> writeCount,
                  returned |-> returned, inserted |-> inserted]}
    /\ UNCHANGED <<items, writeCount, returned, reserved, pc, drawn, shutdown, restores, loading, inserted, interrupted>>

\* The base class restores contents and counters and notifies ...
Load ==
    /\ restores < Restores /\ ~loading
    /\ restores' = restores + 1
    /\ \E s \in saved :
        /\ items' = s.items
        /\ writeCount' = s.writeCount
        /\ returned' = s.returned
        /\ inserted' = s.inserted
    /\ loading' = TRUE
    /\ NotifyOthers
    /\ interrupted' = interrupted + Cardinality(InFlight)
    /\ UNCHANGED <<reserved, drawn, shutdown, saved>>

\* ... then the reservations are forgotten, also those of samples under way.
LoadRate ==
    /\ loading
    /\ loading' = FALSE
    /\ reserved' = 0
    /\ NotifyOthers
    /\ interrupted' = interrupted + Cardinality(InFlight)
    /\ UNCHANGED <<items, writeCount, returned, drawn, shutdown, saved, restores, inserted>>

Shutdown ==
    /\ ~shutdown
    /\ shutdown' = TRUE
    /\ NotifyOthers
    /\ UNCHANGED <<items, writeCount, returned, reserved, drawn, saved, restores, loading, inserted, interrupted>>

-----------------------------------------------------------------------------
Proceeds(s) ==
    \/ Reserve(s) \/ Refuse(s) \/ Sleep(s)
    \/ Draw(s) \/ DrawRaises(s) \/ Count(s) \/ Release(s)

Next ==
    \/ \E s \in Samplers : Call(s) \/ Proceeds(s) \/ GiveUp(s)
    \/ \E w \in Writers : Write(w) \/ Notify(w)
    \/ \E count \in BOOLEAN : Empty(count)
    \/ Save \/ Load \/ LoadRate
    \/ Shutdown

\* Calls under way go on; nobody need make another.
Fairness ==
    /\ \A s \in Samplers : WF_vars(Proceeds(s))
    /\ \A w \in Writers : WF_vars(Notify(w))
    /\ WF_vars(LoadRate)

Spec == Init /\ [][Next]_vars /\ Fairness

-----------------------------------------------------------------------------
\* The types of the variables; the storage never believes to be longer than it is
\* (_get_new_len).
TypeOK ==
    /\ items \in 0 .. Capacity
    /\ writeCount \in Nat /\ inserted \in Nat /\ returned \in Nat
    /\ reserved \in Int
    /\ pc \in [Samplers \cup Writers -> {"idle", "reserve", "asleep", "draw",
                                         "count", "release", "notify"}]
    /\ drawn \in [Samplers -> Nat]
    /\ shutdown \in BOOLEAN

\* "permits at most samples_per_insert sampled records for every record
\* written": over the life of the buffer, however calls overlap and whatever is
\* emptied.  A restore oversteps the ratio by no more than a batch for every
\* sample under way at one of its two steps.
RatioKept == returned <= Allowance(inserted) + BatchSize * interrupted

\* The same without that excess.
RatioKeptAcrossRestores == returned <= Allowance(inserted)

\* A reservation is held for every sample under way and given back on every
\* path out of sample; a restore may only cancel reservations.
ReservationsHeld ==
    LET held == BatchSize * Cardinality(InFlight)
    IN  held - BatchSize * interrupted <= reserved /\ reserved <= held

\* A waiting sampler does not sleep on while its sample is permitted.
WaitersServed == \A s \in Waiting : []<>(pc[s] # "asleep" \/ ~Permitted)
=============================================================================
