--------------------------- MODULE OrderedUpdates ----------------------------
(***************************************************************************)
(* Prefetched samples and submitted updates of a replay buffer in one      *)
(* process: sample, submit_update_if_present, synchronize and shutdown,    *)
(* called by several threads.                                              *)
(*                                                                         *)
(* Samples are prefetched by a pool of cap threads, updates are executed   *)
(* by a single one.  Order comes from futures only: an update waits for    *)
(* the samples in the prefetch queue and for the update before it; a       *)
(* sample waits for _sample_dependency, the last update submitted.  cap =  *)
(* 0 is a buffer without prefetching.                                      *)
(*                                                                         *)
(* A future is its index in the sequence futures.  Submitting creates it;  *)
(* a sample that a caller draws itself becomes one as well, already done.  *)
(* What a sample reads is the set of updates applied before it; what an    *)
(* update patches is the subject of GenerationRing.  A definition named    *)
(* X_Something is X as a plausible bug would have it; no specification     *)
(* uses it.                                                                *)
(***************************************************************************)
EXTENDS Naturals, Sequences, SequencesExt

CONSTANTS
    Callers,     \* threads that use the buffer
    Prefetches,  \* the values of prefetch the buffer may be created with
    Stops,       \* shutdown may be called
    MaxFutures,  \* bound: samples drawn and updates submitted
    MaxFailures, \* bound: operations that raise
    NoCaller

ASSUME OrderedUpdatesAssumption ==
    /\ Prefetches \subseteq Nat
    /\ Stops \in BOOLEAN
    /\ {MaxFutures, MaxFailures} \subseteq Nat
    /\ NoCaller \notin Callers

VARIABLES
    cap,         \* prefetch
    futures,     \* every future created, with its dependencies and outcome
    requests,    \* _prefetch_queue
    updates,     \* _pending_update_futures
    dependency,  \* _sample_dependency, 0 for None
    holder,      \* the caller that holds _futures_lock
    stage,       \* per caller: where it is in its call
    target,      \* per caller: the future its call is about, 0 for none
    asked,       \* per caller: the futures there were when it asked for a sample
    taken,       \* the requests that left the queue through sample
    shutdown,    \* _service_shutdown
    open,        \* the prefetch pool has not been closed
    applied,     \* updates applied to the storage, in order
    failures     \* operations that raised by themselves

uvars == <<cap, futures, requests, updates, dependency, holder, stage, target,
          asked, taken, shutdown, open, applied, failures>>

queues == <<requests, updates, dependency>>
service == <<cap, shutdown, open>>
outcome == <<applied, failures>>
ghosts == <<asked, taken>>

Outcomes == {"pending", "done", "failed", "skipped"}

UInit ==
    /\ cap \in Prefetches
    /\ futures = <<>>
    /\ requests = <<>>
    /\ updates = <<>>
    /\ dependency = 0
    /\ holder = NoCaller
    /\ stage = [c \in Callers |-> "idle"]
    /\ target = [c \in Callers |-> 0]
    /\ asked = [c \in Callers |-> 0]
    /\ taken = <<>>
    /\ shutdown = FALSE
    /\ open = TRUE
    /\ applied = <<>>
    /\ failures = 0

-----------------------------------------------------------------------------
Updates == {f \in DOMAIN futures : futures[f].kind = "update"}
Samples == DOMAIN futures \ Updates
Prefetched == {f \in Samples : futures[f].kind = "prefetch"}

\* None, the future 0, needs no waiting.
StateOf(f) == IF f = 0 THEN "done" ELSE futures[f].state
Settled(f) == StateOf(f) # "pending"
Failed(f) == StateOf(f) \in {"failed", "skipped"}

\* after: the updates accepted before a sample was asked for.  before: the
\* prefetched samples that an update found in the queue.
PrefetchRequest(deps) == [kind |-> "prefetch", state |-> "pending", deps |-> deps \ {0},
                          after |-> Updates, before |-> {}, sees |-> {}]
Inline(after) == [kind |-> "inline", state |-> "done", deps |-> {},
                  after |-> after, before |-> {}, sees |-> ToSet(applied)]
Update(deps) == [kind |-> "update", state |-> "pending", deps |-> deps \ {0},
                 after |-> Updates, before |-> ToSet(requests), sees |-> {}]

Lock(c) == holder = NoCaller /\ holder' = c
Unlock == holder' = NoCaller
Goto(c, label) == stage' = [stage EXCEPT ![c] = label]

\* The call returns or raises.
Leave(c) ==
    /\ Goto(c, "idle")
    /\ target' = [target EXCEPT ![c] = 0]

-----------------------------------------------------------------------------
(***************************************************************************)
(* The two pools.  Their queues are first in, first out: a task has a      *)
(* thread once fewer earlier tasks are unsettled than there are threads.   *)
(* _run_after_futures lets it wait there for its dependencies.             *)
(***************************************************************************)
Earlier(f) == {g \in 1 .. (f - 1) : futures[g].kind = futures[f].kind /\ ~Settled(g)}

HasThread(f) ==
    Cardinality(Earlier(f)) < (IF futures[f].kind = "prefetch" THEN cap ELSE 1)

Ready_TakesFuturesLock(f) == HasThread(f) /\ (\A g \in futures[f].deps : Settled(g)) /\ holder = NoCaller
Ready(f) == HasThread(f) /\ \A g \in futures[f].deps : Settled(g)

\* The first dependency that failed is raised again instead of running.
RunSkipped(f) ==
    /\ ~Settled(f) /\ Ready(f)
    /\ \E g \in futures[f].deps : Failed(g)
    /\ futures' = [futures EXCEPT ![f].state = "skipped"]
    /\ UNCHANGED <<queues, holder, stage, target, service, outcome, ghosts>>

RunFails(f) ==
    /\ ~Settled(f) /\ Ready(f)
    /\ \A g \in futures[f].deps : ~Failed(g)
    /\ failures < MaxFailures
    /\ failures' = failures + 1
    /\ futures' = [futures EXCEPT ![f].state = "failed"]
    /\ UNCHANGED <<queues, holder, stage, target, service, applied, ghosts>>

RunSucceeds(f) ==
    /\ ~Settled(f) /\ Ready(f)
    /\ \A g \in futures[f].deps : ~Failed(g)
    /\ futures' = [futures EXCEPT ![f].state = "done",
                                  ![f].sees = IF f \in Samples THEN ToSet(applied) ELSE {}]
    /\ applied' = IF f \in Updates THEN Append(applied, f) ELSE applied
    /\ UNCHANGED <<queues, holder, stage, target, service, failures, ghosts>>

Run(f) == RunSkipped(f) \/ RunFails(f) \/ RunSucceeds(f)

-----------------------------------------------------------------------------
(***************************************************************************)
(* sample.                                                                 *)
(***************************************************************************)
\* The shutdown flag is read before the lock is taken.
SampleCall(c) ==
    /\ stage[c] = "idle"
    /\ ~shutdown
    /\ Len(futures) < MaxFutures
    /\ Goto(c, "sample")
    /\ UNCHANGED <<futures, queues, holder, target, service, outcome, ghosts>>

\* What a sample that is not prefetched waits for.
AwaitedBySample_FirstPending == IF updates = <<>> THEN 0 ELSE Head(updates)
AwaitedBySample == dependency

\* Without prefetching the dependency is read under the lock and awaited
\* without it; target is that dependency.
SampleUnqueued(c) ==
    /\ cap = 0
    /\ stage[c] = "sample"
    /\ holder = NoCaller
    /\ target' = [target EXCEPT ![c] = AwaitedBySample]
    /\ asked' = [asked EXCEPT ![c] = Len(futures)]
    /\ Goto(c, "await")
    /\ UNCHANGED <<futures, queues, holder, service, outcome, taken>>

AwaitThenSample(c) ==
    /\ stage[c] = "await"
    /\ Settled(target[c])
    /\ ~Failed(target[c])
    /\ futures' = Append(futures, Inline({u \in Updates : u <= asked[c]}))
    /\ Leave(c)
    /\ UNCHANGED <<queues, holder, service, outcome, ghosts>>

AwaitRaises(c) ==
    /\ stage[c] = "await"
    /\ Failed(target[c])
    /\ Leave(c)
    /\ UNCHANGED <<futures, queues, holder, service, outcome, ghosts>>

SampleLocked(c) ==
    /\ cap > 0
    /\ stage[c] = "sample"
    /\ Lock(c)
    /\ IF requests # <<>>
       THEN /\ target' = [target EXCEPT ![c] = Head(requests)]
            /\ requests' = Tail(requests)
            /\ taken' = Append(taken, Head(requests))
            /\ Goto(c, "popped")
       ELSE Goto(c, "inline") /\ UNCHANGED <<requests, target, taken>>
    /\ UNCHANGED <<futures, updates, dependency, service, outcome, asked>>

\* The popped future, or the dependency, is awaited with the lock held.
PoppedSettles(c) ==
    /\ stage[c] = "popped"
    /\ Settled(target[c])
    /\ IF Failed(target[c])
       THEN Leave(c) /\ Unlock
       ELSE Goto(c, "refill") /\ UNCHANGED <<holder, target>>
    /\ UNCHANGED <<futures, queues, service, outcome, ghosts>>

InlineSample(c) ==
    /\ stage[c] = "inline"
    /\ Settled(dependency)
    /\ ~Failed(dependency)
    /\ futures' = Append(futures, Inline(Updates))
    /\ target' = [target EXCEPT ![c] = Len(futures) + 1]
    /\ Goto(c, "refill")
    /\ UNCHANGED <<queues, holder, service, outcome, ghosts>>

\* The dependency failed, or sampling itself raises.
InlineRaises(c) ==
    /\ stage[c] = "inline"
    /\ Settled(dependency)
    /\ \/ Failed(dependency) /\ UNCHANGED failures
       \/ failures < MaxFailures /\ failures' = failures + 1
    /\ Leave(c)
    /\ Unlock
    /\ UNCHANGED <<futures, queues, service, applied, ghosts>>

\* What the requests for further samples wait for.
Barrier == {dependency}

Room_OffByOne == cap + 1 - Len(requests)
Room == cap - Len(requests)

\* Once shutdown has closed the pool, asking it for a sample raises.
Refill(c) ==
    /\ stage[c] = "refill"
    /\ IF open
       THEN /\ futures' = futures \o [i \in 1 .. Room |-> PrefetchRequest(Barrier)]
            /\ requests' = requests \o [i \in 1 .. Room |-> Len(futures) + i]
       ELSE UNCHANGED <<futures, requests>>
    /\ Leave(c)
    /\ Unlock
    /\ UNCHANGED <<updates, dependency, service, outcome, ghosts>>

-----------------------------------------------------------------------------
(***************************************************************************)
(* submit_update_if_present.                                               *)
(***************************************************************************)
\* The updates at the head of updates that have settled, up to the first one
\* that failed: its error is raised by this call.
Collected == {i \in DOMAIN updates :
                 /\ \A j \in 1 .. i : Settled(updates[j])
                 /\ \A j \in 1 .. (i - 1) : ~Failed(updates[j])}
Uncollected == SubSeq(updates, Cardinality(Collected) + 1, Len(updates))
CollectsError == \E i \in Collected : Failed(updates[i])

SubmitRaises(c) ==
    /\ stage[c] = "idle"
    /\ holder = NoCaller
    /\ ~shutdown
    /\ CollectsError
    /\ updates' = Uncollected
    /\ UNCHANGED <<futures, requests, dependency, holder, stage, target, service, outcome, ghosts>>

\* The update before the new one, unless all earlier ones were collected.
PreviousUpdate == IF Uncollected = <<>> THEN 0 ELSE dependency

AwaitedByUpdate_OnlyHead == {PreviousUpdate} \cup (IF requests = <<>> THEN {} ELSE {Head(requests)})
AwaitedByUpdate == {PreviousUpdate} \cup ToSet(requests)

Submit(c) ==
    /\ stage[c] = "idle"
    /\ holder = NoCaller
    /\ ~shutdown
    /\ ~CollectsError
    /\ Len(futures) < MaxFutures
    /\ futures' = Append(futures, Update(AwaitedByUpdate))
    /\ updates' = Append(Uncollected, Len(futures) + 1)
    /\ dependency' = Len(futures) + 1
    /\ UNCHANGED <<requests, holder, stage, target, service, outcome, ghosts>>

(***************************************************************************)
(* synchronize, and shutdown, which calls it.                              *)
(***************************************************************************)
SynchronizeCall(c) ==
    /\ stage[c] = "idle"
    /\ Lock(c)
    /\ Goto(c, "synchronize")
    /\ UNCHANGED <<futures, queues, target, service, outcome, ghosts>>

ShutdownCall(c) ==
    /\ Stops
    /\ stage[c] = "idle"
    /\ holder = NoCaller
    /\ ~shutdown
    /\ shutdown' = TRUE
    /\ Goto(c, "stopping")
    /\ UNCHANGED <<futures, queues, holder, cap, target, open, outcome, ghosts>>

ShutdownSynchronizes(c) ==
    /\ stage[c] = "stopping"
    /\ Lock(c)
    /\ Goto(c, "draining")
    /\ UNCHANGED <<futures, queues, target, service, outcome, ghosts>>

QueueAfterSync_Cleared == <<>>
QueueAfterSync == requests

\* With the lock held, everything queued settles; the first error is raised.
Synchronized(c) ==
    /\ stage[c] \in {"synchronize", "draining"}
    /\ \A f \in ToSet(requests) \cup ToSet(updates) : Settled(f)
    /\ updates' = <<>>
    /\ dependency' = 0
    /\ requests' = QueueAfterSync
    /\ Unlock
    /\ Goto(c, IF stage[c] = "draining" THEN "closing" ELSE "idle")
    /\ UNCHANGED <<futures, target, service, outcome, ghosts>>

Close(c) ==
    /\ stage[c] = "closing"
    /\ holder = NoCaller
    /\ open' = FALSE
    /\ Goto(c, "joining")
    /\ UNCHANGED <<futures, queues, holder, cap, target, shutdown, outcome, ghosts>>

\* executor.shutdown(wait=True)
Joined(c) ==
    /\ stage[c] = "joining"
    /\ \A f \in DOMAIN futures : Settled(f)
    /\ Goto(c, "idle")
    /\ UNCHANGED <<futures, queues, holder, target, service, outcome, ghosts>>

-----------------------------------------------------------------------------
Calls(c) == SampleCall(c) \/ SubmitRaises(c) \/ Submit(c) \/ SynchronizeCall(c) \/ ShutdownCall(c)

Proceeds(c) ==
    \/ SampleUnqueued(c) \/ AwaitThenSample(c) \/ AwaitRaises(c)
    \/ SampleLocked(c) \/ PoppedSettles(c) \/ InlineSample(c) \/ InlineRaises(c) \/ Refill(c)
    \/ ShutdownSynchronizes(c) \/ Synchronized(c) \/ Close(c) \/ Joined(c)

UNext ==
    \/ \E c \in Callers : Calls(c) \/ Proceeds(c)
    \/ \E f \in DOMAIN futures : Run(f)

USpec == UInit /\ [][UNext]_uvars

-----------------------------------------------------------------------------
\* The types of the variables; the prefetch queue never outgrows its bound, whoever
\* refills it (sample).
UTypeOK ==
    /\ \A f \in DOMAIN futures :
          /\ futures[f].state \in Outcomes
          /\ futures[f].deps \subseteq 1 .. (f - 1)
    /\ ToSet(requests) \subseteq Samples
    /\ ToSet(updates) \subseteq Updates
    /\ dependency \in Updates \cup {0}
    /\ Len(requests) <= cap

\* "Samples prefetched after this call wait for the update": a sample reads the
\* storage with every update accepted before it was asked for, unless that
\* update failed.
SamplesSeeEarlierUpdates ==
    \A f \in Samples : futures[f].state = "done" =>
        \A u \in futures[f].after :
            Settled(u) /\ (futures[u].state = "done" => u \in futures[f].sees)

\* "The update runs after all samples that were already prefetched": none of
\* them reads what the update wrote, or is still to come when it is applied.
UpdatesFollowPrefetched ==
    \A u \in Updates : futures[u].state = "done" =>
        \A f \in futures[u].before : Settled(f) /\ u \notin futures[f].sees

\* Both, of every update and every sample (submit_update_if_present).
UpdatesAreOrdered == SamplesSeeEarlierUpdates /\ UpdatesFollowPrefetched

\* "Prefetched results remain queued and are returned by subsequent calls to
\* sample in the same order": no request is dropped, overtaken or served twice.
RequestsServedInOrder ==
    LET served == taken \o requests
    IN  /\ ToSet(served) = Prefetched
        /\ \A i, j \in DOMAIN served : i < j => served[i] < served[j]

\* The pools, the dependencies and the lock never wait for each other in a
\* circle: while a call has not returned or a future has not settled, something
\* can go on, even if nobody makes another call.
NobodyIsStuck ==
    \/ /\ \A c \in Callers : stage[c] = "idle"
       /\ \A f \in DOMAIN futures : Settled(f)
    \/ \E c \in Callers : ENABLED Proceeds(c)
    \/ \E f \in DOMAIN futures : ~Settled(f) /\ Ready(f)

\* "Multiple submitted updates execute in submission order": an update that was
\* accepted is executed; it fails through its own fault only.
AcceptedUpdatesRun ==
    \A u \in Updates : futures[u].state # "skipped"
=============================================================================
