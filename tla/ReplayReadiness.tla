--------------------------- MODULE ReplayReadiness ---------------------------
(***************************************************************************)
(* Waiting for a replay buffer to become sampleable.                       *)
(*                                                                         *)
(* wait_until_sampleable holds the readiness condition and, inside it,     *)
(* takes the replay lock to ask the sampler.  Everything that may make the *)
(* buffer sampleable changes it under the replay lock and notifies the     *)
(* condition afterwards.  Loading a checkpoint also holds the futures lock *)
(* and, in a buffer that is not shared between processes, sets its sample  *)
(* counters under the condition.                                           *)
(*                                                                         *)
(* One thread per call.  The content of the buffer is its number of items; *)
(* a consuming sampler removes what it samples.                            *)
(*                                                                         *)
(* A definition named X_Something is X as a plausible bug would have it;   *)
(* no specification uses it.                                               *)
(***************************************************************************)
EXTENDS Naturals, FiniteSets

CONSTANTS
    Waiters,      \* threads in wait_until_sampleable
    Timed,        \* the waiters that passed a timeout
    Cancellable,  \* the waiters that passed a cancel_event
    Writers,      \* threads in add / extend
    Consumers,    \* threads in sample
    StateLoaders, \* threads in load_state_dict
    DiskLoaders,  \* threads in loads
    Stoppers,     \* threads in shutdown
    SharedChoices,\* the values of shared the buffer may be created with
    LoadsAlone,   \* callers keep loads and waits that exclude each other apart
    Need,         \* items a batch needs
    MaxItems,     \* bound: items in the buffer
    LoadedItems,  \* items in the checkpoint
    MaxCalls,     \* bound: calls made in a behaviour
    NoThread

Loaders == StateLoaders \cup DiskLoaders
Threads == Waiters \cup Writers \cup Consumers \cup Loaders \cup Stoppers

ASSUME ReadinessAssumption ==
    /\ Timed \subseteq Waiters
    /\ Cancellable \subseteq Waiters
    /\ SharedChoices \subseteq BOOLEAN
    /\ LoadsAlone \in BOOLEAN
    /\ Need \in Nat \ {0}
    /\ MaxItems \in Nat
    /\ LoadedItems \in 0 .. MaxItems
    /\ MaxCalls \in Nat
    /\ NoThread \notin Threads

VARIABLES
    shared,     \* the buffer was created with shared=True
    holder,     \* per lock: the thread that holds it
    pc,         \* per thread: where it is in its call
    items,      \* items in the buffer
    sleeping,   \* waiters inside condition.wait
    expired,    \* timed waiters whose deadline has passed
    cancelled,  \* waiters whose cancel_event is set
    shutdown    \* _service_shutdown

vars == <<shared, holder, pc, items, sleeping, expired, cancelled, shutdown>>

Locks == {"condition", "replay", "futures"}

Sampleable == items >= Need

Init ==
    /\ shared \in SharedChoices
    /\ holder = [l \in Locks |-> NoThread]
    /\ pc = [t \in Threads |-> "idle"]
    /\ items = 0
    /\ sleeping = {}
    /\ expired = {}
    /\ cancelled = {}
    /\ shutdown = FALSE

-----------------------------------------------------------------------------
Take(t, l) ==
    /\ holder[l] = NoThread
    /\ holder' = [holder EXCEPT ![l] = t]

Release(ls) == holder' = [l \in Locks |-> IF l \in ls THEN NoThread ELSE holder[l]]

Goto(t, label) == pc' = [pc EXCEPT ![t] = label]

\* What a caller has to keep apart: a wait and loads, which does not notify, and
\* in a buffer that is not shared a wait and load_state_dict, which can deadlock.
Excludes(l, w) ==
    /\ w \in Waiters
    /\ l \in DiskLoaders \/ (l \in StateLoaders /\ ~shared)

UnderWay(t) == pc[t] \notin {"idle", "done"}

\* A thread makes its call.
Call(t) ==
    /\ pc[t] = "idle"
    /\ Cardinality({u \in Threads : pc[u] # "idle"}) < MaxCalls
    /\ LoadsAlone => \A u \in Threads : Excludes(t, u) \/ Excludes(u, t) => ~UnderWay(u)
    /\ Goto(t, "start")
    /\ UNCHANGED <<shared, holder, items, sleeping, expired, cancelled, shutdown>>

(***************************************************************************)
(* wait_until_sampleable.                                                  *)
(***************************************************************************)
\* with condition: entered for the first time, or again after condition.wait.
TakeCondition(w) ==
    /\ \/ pc[w] = "start"
       \/ pc[w] = "woken"
    /\ Take(w, "condition")
    /\ Goto(w, "check")
    /\ UNCHANGED <<shared, items, sleeping, expired, cancelled, shutdown>>

\* Shut down: raises.  Cancelled: returns False.
Check(w) ==
    /\ pc[w] = "check"
    /\ IF shutdown \/ w \in cancelled
       THEN Goto(w, "done") /\ Release({"condition"})
       ELSE Goto(w, "probe") /\ UNCHANGED holder
    /\ UNCHANGED <<shared, items, sleeping, expired, cancelled, shutdown>>

Probe(w) ==
    /\ pc[w] = "probe"
    /\ Take(w, "replay")
    /\ Goto(w, "probing")
    /\ UNCHANGED <<shared, items, sleeping, expired, cancelled, shutdown>>

Probed(w) ==
    /\ pc[w] = "probing"
    /\ IF Sampleable
       THEN Goto(w, "done") /\ Release({"replay", "condition"})
       ELSE Goto(w, "decide") /\ Release({"replay"})
    /\ UNCHANGED <<shared, items, sleeping, expired, cancelled, shutdown>>

\* Past the deadline: returns False.  Otherwise condition.wait gives up the
\* condition and sleeps in one step.
Decide(w) ==
    /\ pc[w] = "decide"
    /\ Release({"condition"})
    /\ IF w \in expired
       THEN Goto(w, "done") /\ UNCHANGED sleeping
       ELSE Goto(w, "asleep") /\ sleeping' = sleeping \cup {w}
    /\ UNCHANGED <<shared, items, expired, cancelled, shutdown>>

\* condition.wait(wait_time) ends by itself at the deadline, and every 0.1 s
\* when there is a cancel_event to look at.
WakesAlone_OnlyCancel(w) == w \in Cancellable
WakesAlone(w) == w \in expired \/ w \in Cancellable

WakeUp(w) ==
    /\ w \in sleeping
    /\ WakesAlone(w)
    /\ sleeping' = sleeping \ {w}
    /\ Goto(w, "woken")
    /\ UNCHANGED <<shared, holder, items, expired, cancelled, shutdown>>

\* Time passes; somebody sets the cancel event.
Expire(w) ==
    /\ w \in Timed \ expired
    /\ pc[w] # "idle"
    /\ expired' = expired \cup {w}
    /\ UNCHANGED <<shared, holder, pc, items, sleeping, cancelled, shutdown>>

Cancel(w) ==
    /\ w \in Cancellable \ cancelled
    /\ cancelled' = cancelled \cup {w}
    /\ UNCHANGED <<shared, holder, pc, items, sleeping, expired, shutdown>>

(***************************************************************************)
(* _notify_replay_state_change.                                            *)
(***************************************************************************)
TakeToNotify(t) ==
    /\ pc[t] = "notify"
    /\ Take(t, "condition")
    /\ Goto(t, "notifying")
    /\ UNCHANGED <<shared, items, sleeping, expired, cancelled, shutdown>>

NotifyAll(t) ==
    /\ pc[t] = "notifying"
    /\ pc' = [u \in Threads |-> IF u = t THEN "done"
                                ELSE IF u \in sleeping THEN "woken" ELSE pc[u]]
    /\ sleeping' = {}
    /\ Release({l \in Locks : holder[l] = t})
    /\ UNCHANGED <<shared, items, expired, cancelled, shutdown>>

(***************************************************************************)
(* add / extend, sample, load_state_dict / loads, shutdown.                *)
(***************************************************************************)
WriterEnter(t) ==
    /\ t \in Writers /\ pc[t] = "start"
    /\ Take(t, "replay")
    /\ Goto(t, "write")
    /\ UNCHANGED <<shared, items, sleeping, expired, cancelled, shutdown>>

\* The replay lock is given up before the condition is asked for.
AfterWrite_UnderLock(t) == Goto(t, "notify") /\ UNCHANGED holder
AfterWrite_Silent(t) == Goto(t, "done") /\ Release({"replay"})
AfterWrite(t) == Goto(t, "notify") /\ Release({"replay"})

Smaller(a, b) == IF a < b THEN a ELSE b

Stored_Unclamped == items + 1
Stored == Smaller(items + 1, MaxItems)

Write(t) ==
    /\ t \in Writers /\ pc[t] = "write"
    /\ items' = Stored
    /\ AfterWrite(t)
    /\ UNCHANGED <<shared, sleeping, expired, cancelled, shutdown>>

ConsumerEnter(t) ==
    /\ t \in Consumers /\ pc[t] = "start"
    /\ Take(t, "replay")
    /\ Goto(t, "sample")
    /\ UNCHANGED <<shared, items, sleeping, expired, cancelled, shutdown>>

\* The replay lock is given up, also when sampling an empty buffer raises.
AfterSample(t) == Release({"replay"})

\* An empty buffer raises; otherwise the sampled items are consumed and the
\* sample counters incremented, under the condition unless they are shared.
Consume(t) ==
    /\ t \in Consumers /\ pc[t] = "sample"
    /\ AfterSample(t)
    /\ items' = items - Smaller(items, Need)
    /\ Goto(t, IF items = 0 \/ shared THEN "done" ELSE "count")
    /\ UNCHANGED <<shared, sleeping, expired, cancelled, shutdown>>

Count(t) ==
    /\ pc[t] = "count"
    /\ Take(t, "condition")
    /\ Goto(t, "counted")
    /\ UNCHANGED <<shared, items, sleeping, expired, cancelled, shutdown>>

Counted(t) ==
    /\ pc[t] = "counted"
    /\ Release({"condition"})
    /\ Goto(t, "done")
    /\ UNCHANGED <<shared, items, sleeping, expired, cancelled, shutdown>>

LoaderEnter(t) ==
    /\ t \in Loaders /\ pc[t] = "start"
    /\ Take(t, "futures")
    /\ Goto(t, "lock")
    /\ UNCHANGED <<shared, items, sleeping, expired, cancelled, shutdown>>

LoaderLock(t) ==
    /\ pc[t] = "lock"
    /\ Take(t, "replay")
    /\ Goto(t, "load")
    /\ UNCHANGED <<shared, items, sleeping, expired, cancelled, shutdown>>

Load(t) ==
    /\ pc[t] = "load"
    /\ items' = LoadedItems
    /\ Goto(t, IF shared THEN "loaded" ELSE "counters")
    /\ UNCHANGED <<shared, holder, sleeping, expired, cancelled, shutdown>>

\* _set_counter, while the replay lock is still held.
TakeCounters(t) ==
    /\ pc[t] = "counters"
    /\ Take(t, "condition")
    /\ Goto(t, "counting")
    /\ UNCHANGED <<shared, items, sleeping, expired, cancelled, shutdown>>

SetCounters(t) ==
    /\ pc[t] = "counting"
    /\ Release({"condition"})
    /\ Goto(t, "loaded")
    /\ UNCHANGED <<shared, items, sleeping, expired, cancelled, shutdown>>

\* Only load_state_dict notifies.
Loaded(t) ==
    /\ pc[t] = "loaded"
    /\ Release({"replay", "futures"})
    /\ Goto(t, IF t \in StateLoaders THEN "notify" ELSE "done")
    /\ UNCHANGED <<shared, items, sleeping, expired, cancelled, shutdown>>

StopperEnter(t) ==
    /\ t \in Stoppers /\ pc[t] = "start"
    /\ Take(t, "futures")
    /\ Goto(t, "flag")
    /\ UNCHANGED <<shared, items, sleeping, expired, cancelled, shutdown>>

AfterFlag_Silent(t) == Goto(t, "done")
AfterFlag(t) == Goto(t, "notify")

Flag(t) ==
    /\ pc[t] = "flag"
    /\ Release({"futures"})
    /\ shutdown' = TRUE
    /\ AfterFlag(t)
    /\ UNCHANGED <<shared, items, sleeping, expired, cancelled>>

-----------------------------------------------------------------------------
\* The steps that take a lock, and the others.
Acquire(t) ==
    \/ t \in Waiters /\ (TakeCondition(t) \/ Probe(t))
    \/ TakeToNotify(t)
    \/ WriterEnter(t)
    \/ ConsumerEnter(t) \/ Count(t)
    \/ LoaderEnter(t) \/ LoaderLock(t) \/ TakeCounters(t)
    \/ StopperEnter(t)

Run(t) ==
    \/ t \in Waiters /\ (Check(t) \/ Probed(t) \/ Decide(t) \/ WakeUp(t))
    \/ NotifyAll(t)
    \/ Write(t)
    \/ Consume(t) \/ Counted(t)
    \/ Load(t) \/ SetCounters(t) \/ Loaded(t)
    \/ Flag(t)

Next ==
    \/ \E t \in Threads : Call(t) \/ Acquire(t) \/ Run(t)
    \/ \E w \in Waiters : Expire(w) \/ Cancel(w)

\* A thread that can run runs, a lock that keeps becoming free is eventually
\* taken by whoever waits for it, and deadlines pass.  Nobody need make a call
\* or cancel one.
Fairness ==
    /\ \A t \in Threads : SF_vars(Acquire(t)) /\ WF_vars(Run(t))
    /\ \A w \in Timed : WF_vars(Expire(w))

Spec == Init /\ [][Next]_vars /\ Fairness

-----------------------------------------------------------------------------
\* The types of the variables; the buffer never holds more than it has room for.
TypeOK ==
    /\ shared \in BOOLEAN
    /\ holder \in [Locks -> Threads \cup {NoThread}]
    /\ items \in 0 .. MaxItems
    /\ sleeping \subseteq {w \in Waiters : pc[w] = "asleep"}
    /\ expired \subseteq Timed
    /\ cancelled \subseteq Cancellable

\* The lock a thread is waiting for.
Wants(t) ==
    CASE pc[t] \in {"notify", "woken", "count", "counters"} -> {"condition"}
      [] pc[t] \in {"probe", "lock"} -> {"replay"}
      [] OTHER -> {}

\* No two threads hold the lock the other waits for: the condition may be held
\* while the replay lock is taken, never the other way round.
NoLockCycle ==
    \A t, u \in Threads :
        ~ (/\ \E l \in Wants(t) : holder[l] = u
           /\ \E l \in Wants(u) : holder[l] = t)

\* A waiter does not sleep on while the buffer is sampleable: whoever makes it
\* sampleable, the wake-up is not lost (_notify_replay_state_change).
NoLostWakeup ==
    \A w \in Waiters : []<>(pc[w] \in {"idle", "done"} \/ ~Sampleable)

\* "False after a timeout or cancellation": a wait with a timeout, or one that
\* is cancelled, ends.
BoundedWaitsEnd ==
    \A w \in Waiters :
        (pc[w] # "idle" /\ (w \in Timed \/ w \in cancelled)) ~> pc[w] = "done"

\* Shutting the buffer down releases every waiter (shutdown).
ShutdownReleasesWaiters ==
    \A w \in Waiters : (shutdown /\ pc[w] # "idle") ~> pc[w] = "done"

\* A wait that has a reason to end ends, whichever it is (wait_until_sampleable).
WaitsEnd == BoundedWaitsEnd /\ ShutdownReleasesWaiters
=============================================================================
