----------------------------- MODULE LockProofs -----------------------------
(***************************************************************************)
(* Proofs about the locks of a replay buffer, for any threads, buffers and *)
(* sizes.                                                                  *)
(*                                                                         *)
(* ReplayReadiness: type correctness, that callers who keep loads and      *)
(* waits apart never make two threads wait for each other's locks, and     *)
(* that no waiter then sleeps on a sampleable buffer unless somebody is    *)
(* about to wake it.                                                       *)
(*                                                                         *)
(* LockedRing: threads that interleave inside the calls of a buffer alone  *)
(* on its storage implement GenerationRing, where a call is one step, and  *)
(* a patch lands on the record its thread sampled.                         *)
(***************************************************************************)
EXTENDS ReplayReadiness, LockedRing, FiniteSetTheorems, TLAPS

WaiterLabels == {"check", "probe", "probing", "decide", "asleep", "woken"}
LoaderLabels == {"lock", "load", "counters", "counting", "loaded"}

Labels == WaiterLabels \cup LoaderLabels \cup
          {"idle", "start", "notify", "notifying", "write", "sample", "count", "counted",
           "flag", "done"}

\* Where a thread may hold a lock.
HeldAt(l) ==
    IF l = "condition"
      THEN {"check", "probe", "probing", "decide", "notifying", "counted", "counting"}
    ELSE IF l = "replay"
      THEN {"probing", "write", "sample", "load", "counters", "counting", "loaded"}
    ELSE {"lock", "load", "counters", "counting", "loaded", "flag"}

HoldersKnown == \A t \in Threads, l \in Locks : holder[l] = t => pc[t] \in HeldAt(l)

\* Who may be at a label: the sample counters are set under the condition only in
\* a buffer that is not shared.
MayBeAt(t, label) ==
    /\ label \in WaiterLabels => t \in Waiters
    /\ label \in LoaderLabels => t \in Loaders
    /\ label \in {"counters", "counting"} => ~shared

RolesKept == \A t \in Threads : MayBeAt(t, pc[t])

\* Calls that exclude each other are not under way together.
KeptApart ==
    LoadsAlone => \A t, u \in Threads :
        t # u /\ Excludes(t, u) /\ UnderWay(t) => ~UnderWay(u)

\* The inductive invariant behind NoLockCycle.
LockInv ==
    /\ TypeOK
    /\ pc \in [Threads -> Labels]
    /\ HoldersKnown
    /\ RolesKept
    /\ KeptApart

-----------------------------------------------------------------------------
\* Taking a free lock, and giving locks up.
LEMMA TakeEffect ==
    ASSUME TypeOK, NEW t \in Threads, NEW l \in Locks, Take(t, l)
    PROVE  /\ holder' \in [Locks -> Threads \cup {NoThread}]
           /\ \A k \in Locks : holder'[k] = IF k = l THEN t ELSE holder[k]
BY DEF TypeOK, Take

LEMMA ReleaseEffect ==
    ASSUME TypeOK, NEW ls, Release(ls)
    PROVE  /\ holder' \in [Locks -> Threads \cup {NoThread}]
           /\ \A k \in Locks : holder'[k] = IF k \in ls THEN NoThread ELSE holder[k]
BY DEF TypeOK, Release

\* A thread that is under way goes on to another label, where it may hold the
\* locks it has then; the other threads keep their labels and at most lose locks.
LEMMA StepInCall ==
    ASSUME LockInv, UNCHANGED shared,
           NEW t \in Threads, NEW label \in Labels, Goto(t, label),
           UnderWay(t), MayBeAt(t, label),
           \A l \in Locks : holder'[l] \in {holder[l], t, NoThread},
           \A l \in Locks : holder'[l] = t => label \in HeldAt(l)
    PROVE  /\ pc' \in [Threads -> Labels] /\ HoldersKnown' /\ RolesKept' /\ KeptApart'
           /\ pc'[t] = label /\ \A u \in Threads \ {t} : pc'[u] = pc[u]
<1>1. /\ pc' \in [Threads -> Labels] /\ pc'[t] = label
      /\ \A u \in Threads \ {t} : pc'[u] = pc[u]
  BY DEF LockInv, Goto
<1>2. HoldersKnown'
  <2>1. SUFFICES ASSUME NEW u \in Threads, NEW l \in Locks, holder'[l] = u
                 PROVE  pc'[u] \in HeldAt(l)
    BY DEF HoldersKnown, HeldAt
  <2>2. CASE u = t
    BY <1>1, <2>1, <2>2
  <2>3. CASE u # t
    <3>1. holder[l] = u
      BY <2>1, <2>3, ReadinessAssumption
    <3> QED
      BY <1>1, <2>3, <3>1 DEF LockInv, HoldersKnown
  <2> QED
    BY <2>2, <2>3
<1>3. RolesKept'
  BY <1>1 DEF LockInv, RolesKept, MayBeAt
<1>4. KeptApart'
  BY <1>1 DEF LockInv, KeptApart, Excludes, UnderWay
<1> QED
  BY <1>1, <1>2, <1>3, <1>4

\* The same for a step that takes a lock, and does nothing else.
LEMMA AcquireStep ==
    ASSUME LockInv, UNCHANGED <<shared, items, sleeping, expired, cancelled, shutdown>>,
           NEW t \in Threads, NEW l \in Locks, Take(t, l),
           NEW label \in Labels, Goto(t, label),
           pc[t] \notin {"idle", "done", "asleep"}, MayBeAt(t, label),
           label \in HeldAt(l),
           \A k \in Locks : pc[t] \in HeldAt(k) => label \in HeldAt(k)
    PROVE  LockInv'
<1>1. /\ holder' \in [Locks -> Threads \cup {NoThread}]
      /\ \A k \in Locks : holder'[k] = IF k = l THEN t ELSE holder[k]
  BY TakeEffect DEF LockInv
<1>2. \A k \in Locks : holder'[k] = t => label \in HeldAt(k)
  BY <1>1 DEF LockInv, HoldersKnown
<1>3. /\ pc' \in [Threads -> Labels] /\ HoldersKnown' /\ RolesKept' /\ KeptApart'
      /\ \A u \in Threads \ {t} : pc'[u] = pc[u]
  BY <1>1, <1>2, StepInCall DEF UnderWay
<1>4. TypeOK'
  BY <1>1, <1>3 DEF LockInv, TypeOK, Threads
<1> QED
  BY <1>3, <1>4 DEF LockInv

\* The same for one that gives up locks, if any, and lets no other thread on.
LEMMA RunStep ==
    ASSUME LockInv, UNCHANGED <<shared, expired, cancelled>>,
           items' \in 0 .. MaxItems,
           NEW t \in Threads, NEW ls, Release(ls) \/ (ls = {} /\ UNCHANGED holder),
           NEW label \in Labels, Goto(t, label),
           pc[t] \notin {"idle", "done"}, MayBeAt(t, label),
           \A k \in Locks \ ls : pc[t] \in HeldAt(k) => label \in HeldAt(k),
           sleeping' \subseteq sleeping \cup {t},
           t \in sleeping' => label = "asleep"
    PROVE  LockInv'
<1>1. /\ holder' \in [Locks -> Threads \cup {NoThread}]
      /\ \A k \in Locks : holder'[k] = IF k \in ls THEN NoThread ELSE holder[k]
  BY ReleaseEffect DEF LockInv, TypeOK
<1>2. \A k \in Locks : holder'[k] = t => label \in HeldAt(k)
  BY <1>1, ReadinessAssumption DEF LockInv, HoldersKnown
<1>3. /\ pc' \in [Threads -> Labels] /\ HoldersKnown' /\ RolesKept' /\ KeptApart'
      /\ pc'[t] = label /\ \A u \in Threads \ {t} : pc'[u] = pc[u]
  BY <1>1, <1>2, StepInCall DEF UnderWay
<1>4. \A w \in sleeping' : w \in Waiters /\ pc'[w] = "asleep"
  BY <1>3 DEF LockInv, TypeOK, Threads, MayBeAt, WaiterLabels
<1>5. TypeOK'
  BY <1>1, <1>3, <1>4 DEF LockInv, TypeOK
<1> QED
  BY <1>3, <1>5 DEF LockInv
-----------------------------------------------------------------------------
LEMMA InitLocks == Init => LockInv
<1> SUFFICES ASSUME Init PROVE LockInv
  OBVIOUS
<1>1. \A t \in Threads : t # NoThread
  BY ReadinessAssumption
<1>2. TypeOK
  BY ReadinessAssumption DEF Init, TypeOK
<1>3. pc \in [Threads -> Labels] /\ \A t \in Threads : pc[t] = "idle"
  BY DEF Init, Labels
<1>4. HoldersKnown
  BY <1>1 DEF Init, HoldersKnown
<1>5. RolesKept /\ KeptApart
  BY <1>3 DEF RolesKept, MayBeAt, KeptApart, UnderWay, WaiterLabels, LoaderLabels
<1> QED
  BY <1>2, <1>3, <1>4, <1>5 DEF LockInv

LEMMA CallKeepsLocks ==
    ASSUME LockInv, NEW t \in Threads, Call(t)
    PROVE  LockInv'
<1>1. /\ pc' \in [Threads -> Labels] /\ pc'[t] = "start" /\ pc[t] = "idle"
      /\ \A u \in Threads \ {t} : pc'[u] = pc[u]
  BY DEF LockInv, Call, Goto, Labels
<1>2. /\ UNCHANGED <<shared, holder, items, sleeping, expired, cancelled>>
      /\ LoadsAlone => \A u \in Threads : Excludes(t, u) \/ Excludes(u, t) => ~UnderWay(u)
  BY DEF Call
<1>3. TypeOK'
  BY <1>1, <1>2 DEF LockInv, TypeOK, Threads
<1>4. HoldersKnown'
  BY <1>1, <1>2 DEF LockInv, HoldersKnown, HeldAt
<1>5. RolesKept'
  BY <1>1, <1>2 DEF LockInv, RolesKept, MayBeAt, WaiterLabels, LoaderLabels
<1>6. KeptApart'
  BY <1>1, <1>2 DEF LockInv, KeptApart, Excludes, UnderWay
<1> QED
  BY <1>1, <1>3, <1>4, <1>5, <1>6 DEF LockInv

LEMMA AcquireKeepsLocks ==
    ASSUME LockInv, NEW t \in Threads, Acquire(t)
    PROVE  LockInv'
<1> USE DEF MayBeAt, WaiterLabels, LoaderLabels, Labels, HeldAt
<1>0. {"condition", "replay", "futures"} = Locks /\ MayBeAt(t, pc[t])
  BY DEF Locks, LockInv, RolesKept
<1>1. CASE t \in Waiters /\ TakeCondition(t)
  BY <1>0, <1>1, AcquireStep DEF TakeCondition
<1>2. CASE t \in Waiters /\ Probe(t)
  BY <1>0, <1>2, AcquireStep DEF Probe
<1>3. CASE TakeToNotify(t)
  BY <1>0, <1>3, AcquireStep DEF TakeToNotify
<1>4. CASE WriterEnter(t)
  BY <1>0, <1>4, AcquireStep DEF WriterEnter
<1>5. CASE ConsumerEnter(t)
  BY <1>0, <1>5, AcquireStep DEF ConsumerEnter
<1>6. CASE Count(t)
  BY <1>0, <1>6, AcquireStep DEF Count
<1>7. CASE LoaderEnter(t)
  BY <1>0, <1>7, AcquireStep DEF LoaderEnter
<1>8. CASE LoaderLock(t)
  BY <1>0, <1>8, AcquireStep DEF LoaderLock
<1>9. CASE TakeCounters(t)
  BY <1>0, <1>9, AcquireStep DEF TakeCounters
<1>10. CASE StopperEnter(t)
  BY <1>0, <1>10, AcquireStep DEF StopperEnter
<1> QED
  BY <1>1, <1>2, <1>3, <1>4, <1>5, <1>6, <1>7, <1>8, <1>9, <1>10 DEF Acquire

\* notify_all also wakes the sleeping waiters, which hold nothing.
LEMMA NotifyKeepsLocks ==
    ASSUME LockInv, NEW t \in Threads, NotifyAll(t)
    PROVE  LockInv'
<1>1. /\ pc' = [u \in Threads |-> IF u = t THEN "done"
                                  ELSE IF u \in sleeping THEN "woken" ELSE pc[u]]
      /\ sleeping' = {} /\ pc[t] = "notifying"
      /\ UNCHANGED <<shared, items, expired, cancelled>>
  BY DEF NotifyAll
<1>2. /\ holder' \in [Locks -> Threads \cup {NoThread}]
      /\ \A k \in Locks : holder'[k] = IF holder[k] = t THEN NoThread ELSE holder[k]
  <2>1. Release({l \in Locks : holder[l] = t})
    BY DEF NotifyAll
  <2> QED
    BY <2>1, ReleaseEffect DEF LockInv
<1>3. \A u \in sleeping : u \in Waiters /\ pc[u] = "asleep"
  BY DEF LockInv, TypeOK
<1>4. pc' \in [Threads -> Labels]
  BY <1>1 DEF LockInv, Labels, WaiterLabels
<1>5. TypeOK'
  BY <1>1, <1>2 DEF LockInv, TypeOK
<1>6. HoldersKnown'
  <2>1. SUFFICES ASSUME NEW u \in Threads, NEW l \in Locks, holder'[l] = u
                 PROVE  pc'[u] \in HeldAt(l)
    BY DEF HoldersKnown, HeldAt
  <2>2. u # t /\ holder[l] = u
    BY <1>2, <2>1, ReadinessAssumption
  <2>3. pc[u] \in HeldAt(l)
    BY <2>2 DEF LockInv, HoldersKnown
  <2>4. u \notin sleeping
    BY <1>3, <2>3 DEF HeldAt
  <2> QED
    BY <1>1, <2>2, <2>3, <2>4
<1>7. RolesKept'
  BY <1>1, <1>3 DEF LockInv, RolesKept, MayBeAt, WaiterLabels, LoaderLabels
<1>8. KeptApart'
  <2>1. \A u \in Threads : UnderWay(u)' => UnderWay(u)
    BY <1>1, <1>3 DEF UnderWay
  <2>2. \A u, v \in Threads : Excludes(u, v)' <=> Excludes(u, v)
    BY <1>1 DEF Excludes
  <2> QED
    BY <2>1, <2>2 DEF LockInv, KeptApart
<1> QED
  BY <1>4, <1>5, <1>6, <1>7, <1>8 DEF LockInv

LEMMA RunKeepsLocks ==
    ASSUME LockInv, NEW t \in Threads, Run(t)
    PROVE  LockInv'
<1> USE DEF MayBeAt, WaiterLabels, LoaderLabels, Labels, HeldAt
<1>0. /\ Locks = {"condition", "replay", "futures"} /\ MayBeAt(t, pc[t])
      /\ items \in 0 .. MaxItems /\ LoadedItems \in 0 .. MaxItems
      /\ MaxItems \in Nat /\ Need \in Nat /\ shared \in BOOLEAN
      /\ t \in sleeping => pc[t] = "asleep"
  BY ReadinessAssumption DEF Locks, LockInv, RolesKept, TypeOK
<1>1. CASE t \in Waiters /\ Check(t)
  <2>1. CASE shutdown \/ t \in cancelled
    BY <1>0, <1>1, <2>1, RunStep DEF Check
  <2>2. CASE ~(shutdown \/ t \in cancelled)
    BY <1>0, <1>1, <2>2, RunStep DEF Check
  <2> QED
    BY <2>1, <2>2
<1>2. CASE t \in Waiters /\ Probed(t)
  <2>1. CASE Sampleable
    BY <1>0, <1>2, <2>1, RunStep DEF Probed
  <2>2. CASE ~Sampleable
    BY <1>0, <1>2, <2>2, RunStep DEF Probed
  <2> QED
    BY <2>1, <2>2
<1>3. CASE t \in Waiters /\ Decide(t)
  <2>1. CASE t \in expired
    BY <1>0, <1>3, <2>1, RunStep DEF Decide
  <2>2. CASE t \notin expired
    BY <1>0, <1>3, <2>2, RunStep DEF Decide
  <2> QED
    BY <2>1, <2>2
<1>4. CASE t \in Waiters /\ WakeUp(t)
  BY <1>0, <1>4, RunStep DEF WakeUp
<1>5. CASE NotifyAll(t)
  BY <1>5, NotifyKeepsLocks
<1>6. CASE Write(t)
  <2>1. items' \in 0 .. MaxItems
    BY <1>0, <1>6 DEF Write, Stored, Smaller
  <2> QED
    BY <1>0, <1>6, <2>1, RunStep DEF Write, AfterWrite
<1>7. CASE Consume(t)
  <2>1. items' \in 0 .. MaxItems
    BY <1>0, <1>7 DEF Consume, Smaller
  <2>2. CASE items = 0 \/ shared
    BY <1>0, <1>7, <2>1, <2>2, RunStep DEF Consume, AfterSample
  <2>3. CASE ~(items = 0 \/ shared)
    BY <1>0, <1>7, <2>1, <2>3, RunStep DEF Consume, AfterSample
  <2> QED
    BY <2>2, <2>3
<1>8. CASE Counted(t)
  BY <1>0, <1>8, RunStep DEF Counted
<1>9. CASE Load(t)
  <2>1. CASE shared
    BY <1>0, <1>9, <2>1, RunStep DEF Load
  <2>2. CASE ~shared
    BY <1>0, <1>9, <2>2, RunStep DEF Load
  <2> QED
    BY <2>1, <2>2
<1>10. CASE SetCounters(t)
  BY <1>0, <1>10, RunStep DEF SetCounters
<1>11. CASE Loaded(t)
  <2>1. CASE t \in StateLoaders
    BY <1>0, <1>11, <2>1, RunStep DEF Loaded
  <2>2. CASE t \notin StateLoaders
    BY <1>0, <1>11, <2>2, RunStep DEF Loaded
  <2> QED
    BY <2>1, <2>2
<1>12. CASE Flag(t)
  BY <1>0, <1>12, RunStep DEF Flag, AfterFlag
<1> QED
  BY <1>1, <1>2, <1>3, <1>4, <1>5, <1>6, <1>7, <1>8, <1>9, <1>10, <1>11, <1>12 DEF Run

\* Nothing else touches a lock or a label.
LEMMA SameLabels ==
    ASSUME LockInv, UNCHANGED <<shared, holder, pc, items, sleeping>>,
           expired' \subseteq Timed, cancelled' \subseteq Cancellable
    PROVE  LockInv'
BY DEF LockInv, TypeOK, HoldersKnown, RolesKept, MayBeAt, KeptApart, Excludes, UnderWay

LEMMA NextKeepsLocks == LockInv /\ [Next]_vars => LockInv'
<1> SUFFICES ASSUME LockInv, [Next]_vars PROVE LockInv'
  OBVIOUS
<1>0. expired \subseteq Timed /\ cancelled \subseteq Cancellable
  BY DEF LockInv, TypeOK
<1>1. ASSUME NEW w \in Waiters, Expire(w) \/ Cancel(w) PROVE LockInv'
  BY <1>0, <1>1, SameLabels DEF Expire, Cancel
<1>2. CASE UNCHANGED vars
  BY <1>0, <1>2, SameLabels DEF vars
<1> QED
  BY <1>1, <1>2, CallKeepsLocks, AcquireKeepsLocks, RunKeepsLocks DEF Next

\* The types, whether or not callers keep loads and waits apart.
THEOREM ReadinessTypes == Spec => []TypeOK
<1>1. LockInv => TypeOK
  BY DEF LockInv
<1> QED
  BY <1>1, InitLocks, NextKeepsLocks, PTL DEF Spec

\* If callers keep a wait apart from the loads it can deadlock with, no two threads
\* ever wait for each other's locks: a writer and a sampler give up the replay lock
\* before they ask for the condition, and a load_state_dict that asks for it while it
\* holds the replay lock meets no waiter (wait_until_sampleable,
\* _notify_replay_state_change, load_state_dict).
THEOREM LocksAreOrdered ==
    ASSUME LoadsAlone
    PROVE  Spec => []NoLockCycle
<1>1. LockInv => NoLockCycle
  <2> SUFFICES ASSUME LockInv, NEW t \in Threads, NEW u \in Threads,
                      NEW l \in Wants(t), NEW k \in Wants(u),
                      holder[l] = u, holder[k] = t
               PROVE  FALSE
    BY DEF NoLockCycle
  <2>1. /\ l \in Locks /\ k \in Locks
        /\ l = "condition" => pc[t] \in {"notify", "woken", "count", "counters"}
        /\ l = "replay" => pc[t] \in {"probe", "lock"}
        /\ l # "futures"
        /\ k = "condition" => pc[u] \in {"notify", "woken", "count", "counters"}
        /\ k = "replay" => pc[u] \in {"probe", "lock"}
        /\ k # "futures"
    BY DEF Wants, Locks
  <2>2. pc[u] \in HeldAt(l) /\ pc[t] \in HeldAt(k)
    BY <2>1 DEF LockInv, HoldersKnown
  <2>3. \/ pc[t] = "counters" /\ pc[u] = "probe"
        \/ pc[u] = "counters" /\ pc[t] = "probe"
    BY <2>1, <2>2 DEF HeldAt, Locks
  <2>4. ASSUME NEW a \in Threads, NEW b \in Threads, pc[a] = "counters", pc[b] = "probe"
        PROVE  FALSE
    <3>1. a \in Loaders /\ ~shared /\ b \in Waiters
      BY <2>4 DEF LockInv, RolesKept, MayBeAt, WaiterLabels, LoaderLabels
    <3>2. a # b /\ Excludes(a, b) /\ UnderWay(a) /\ UnderWay(b)
      BY <2>4, <3>1 DEF Excludes, Loaders, UnderWay
    <3> QED
      BY <3>2 DEF LockInv, KeptApart
  <2> QED
    BY <2>3, <2>4
<1> QED
  BY <1>1, InitLocks, NextKeepsLocks, PTL DEF Spec

-----------------------------------------------------------------------------
\* A thread that has yet to notify the waiters of a change.
OnItsWay(t) ==
    \/ pc[t] \in {"notify", "notifying"}
    \/ t \in StateLoaders /\ pc[t] \in {"counters", "counting", "loaded"}

\* A waiter that is about to sleep, or sleeps.
Resting(w) == pc[w] \in {"decide", "asleep"}

\* No waiter rests while the buffer is sampleable, but for those that somebody is
\* going to wake up: what NoLostWakeup says of every state.
WakeUpsAreOnTheirWay ==
    \A w \in Waiters : Resting(w) /\ Sampleable => \E t \in Threads : OnItsWay(t)

\* A thread at a label inside the condition holds it, and nobody sleeps unheard.
ConditionHeld == \A t \in Threads : pc[t] \in HeldAt("condition") => holder["condition"] = t
SleepersHear == \A t \in Threads : pc[t] = "asleep" => t \in sleeping

\* The inductive invariant behind WakeUpsAreOnTheirWay.
WakeInv == LockInv /\ ConditionHeld /\ SleepersHear /\ WakeUpsAreOnTheirWay

\* One thread goes to another label.  It has a notification to make, or leaves it
\* to those who had one before.
LEMMA OneMoves ==
    ASSUME WakeInv, NEW t \in Threads, NEW label \in Labels, Goto(t, label),
           label \in HeldAt("condition") => holder'["condition"] = t,
           holder'["condition"] = holder["condition"] \/ holder["condition"] \in {NoThread, t},
           label = "asleep" => t \in sleeping',
           sleeping \ {t} \subseteq sleeping',
           \/ OnItsWay(t)'
           \/ \A w \in Waiters : ~Resting(w)'
           \/ /\ ~OnItsWay(t)
              /\ Sampleable' => Sampleable
              /\ label \in {"decide", "asleep"} /\ Sampleable' => pc[t] = "decide"
    PROVE  ConditionHeld' /\ SleepersHear' /\ WakeUpsAreOnTheirWay'
<1>1. /\ pc'[t] = label /\ \A u \in Threads \ {t} : pc'[u] = pc[u]
      /\ ConditionHeld /\ SleepersHear /\ WakeUpsAreOnTheirWay
  BY DEF WakeInv, LockInv, Goto
<1>2. ConditionHeld'
  <2>1. SUFFICES ASSUME NEW u \in Threads, pc'[u] \in HeldAt("condition")
                 PROVE  holder'["condition"] = u
    BY DEF ConditionHeld, HeldAt
  <2>2. CASE u # t
    <3>1. holder["condition"] = u
      BY <1>1, <2>1, <2>2 DEF ConditionHeld
    <3> QED
      BY <2>2, <3>1, ReadinessAssumption
  <2> QED
    BY <1>1, <2>1, <2>2
<1>3. SleepersHear'
  BY <1>1 DEF SleepersHear
<1>4. WakeUpsAreOnTheirWay'
  <2>1. SUFFICES ASSUME NEW w \in Waiters, Resting(w)', Sampleable'
                 PROVE  \E u \in Threads : OnItsWay(u)'
    BY DEF WakeUpsAreOnTheirWay
  <2>2. CASE OnItsWay(t)'
    BY <2>2
  <2>3. CASE /\ ~OnItsWay(t)
             /\ Sampleable' => Sampleable
             /\ label \in {"decide", "asleep"} /\ Sampleable' => pc[t] = "decide"
    <3>1. Resting(w) /\ Sampleable
      BY <1>1, <2>1, <2>3 DEF Resting, Threads
    <3>2. PICK u \in Threads : OnItsWay(u)
      BY <1>1, <3>1 DEF WakeUpsAreOnTheirWay
    <3>3. OnItsWay(u)'
      BY <1>1, <2>3, <3>2 DEF OnItsWay
    <3> QED
      BY <3>3
  <2> QED
    BY <2>1, <2>2, <2>3
<1> QED
  BY <1>2, <1>3, <1>4

LEMMA AcquireKeepsWakeUps ==
    ASSUME WakeInv, NEW t \in Threads, Call(t) \/ Acquire(t)
    PROVE  ConditionHeld' /\ SleepersHear' /\ WakeUpsAreOnTheirWay'
<1> USE DEF WaiterLabels, LoaderLabels, Labels, HeldAt, OnItsWay
<1>0. /\ "condition" \in Locks /\ "replay" \in Locks /\ "futures" \in Locks
      /\ holder \in [Locks -> Threads \cup {NoThread}]
      /\ pc \in [Threads -> Labels]
      /\ pc[t] \in HeldAt("condition") => holder["condition"] = t
  BY DEF Locks, WakeInv, LockInv, TypeOK, ConditionHeld
<1>1. CASE Call(t)
  BY <1>0, <1>1, OneMoves DEF Call, Goto, Sampleable
<1>2. CASE t \in Waiters /\ TakeCondition(t)
  BY <1>0, <1>2, OneMoves DEF TakeCondition, Take, Goto, Sampleable
<1>3. CASE t \in Waiters /\ Probe(t)
  BY <1>0, <1>3, OneMoves DEF Probe, Take, Goto, Sampleable
<1>4. CASE TakeToNotify(t)
  BY <1>0, <1>4, OneMoves DEF TakeToNotify, Take, Goto, Sampleable
<1>5. CASE WriterEnter(t)
  BY <1>0, <1>5, OneMoves DEF WriterEnter, Take, Goto, Sampleable
<1>6. CASE ConsumerEnter(t)
  BY <1>0, <1>6, OneMoves DEF ConsumerEnter, Take, Goto, Sampleable
<1>7. CASE Count(t)
  BY <1>0, <1>7, OneMoves DEF Count, Take, Goto, Sampleable
<1>8. CASE LoaderEnter(t)
  BY <1>0, <1>8, OneMoves DEF LoaderEnter, Take, Goto, Sampleable
<1>9. CASE LoaderLock(t)
  BY <1>0, <1>9, OneMoves DEF LoaderLock, Take, Goto, Sampleable
<1>10. CASE TakeCounters(t)
  BY <1>0, <1>10, OneMoves DEF TakeCounters, Take, Goto, Sampleable
<1>11. CASE StopperEnter(t)
  BY <1>0, <1>11, OneMoves DEF StopperEnter, Take, Goto, Sampleable
<1> QED
  BY <1>1, <1>2, <1>3, <1>4, <1>5, <1>6, <1>7, <1>8, <1>9, <1>10, <1>11 DEF Acquire

\* Whoever notifies holds the condition, so that no waiter is between its decision
\* and its sleep, and wakes all that sleep.
LEMMA NotifyKeepsWakeUps ==
    ASSUME WakeInv, NEW t \in Threads, NotifyAll(t)
    PROVE  ConditionHeld' /\ SleepersHear' /\ WakeUpsAreOnTheirWay'
<1>1. /\ pc' = [u \in Threads |-> IF u = t THEN "done"
                                  ELSE IF u \in sleeping THEN "woken" ELSE pc[u]]
      /\ pc[t] = "notifying"
  BY DEF NotifyAll
<1>2. holder' = [l \in Locks |-> IF holder[l] = t THEN NoThread ELSE holder[l]]
  BY DEF NotifyAll, Release
<1>3. /\ ConditionHeld /\ SleepersHear /\ "condition" \in Locks
      /\ holder["condition"] = t
  BY <1>1 DEF WakeInv, ConditionHeld, HeldAt, Locks
<1>4. ASSUME NEW u \in Threads, pc'[u] \in HeldAt("condition") \cup {"asleep"}
      PROVE  FALSE
  <2>1. u # t /\ u \notin sleeping /\ pc'[u] = pc[u]
    BY <1>1, <1>4 DEF HeldAt
  <2>2. pc[u] # "asleep"
    BY <1>3, <2>1 DEF SleepersHear
  <2>3. holder["condition"] = u
    BY <1>3, <1>4, <2>1, <2>2 DEF ConditionHeld
  <2> QED
    BY <1>3, <2>1, <2>3
<1>5. "decide" \in HeldAt("condition") /\ Waiters \subseteq Threads
  BY DEF HeldAt, Threads
<1> QED
  BY <1>4, <1>5 DEF ConditionHeld, SleepersHear, WakeUpsAreOnTheirWay, Resting, HeldAt

LEMMA RunKeepsWakeUps ==
    ASSUME LoadsAlone, WakeInv, NEW t \in Threads, Run(t)
    PROVE  ConditionHeld' /\ SleepersHear' /\ WakeUpsAreOnTheirWay'
<1> USE DEF WaiterLabels, LoaderLabels, Labels, HeldAt, OnItsWay
<1>0. /\ "condition" \in Locks /\ Locks = {"condition", "replay", "futures"}
      /\ holder \in [Locks -> Threads \cup {NoThread}]
      /\ pc \in [Threads -> Labels]
      /\ items \in Nat /\ Need \in Nat
      /\ pc[t] \in HeldAt("condition") => holder["condition"] = t
      /\ t \in sleeping => pc[t] = "asleep"
  BY ReadinessAssumption DEF Locks, WakeInv, LockInv, TypeOK, ConditionHeld
<1>1. CASE t \in Waiters /\ Check(t)
  BY <1>0, <1>1, OneMoves DEF Check, Release, Goto, Sampleable
<1>2. CASE t \in Waiters /\ Probed(t)
  BY <1>0, <1>2, OneMoves DEF Probed, Release, Goto, Sampleable
<1>3. CASE t \in Waiters /\ Decide(t)
  BY <1>0, <1>3, OneMoves DEF Decide, Release, Goto, Sampleable
<1>4. CASE t \in Waiters /\ WakeUp(t)
  BY <1>0, <1>4, OneMoves DEF WakeUp, Goto, Sampleable
<1>5. CASE NotifyAll(t)
  BY <1>5, NotifyKeepsWakeUps
<1>6. CASE Write(t)
  BY <1>0, <1>6, OneMoves DEF Write, AfterWrite, Release, Goto
<1>7. CASE Consume(t)
  <2>1. Sampleable' => Sampleable
    BY <1>0, <1>7 DEF Consume, Smaller, Sampleable
  <2> QED
    BY <1>0, <1>7, <2>1, OneMoves DEF Consume, AfterSample, Release, Goto
<1>8. CASE Counted(t)
  BY <1>0, <1>8, OneMoves DEF Counted, Release, Goto, Sampleable
<1>9. CASE Load(t)
  <2>1. t \in Loaders /\ pc[t] = "load"
    BY <1>9 DEF Load, WakeInv, LockInv, RolesKept, MayBeAt
  <2>2. CASE t \in DiskLoaders
    <3>1. ASSUME NEW w \in Waiters, Resting(w)'
          PROVE  FALSE
      <4>1. w \in Threads /\ w # t /\ UnderWay(w) /\ UnderWay(t)
        BY <1>0, <1>9, <2>1, <3>1 DEF Load, Goto, Resting, UnderWay, Threads
      <4>2. Excludes(t, w)
        BY <2>2 DEF Excludes
      <4> QED
        BY <4>1, <4>2 DEF WakeInv, LockInv, KeptApart
    <3> QED
      BY <1>0, <1>9, <3>1, OneMoves DEF Load, Goto
  <2>3. CASE t \in StateLoaders
    BY <1>0, <1>9, <2>3, OneMoves DEF Load, Goto
  <2> QED
    BY <2>1, <2>2, <2>3 DEF Loaders
<1>10. CASE SetCounters(t)
  BY <1>0, <1>10, OneMoves DEF SetCounters, Release, Goto, Sampleable
<1>11. CASE Loaded(t)
  BY <1>0, <1>11, OneMoves DEF Loaded, Release, Goto, Sampleable
<1>12. CASE Flag(t)
  BY <1>0, <1>12, OneMoves DEF Flag, AfterFlag, Release, Goto, Sampleable
<1> QED
  BY <1>1, <1>2, <1>3, <1>4, <1>5, <1>6, <1>7, <1>8, <1>9, <1>10, <1>11, <1>12 DEF Run

LEMMA InitWakeUps == Init => WakeInv
<1> SUFFICES ASSUME Init PROVE WakeInv
  OBVIOUS
<1>1. \A t \in Threads : pc[t] = "idle"
  BY DEF Init
<1>2. ConditionHeld /\ SleepersHear
  BY <1>1 DEF ConditionHeld, SleepersHear, HeldAt
<1>3. WakeUpsAreOnTheirWay
  BY <1>1 DEF WakeUpsAreOnTheirWay, Resting, Threads
<1> QED
  BY <1>2, <1>3, InitLocks DEF WakeInv

LEMMA NextKeepsWakeUps ==
    ASSUME LoadsAlone
    PROVE  WakeInv /\ [Next]_vars => WakeInv'
<1> SUFFICES ASSUME WakeInv, [Next]_vars PROVE WakeInv'
  OBVIOUS
<1>1. LockInv'
  BY NextKeepsLocks DEF WakeInv
<1>2. CASE \E t \in Threads : Call(t) \/ Acquire(t) \/ Run(t)
  BY <1>1, <1>2, AcquireKeepsWakeUps, RunKeepsWakeUps DEF WakeInv
<1>3. CASE UNCHANGED <<pc, holder, items, sleeping>>
  BY <1>1, <1>3 DEF WakeInv, ConditionHeld, SleepersHear, WakeUpsAreOnTheirWay,
                    Resting, OnItsWay, Sampleable, HeldAt
<1> QED
  BY <1>2, <1>3 DEF Next, Expire, Cancel, vars

\* If callers keep loads and waits apart, whoever makes the buffer sampleable wakes
\* those who wait for it, for any number of threads: a waiter that is going to sleep
\* on a sampleable buffer, or sleeps, has a thread before it that has not notified
\* yet (wait_until_sampleable, _notify_replay_state_change).
THEOREM NobodySleepsUnnoticed ==
    ASSUME LoadsAlone
    PROVE  Spec => []WakeUpsAreOnTheirWay
<1>1. WakeInv => WakeUpsAreOnTheirWay
  BY DEF WakeInv
<1>2. WakeInv /\ [Next]_vars => WakeInv'
  BY NextKeepsWakeUps
<1> QED
  BY <1>1, <1>2, InitWakeUps, PTL DEF Spec

(***************************************************************************)
(* The calls of a buffer: LockedRing.                                      *)
(***************************************************************************)
USE LockedAssumption

\* All threads use the one buffer of the storage.
AloneOnStorage == \E b : Buffers = {b}

CallLabels == FirstStep \cup {"idle", "store", "bump", "fetch", "patch", "drop"}

\* The types of what the proof needs types of.
CallTypes ==
    /\ lock \in [Buffers -> Clients \cup {NoClient}]
    /\ access \in [Clients -> CallLabels]
    /\ rows = [t \in Clients |-> rows[t]]
    /\ picked \in [Clients -> [slot : Slots, stamp : Int]]
    /\ handle \in [Clients -> [slot : Slots, stamp : Int, rec : Nat]]
    /\ len \in 0 .. Capacity
    /\ gen \in [Slots -> Int]
    /\ rec \in [Slots -> Nat]
    /\ patched = [s \in Slots |-> patched[s]]
    /\ written \in Nat
    /\ before[7] \in Nat

\* A thread inside a call holds the lock of its buffer.
InsideHoldsLock == \A t \in Clients : access[t] # "idle" => lock[BufferOf[t]] = t

\* An extend of n rows has moved its cursor.
Advanced(t, n) ==
    LET b == BufferOf[t]
    IN  /\ n \in 1 .. MaxBatch
        /\ before[7] + n <= MaxRecords
        /\ rows[t] = [i \in 0 .. n - 1 |-> (before[1][b] + i) % Capacity]
        /\ cursor = [before[1] EXCEPT ![b] = (n + before[1][b]) % Capacity]
        /\ writeCount = [before[2] EXCEPT ![b] = @ + n]
        /\ gen = before[4]

\* A call has left the storage, but for its stamps, as it found it.
Untouched == <<len, rec, patched, written>> = <<before[3], before[5], before[6], before[7]>>

\* The slots that rows are written to, and the ways they may land there.
Landed(at) == {s \in Slots : \E i \in DOMAIN at : at[i] = s}
Landings(at) == {f \in [Landed(at) -> DOMAIN at] : \A s \in Landed(at) : at[f[s]] = s}

\* It has stored them.
RowsStored(at, n) ==
    /\ len = IF before[3] + n < Capacity THEN before[3] + n ELSE Capacity
    /\ \E row \in Landings(at) :
           rec = [s \in Slots |-> IF s \in Landed(at) THEN before[7] + 1 + row[s]
                                                      ELSE before[5][s]]
    /\ patched = [s \in Slots |-> IF s \in Landed(at) THEN 0 ELSE before[6][s]]
    /\ written = before[7] + n

\* empty has rewound the writer.
Rewound(b) ==
    /\ \A s \in Slots : before[4][s] < MaxStamp
    /\ cursor = [before[1] EXCEPT ![b] = 0]
    /\ gen = [s \in Slots |->
                  IF before[4][s] >= 0 THEN before[4][s] + 1 ELSE before[4][s]]
    /\ writeCount \in {before[2], [before[2] EXCEPT ![b] = 0]}

\* What the call of a thread has done since it took the lock.
DoneSoFar(t) ==
    /\ access[t] \in FirstStep \cup {"fetch", "patch"} => ring = before
    /\ access[t] = "fetch" => /\ picked[t].slot \in 0 .. len - 1
                          /\ picked[t].stamp = gen[picked[t].slot]
    /\ access[t] = "patch" => Live(handle[t])
    /\ access[t] = "store" => Untouched /\ \E n \in 1 .. MaxBatch : Advanced(t, n)
    /\ access[t] = "bump" => \E n \in 1 .. MaxBatch : Advanced(t, n) /\ RowsStored(rows[t], n)
    /\ access[t] = "drop" => Untouched /\ Rewound(BufferOf[t])

\* The inductive invariant behind CallsAreAtomic.
CallInv == CallTypes /\ InsideHoldsLock /\ \A t \in Clients : DoneSoFar(t)

-----------------------------------------------------------------------------
\* Cardinality, as the instance has it.
LEMMA CountsAlike ==
    \A S : Atomic!Cardinality(S) = Cardinality(S)
BY DEF Atomic!Cardinality, Cardinality

\* What a buffer is, part by part.
LEMMA RingParts ==
    /\ ring[1] = cursor /\ ring[2] = writeCount
    /\ ring[3] = len /\ ring[4] = gen /\ ring[5] = rec
    /\ ring[6] = patched /\ ring[7] = written
BY DEF ring

\* One thread at a time is inside a call.
LEMMA OneInside ==
    ASSUME AloneOnStorage, CallInv, NEW t \in Clients
    PROVE  /\ BufferOf[t] \in Buffers /\ Buffers = {BufferOf[t]}
           /\ NoClient \notin Clients
           /\ \A u \in Clients : BufferOf[u] = BufferOf[t]
           /\ access[t] # "idle" => /\ lock[BufferOf[t]] = t
                                /\ \A u \in Clients : u # t => access[u] = "idle"
           /\ lock[BufferOf[t]] = NoClient => \A u \in Clients : access[u] = "idle"
<1>1. /\ BufferOf[t] \in Buffers /\ Buffers = {BufferOf[t]} /\ NoClient \notin Clients
      /\ \A u \in Clients : BufferOf[u] = BufferOf[t]
  BY DEF AloneOnStorage
<1> QED
  BY <1>1 DEF CallInv, InsideHoldsLock

\* A thread goes on inside its call, or enters one.
LEMMA Inside ==
    ASSUME AloneOnStorage, CallInv, NEW t \in Clients,
           access[t] # "idle" \/ lock[BufferOf[t]] = NoClient,
           NEW label \in CallLabels, access' = [access EXCEPT ![t] = label],
           \/ lock' = lock /\ access[t] # "idle"
           \/ lock' = [lock EXCEPT ![BufferOf[t]] = t],
           CallTypes', DoneSoFar(t)'
    PROVE  CallInv'
<1>1. \A u \in Clients : u # t => access'[u] = "idle"
  BY OneInside DEF CallInv, CallTypes
<1>2. lock'[BufferOf[t]] = t
  BY OneInside DEF CallInv, CallTypes
<1>3. InsideHoldsLock'
  BY <1>1, <1>2 DEF InsideHoldsLock
<1>4. \A u \in Clients : u # t => DoneSoFar(u)'
  BY <1>1 DEF DoneSoFar, FirstStep
<1> QED
  BY <1>3, <1>4 DEF CallInv

\* A thread leaves its call.
LEMMA Outside ==
    ASSUME AloneOnStorage, CallInv, NEW t \in Clients,
           access[t] # "idle", Leave(t), CallTypes'
    PROVE  CallInv' /\ CallUnderWay /\ ~CallUnderWay'
<1>1. \A u \in Clients : access'[u] = "idle"
  BY OneInside DEF CallInv, CallTypes, Leave
<1>2. InsideHoldsLock' /\ \A u \in Clients : DoneSoFar(u)'
  BY <1>1 DEF InsideHoldsLock, DoneSoFar, FirstStep
<1>3. CallUnderWay /\ ~CallUnderWay'
  BY OneInside DEF CallInv, CallTypes, Leave, CallUnderWay
<1> QED
  BY <1>2, <1>3 DEF CallInv

-----------------------------------------------------------------------------
\* The atomic view stands still while a call is under way, and when a call ends
\* without effect.
LEMMA AtomicStands ==
    ASSUME handle' = handle,
           \/ CallUnderWay /\ CallUnderWay' /\ before' = before
           \/ ~CallUnderWay /\ CallUnderWay' /\ before' = ring
           \/ CallUnderWay /\ ~CallUnderWay' /\ ring' = before
    PROVE  UNCHANGED Atomic!vars
<1>1. \A k \in 1 .. 7 : Seen(k)' = Seen(k)
  BY DEF Seen
<1> QED
  BY <1>1 DEF Atomic!vars

LEMMA EnterStep ==
    ASSUME AloneOnStorage, CallInv, NEW t \in Clients, Enter(t)
    PROVE  CallInv' /\ UNCHANGED Atomic!vars
<1>1. PICK first \in FirstStep : access' = [access EXCEPT ![t] = first]
  BY DEF Enter
<1>2. /\ lock[BufferOf[t]] = NoClient /\ lock' = [lock EXCEPT ![BufferOf[t]] = t]
      /\ before' = ring /\ UNCHANGED <<rows, picked, handle, ring>>
  BY DEF Enter, Free
<1>3. first \in CallLabels /\ access' \in [Clients -> CallLabels] /\ access'[t] = first
  BY <1>1 DEF CallInv, CallTypes, CallLabels
<1>4. CallTypes'
  <2>1. lock' \in [Buffers -> Clients \cup {NoClient}]
    BY <1>2 DEF CallInv, CallTypes
  <2>2. before'[7] \in Nat
    BY <1>2, RingParts DEF CallInv, CallTypes
  <2> QED
    BY <1>2, <1>3, <2>1, <2>2 DEF CallInv, CallTypes, ring
<1>5. DoneSoFar(t)'
  BY <1>2, <1>3 DEF DoneSoFar, FirstStep
<1>6. CallInv'
  BY <1>1, <1>2, <1>3, <1>4, <1>5, Inside
<1>7. ~CallUnderWay /\ CallUnderWay'
  BY <1>2, OneInside DEF CallUnderWay, CallInv, CallTypes
<1> QED
  BY <1>2, <1>6, <1>7, AtomicStands

\* A step inside a call, after which the thread still holds the lock.
LEMMA InsideStep ==
    ASSUME AloneOnStorage, CallInv, NEW t \in Clients,
           access[t] # "idle", NEW label \in CallLabels, Proceed(t, label),
           CallTypes', DoneSoFar(t)', UNCHANGED <<handle, before>>
    PROVE  CallInv' /\ UNCHANGED Atomic!vars
<1>1. CallInv'
  BY Inside DEF Proceed
<1>2. CallUnderWay /\ CallUnderWay'
  BY OneInside DEF Proceed, CallUnderWay
<1> QED
  BY <1>1, <1>2, AtomicStands

LEMMA AdvanceStep ==
    ASSUME AloneOnStorage, CallInv, NEW t \in Clients, Advance(t)
    PROVE  CallInv' /\ UNCHANGED Atomic!vars
<1> DEFINE b == BufferOf[t]
<1>1. PICK n \in 1 .. MaxBatch :
          /\ written + n <= MaxRecords
          /\ rows' = [rows EXCEPT ![t] = [i \in 0 .. n - 1 |-> (cursor[b] + i) % Capacity]]
          /\ cursor' = [cursor EXCEPT ![b] = (n + cursor[b]) % Capacity]
          /\ writeCount' = [writeCount EXCEPT ![b] = @ + n]
  BY DEF Advance
<1>2. /\ access[t] = "advance" /\ Proceed(t, "store")
      /\ UNCHANGED <<picked, handle, len, gen, rec, patched, written, before>>
  BY DEF Advance
<1>3. ring = before
  BY <1>2 DEF CallInv, DoneSoFar, FirstStep
<1>4. /\ before[1] = cursor /\ before[2] = writeCount /\ before[3] = len
      /\ before[4] = gen /\ before[5] = rec /\ before[6] = patched /\ before[7] = written
  BY <1>3, RingParts
<1>5. "store" \in CallLabels /\ access' \in [Clients -> CallLabels] /\ access'[t] = "store" /\ lock' = lock
  BY <1>2 DEF CallInv, CallTypes, CallLabels, Proceed
<1>6. rows' = [u \in Clients |-> rows'[u]]
      /\ rows'[t] = [i \in 0 .. n - 1 |-> (cursor[b] + i) % Capacity]
  BY <1>1 DEF CallInv, CallTypes
<1>7. CallTypes'
  BY <1>2, <1>5, <1>6 DEF CallInv, CallTypes
<1>8. Advanced(t, n)' /\ Untouched'
  BY <1>1, <1>2, <1>4, <1>6 DEF Advanced, Untouched
<1>9. DoneSoFar(t)'
  BY <1>5, <1>8 DEF DoneSoFar, FirstStep
<1> QED
  BY <1>2, <1>5, <1>7, <1>9, InsideStep

LEMMA StoreStep ==
    ASSUME AloneOnStorage, CallInv, NEW t \in Clients, Store(t)
    PROVE  CallInv' /\ UNCHANGED Atomic!vars
<1>1. /\ access[t] = "store" /\ Proceed(t, "bump")
      /\ UNCHANGED <<rows, picked, handle, cursor, writeCount, gen, before>>
  BY DEF Store
<1>2. PICK n \in 1 .. MaxBatch : Advanced(t, n) /\ Untouched
  BY <1>1 DEF CallInv, DoneSoFar
<1>3. DOMAIN rows[t] = 0 .. n - 1 /\ n \in Nat
  BY <1>2 DEF Advanced
<1>4. Cardinality(DOMAIN rows[t]) = n
  BY <1>3, FS_Interval
<1>5. PICK row \in Landings(rows[t]) :
          rec' = [s \in Slots |-> IF s \in Landed(rows[t]) THEN written + 1 + row[s]
                                                          ELSE rec[s]]
  <2> DEFINE first(s) == CHOOSE i \in DOMAIN rows[t] : rows[t][i] = s
  <2>1. rec' = [s \in Slots |-> IF \E i \in DOMAIN rows[t] : rows[t][i] = s
                                THEN written + 1 + first(s) ELSE rec[s]]
    BY DEF Store
  <2>2. \A s \in Landed(rows[t]) : first(s) \in DOMAIN rows[t] /\ rows[t][first(s)] = s
    BY DEF Landed
  <2> HIDE DEF first
  <2>3. [s \in Landed(rows[t]) |-> first(s)] \in Landings(rows[t])
    BY <2>2 DEF Landings
  <2>4. rec' = [s \in Slots |-> IF s \in Landed(rows[t])
                                THEN written + 1 + [x \in Landed(rows[t]) |-> first(x)][s]
                                ELSE rec[s]]
    BY <2>1 DEF Landed
  <2> QED
    BY <2>3, <2>4
<1>10. RowsStored(rows[t], n)'
  <2>1. /\ len' = NewLen(n) /\ written' = written + n
        /\ patched' = [s \in Slots |->
                           IF s \in Landed(rows[t]) THEN 0 ELSE patched[s]]
    BY <1>4, CountsAlike DEF Store, NewLen, Landed
  <2>2. \E f \in Landings(rows[t]) :
            rec' = [s \in Slots |->
                        IF s \in Landed(rows[t]) THEN before[7] + 1 + f[s]
                        ELSE before[5][s]]
    BY <1>2, <1>5 DEF Untouched
  <2>3. Landings(rows[t])' = Landings(rows[t]) /\ Landed(rows[t])' = Landed(rows[t])
    BY <1>1 DEF Landings, Landed
  <2> QED
    BY <1>1, <1>2, <2>1, <2>2, <2>3 DEF RowsStored, Untouched, NewLen
<1>6. "bump" \in CallLabels /\ access' \in [Clients -> CallLabels] /\ access'[t] = "bump" /\ lock' = lock
  BY <1>1 DEF CallInv, CallTypes, CallLabels, Proceed
<1>7. CallTypes'
  <2>1. len' \in 0 .. Capacity /\ written' \in Nat
    <3>1. len' = NewLen(n) /\ written' = written + n
      BY <1>4, CountsAlike DEF Store, NewLen
    <3>2. len \in 0 .. Capacity /\ written \in Nat /\ Capacity \in Nat
      BY DEF CallInv, CallTypes
    <3> QED
      BY <1>3, <3>1, <3>2 DEF NewLen
  <2>2. rec' \in [Slots -> Nat]
    <3>1. \A s \in Landed(rows[t]) : row[s] \in Nat
      BY <1>3, <1>5 DEF Landings
    <3> QED
      BY <1>5, <3>1 DEF CallInv, CallTypes
  <2>3. patched' = [s \in Slots |-> patched'[s]]
    BY DEF Store
  <2> QED
    BY <1>1, <1>6, <2>1, <2>2, <2>3 DEF CallInv, CallTypes
<1>8. Advanced(t, n)'
  BY <1>1, <1>2 DEF Advanced
<1>9. DoneSoFar(t)'
  BY <1>1, <1>6, <1>8, <1>10 DEF DoneSoFar, FirstStep
<1> QED
  BY <1>1, <1>6, <1>7, <1>9, InsideStep

LEMMA ChooseStep ==
    ASSUME AloneOnStorage, CallInv, NEW t \in Clients, Choose(t)
    PROVE  CallInv' /\ UNCHANGED Atomic!vars
<1>1. PICK s \in 0 .. len - 1 :
          picked' = [picked EXCEPT ![t] = [slot |-> s, stamp |-> gen[s]]]
  BY DEF Choose
<1>2. /\ access[t] = "choose" /\ Proceed(t, "fetch")
      /\ UNCHANGED <<rows, handle, ring, before>>
  BY DEF Choose
<1>3. UNCHANGED <<cursor, writeCount, len, gen, rec, patched, written>>
  BY <1>2 DEF ring
<1>4. ring = before
  BY <1>2 DEF CallInv, DoneSoFar, FirstStep
<1>5. s \in Slots /\ gen[s] \in Int
  BY DEF CallInv, CallTypes, Slots
<1>6. "fetch" \in CallLabels /\ access' \in [Clients -> CallLabels] /\ access'[t] = "fetch" /\ lock' = lock
  BY <1>2 DEF CallInv, CallTypes, CallLabels, Proceed
<1>7. /\ picked' \in [Clients -> [slot : Slots, stamp : Int]]
      /\ picked'[t] = [slot |-> s, stamp |-> gen[s]]
  BY <1>1, <1>5 DEF CallInv, CallTypes
<1>8. CallTypes'
  BY <1>2, <1>3, <1>6, <1>7 DEF CallInv, CallTypes
<1>9. DoneSoFar(t)'
  BY <1>2, <1>3, <1>4, <1>6, <1>7 DEF DoneSoFar, FirstStep
<1> QED
  BY <1>2, <1>6, <1>8, <1>9, InsideStep

LEMMA CompareStep ==
    ASSUME AloneOnStorage, CallInv, NEW t \in Clients, Compare(t)
    PROVE  CallInv' /\ UNCHANGED Atomic!vars
<1>1. /\ access[t] = "compare" /\ UNCHANGED <<rows, picked, handle, ring, before>>
  BY DEF Compare
<1>2. UNCHANGED <<cursor, writeCount, len, gen, rec, patched, written>>
  BY <1>1 DEF ring
<1>3. ring = before
  BY <1>1 DEF CallInv, DoneSoFar, FirstStep
<1>4. CASE Live(handle[t])
  <2>1. Proceed(t, "patch")
    BY <1>4 DEF Compare, AfterCompare
  <2>2. /\ "patch" \in CallLabels /\ access' \in [Clients -> CallLabels]
        /\ access'[t] = "patch" /\ lock' = lock
    BY <2>1 DEF CallInv, CallTypes, CallLabels, Proceed
  <2>3. CallTypes'
    BY <1>1, <1>2, <2>2 DEF CallInv, CallTypes
  <2>4. DoneSoFar(t)'
    BY <1>1, <1>2, <1>3, <1>4, <2>2 DEF DoneSoFar, FirstStep, Live
  <2> QED
    BY <1>1, <2>1, <2>2, <2>3, <2>4, InsideStep
<1>5. CASE ~Live(handle[t])
  <2>1. Leave(t)
    BY <1>5 DEF Compare
  <2>2. CallTypes'
    BY <1>1, <1>2, <2>1, OneInside DEF CallInv, CallTypes, Leave, CallLabels
  <2>3. CallInv' /\ CallUnderWay /\ ~CallUnderWay'
    BY <1>1, <2>1, <2>2, Outside
  <2> QED
    BY <1>1, <1>3, <2>3, AtomicStands
<1> QED
  BY <1>4, <1>5

LEMMA NothingDone ==
    ASSUME AloneOnStorage, CallInv, NEW t \in Clients,
           ChooseRaises(t) \/ CallSkipped(t)
    PROVE  CallInv' /\ UNCHANGED Atomic!vars
<1>1. /\ access[t] \in FirstStep /\ Leave(t)
      /\ UNCHANGED <<rows, picked, handle, ring, before>>
  BY DEF ChooseRaises, CallSkipped, FirstStep
<1>2. UNCHANGED <<cursor, writeCount, len, gen, rec, patched, written>>
  BY <1>1 DEF ring
<1>3. ring = before /\ access[t] # "idle"
  BY <1>1 DEF CallInv, DoneSoFar, FirstStep
<1>4. CallTypes'
  BY <1>1, <1>2, OneInside DEF CallInv, CallTypes, Leave, CallLabels
<1>5. CallInv' /\ CallUnderWay /\ ~CallUnderWay'
  BY <1>1, <1>3, <1>4, Outside
<1> QED
  BY <1>1, <1>3, <1>5, AtomicStands

LEMMA RewindStep ==
    ASSUME AloneOnStorage, CallInv, NEW t \in Clients, Rewind(t)
    PROVE  CallInv' /\ UNCHANGED Atomic!vars
<1>1. /\ access[t] = "rewind" /\ Proceed(t, "drop")
      /\ UNCHANGED <<rows, picked, handle, len, rec, patched, written, before>>
  BY DEF Rewind
<1>2. ring = before
  BY <1>1 DEF CallInv, DoneSoFar, FirstStep
<1>3. /\ before[1] = cursor /\ before[2] = writeCount /\ before[3] = len
      /\ before[4] = gen /\ before[5] = rec /\ before[6] = patched /\ before[7] = written
  BY <1>2, RingParts
<1>4. "drop" \in CallLabels /\ access' \in [Clients -> CallLabels] /\ access'[t] = "drop" /\ lock' = lock
  BY <1>1 DEF CallInv, CallTypes, CallLabels, Proceed
<1>5. gen' \in [Slots -> Int]
  BY DEF Rewind, CallInv, CallTypes
<1>6. CallTypes'
  BY <1>1, <1>4, <1>5 DEF CallInv, CallTypes
<1>7. Rewound(BufferOf[t])' /\ Untouched'
  BY <1>1, <1>3 DEF Rewind, Rewound, Untouched
<1>8. DoneSoFar(t)'
  BY <1>4, <1>7 DEF DoneSoFar, FirstStep
<1> QED
  BY <1>1, <1>4, <1>6, <1>8, InsideStep

\* The atomic view of a step that ends a call: from what the buffer was when the
\* call took the lock, to what it is now.
LEMMA SeenAtTheEnd ==
    ASSUME CallUnderWay, ~CallUnderWay'
    PROVE  /\ \A k \in 1 .. 7 : Seen(k) = before[k]
           /\ Seen(1)' = cursor' /\ Seen(2)' = writeCount'
           /\ Seen(3)' = len' /\ Seen(4)' = gen' /\ Seen(5)' = rec'
           /\ Seen(6)' = patched' /\ Seen(7)' = written'
BY RingParts DEF Seen, ring

\* The end of an extend is Write of the n rows.
LEMMA BumpStep ==
    ASSUME AloneOnStorage, CallInv, NEW t \in Clients, Bump(t)
    PROVE  CallInv' /\ \E n \in 1 .. MaxBatch : Atomic!Write(BufferOf[t], n)
<1> DEFINE b == BufferOf[t]
<1>1. /\ access[t] = "bump" /\ Leave(t)
      /\ gen' = [s \in Slots |->
                     gen[s] + Cardinality({i \in DOMAIN rows[t] : rows[t][i] = s})]
      /\ rows' = [rows EXCEPT ![t] = <<>>]
      /\ UNCHANGED <<picked, handle, cursor, writeCount, len, rec, patched, written,
                     before>>
  BY DEF Bump
<1>2. PICK n \in 1 .. MaxBatch : Advanced(t, n) /\ RowsStored(rows[t], n)
  BY <1>1 DEF CallInv, DoneSoFar
<1>3. DOMAIN rows[t] = 0 .. n - 1 /\ n \in Nat /\ n > 0 /\ b \in Buffers
  BY <1>2, OneInside DEF Advanced
<1>12. IsFiniteSet(DOMAIN rows[t])
  <2>1. 0 \in Int /\ n - 1 \in Int
    BY <1>3
  <2> QED
    BY <1>3, <2>1, FS_Interval
<1>4. CallTypes'
  <2>1. gen' \in [Slots -> Int]
    <3> DEFINE hits(s) == {i \in DOMAIN rows[t] : rows[t][i] = s}
               count(s) == Cardinality(hits(s))
    <3>1. ASSUME NEW s \in Slots PROVE count(s) \in Nat
      <4>1. hits(s) \subseteq DOMAIN rows[t]
        OBVIOUS
      <4> HIDE DEF hits
      <4> QED
        BY <1>12, <4>1, FS_Subset, FS_CardinalityType
    <3>2. gen' = [s \in Slots |-> gen[s] + count(s)]
      BY <1>1
    <3> HIDE DEF hits, count
    <3> QED
      BY <3>1, <3>2 DEF CallInv, CallTypes
  <2>2. rows' = [u \in Clients |-> rows'[u]]
    BY <1>1 DEF CallInv, CallTypes
  <2> QED
    BY <1>1, <2>1, <2>2, OneInside DEF CallInv, CallTypes, Leave, CallLabels
<1>5. CallInv' /\ CallUnderWay /\ ~CallUnderWay'
  BY <1>1, <1>4, Outside
<1> DEFINE at == rows[t]
<1>6. Atomic!RingRows(b, n) = at
  BY <1>2, <1>5, SeenAtTheEnd DEF Atomic!RingRows, Advanced
<1>7. /\ \A s \in Slots : Atomic!Hits(at, s) = {i \in DOMAIN at : at[i] = s}
      /\ Atomic!Hit(at) = Landed(at) /\ Atomic!Placements(at) = Landings(at)
      /\ Atomic!Slots = Slots
  <2>1. Atomic!Slots = Slots
    BY DEF Atomic!Slots, Slots
  <2>2. \A s \in Slots : Atomic!Hits(at, s) = {i \in DOMAIN at : at[i] = s}
    BY DEF Atomic!Hits
  <2>3. Atomic!Hit(at) = Landed(at)
    BY <2>1 DEF Atomic!Hit, Atomic!Hits, Landed
  <2>4. Atomic!Placements(at) = Landings(at)
    BY <2>3 DEF Atomic!Placements, Landings
  <2> QED
    BY <2>1, <2>2, <2>3, <2>4
<1>8. Atomic!SetStorage(at, n)
  <2>1. PICK row \in Landings(at) :
            rec = [s \in Slots |-> IF s \in Landed(at) THEN before[7] + 1 + row[s]
                                                       ELSE before[5][s]]
    BY <1>2 DEF RowsStored
  <2>2. Seen(5)' = [s \in Slots |->
                               IF s \in Landed(at) THEN Seen(7) + 1 + row[s]
                               ELSE Seen(5)[s]]
    BY <1>1, <1>5, <2>1, SeenAtTheEnd
  <2>3. Seen(6)' = [s \in Slots |->
                               IF s \in Landed(at) THEN 0 ELSE Seen(6)[s]]
    BY <1>1, <1>2, <1>5, SeenAtTheEnd DEF RowsStored
  <2>4. Seen(7)' = Seen(7) + n
    BY <1>1, <1>2, <1>5, SeenAtTheEnd DEF RowsStored
  <2> QED
    BY <1>7, <2>1, <2>2, <2>3, <2>4 DEF Atomic!SetStorage
<1>9. Atomic!BumpGeneration(b, at)
  <2>1. Seen(7) \in Nat /\ Seen(7)' > 0
    <3>1. Seen(7) = before[7] /\ Seen(7)' = before[7] + n
      BY <1>1, <1>2, <1>5, SeenAtTheEnd DEF RowsStored
    <3>2. before[7] \in Nat
      BY DEF CallInv, CallTypes
    <3> QED
      BY <1>3, <3>1, <3>2
  <2>2. Seen(4)' = [s \in Atomic!Slots |->
                               Seen(4)[s] +
                               Atomic!Cardinality(Atomic!Hits(at, s))]
    <3> DEFINE count(s) == Cardinality({i \in DOMAIN at : at[i] = s})
    <3>1. \A s \in Slots :
              Atomic!Cardinality(Atomic!Hits(at, s)) = count(s)
      BY <1>7, CountsAlike
    <3>2. gen' = [s \in Slots |-> gen[s] + count(s)]
      BY <1>1
    <3>3. Seen(4)' = gen' /\ Seen(4) = gen
      BY <1>2, <1>5, SeenAtTheEnd DEF Advanced
    <3> HIDE DEF count
    <3> QED
      BY <1>7, <3>1, <3>2, <3>3
  <2> QED
    BY <1>3, <2>1, <2>2 DEF Atomic!BumpGeneration
<1>10. /\ Seen(7) + n <= MaxRecords
       /\ Seen(1)' = [Seen(1) EXCEPT ![b] = Atomic!NextCursor(b, n)]
       /\ Seen(2)' = [Seen(2) EXCEPT ![b] = @ + n]
       /\ Seen(3)' = Atomic!NewLen(n)
  BY <1>1, <1>2, <1>5, SeenAtTheEnd
     DEF Advanced, RowsStored, Atomic!NextCursor, Atomic!NewLen,
         Atomic!Smaller, NewLen
<1>11. Atomic!Write(b, n)
  BY <1>1, <1>6, <1>8, <1>9, <1>10 DEF Atomic!Write
<1> QED
  BY <1>5, <1>11

\* The end of a sample is Sample.
LEMMA FetchStep ==
    ASSUME AloneOnStorage, CallInv, NEW t \in Clients, Fetch(t)
    PROVE  CallInv' /\ Atomic!Sample(BufferOf[t], t)
<1>1. /\ access[t] = "fetch" /\ Leave(t) /\ UNCHANGED <<rows, ring, before>>
      /\ handle' = [handle EXCEPT ![t] = [slot  |-> picked[t].slot,
                                         stamp |-> picked[t].stamp,
                                         rec   |-> rec[picked[t].slot]]]
      /\ picked' = [picked EXCEPT ![t] = NoPick]
  BY DEF Fetch
<1>2. UNCHANGED <<cursor, writeCount, len, gen, rec, patched, written>>
  BY <1>1 DEF ring
<1>3. /\ ring = before /\ picked[t].slot \in 0 .. len - 1
      /\ picked[t].stamp = gen[picked[t].slot]
  BY <1>1 DEF CallInv, DoneSoFar
<1>4. /\ before[3] = len /\ before[4] = gen /\ before[5] = rec
  BY <1>3, RingParts
<1>5. CallTypes'
  <2>1. picked' \in [Clients -> [slot : Slots, stamp : Int]]
    BY <1>1 DEF CallInv, CallTypes, NoPick, Slots
  <2>2. handle' \in [Clients -> [slot : Slots, stamp : Int, rec : Nat]]
    BY <1>1 DEF CallInv, CallTypes
  <2> QED
    BY <1>1, <1>2, <2>1, <2>2, OneInside DEF CallInv, CallTypes, Leave, CallLabels
<1>6. CallInv' /\ CallUnderWay /\ ~CallUnderWay'
  BY <1>1, <1>5, Outside
<1>7. \A k \in 1 .. 7 : Seen(k)' = Seen(k)
  BY <1>1, <1>3, <1>6 DEF Seen
<1> DEFINE s == picked[t].slot
           index == [i \in 1 .. 1 |-> s]
<1>8. Seen(3) > 0 /\ index \in [1 .. 1 -> 0 .. Seen(3) - 1]
  BY <1>3, <1>4, <1>6, SeenAtTheEnd DEF CallInv, CallTypes
<1> DEFINE new == [i \in 1 .. 1 |-> [slot  |-> index[i],
                                     stamp |-> Seen(4)[index[i]],
                                     rec   |-> Seen(5)[index[i]]]]
<1>9. \A c \in Clients :
          [i \in 1 .. 1 |-> handle'[c]] =
              IF c = t THEN new ELSE [i \in 1 .. 1 |-> handle[c]]
  BY <1>1, <1>3, <1>4, <1>6, SeenAtTheEnd DEF CallInv, CallTypes
<1>10. [c \in Clients |-> [i \in 1 .. 1 |-> handle'[c]]] =
           [[c \in Clients |-> [i \in 1 .. 1 |-> handle[c]]] EXCEPT ![t] = new]
  BY <1>9
<1> HIDE DEF index
<1>11. Atomic!Sample(BufferOf[t], t)
  <2>1. index \in [Atomic!Rows -> 0 .. Seen(3) - 1] /\ BufferOf[t] \in Buffers
    BY <1>8, OneInside DEF Atomic!Rows
  <2>2. \E f \in [Atomic!Rows -> 0 .. Seen(3) - 1] :
            [c \in Clients |-> [i \in 1 .. 1 |-> handle'[c]]] =
                [[c \in Clients |-> [i \in 1 .. 1 |-> handle[c]]] EXCEPT ![t] =
                    [i \in Atomic!Rows |->
                        [slot  |-> f[i],
                         stamp |-> Atomic!GenerationOf(f[i]),
                         rec   |-> Seen(5)[f[i]]]]]
    BY <1>10, <2>1 DEF Atomic!Rows, Atomic!GenerationOf
  <2>3. UNCHANGED <<Seen(1), Seen(2), Seen(3), Seen(7) > 0,
                    Seen(4), Seen(5), [x \in Slots |-> 0],
                    Seen(6), Seen(7)>>
    BY <1>7
  <2> QED
    BY <1>8, <2>1, <2>2, <2>3 DEF Atomic!Sample
<1> QED
  BY <1>6, <1>11

\* The end of a conditional update that found its handle live is UpdateIfPresent.
LEMMA PatchStep ==
    ASSUME AloneOnStorage, CallInv, NEW t \in Clients, Patch(t)
    PROVE  CallInv' /\ Atomic!UpdateIfPresent(t)
<1>1. /\ access[t] = "patch" /\ Leave(t)
      /\ patched' = [patched EXCEPT ![handle[t].slot] = 1]
      /\ UNCHANGED <<rows, picked, handle, cursor, writeCount, len, gen, rec, written,
                     before>>
  BY DEF Patch
<1>2. ring = before /\ Live(handle[t])
  BY <1>1 DEF CallInv, DoneSoFar
<1>3. /\ before[1] = cursor /\ before[2] = writeCount /\ before[3] = len
      /\ before[4] = gen /\ before[5] = rec /\ before[6] = patched /\ before[7] = written
  BY <1>2, RingParts
<1>4. CallTypes'
  <2>1. patched' = [s \in Slots |-> patched'[s]]
    BY <1>1 DEF CallInv, CallTypes
  <2> QED
    BY <1>1, <2>1, OneInside DEF CallInv, CallTypes, Leave, CallLabels
<1>5. CallInv' /\ CallUnderWay /\ ~CallUnderWay'
  BY <1>1, <1>4, Outside
<1>6. /\ \A k \in {1, 2, 3, 4, 5, 7} : Seen(k)' = Seen(k)
      /\ Seen(4) = gen /\ Seen(6) = patched /\ Seen(6)' = patched'
  BY <1>1, <1>3, <1>5, SeenAtTheEnd
<1> DEFINE hs == [c \in Clients |-> [i \in 1 .. 1 |-> handle[c]]]
           s == handle[t].slot
           by == [x \in {s} |-> 1]
<1>7. Atomic!Rows = {1} /\ s \in Slots /\ hs[t][1] = handle[t]
  BY DEF Atomic!Rows, CallInv, CallTypes
<1>8. Atomic!LiveRows(t) = {1}
  BY <1>2, <1>6, <1>7
     DEF Atomic!LiveRows, Atomic!Live, Atomic!GenerationOf, Live
<1>9. by \in Atomic!Scatters(t, {1})
  BY <1>7 DEF Atomic!Scatters
<1>10. Atomic!ApplyPatch(by)
  BY <1>1, <1>6, <1>7
     DEF Atomic!ApplyPatch, Atomic!Slots, Slots, CallInv, CallTypes
<1>11. Atomic!Restamp(by)
  BY <1>6 DEF Atomic!Restamp
<1> HIDE DEF by
<1>12. Atomic!UpdateIfPresent(t)
  BY <1>1, <1>6, <1>8, <1>9, <1>10, <1>11 DEF Atomic!UpdateIfPresent
<1> QED
  BY <1>5, <1>12

\* The end of empty is Empty.
LEMMA DropStep ==
    ASSUME AloneOnStorage, CallInv, NEW t \in Clients, Drop(t)
    PROVE  CallInv' /\ \E all \in BOOLEAN : Atomic!Empty(BufferOf[t], all)
<1> DEFINE b == BufferOf[t]
<1>1. /\ access[t] = "drop" /\ Leave(t) /\ len' = 0
      /\ rec' = [s \in Slots |-> NoRecord]
      /\ patched' = [s \in Slots |-> 0]
      /\ UNCHANGED <<rows, picked, handle, cursor, writeCount, gen, written, before>>
  BY DEF Drop
<1>2. Untouched /\ Rewound(b)
  BY <1>1 DEF CallInv, DoneSoFar
<1>3. CallTypes'
  <2>1. patched' = [s \in Slots |-> patched'[s]] /\ rec' \in [Slots -> Nat]
    BY <1>1 DEF NoRecord
  <2>2. len' \in 0 .. Capacity
    BY <1>1
  <2> QED
    BY <1>1, <2>1, <2>2, OneInside DEF CallInv, CallTypes, Leave, CallLabels
<1>4. CallInv' /\ CallUnderWay /\ ~CallUnderWay'
  BY <1>1, <1>3, Outside
<1>5. PICK all \in BOOLEAN :
          writeCount = IF all THEN [before[2] EXCEPT ![b] = 0] ELSE before[2]
  BY <1>2 DEF Rewound
<1>6. /\ \A s \in Atomic!Slots : Seen(4)[s] < MaxStamp
      /\ Atomic!RewindCursor(b) /\ Atomic!InvalidateStamps
      /\ Seen(2)' = IF all THEN [Seen(2) EXCEPT ![b] = 0] ELSE Seen(2)
      /\ Seen(3)' = 0
      /\ Seen(5)' = [s \in Atomic!Slots |-> Atomic!NoRecord]
      /\ Seen(6)' = [s \in Atomic!Slots |-> 0]
      /\ Seen(7)' = Seen(7)
  <2>1. /\ Seen(1) = before[1] /\ Seen(2) = before[2]
        /\ Seen(4) = before[4] /\ Seen(7) = written
        /\ Seen(1)' = cursor /\ Seen(2)' = writeCount
        /\ Seen(4)' = gen /\ Seen(7)' = written
        /\ Seen(3)' = len' /\ Seen(5)' = rec' /\ Seen(6)' = patched'
    BY <1>1, <1>2, <1>4, SeenAtTheEnd DEF Untouched
  <2>2. Atomic!Slots = Slots /\ Atomic!NoRecord = NoRecord
    BY DEF Atomic!Slots, Slots, NoRecord, Atomic!NoRecord
  <2>3. Atomic!RewindCursor(b)
    BY <1>2, <2>1 DEF Rewound, Atomic!RewindCursor
  <2>4. Atomic!InvalidateStamps
    BY <1>2, <2>1, <2>2 DEF Rewound, Atomic!InvalidateStamps
  <2>5. \A s \in Atomic!Slots : Seen(4)[s] < MaxStamp
    BY <1>2, <2>1, <2>2 DEF Rewound
  <2> QED
    BY <1>1, <1>5, <2>1, <2>2, <2>3, <2>4, <2>5
<1>7. Atomic!Empty(b, all)
  BY <1>1, <1>6 DEF Atomic!Empty, Atomic!Slots, Slots
<1> QED
  BY <1>4, <1>7
-----------------------------------------------------------------------------
LEMMA InitCalls ==
    LInit => CallInv /\ Atomic!Init
<1> SUFFICES ASSUME LInit PROVE CallInv /\ Atomic!Init
  OBVIOUS
<1>1. 0 \in Slots /\ 0 \in 0 .. Capacity /\ -1 \in Int /\ "idle" \in CallLabels
  BY DEF Slots, CallLabels
<1>2. /\ before[1] = cursor /\ before[2] = writeCount /\ before[3] = len
      /\ before[4] = gen /\ before[5] = rec /\ before[6] = patched /\ before[7] = written
  BY RingParts DEF LInit
<1>3. CallTypes
  BY <1>1, <1>2 DEF LInit, CallTypes, NoPick, NoHandle, NoRecord
<1>4. \A t \in Clients : access[t] = "idle"
  BY DEF LInit
<1>5. InsideHoldsLock /\ \A t \in Clients : DoneSoFar(t)
  BY <1>4 DEF InsideHoldsLock, DoneSoFar, FirstStep
<1>6. ~CallUnderWay
  BY DEF CallUnderWay, LInit
<1>7. /\ Seen(1) = cursor /\ Seen(2) = writeCount
      /\ Seen(3) = len /\ Seen(4) = gen /\ Seen(5) = rec
      /\ Seen(6) = patched /\ Seen(7) = written
  BY <1>6, RingParts DEF Seen
<1>8. Atomic!Init
  BY <1>7 DEF Atomic!Init, LInit, Atomic!Slots, Slots,
     Atomic!NoStamp, Atomic!NoRecord,
              Atomic!Rows, NoHandle, Atomic!NoHandle, NoRecord
<1> QED
  BY <1>3, <1>5, <1>8 DEF CallInv

LEMMA NextCalls ==
    ASSUME AloneOnStorage
    PROVE  CallInv /\ [LNext]_lvars =>
               CallInv' /\ [Atomic!RingNext]_(Atomic!vars)
<1> SUFFICES ASSUME CallInv, [LNext]_lvars
             PROVE  CallInv' /\ [Atomic!RingNext]_(Atomic!vars)
  OBVIOUS
<1>1. ASSUME NEW t \in Clients, Step(t)
      PROVE  CallInv' /\ [Atomic!RingNext]_(Atomic!vars)
  <2>1. t \in Clients /\ BufferOf[t] \in Buffers
    BY OneInside
  <2>2. CASE \/ Enter(t) \/ Advance(t) \/ Store(t)
             \/ Choose(t) \/ ChooseRaises(t) \/ Compare(t)
             \/ Rewind(t) \/ CallSkipped(t)
    BY <2>2, EnterStep, AdvanceStep, StoreStep, ChooseStep, CompareStep, RewindStep,
       NothingDone
  <2>3. CASE Bump(t)
    BY <2>1, <2>3, BumpStep DEF Atomic!RingNext
  <2>4. CASE Fetch(t)
    BY <2>1, <2>4, FetchStep DEF Atomic!RingNext
  <2>5. CASE Patch(t)
    BY <2>1, <2>5, PatchStep DEF Atomic!RingNext
  <2>6. CASE Drop(t)
    BY <2>1, <2>6, DropStep DEF Atomic!RingNext
  <2> QED
    BY <1>1, <2>2, <2>3, <2>4, <2>5, <2>6 DEF Step
<1>2. CASE UNCHANGED lvars
  <2>1. UNCHANGED <<lock, access, rows, picked, handle, cursor, writeCount, len, gen, rec,
                    patched, written, before, ring>>
    BY <1>2 DEF lvars, ring
  <2>2. CallInv'
    <3>1. CallTypes' /\ InsideHoldsLock'
      BY <2>1 DEF CallInv, CallTypes, InsideHoldsLock
    <3>2. ASSUME NEW t \in Clients PROVE DoneSoFar(t)'
      <4>1. ASSUME NEW n \in 1 .. MaxBatch
            PROVE  /\ Advanced(t, n)' <=> Advanced(t, n)
                   /\ RowsStored(rows[t], n)' <=> RowsStored(rows[t], n)
        <5>1. /\ Landed(rows[t])' = Landed(rows[t])
              /\ Landings(rows[t])' = Landings(rows[t])
          BY <2>1 DEF Landings, Landed
        <5>2. RowsStored(rows[t], n)' <=> RowsStored(rows[t], n)
          BY <2>1, <5>1 DEF RowsStored
        <5> QED
          BY <2>1, <5>2 DEF Advanced
      <4>2. DoneSoFar(t)
        BY DEF CallInv
      <4> QED
        BY <2>1, <4>1, <4>2 DEF DoneSoFar, Untouched, Rewound, Live
    <3> QED
      BY <3>1, <3>2 DEF CallInv
  <2>3. UNCHANGED Atomic!vars
    BY <2>1 DEF Atomic!vars, Seen, CallUnderWay
  <2> QED
    BY <2>2, <2>3
<1> QED
  BY <1>1, <1>2 DEF LNext

\* The lock makes one step of each call: a buffer alone on its storage implements
\* GenerationRing's add, extend, sample, conditional update and empty, for any
\* number of threads (ReplayBuffer._replay_lock).
THEOREM LockMakesCallsAtomic ==
    ASSUME AloneOnStorage PROVE LSpec => CallsAreAtomic
<1>1. LInit => CallInv /\ Atomic!Init
  BY InitCalls
<1>2. CallInv /\ [LNext]_lvars =>
          CallInv' /\ [Atomic!RingNext]_(Atomic!vars)
  BY NextCalls
<1> QED
  BY <1>1, <1>2, PTL DEF LSpec, CallsAreAtomic, Atomic!RingSpec

-----------------------------------------------------------------------------
\* A handle whose stamp is that of its slot names the record stored there; no handle is
\* ahead of its slot.
Sound(h, stamps, records) ==
    /\ h.stamp <= stamps[h.slot]
    /\ h.stamp >= 0 /\ h.stamp = stamps[h.slot] => records[h.slot] = h.rec

\* The inductive invariant behind PatchTargetStillThere: the handles are sound of the
\* buffer between two calls, also while a call is under way.
PatchInv ==
    /\ CallInv
    /\ Seen(4) \in [Slots -> Int]
    /\ \A t \in Clients : Sound(handle[t], Seen(4), Seen(5))

LEMMA HandleTypes ==
    ASSUME CallInv, NEW t \in Clients
    PROVE  /\ handle[t].slot \in Slots /\ handle[t].stamp \in Int
           /\ gen[handle[t].slot] \in Int
BY DEF CallInv, CallTypes

\* Every step but the last of a call leaves the handles and what the buffer was alone.
LEMMA StutterKeepsSound ==
    ASSUME PatchInv, UNCHANGED Atomic!vars
    PROVE  /\ Seen(4)' \in [Slots -> Int]
           /\ \A t \in Clients : Sound(handle[t], Seen(4), Seen(5))'
<1> DEFINE seen == [c \in Clients |-> [i \in 1 .. 1 |-> handle[c]]]
<1>1. Seen(4)' = Seen(4) /\ Seen(5)' = Seen(5) /\ seen' = seen
  BY DEF Atomic!vars
<1>2. ASSUME NEW t \in Clients PROVE handle'[t] = handle[t]
  <2>1. seen[t][1] = handle[t] /\ seen'[t][1] = handle'[t]
    OBVIOUS
  <2> HIDE DEF seen
  <2> QED
    BY <1>1, <2>1
<1> QED
  BY <1>1, <1>2 DEF PatchInv, Sound

\* A write raises the stamps of the slots whose record it replaces.
LEMMA BumpKeepsSound ==
    ASSUME AloneOnStorage, PatchInv, NEW c \in Clients, Bump(c)
    PROVE  /\ Seen(4)' \in [Slots -> Int]
           /\ \A t \in Clients : Sound(handle[t], Seen(4), Seen(5))'
<1>0. CallInv
  BY DEF PatchInv
<1>1. /\ access[c] = "bump" /\ Leave(c) /\ UNCHANGED <<handle, rec>>
      /\ gen' = [s \in Slots |->
                     gen[s] + Cardinality({i \in DOMAIN rows[c] : rows[c][i] = s})]
  BY DEF Bump
<1>2. PICK n \in 1 .. MaxBatch : Advanced(c, n) /\ RowsStored(rows[c], n)
  BY <1>0, <1>1 DEF CallInv, DoneSoFar
<1>3. CallInv' /\ CallUnderWay /\ ~CallUnderWay'
  <2>1. CallInv'
    BY <1>0, BumpStep
  <2> QED
    BY <1>0, <1>1, <2>1, Outside DEF CallInv
<1>4. Seen(4) = gen /\ Seen(4)' = gen' /\ Seen(5) = before[5] /\ Seen(5)' = rec
  <2>1. /\ Seen(4) = before[4] /\ Seen(5) = before[5]
        /\ Seen(4)' = gen' /\ Seen(5)' = rec'
    BY <1>3, SeenAtTheEnd
  <2>2. before[4] = gen /\ rec' = rec
    BY <1>1, <1>2 DEF Advanced
  <2> QED
    BY <2>1, <2>2
<1>5. DOMAIN rows[c] = 0 .. n - 1 /\ n \in Nat
  BY <1>2 DEF Advanced
<1>6. IsFiniteSet(DOMAIN rows[c])
  <2>1. 0 \in Int /\ n - 1 \in Int
    BY <1>5
  <2> QED
    BY <1>5, <2>1, FS_Interval
<1>7. ASSUME NEW t \in Clients PROVE Sound(handle[t], Seen(4), Seen(5))'
  <2> DEFINE s == handle[t].slot
             hits == {i \in DOMAIN rows[c] : rows[c][i] = s}
  <2>1. s \in Slots /\ handle[t].stamp \in Int /\ gen[s] \in Int
    BY <1>0, HandleTypes
  <2>2. gen'[s] = gen[s] + Cardinality(hits)
    BY <1>1, <2>1
  <2>3. IsFiniteSet(hits) /\ Cardinality(hits) \in Nat
    <3>1. hits \subseteq DOMAIN rows[c]
      OBVIOUS
    <3> HIDE DEF hits
    <3> QED
      BY <1>6, <3>1, FS_Subset, FS_CardinalityType
  <2>4. Sound(handle[t], gen, before[5])
    BY <1>4 DEF PatchInv
  <2>5. CASE hits = {}
    <3>1. gen'[s] = gen[s]
      BY <2>1, <2>2, <2>5, FS_EmptySet
    <3>2. rec[s] = before[5][s]
      <4>1. s \notin Landed(rows[c])
        BY <2>5 DEF Landed
      <4> QED
        BY <1>2, <2>1, <4>1 DEF RowsStored
    <3> QED
      BY <1>1, <1>4, <2>4, <3>1, <3>2 DEF Sound
  <2>6. CASE hits # {}
    <3>1. Cardinality(hits) # 0
      BY <2>3, <2>6, FS_EmptySet
    <3> HIDE DEF hits
    <3>2. handle[t].stamp <= gen'[s] /\ handle[t].stamp # gen'[s]
      BY <2>1, <2>2, <2>3, <2>4, <3>1 DEF Sound
    <3>3. handle' = handle /\ Seen(4)' = gen'
      BY <1>1, <1>4
    <3> QED
      BY <3>2, <3>3 DEF Sound
  <2> QED
    BY <2>5, <2>6
<1>8. gen' \in [Slots -> Int]
  BY <1>3 DEF CallInv, CallTypes
<1> QED
  BY <1>4, <1>7, <1>8

\* A sampled handle names the record its slot holds.
LEMMA FetchKeepsSound ==
    ASSUME AloneOnStorage, PatchInv, NEW c \in Clients, Fetch(c)
    PROVE  /\ Seen(4)' \in [Slots -> Int]
           /\ \A t \in Clients : Sound(handle[t], Seen(4), Seen(5))'
<1>0. CallInv
  BY DEF PatchInv
<1>1. /\ access[c] = "fetch" /\ Leave(c) /\ UNCHANGED <<ring, before>>
      /\ handle' = [handle EXCEPT ![c] = [slot  |-> picked[c].slot,
                                         stamp |-> picked[c].stamp,
                                         rec   |-> rec[picked[c].slot]]]
  BY DEF Fetch
<1>2. ring = before /\ picked[c].stamp = gen[picked[c].slot]
  BY <1>0, <1>1 DEF CallInv, DoneSoFar
<1>3. \A k \in 1 .. 7 : Seen(k)' = Seen(k) /\ Seen(k) = ring[k]
  BY <1>1, <1>2 DEF Seen
<1>4. Seen(4)' = gen /\ Seen(5)' = rec /\ Seen(4) = gen /\ Seen(5) = rec
  BY <1>3, RingParts
<1>5. gen \in [Slots -> Int] /\ picked[c].slot \in Slots
  BY <1>0 DEF CallInv, CallTypes
<1>6. ASSUME NEW t \in Clients PROVE Sound(handle'[t], gen, rec)
  <2>1. CASE t = c
    <3>1. handle'[t] = [slot |-> picked[c].slot, stamp |-> gen[picked[c].slot],
                        rec |-> rec[picked[c].slot]]
      BY <1>0, <1>1, <1>2, <2>1 DEF CallInv, CallTypes
    <3> QED
      BY <1>5, <3>1 DEF Sound
  <2>2. CASE t # c
    <3>1. handle'[t] = handle[t]
      BY <1>0, <1>1, <2>2 DEF CallInv, CallTypes
    <3>2. Sound(handle[t], gen, rec)
      BY <1>4 DEF PatchInv
    <3> QED
      BY <3>1, <3>2
  <2> QED
    BY <2>1, <2>2
<1> QED
  BY <1>4, <1>5, <1>6 DEF Sound

\* A patch changes neither stamps nor records; empty raises the stamps there are.
LEMMA PatchKeepsSound ==
    ASSUME AloneOnStorage, PatchInv, NEW c \in Clients, Patch(c)
    PROVE  /\ Seen(4)' \in [Slots -> Int]
           /\ \A t \in Clients : Sound(handle[t], Seen(4), Seen(5))'
<1>0. CallInv
  BY DEF PatchInv
<1>1. access[c] = "patch" /\ Leave(c) /\ UNCHANGED <<handle, gen, rec, before>>
  BY DEF Patch
<1>2. before[4] = gen /\ before[5] = rec
  BY <1>0, <1>1, RingParts DEF CallInv, DoneSoFar
<1>3. CallInv' /\ CallUnderWay /\ ~CallUnderWay'
  <2>1. CallInv'
    BY <1>0, PatchStep
  <2> QED
    BY <1>0, <1>1, <2>1, Outside DEF CallInv
<1>4. Seen(4)' = Seen(4) /\ Seen(5)' = Seen(5)
  BY <1>1, <1>2, <1>3, SeenAtTheEnd
<1> QED
  BY <1>1, <1>4 DEF PatchInv, Sound

LEMMA DropKeepsSound ==
    ASSUME AloneOnStorage, PatchInv, NEW c \in Clients, Drop(c)
    PROVE  /\ Seen(4)' \in [Slots -> Int]
           /\ \A t \in Clients : Sound(handle[t], Seen(4), Seen(5))'
<1>0. CallInv
  BY DEF PatchInv
<1>1. access[c] = "drop" /\ Leave(c) /\ UNCHANGED <<handle, gen, before>>
  BY DEF Drop
<1>2. Rewound(BufferOf[c])
  BY <1>0, <1>1 DEF CallInv, DoneSoFar
<1>3. CallInv' /\ CallUnderWay /\ ~CallUnderWay'
  <2>1. CallInv'
    BY <1>0, DropStep
  <2> QED
    BY <1>0, <1>1, <2>1, Outside DEF CallInv
<1>4. Seen(4) = before[4] /\ Seen(4)' = gen
  BY <1>1, <1>3, SeenAtTheEnd
<1>5. gen \in [Slots -> Int] /\ before[4] \in [Slots -> Int]
  BY <1>0, <1>4 DEF CallInv, CallTypes, PatchInv
<1>6. ASSUME NEW t \in Clients PROVE Sound(handle[t], Seen(4), Seen(5))'
  <2> DEFINE s == handle[t].slot
  <2>1. s \in Slots /\ handle[t].stamp \in Int /\ gen[s] \in Int /\ before[4][s] \in Int
    BY <1>0, <1>5, HandleTypes
  <2>2. handle[t].stamp <= before[4][s]
    BY <1>4 DEF PatchInv, Sound
  <2>3. gen[s] = IF before[4][s] >= 0 THEN before[4][s] + 1 ELSE before[4][s]
    BY <1>2, <2>1 DEF Rewound
  <2>4. handle[t].stamp <= gen[s] /\ ~(handle[t].stamp >= 0 /\ handle[t].stamp = gen[s])
    BY <2>1, <2>2, <2>3
  <2> QED
    BY <1>1, <1>4, <2>4 DEF Sound
<1> QED
  BY <1>4, <1>5, <1>6

LEMMA NextKeepsSound ==
    ASSUME AloneOnStorage
    PROVE  PatchInv /\ [LNext]_lvars => PatchInv'
<1> SUFFICES ASSUME PatchInv, [LNext]_lvars
             PROVE  /\ Seen(4)' \in [Slots -> Int]
                    /\ \A t \in Clients : Sound(handle[t], Seen(4), Seen(5))'
  BY NextCalls DEF PatchInv
<1>0. CallInv
  BY DEF PatchInv
<1>1. ASSUME NEW c \in Clients, Step(c)
      PROVE  /\ Seen(4)' \in [Slots -> Int]
             /\ \A t \in Clients : Sound(handle[t], Seen(4), Seen(5))'
  <2>1. CASE Enter(c) \/ Advance(c) \/ Store(c) \/ Choose(c) \/ ChooseRaises(c)
             \/ Compare(c) \/ Rewind(c) \/ CallSkipped(c)
    <3>1. UNCHANGED Atomic!vars
      BY <1>0, <2>1, EnterStep, AdvanceStep, StoreStep, ChooseStep, CompareStep,
         RewindStep, NothingDone
    <3> QED
      BY <3>1, StutterKeepsSound
  <2>2. CASE Bump(c)
    BY <2>2, BumpKeepsSound
  <2>3. CASE Fetch(c)
    BY <2>3, FetchKeepsSound
  <2>4. CASE Patch(c)
    BY <2>4, PatchKeepsSound
  <2>5. CASE Drop(c)
    BY <2>5, DropKeepsSound
  <2> QED
    BY <1>1, <2>1, <2>2, <2>3, <2>4, <2>5 DEF Step
<1>2. CASE UNCHANGED lvars
  <2>1. UNCHANGED <<lock, handle, ring, before>>
    BY <1>2 DEF lvars
  <2>2. Seen(4)' = Seen(4) /\ Seen(5)' = Seen(5)
    BY <2>1 DEF Seen, CallUnderWay
  <2> QED
    BY <2>1, <2>2 DEF PatchInv, Sound
<1> QED
  BY <1>1, <1>2 DEF LNext

LEMMA InitSound == LInit => PatchInv
<1> SUFFICES ASSUME LInit PROVE PatchInv
  OBVIOUS
<1>1. CallInv
  BY InitCalls
<1>2. Seen(4) = gen
  BY RingParts DEF LInit, Seen
<1>3. ASSUME NEW t \in Clients PROVE Sound(handle[t], Seen(4), Seen(5))
  <2>1. handle[t] = NoHandle /\ 0 \in Slots
    BY DEF LInit, Slots
  <2>2. gen[0] = -1
    BY <2>1 DEF LInit
  <2> QED
    BY <1>2, <2>1, <2>2 DEF Sound, NoHandle
<1> QED
  BY <1>1, <1>2, <1>3 DEF PatchInv, CallInv, CallTypes

\* Between the comparison of the stamps and the write of the patch the slot keeps the
\* record the thread sampled, for any number of threads of a buffer alone on its storage
\* (update_if_present).  With a second buffer it does not.
THEOREM PatchesHitTheirTarget ==
    ASSUME AloneOnStorage PROVE LSpec => []PatchTargetStillThere
<1>1. PatchInv => PatchTargetStillThere
  <2> SUFFICES ASSUME PatchInv, NEW t \in Clients, access[t] = "patch"
               PROVE  rec[handle[t].slot] = handle[t].rec
    BY DEF PatchTargetStillThere
  <2>1. ring = before /\ Live(handle[t])
    BY DEF PatchInv, CallInv, DoneSoFar
  <2>2. Seen(4) = gen /\ Seen(5) = rec
    BY <2>1, RingParts DEF Seen
  <2>3. Sound(handle[t], gen, rec)
    BY <2>2 DEF PatchInv
  <2> QED
    BY <2>1, <2>3 DEF Sound, Live
<1>2. PatchInv /\ [LNext]_lvars => PatchInv'
  BY NextKeepsSound
<1> QED
  BY <1>1, <1>2, InitSound, PTL DEF LSpec
=============================================================================
