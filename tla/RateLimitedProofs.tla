------------------------- MODULE RateLimitedProofs --------------------------
(***************************************************************************)
(* Proofs about RateLimitedBuffer, for any number of samplers and writers, *)
(* any ratio and any batch size: type correctness, that reservations cover *)
(* the samples under way, that the ratio is kept, and that no sampler is   *)
(* left asleep on a budget that covers its batch.  The ratio needs         *)
(* UnitLength = 1: a sample unit that makes more records of one returns    *)
(* more than was reserved.                                                 *)
(***************************************************************************)
EXTENDS RateLimitedBuffer, FiniteSetTheorems, TLAPS

\* Samples that are still to be added to the counter of returned records.
Uncounted == {s \in Samplers : pc[s] \in {"draw", "count"}}

Held == BatchSize * Cardinality(InFlight)
Owed == BatchSize * Cardinality(Uncounted)
Slack == BatchSize * interrupted

Checkpoint == [items : 0 .. Capacity, writeCount : Nat, returned : Nat, inserted : Nat]

RateTypes ==
    /\ TypeOK
    /\ interrupted \in Nat
    /\ saved \in SUBSET Checkpoint

\* The inductive invariant behind ReservationsHeld.
HeldInv == RateTypes /\ ReservationsHeld

\* empty may take the writer's count back, nothing else may.
CountedWrites ==
    /\ writeCount <= inserted
    /\ \A e \in saved : e.writeCount <= e.inserted

\* A batch that has been drawn is no longer than what was reserved for it.
DrawnFits == \A s \in Samplers : pc[s] = "count" => drawn[s] <= BatchSize

\* What was returned, and what may yet be without another reservation, was paid for.
PaidFor ==
    /\ returned + Owed <= Allowance(inserted) + Slack
    /\ \A e \in saved : e.returned <= Allowance(e.inserted) + Slack

\* The inductive invariant behind RatioKept.
RatioInv == HeldInv /\ CountedWrites /\ DrawnFits /\ PaidFor

-----------------------------------------------------------------------------
\* Allowance is a count and does not fall when more is written.
LEMMA AllowanceGrows ==
    ASSUME NEW a \in Nat, NEW b \in Nat, a <= b
    PROVE  Allowance(a) \in Nat /\ Allowance(b) \in Nat /\ Allowance(a) <= Allowance(b)
<1>1. a * Num \in Nat /\ b * Num \in Nat
  BY RateAssumption
<1>2. a * Num <= b * Num
  BY RateAssumption
<1>3. ASSUME NEW x \in Nat, NEW y \in Nat, x <= y
      PROVE  x \div Den \in Nat /\ y \div Den \in Nat /\ x \div Den <= y \div Den
  BY <1>3, RateAssumption
<1> QED
  BY <1>1, <1>2, <1>3 DEF Allowance

\* A batch more or less of samplers.
LEMMA OneBatch ==
    ASSUME NEW S \in SUBSET Samplers, NEW s \in Samplers
    PROVE  /\ BatchSize * Cardinality(S) \in Nat
           /\ s \notin S => BatchSize * Cardinality(S \cup {s})
                              = BatchSize * Cardinality(S) + BatchSize
           /\ s \in S => BatchSize * Cardinality(S \ {s})
                           = BatchSize * Cardinality(S) - BatchSize
<1>1. IsFiniteSet(S) /\ Cardinality(S) \in Nat
  BY FS_Subset, FS_CardinalityType, RateAssumption
<1>2. ASSUME s \in S PROVE Cardinality(S \ {s}) = Cardinality(S) - 1
  BY <1>1, <1>2, FS_RemoveElement
<1>3. ASSUME s \notin S PROVE Cardinality(S \cup {s}) = Cardinality(S) + 1
  BY <1>1, <1>3, FS_AddElement
<1>4. BatchSize \in Nat
  BY RateAssumption
<1>5. \A n \in Nat : /\ BatchSize * n \in Nat
                     /\ BatchSize * (n + 1) = BatchSize * n + BatchSize
                     /\ BatchSize * (n - 1) = BatchSize * n - BatchSize
  BY <1>4
<1> QED
  BY <1>1, <1>2, <1>3, <1>5

\* Every uncounted sample is under way.
LEMMA OwedIsHeld == Held \in Nat /\ Owed \in Nat /\ Owed <= Held
<1>1. InFlight \in SUBSET Samplers /\ Uncounted \in SUBSET InFlight
  BY DEF InFlight, Uncounted
<1>2. IsFiniteSet(InFlight) /\ Cardinality(InFlight) \in Nat
  BY <1>1, FS_Subset, FS_CardinalityType, RateAssumption
<1>3. IsFiniteSet(Uncounted) /\ Cardinality(Uncounted) \in Nat
  BY <1>1, <1>2, FS_Subset, FS_CardinalityType
<1>4. Cardinality(Uncounted) <= Cardinality(InFlight)
  BY <1>1, <1>2, FS_Subset
<1>5. BatchSize \in Nat
  BY RateAssumption
<1>6. \A m, n \in Nat : /\ BatchSize * m \in Nat
                        /\ m <= n => BatchSize * m <= BatchSize * n
  BY <1>5
<1> QED
  BY <1>2, <1>3, <1>4, <1>6 DEF Held, Owed

-----------------------------------------------------------------------------
LEMMA RateTypesInit == Init => RateTypes
<1> SUFFICES ASSUME Init PROVE RateTypes
  OBVIOUS
<1>1. items \in 0 .. Capacity
  BY RateAssumption DEF Init
<1>2. pc \in [Samplers \cup Writers -> {"idle", "reserve", "asleep", "draw", "count",
                                        "release", "notify"}]
  BY DEF Init
<1>3. drawn \in [Samplers -> Nat] /\ shutdown \in BOOLEAN /\ saved \in SUBSET Checkpoint
  BY DEF Init
<1>4. {writeCount, inserted, returned, interrupted} \subseteq Nat /\ reserved \in Int
  BY DEF Init
<1> QED
  BY <1>1, <1>2, <1>3, <1>4 DEF RateTypes, TypeOK

\* Where a call goes next is a place of pc.
LEMMA GotoPlaces ==
    ASSUME RateTypes, NEW t \in Samplers \cup Writers,
           NEW l \in {"idle", "reserve", "asleep", "draw", "count", "release", "notify"},
           Goto(t, l) \/ NotifyAll(t, l) \/ NotifyOthers
    PROVE  pc' \in [Samplers \cup Writers -> {"idle", "reserve", "asleep", "draw",
                                              "count", "release", "notify"}]
<1>1. CASE Goto(t, l)
  BY <1>1 DEF Goto, RateTypes, TypeOK
<1>2. CASE NotifyAll(t, l)
  BY <1>2 DEF NotifyAll, RateTypes, TypeOK
<1>3. CASE NotifyOthers
  BY <1>3 DEF NotifyOthers, RateTypes, TypeOK
<1> QED
  BY <1>1, <1>2, <1>3

\* The storage never believes to be longer than it is.
LEMMA StoredFits ==
    ASSUME items \in 0 .. Capacity, NEW n \in Nat
    PROVE  Stored(n) \in 0 .. Capacity
  BY RateAssumption DEF Stored

LEMMA RateTypesNext == RateTypes /\ [Next]_vars => RateTypes'
<1> SUFFICES ASSUME RateTypes, [Next]_vars
             PROVE  RateTypes'
  OBVIOUS
<1> USE RateAssumption
<1>1. ASSUME NEW s \in Samplers, Call(s) \/ Refuse(s) \/ Sleep(s) \/ GiveUp(s)
      PROVE  RateTypes'
  <2>1. Goto(s, "reserve") \/ Goto(s, "idle") \/ Goto(s, "asleep")
    BY <1>1 DEF Call, Refuse, Sleep, GiveUp
  <2>2. UNCHANGED <<items, writeCount, returned, reserved, drawn, shutdown, saved,
                    inserted, interrupted>>
    BY <1>1 DEF Call, Refuse, Sleep, GiveUp
  <2> QED
    BY <2>1, <2>2, GotoPlaces DEF RateTypes, TypeOK
<1>2. ASSUME NEW s \in Samplers, Reserve(s)
      PROVE  RateTypes'
  BY <1>2, GotoPlaces DEF Reserve, RateTypes, TypeOK
<1>3. ASSUME NEW s \in Samplers, Draw(s) \/ DrawRaises(s)
      PROVE  RateTypes'
  <2>1. Goto(s, "count") \/ Goto(s, "release")
    BY <1>3 DEF Draw, DrawRaises, AfterError
  <2>2. drawn' \in [Samplers -> Nat]
    <3>1. CASE Draw(s)
      <4>1. PICK n \in 1 .. BatchSize : drawn' = [drawn EXCEPT ![s] = n * UnitLength]
        BY <3>1 DEF Draw
      <4>2. n * UnitLength \in Nat
        OBVIOUS
      <4> QED
        BY <4>1, <4>2 DEF RateTypes, TypeOK
    <3>2. CASE DrawRaises(s)
      BY <3>2 DEF DrawRaises, RateTypes, TypeOK
    <3> QED
      BY <1>3, <3>1, <3>2
  <2>3. UNCHANGED <<items, writeCount, returned, reserved, shutdown, saved,
                    inserted, interrupted>>
    BY <1>3 DEF Draw, DrawRaises
  <2> QED
    BY <2>1, <2>2, <2>3, GotoPlaces DEF RateTypes, TypeOK
<1>4. ASSUME NEW s \in Samplers, Count(s)
      PROVE  RateTypes'
  BY <1>4, GotoPlaces DEF Count, RateTypes, TypeOK
<1>5. ASSUME NEW s \in Samplers, Release(s)
      PROVE  RateTypes'
  BY <1>5, GotoPlaces DEF Release, AfterRelease, RateTypes, TypeOK
<1>6. ASSUME NEW w \in Writers, Write(w)
      PROVE  RateTypes'
  <2>1. PICK n \in 1 .. MaxWritten - inserted :
            /\ items' = Stored(n)
            /\ writeCount' = writeCount + n
            /\ inserted' = inserted + n
    BY <1>6 DEF Write
  <2>2. n \in Nat /\ Stored(n) \in 0 .. Capacity
    BY StoredFits DEF RateTypes, TypeOK
  <2> QED
    BY <1>6, <2>1, <2>2, GotoPlaces DEF Write, RateTypes, TypeOK
<1>7. ASSUME NEW w \in Writers, Notify(w)
      PROVE  RateTypes'
  BY <1>7, GotoPlaces DEF Notify, RateTypes, TypeOK
<1>8. ASSUME NEW count \in BOOLEAN, Empty(count)
      PROVE  RateTypes'
  BY <1>8 DEF Empty, NotifyOthers, RateTypes, TypeOK
<1>9. CASE Save
  BY <1>9 DEF Save, Checkpoint, RateTypes, TypeOK
<1>10. CASE Load
  <2>1. PICK e \in saved : /\ items' = e.items
                           /\ writeCount' = e.writeCount
                           /\ returned' = e.returned
                           /\ inserted' = e.inserted
    BY <1>10 DEF Load
  <2>2. e \in Checkpoint
    BY DEF RateTypes
  <2>3. interrupted' \in Nat
    <3>1. IsFiniteSet(InFlight)
      BY FS_Subset DEF InFlight
    <3> QED
      BY <1>10, <3>1, FS_CardinalityType DEF Load, RateTypes
  <2> QED
    BY <1>10, <2>1, <2>2, <2>3 DEF Load, NotifyOthers, Checkpoint, RateTypes, TypeOK
<1>11. CASE LoadRate
  <2>1. IsFiniteSet(InFlight)
    BY FS_Subset DEF InFlight
  <2>2. interrupted' \in Nat
    BY <1>11, <2>1, FS_CardinalityType DEF LoadRate, RateTypes
  <2> QED
    BY <1>11, <2>2 DEF LoadRate, NotifyOthers, RateTypes, TypeOK
<1>12. CASE Shutdown
  BY <1>12 DEF Shutdown, NotifyOthers, RateTypes, TypeOK
<1>13. CASE UNCHANGED vars
  BY <1>13 DEF vars, RateTypes, TypeOK
<1> QED
  BY <1>1, <1>2, <1>3, <1>4, <1>5, <1>6, <1>7, <1>8, <1>9, <1>10, <1>11, <1>12, <1>13
  DEF Next, Proceeds

\* The type invariant, for every number of samplers and writers, ratio, batch size
\* and capacity.
THEOREM RateTypeCorrect == Spec => []TypeOK
<1>1. RateTypes => TypeOK
  BY DEF RateTypes
<1> QED
  BY <1>1, RateTypesInit, RateTypesNext, PTL DEF Spec

-----------------------------------------------------------------------------
\* The steps that neither begin nor end a sample, nor draw or count one.
Aside ==
    \/ \E s \in Samplers : Call(s) \/ Refuse(s) \/ Sleep(s) \/ GiveUp(s)
    \/ \E w \in Writers : Write(w) \/ Notify(w)
    \/ \E count \in BOOLEAN : Empty(count)
    \/ Save \/ Load \/ LoadRate \/ Shutdown

\* They leave every sample where it is.
LEMMA AsideKeepsSamples ==
    ASSUME RateTypes, Aside
    PROVE  InFlight' = InFlight /\ Uncounted' = Uncounted
<1> DEFINE Under == {"draw", "count", "release"}
<1> SUFFICES ASSUME NEW t \in Samplers
             PROVE  /\ pc[t] \in Under => pc'[t] = pc[t]
                    /\ pc'[t] \in Under => pc'[t] = pc[t]
  BY DEF InFlight, Uncounted
<1>1. t \in DOMAIN pc /\ DOMAIN pc = Samplers \cup Writers
  BY DEF RateTypes, TypeOK
<1>2. ASSUME NEW s \in Samplers, Call(s) \/ Refuse(s) \/ Sleep(s) \/ GiveUp(s)
      PROVE  \E l \in {"idle", "reserve", "asleep"} :
                 pc' = [pc EXCEPT ![s] = l] /\ pc[s] \notin Under
  BY <1>2 DEF Call, Refuse, Sleep, GiveUp, Goto
<1>3. ASSUME NEW w \in Writers, Write(w)
      PROVE  pc' = [pc EXCEPT ![w] = "notify"] /\ pc[w] = "idle"
  BY <1>3 DEF Write, Goto
<1>4. ASSUME NEW w \in Writers, Notify(w)
      PROVE  pc[w] = "notify" /\ NotifyAll(w, "idle")
  BY <1>4 DEF Notify
<1>5. ASSUME NEW count \in BOOLEAN, Empty(count)
      PROVE  NotifyOthers
  BY <1>5 DEF Empty
<1>6. Save => pc' = pc
  BY DEF Save
<1>7. Load \/ LoadRate \/ Shutdown => NotifyOthers
  BY DEF Load, LoadRate, Shutdown
<1> QED
  BY <1>1, <1>2, <1>3, <1>4, <1>5, <1>6, <1>7 DEF Aside, NotifyAll, NotifyOthers

\* What the other steps do to the samples under way.
LEMMA SampleSteps ==
    ASSUME RateTypes, NEW s \in Samplers
    PROVE  /\ Reserve(s) => /\ s \notin InFlight /\ InFlight' = InFlight \cup {s}
                            /\ s \notin Uncounted /\ Uncounted' = Uncounted \cup {s}
           /\ Draw(s) => InFlight' = InFlight /\ Uncounted' = Uncounted
           /\ DrawRaises(s) \/ Count(s) =>
                  /\ InFlight' = InFlight
                  /\ s \in Uncounted /\ Uncounted' = Uncounted \ {s}
           /\ Release(s) => /\ s \in InFlight /\ InFlight' = InFlight \ {s}
                            /\ Uncounted' = Uncounted
<1> USE DEF RateTypes, TypeOK, InFlight, Uncounted
<1>1. ASSUME Reserve(s)
      PROVE  /\ s \notin InFlight /\ InFlight' = InFlight \cup {s}
             /\ s \notin Uncounted /\ Uncounted' = Uncounted \cup {s}
  BY <1>1 DEF Reserve, Goto
<1>2. ASSUME Draw(s)
      PROVE  InFlight' = InFlight /\ Uncounted' = Uncounted
  BY <1>2 DEF Draw, Goto
<1>3. ASSUME DrawRaises(s) \/ Count(s)
      PROVE  InFlight' = InFlight /\ s \in Uncounted /\ Uncounted' = Uncounted \ {s}
  BY <1>3 DEF DrawRaises, AfterError, Count, Goto
<1>4. ASSUME Release(s)
      PROVE  s \in InFlight /\ InFlight' = InFlight \ {s} /\ Uncounted' = Uncounted
  BY <1>4 DEF Release, AfterRelease, NotifyAll
<1> QED
  BY <1>1, <1>2, <1>3, <1>4

\* A restore adds a batch to the slack for every sample under way.
LEMMA InterruptedSteps ==
    ASSUME RateTypes
    PROVE  /\ Slack \in Nat
           /\ Load \/ LoadRate => Slack' = Slack + Held
           /\ UNCHANGED interrupted => Slack' = Slack
<1>1. Cardinality(InFlight) \in Nat
  BY FS_Subset, FS_CardinalityType, RateAssumption DEF InFlight
<1>2. interrupted \in Nat /\ BatchSize \in Nat
  BY RateAssumption DEF RateTypes
<1>3. \A m, n \in Nat : BatchSize * (m + n) = BatchSize * m + BatchSize * n
                        /\ BatchSize * m \in Nat
  BY <1>2
<1>4. Load \/ LoadRate => interrupted' = interrupted + Cardinality(InFlight)
  BY DEF Load, LoadRate
<1> QED
  BY <1>1, <1>2, <1>3, <1>4 DEF Slack, Held

-----------------------------------------------------------------------------
LEMMA HeldBounds ==
    /\ ReservationsHeld <=> Held - Slack <= reserved /\ reserved <= Held
    /\ ReservationsHeld' <=> Held' - Slack' <= reserved' /\ reserved' <= Held'
  BY DEF ReservationsHeld, Held, Slack

LEMMA HeldInit == Init => HeldInv
<1> SUFFICES ASSUME Init PROVE HeldInv
  OBVIOUS
<1>1. InFlight = {}
  BY DEF Init, InFlight
<1>2. Held = 0 /\ Slack = 0
  BY <1>1, FS_EmptySet, RateAssumption DEF Held, Slack, Init
<1> QED
  BY <1>2, HeldBounds, RateTypesInit DEF HeldInv, Init

\* Steps aside leave reserved alone, but for the one that forgets all reservations.
LEMMA AsideReserves ==
    ASSUME Aside
    PROVE  \/ LoadRate /\ reserved' = 0
           \/ Load /\ reserved' = reserved
           \/ reserved' = reserved /\ UNCHANGED interrupted
<1>1. ASSUME NEW s \in Samplers, Call(s) \/ Refuse(s) \/ Sleep(s) \/ GiveUp(s)
      PROVE  reserved' = reserved /\ UNCHANGED interrupted
  BY <1>1 DEF Call, Refuse, Sleep, GiveUp
<1>2. ASSUME NEW w \in Writers, Write(w) \/ Notify(w)
      PROVE  reserved' = reserved /\ UNCHANGED interrupted
  BY <1>2 DEF Write, Notify
<1>3. ASSUME NEW count \in BOOLEAN, Empty(count)
      PROVE  reserved' = reserved /\ UNCHANGED interrupted
  BY <1>3 DEF Empty
<1>4. Save \/ Shutdown => reserved' = reserved /\ UNCHANGED interrupted
  BY DEF Save, Shutdown
<1>5. Load => reserved' = reserved
  BY DEF Load
<1>6. LoadRate => reserved' = 0
  BY DEF LoadRate
<1> QED
  BY <1>1, <1>2, <1>3, <1>4, <1>5, <1>6 DEF Aside

LEMMA HeldNext == HeldInv /\ [Next]_vars => HeldInv'
<1> SUFFICES ASSUME HeldInv, [Next]_vars
             PROVE  HeldInv'
  OBVIOUS
<1>1. RateTypes /\ RateTypes'
  BY RateTypesNext DEF HeldInv
<1>2. /\ Held \in Nat /\ Slack \in Nat /\ reserved \in Int /\ BatchSize \in Nat
      /\ Held - Slack <= reserved /\ reserved <= Held
  BY <1>1, OwedIsHeld, InterruptedSteps, HeldBounds, RateAssumption
  DEF HeldInv, RateTypes, TypeOK
<1>3. InFlight \in SUBSET Samplers
  BY DEF InFlight
<1>4. ASSUME NEW s \in Samplers, Reserve(s)
      PROVE  Held' = Held + BatchSize /\ reserved' = reserved + BatchSize /\ Slack' = Slack
  <2>1. s \notin InFlight /\ InFlight' = InFlight \cup {s}
    BY <1>1, <1>4, SampleSteps
  <2> QED
    BY <1>1, <1>3, <1>4, <2>1, OneBatch, InterruptedSteps DEF Held, Reserve
<1>5. ASSUME NEW s \in Samplers, Draw(s) \/ DrawRaises(s) \/ Count(s)
      PROVE  Held' = Held /\ reserved' = reserved /\ Slack' = Slack
  <2>1. InFlight' = InFlight
    BY <1>1, <1>5, SampleSteps
  <2>2. UNCHANGED interrupted
    BY <1>5 DEF Draw, DrawRaises, Count
  <2> QED
    BY <1>1, <1>5, <2>1, <2>2, InterruptedSteps DEF Held, Draw, DrawRaises, Count
<1>6. ASSUME NEW s \in Samplers, Release(s)
      PROVE  Held' = Held - BatchSize /\ reserved' = reserved - BatchSize /\ Slack' = Slack
  <2>1. s \in InFlight /\ InFlight' = InFlight \ {s}
    BY <1>1, <1>6, SampleSteps
  <2> QED
    BY <1>1, <1>3, <1>6, <2>1, OneBatch, InterruptedSteps DEF Held, Release
<1>7. CASE Aside
  <2>1. Held' = Held
    BY <1>1, <1>7, AsideKeepsSamples DEF Held
  <2>2. CASE LoadRate /\ reserved' = 0
    BY <1>1, <1>2, <2>1, <2>2, InterruptedSteps, HeldBounds DEF HeldInv
  <2>3. CASE Load /\ reserved' = reserved
    BY <1>1, <1>2, <2>1, <2>3, InterruptedSteps, HeldBounds DEF HeldInv
  <2>4. CASE reserved' = reserved /\ UNCHANGED interrupted
    BY <1>1, <1>2, <2>1, <2>4, InterruptedSteps, HeldBounds DEF HeldInv
  <2> QED
    BY <1>7, <2>2, <2>3, <2>4, AsideReserves
<1>8. CASE UNCHANGED vars
  BY <1>1, <1>8 DEF vars, HeldInv, ReservationsHeld, InFlight
<1>9. CASE \E s \in Samplers : Reserve(s) \/ Draw(s) \/ DrawRaises(s) \/ Count(s) \/ Release(s)
  BY <1>1, <1>2, <1>4, <1>5, <1>6, <1>9, HeldBounds DEF HeldInv
<1> QED
  BY <1>7, <1>8, <1>9 DEF Next, Proceeds, Aside

\* A reservation is held for every sample under way and given back on every path
\* out of sample; a restore may only cancel reservations.
THEOREM ReservationsAreHeld == Spec => []ReservationsHeld
<1>1. HeldInv => ReservationsHeld
  BY DEF HeldInv
<1> QED
  BY <1>1, HeldInit, HeldNext, PTL DEF Spec

-----------------------------------------------------------------------------
LEMMA CountedWritesNext ==
    ASSUME RateTypes, CountedWrites, [Next]_vars
    PROVE  CountedWrites'
<1> USE DEF CountedWrites
<1>1. writeCount \in Nat /\ inserted \in Nat
  BY DEF RateTypes, TypeOK
<1>2. ASSUME NEW w \in Writers, Write(w)
      PROVE  CountedWrites'
  <2>1. PICK n \in 1 .. MaxWritten - inserted :
            writeCount' = writeCount + n /\ inserted' = inserted + n
    BY <1>2 DEF Write
  <2>2. n \in Nat
    BY <1>1, RateAssumption
  <2> QED
    BY <1>1, <1>2, <2>1, <2>2 DEF Write
<1>3. ASSUME NEW count \in BOOLEAN, Empty(count)
      PROVE  CountedWrites'
  BY <1>1, <1>3 DEF Empty
<1>4. CASE Save
  BY <1>4 DEF Save
<1>5. CASE Load
  BY <1>5 DEF Load
<1>6. CASE UNCHANGED <<writeCount, inserted, saved>>
  BY <1>6
<1>7. \/ \E w \in Writers : Write(w)
      \/ \E count \in BOOLEAN : Empty(count)
      \/ Save \/ Load
      \/ UNCHANGED <<writeCount, inserted, saved>>
  BY DEF Next, Proceeds, Call, Reserve, Refuse, Sleep, GiveUp, Draw, DrawRaises, Count,
         Release, Notify, LoadRate, Shutdown, vars
<1> QED
  BY <1>2, <1>3, <1>4, <1>5, <1>6, <1>7

LEMMA DrawnFitsNext ==
    ASSUME UnitLength = 1, RateTypes, DrawnFits, [Next]_vars
    PROVE  DrawnFits'
<1> USE DEF DrawnFits
<1>1. /\ pc \in [Samplers \cup Writers -> {"idle", "reserve", "asleep", "draw", "count",
                                           "release", "notify"}]
      /\ drawn \in [Samplers -> Nat] /\ BatchSize \in Nat
  BY RateAssumption DEF RateTypes, TypeOK
<1>2. ASSUME NEW s \in Samplers, Draw(s)
      PROVE  DrawnFits'
  <2>1. PICK n \in 1 .. BatchSize : drawn' = [drawn EXCEPT ![s] = n * UnitLength]
    BY <1>2 DEF Draw
  <2>2. drawn'[s] <= BatchSize
    BY <1>1, <2>1
  <2>3. ASSUME NEW t \in Samplers \ {s}
        PROVE  drawn'[t] = drawn[t] /\ pc'[t] = pc[t]
    BY <1>1, <1>2, <2>1 DEF Draw, Goto
  <2> QED
    BY <2>2, <2>3
<1>3. ASSUME NEW s \in Samplers, Count(s)
      PROVE  DrawnFits'
  <2>1. pc'[s] = "release"
    BY <1>1, <1>3 DEF Count, Goto
  <2>2. ASSUME NEW t \in Samplers \ {s}
        PROVE  drawn'[t] = drawn[t] /\ pc'[t] = pc[t]
    BY <1>1, <1>3 DEF Count, Goto
  <2> QED
    BY <2>1, <2>2
<1>4. ASSUME NEW s \in Samplers, Reserve(s) \/ DrawRaises(s) \/ Release(s)
      PROVE  DrawnFits'
  <2>1. drawn' = drawn
    BY <1>4 DEF Reserve, DrawRaises, Release
  <2>2. \A t \in Samplers : pc'[t] = "count" => pc[t] = "count"
    BY <1>1, <1>4 DEF Reserve, DrawRaises, AfterError, Release, AfterRelease, Goto, NotifyAll
  <2> QED
    BY <2>1, <2>2
<1>5. CASE Aside
  <2>1. drawn' = drawn
    BY <1>5 DEF Aside, Call, Refuse, Sleep, GiveUp, Write, Notify, Empty, Save, Load,
                LoadRate, Shutdown
  <2>2. \A t \in Samplers : pc'[t] = "count" => pc[t] = "count"
    BY <1>1, <1>5 DEF Aside, Call, Refuse, Sleep, GiveUp, Write, Notify, Empty, Save, Load,
                      LoadRate, Shutdown, Goto, NotifyAll, NotifyOthers
  <2> QED
    BY <2>1, <2>2
<1>6. CASE UNCHANGED vars
  BY <1>6 DEF vars
<1> QED
  BY <1>2, <1>3, <1>4, <1>5, <1>6 DEF Next, Proceeds, Aside

\* The budget that a reservation is granted from covers it, whatever is under way.
LEMMA ReservedIsPaidFor ==
    ASSUME HeldInv, CountedWrites, NEW s \in Samplers, Reserve(s)
    PROVE  returned + Owed + BatchSize <= Allowance(inserted) + Slack
<1>1. RateTypes
  BY DEF HeldInv
<1>2. /\ writeCount \in Nat /\ inserted \in Nat /\ returned \in Nat /\ reserved \in Int
      /\ writeCount <= inserted
  BY <1>1 DEF RateTypes, TypeOK, CountedWrites
<1>3. /\ Held \in Nat /\ Owed \in Nat /\ Owed <= Held
      /\ Slack \in Nat /\ BatchSize \in Nat
  BY <1>1, OwedIsHeld, InterruptedSteps, RateAssumption
<1>4. Held - Slack <= reserved
  BY HeldBounds DEF HeldInv
<1>5. Allowance(writeCount) \in Nat /\ Allowance(writeCount) <= Allowance(inserted)
  BY <1>2, AllowanceGrows
<1>6. Allowance(inserted) \in Nat
  BY <1>2, AllowanceGrows
<1>7. Allowance(writeCount) - returned - reserved >= BatchSize
  BY DEF Reserve, Permitted, Budget
<1> QED
  BY <1>2, <1>3, <1>4, <1>5, <1>6, <1>7

LEMMA PaidForNext ==
    ASSUME RatioInv, [Next]_vars
    PROVE  PaidFor'
<1>1. RateTypes /\ HeldInv /\ CountedWrites /\ DrawnFits
  BY DEF RatioInv, HeldInv
<1>2. /\ writeCount \in Nat /\ inserted \in Nat /\ returned \in Nat
      /\ drawn \in [Samplers -> Nat] /\ saved \in SUBSET Checkpoint
  BY <1>1 DEF RateTypes, TypeOK
<1>3. /\ Held \in Nat /\ Owed \in Nat /\ Owed <= Held
      /\ Slack \in Nat /\ BatchSize \in Nat /\ Allowance(inserted) \in Nat
  BY <1>1, <1>2, OwedIsHeld, InterruptedSteps, AllowanceGrows, RateAssumption
<1>4. /\ returned + Owed <= Allowance(inserted) + Slack
      /\ \A e \in saved : e.returned <= Allowance(e.inserted) + Slack
  BY DEF RatioInv, PaidFor
<1>5. \A e \in saved : e.returned \in Nat /\ Allowance(e.inserted) \in Nat
  BY <1>2, AllowanceGrows DEF Checkpoint
<1>6. Uncounted \in SUBSET Samplers
  BY DEF Uncounted
<1>7. UNCHANGED interrupted => Slack' = Slack
  BY <1>1, InterruptedSteps
<1>8. UNCHANGED inserted => Allowance(inserted)' = Allowance(inserted)
  BY DEF Allowance
<1>9. ASSUME NEW s \in Samplers, Reserve(s)
      PROVE  PaidFor'
  <2>1. Owed' = Owed + BatchSize
    BY <1>1, <1>6, <1>9, SampleSteps, OneBatch DEF Owed
  <2>2. UNCHANGED <<inserted, interrupted, returned, saved>>
    BY <1>9 DEF Reserve
  <2>3. returned + Owed + BatchSize <= Allowance(inserted) + Slack
    BY <1>1, <1>9, ReservedIsPaidFor
  <2> QED
    BY <1>2, <1>3, <1>4, <1>7, <1>8, <2>1, <2>2, <2>3 DEF PaidFor
<1>10. ASSUME NEW s \in Samplers, Draw(s)
       PROVE  PaidFor'
  <2>1. Owed' = Owed
    BY <1>1, <1>10, SampleSteps DEF Owed
  <2>2. UNCHANGED <<inserted, interrupted, returned, saved>>
    BY <1>10 DEF Draw
  <2> QED
    BY <1>4, <1>7, <1>8, <2>1, <2>2 DEF PaidFor
<1>11. ASSUME NEW s \in Samplers, DrawRaises(s)
       PROVE  PaidFor'
  <2>1. Owed' = Owed - BatchSize
    BY <1>1, <1>6, <1>11, SampleSteps, OneBatch DEF Owed
  <2>2. UNCHANGED <<inserted, interrupted, returned, saved>>
    BY <1>11 DEF DrawRaises
  <2> QED
    BY <1>2, <1>3, <1>4, <1>7, <1>8, <2>1, <2>2 DEF PaidFor
<1>12. ASSUME NEW s \in Samplers, Count(s)
       PROVE  PaidFor'
  <2>1. Owed' = Owed - BatchSize
    BY <1>1, <1>6, <1>12, SampleSteps, OneBatch DEF Owed
  <2>2. UNCHANGED <<inserted, interrupted, saved>> /\ returned' = returned + drawn[s]
    BY <1>12 DEF Count
  <2>3. drawn[s] \in Nat /\ drawn[s] <= BatchSize
    BY <1>1, <1>2, <1>12 DEF Count, DrawnFits
  <2> QED
    BY <1>2, <1>3, <1>4, <1>7, <1>8, <2>1, <2>2, <2>3 DEF PaidFor
<1>13. ASSUME NEW s \in Samplers, Release(s)
       PROVE  PaidFor'
  <2>1. Owed' = Owed
    BY <1>1, <1>13, SampleSteps DEF Owed
  <2>2. UNCHANGED <<inserted, interrupted, returned, saved>>
    BY <1>13 DEF Release
  <2> QED
    BY <1>4, <1>7, <1>8, <2>1, <2>2 DEF PaidFor
<1>14. CASE Aside
  <2>1. Owed' = Owed
    BY <1>1, <1>14, AsideKeepsSamples DEF Owed
  <2>2. ASSUME NEW w \in Writers, Write(w)
        PROVE  PaidFor'
    <3>1. PICK n \in 1 .. MaxWritten - inserted : inserted' = inserted + n
      BY <2>2 DEF Write
    <3>2. inserted' \in Nat /\ inserted <= inserted'
      BY <1>2, <3>1, RateAssumption
    <3>3. Allowance(inserted)' \in Nat /\ Allowance(inserted) <= Allowance(inserted)'
      BY <1>2, <3>2, AllowanceGrows DEF Allowance
    <3>4. UNCHANGED <<interrupted, returned, saved>>
      BY <2>2 DEF Write
    <3> QED
      BY <1>2, <1>3, <1>4, <1>7, <2>1, <3>3, <3>4 DEF PaidFor, Allowance
  <2>3. CASE Save
    <3>1. UNCHANGED <<inserted, interrupted, returned>>
      BY <2>3 DEF Save
    <3>2. \A e \in saved' : e.returned = returned /\ e.inserted = inserted
      BY <2>3 DEF Save
    <3> QED
      BY <1>2, <1>3, <1>4, <1>7, <1>8, <2>1, <3>1, <3>2 DEF PaidFor, Allowance
  <2>4. CASE Load
    <3>1. PICK e \in saved : returned' = e.returned /\ inserted' = e.inserted
      BY <2>4 DEF Load
    <3>2. Slack' = Slack + Held /\ UNCHANGED saved
      BY <1>1, <2>4, InterruptedSteps DEF Load
    <3>3. Allowance(inserted)' = Allowance(e.inserted)
      BY <3>1 DEF Allowance
    <3>4. \A c \in saved : c.returned <= Allowance(c.inserted) + Slack'
      BY <1>3, <1>4, <1>5, <3>2
    <3>5. returned' + Owed' <= Allowance(inserted)' + Slack'
      BY <1>3, <1>4, <1>5, <2>1, <3>1, <3>2, <3>3
    <3> QED
      BY <3>2, <3>4, <3>5 DEF PaidFor, Allowance
  <2>5. CASE LoadRate
    <3>1. Slack' = Slack + Held /\ UNCHANGED <<returned, inserted, saved>>
      BY <1>1, <2>5, InterruptedSteps DEF LoadRate
    <3>2. \A c \in saved : c.returned <= Allowance(c.inserted) + Slack'
      BY <1>3, <1>4, <1>5, <3>1
    <3>3. returned' + Owed' <= Allowance(inserted)' + Slack'
      BY <1>2, <1>3, <1>4, <1>8, <2>1, <3>1
    <3> QED
      BY <3>1, <3>2, <3>3 DEF PaidFor, Allowance
  <2>6. CASE UNCHANGED <<inserted, interrupted, returned, saved>>
    BY <1>4, <1>7, <1>8, <2>1, <2>6 DEF PaidFor
  <2>7. \/ \E w \in Writers : Write(w)
        \/ Save \/ Load \/ LoadRate
        \/ UNCHANGED <<inserted, interrupted, returned, saved>>
    BY <1>14 DEF Aside, Call, Refuse, Sleep, GiveUp, Notify, Empty, Shutdown
  <2> QED
    BY <2>2, <2>3, <2>4, <2>5, <2>6, <2>7
<1>15. CASE UNCHANGED vars
  BY <1>4, <1>15 DEF vars, PaidFor, Owed, Uncounted, Slack, Allowance
<1> QED
  BY <1>9, <1>10, <1>11, <1>12, <1>13, <1>14, <1>15 DEF Next, Proceeds, Aside

-----------------------------------------------------------------------------
LEMMA RatioInit == Init => RatioInv
<1> SUFFICES ASSUME Init PROVE RatioInv
  OBVIOUS
<1>1. Uncounted = {}
  BY DEF Init, Uncounted
<1>2. Owed = 0 /\ Slack = 0
  BY <1>1, FS_EmptySet, RateAssumption DEF Owed, Slack, Init
<1>3. Allowance(0) \in Nat
  BY AllowanceGrows
<1>4. PaidFor
  BY <1>2, <1>3 DEF PaidFor, Init
<1>5. CountedWrites /\ DrawnFits
  BY DEF CountedWrites, DrawnFits, Init
<1> QED
  BY <1>4, <1>5, HeldInit DEF RatioInv

LEMMA RatioNext ==
    ASSUME UnitLength = 1
    PROVE  RatioInv /\ [Next]_vars => RatioInv'
<1> SUFFICES ASSUME RatioInv, [Next]_vars
             PROVE  RatioInv'
  OBVIOUS
<1>1. HeldInv /\ RateTypes /\ CountedWrites /\ DrawnFits
  BY DEF RatioInv, HeldInv
<1> QED
  BY <1>1, HeldNext, CountedWritesNext, DrawnFitsNext, PaidForNext DEF RatioInv

\* No more records are returned than the ratio permits for those written, but for a
\* batch for every sample under way at a step of a restore.
THEOREM RatioIsKept ==
    ASSUME UnitLength = 1
    PROVE  Spec => []RatioKept
<1>1. RatioInv => RatioKept
  <2> SUFFICES ASSUME RatioInv PROVE RatioKept
    OBVIOUS
  <2>1. /\ returned \in Nat /\ inserted \in Nat /\ Owed \in Nat /\ Slack \in Nat
        /\ Allowance(inserted) \in Nat
    BY OwedIsHeld, InterruptedSteps, AllowanceGrows
    DEF RatioInv, HeldInv, RateTypes, TypeOK
  <2> QED
    BY <2>1 DEF RatioInv, PaidFor, RatioKept, Slack
<1>2. RatioInv /\ [Next]_vars => RatioInv'
  BY RatioNext
<1> QED
  BY <1>1, <1>2, RatioInit, PTL DEF Spec

-----------------------------------------------------------------------------
\* No sampler sleeps while its sample is permitted, but for those that a writer is
\* going to wake up: what WaitersServed says of every state.
SleepersAreNotified ==
    (\E s \in Samplers : pc[s] = "asleep") /\ Permitted => \E w \in Writers : pc[w] = "notify"

\* The inductive invariant behind SleepersAreNotified.
SleepInv == RateTypes /\ SleepersAreNotified

\* A notification leaves nobody asleep.
LEMMA NotifiedAreAwake ==
    ASSUME RateTypes,
           NotifyOthers \/ \E t \in Samplers \cup Writers : NotifyAll(t, "idle")
    PROVE  SleepersAreNotified'
<1>1. \A s \in Samplers : pc'[s] # "asleep"
  BY DEF RateTypes, TypeOK, NotifyOthers, NotifyAll
<1> QED
  BY <1>1 DEF SleepersAreNotified

\* A step of a sample on which nobody new sleeps, and that leaves no more budget.
LEMMA BudgetSpent ==
    ASSUME SleepInv, NEW s \in Samplers, NEW l \in {"idle", "reserve", "draw", "count", "release"},
           Goto(s, l), pc[s] # "notify",
           Permitted' => Permitted
    PROVE  SleepersAreNotified'
<1>1. /\ pc'[s] = l /\ \A t \in (Samplers \cup Writers) \ {s} : pc'[t] = pc[t]
  BY DEF Goto, SleepInv, RateTypes, TypeOK
<1>2. SUFFICES ASSUME NEW t \in Samplers, pc'[t] = "asleep", Permitted'
               PROVE  \E w \in Writers : pc'[w] = "notify"
  BY DEF SleepersAreNotified
<1>3. pc[t] = "asleep" /\ Permitted
  BY <1>1, <1>2
<1>4. PICK w \in Writers : pc[w] = "notify"
  BY <1>3 DEF SleepInv, SleepersAreNotified
<1>5. pc'[w] = "notify"
  BY <1>1, <1>4
<1> QED
  BY <1>5

\* Reserving a batch and counting one never make another sample permitted.
LEMMA BudgetOnlyFalls ==
    ASSUME RateTypes, NEW s \in Samplers, Reserve(s) \/ Count(s)
    PROVE  Permitted' => Permitted
<1>1. /\ returned \in Nat /\ reserved \in Int /\ BatchSize \in Nat
      /\ drawn[s] \in Nat /\ Allowance(writeCount) \in Nat
  BY AllowanceGrows, RateAssumption DEF RateTypes, TypeOK
<1>2. /\ items' = items /\ Allowance(writeCount)' = Allowance(writeCount)
      /\ \/ reserved' = reserved + BatchSize /\ returned' = returned
         \/ reserved' = reserved /\ returned' = returned + drawn[s]
  BY DEF Reserve, Count, Allowance
<1>3. ASSUME NEW a \in Nat, a - returned' - reserved' >= BatchSize
      PROVE  a - returned - reserved >= BatchSize
  BY <1>1, <1>2, <1>3
<1> QED
  BY <1>1, <1>2, <1>3 DEF Permitted, Budget

LEMMA SleepNext == SleepInv /\ [Next]_vars => SleepInv'
<1> SUFFICES ASSUME SleepInv, [Next]_vars PROVE SleepInv'
  OBVIOUS
<1>1. RateTypes /\ RateTypes' /\ SleepersAreNotified
  BY RateTypesNext DEF SleepInv
<1>2. SUFFICES SleepersAreNotified'
  BY <1>1 DEF SleepInv
<1>3. ASSUME NEW s \in Samplers, Reserve(s) \/ Count(s)
      PROVE  SleepersAreNotified'
  BY <1>1, <1>3, BudgetOnlyFalls, BudgetSpent DEF Reserve, Count
<1>4. ASSUME NEW s \in Samplers,
             Call(s) \/ Refuse(s) \/ GiveUp(s) \/ Draw(s) \/ DrawRaises(s)
      PROVE  SleepersAreNotified'
  <2>1. UNCHANGED <<items, writeCount, returned, reserved>>
    BY <1>4 DEF Call, Refuse, GiveUp, Draw, DrawRaises
  <2>2. Permitted' = Permitted
    BY <2>1 DEF Permitted, Budget, Allowance
  <2> QED
    BY <1>4, <2>2, BudgetSpent DEF Call, Refuse, GiveUp, Draw, DrawRaises, AfterError
<1>5. ASSUME NEW s \in Samplers, Sleep(s)
      PROVE  SleepersAreNotified'
  <2>1. ~Permitted /\ UNCHANGED <<items, writeCount, returned, reserved>>
    BY <1>5 DEF Sleep
  <2>2. ~Permitted'
    BY <2>1 DEF Permitted, Budget, Allowance
  <2> QED
    BY <2>2 DEF SleepersAreNotified
<1>6. ASSUME NEW s \in Samplers, Release(s)
      PROVE  SleepersAreNotified'
  BY <1>1, <1>6, NotifiedAreAwake DEF Release, AfterRelease
<1>7. ASSUME NEW w \in Writers, Write(w)
      PROVE  SleepersAreNotified'
  <2>1. pc'[w] = "notify"
    BY <1>1, <1>7 DEF Write, Goto, RateTypes, TypeOK
  <2> QED
    BY <2>1 DEF SleepersAreNotified
<1>8. ASSUME NEW w \in Writers, Notify(w)
      PROVE  SleepersAreNotified'
  BY <1>1, <1>8, NotifiedAreAwake DEF Notify
<1>9. ASSUME NEW count \in BOOLEAN, Empty(count)
      PROVE  SleepersAreNotified'
  BY <1>1, <1>9, NotifiedAreAwake DEF Empty
<1>10. CASE Load \/ LoadRate \/ Shutdown
  BY <1>1, <1>10, NotifiedAreAwake DEF Load, LoadRate, Shutdown
<1>11. CASE Save \/ UNCHANGED vars
  <2>1. UNCHANGED <<items, writeCount, returned, reserved, pc>>
    BY <1>11 DEF Save, vars
  <2> QED
    BY <1>1, <2>1 DEF SleepersAreNotified, Permitted, Budget, Allowance
<1> QED
  BY <1>3, <1>4, <1>5, <1>6, <1>7, <1>8, <1>9, <1>10, <1>11 DEF Next, Proceeds

\* Whatever makes a sample permitted wakes the samplers that wait, for any number of
\* samplers and writers and any ratio: a write, a reservation given back, emptying,
\* and both steps of a restore.  Only a writer between its write and its
\* notification may leave one asleep (_reserve_sample, sample,
\* _notify_replay_state_change).
THEOREM NobodySleepsOnABudget == Spec => []SleepersAreNotified
<1>1. Init => SleepInv
  BY RateTypesInit DEF Init, SleepInv, SleepersAreNotified
<1>2. SleepInv => SleepersAreNotified
  BY DEF SleepInv
<1> QED
  BY <1>1, <1>2, SleepNext, PTL DEF Spec
=============================================================================
