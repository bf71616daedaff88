---------------------- MODULE CheckpointRotationProofs ----------------------
(***************************************************************************)
(* Proofs about CheckpointRotation, for any retention, interval, batch     *)
(* size, metrics and number of restarts: the types, that a checkpoint just *)
(* written is the one a restart finds, how much a death may lose, and that *)
(* the directory implements CheckpointStore.                               *)
(***************************************************************************)
EXTENDS CheckpointRotation, FiniteSetTheorems, TLAPS

\* The checkpoint being saved: the latest of all, for the step and in the format
\* of the program.
IsNew(n) ==
    /\ n \in Checkpoints
    /\ new = {n} /\ n.step = step /\ n.format = format /\ n.at = saves

\* What the directory and the save in progress look like at every point.
SaveInv ==
    /\ TypeOK
    /\ \A c \in files \cup aside \cup new : c.at <= saves /\ c.last <= c.step
    /\ \A c, d \in files \cup aside : c.at = d.at => c = d
    /\ pc \notin {"down", "ended"} => last <= step
    /\ pc \in {"publish", "replace", "alternate", "prune"} => \E n : IsNew(n)
    /\ pc \in {"publish", "replace"} => \A c \in files \cup aside : c.at < saves
    /\ pc = "alternate" => new \subseteq files
    /\ IF pc = "replace"
         THEN AtItsPath = {} /\ \E d \in Checkpoints :
                  aside = {d} /\ d.step = step /\ d.format = format
         ELSE aside = {}

\* What else is true while every start resumes from the newest checkpoint: the
\* program is ahead of the directory.
AheadInv ==
    regular =>
        /\ pc \notin {"down", "ended"} => \A c \in files : c.step <= step
        /\ pc \in {"alternate", "prune"} => new \subseteq files

\* How far ahead, in a loop that is not asynchronous.
LossParts ==
    /\ pc \in {"boundary", "write", "publish"} => \A c \in files : c.step < step
    /\ pc # "replace"
    /\ pc \in {"train", "boundary"} => last = 0 \/ \E c \in files : c.step >= last
    /\ pc = "train" =>
         \/ step + MaxFrames <= Exposure
         \/ \E c \in files : step + MaxFrames <= c.step + Exposure
    /\ pc \in {"boundary", "write", "publish"} =>
         step > 0 /\ (step <= Exposure \/ \E c \in files : step <= c.step + Exposure)
    /\ pc \in {"alternate", "prune"} => \E c \in files : c.step = step
    /\ pc = "ended" \/ (pc = "train" /\ step >= TotalFrames) =>
         step = 0 \/ \E c \in files : c.step = step

LossInv == regular /\ loop # "async" => LossParts

-----------------------------------------------------------------------------
\* The newest checkpoint of the directory and what the program took from it.
LEMMA OneFile ==
    ASSUME SaveInv, pc = "publish"
    PROVE  \/ AtItsPath = {}
           \/ \E d \in files : AtItsPath = {d} /\ d.step = step /\ d.format = format
BY DEF SaveInv, TypeOK, AtItsPath

LEMMA SaveInit == Init => SaveInv
<1> SUFFICES ASSUME Init PROVE SaveInv
  OBVIOUS
<1>1. IsFiniteSet(files)
  BY FS_EmptySet DEF Init
<1>2. stopping \in BOOLEAN /\ regular \in BOOLEAN
  BY Zenon DEF Init
<1>3. TypeOK
  BY <1>1, <1>2 DEF Init, TypeOK, Places, Formats
<1> QED
  BY <1>3 DEF Init, SaveInv

\* The flags stay truth values.
LEMMA FlagsStep ==
    ASSUME TypeOK, [Next]_vars
    PROVE  stopping' \in BOOLEAN /\ regular' \in BOOLEAN
<1> USE DEF TypeOK
<1>1. CASE Boundary
  BY <1>1, Zenon DEF Boundary
<1>2. CASE Start
  BY <1>2, Zenon DEF Start
<1>3. CASE UNCHANGED <<stopping, regular>>
  BY <1>3
<1>4. CASE Batch \/ Exhausted \/ Write \/ Publish \/ Replace \/ ReplaceFails \/ RemoveAlternate
           \/ Prune \/ Saved \/ Die \/ UNCHANGED vars
  BY <1>3, <1>4 DEF Batch, Exhausted, Write, Publish, Replace, ReplaceFails, RemoveAlternate,
     Prune, Saved, Die, vars, program
<1> QED
  BY <1>1, <1>2, <1>4 DEF Next

LEMMA SaveStep ==
    ASSUME SaveInv, [Next]_vars
    PROVE  SaveInv'
<1>0. stopping' \in BOOLEAN /\ regular' \in BOOLEAN
  BY FlagsStep DEF SaveInv
<1> USE <1>0, RotationAssumption DEF TypeOK, Checkpoints, Places
<1>1. CASE Start
  BY <1>1 DEF Start, SaveInv, RestoredLast
<1>2. CASE Batch
  BY <1>2 DEF Batch, SaveInv
<1>3. CASE Exhausted
  BY <1>3 DEF Exhausted, SaveInv
<1>4. CASE Boundary
  BY <1>4 DEF Boundary, SaveInv, LastWhenSaving, Elapsed
<1>5. CASE Write
  <2>1. PICK metric \in Metrics :
          new' = {[step |-> step, format |-> format, at |-> saves', metric |-> metric,
                   last |-> last]}
    BY <1>5 DEF Write
  <2>2. \E n \in Checkpoints :
          /\ new' = {n} /\ n.step = step /\ n.format = format /\ n.at = saves'
          /\ n.last = last
    <3>1. saves' \in Nat /\ step \in Nat /\ last \in Nat /\ format \in Formats
      BY <1>5 DEF Write, SaveInv
    <3>2. [step |-> step, format |-> format, at |-> saves', metric |-> metric,
           last |-> last] \in Checkpoints
      BY <3>1
    <3> QED
      BY <2>1, <3>2
  <2>3. PICK n \in Checkpoints :
          /\ new' = {n} /\ n.step = step /\ n.format = format /\ n.at = saves'
          /\ n.last = last
    BY <2>2
  <2>4. TypeOK' /\ IsNew(n)'
    BY <1>5, <2>3 DEF Write, SaveInv, IsNew
  <2>5. \A c \in files : c \in Checkpoints /\ c.at \in Nat
    BY DEF SaveInv
  <2> QED
    BY <1>5, <2>3, <2>4, <2>5 DEF Write, SaveInv
<1>6. CASE Publish
  <2>1. PICK n : IsNew(n)
    BY <1>6 DEF Publish, SaveInv
  <2>2. CASE AtItsPath = {}
    <3>1. files' = files \cup {n} /\ IsFiniteSet(files')
      BY <1>6, <2>1, <2>2, FS_AddElement DEF Publish, IsNew, SaveInv
    <3> QED
      BY <1>6, <2>1, <2>2, <3>1 DEF Publish, SaveInv, IsNew, AtItsPath
  <2>3. CASE AtItsPath # {}
    <3>1. PICK d \in files : AtItsPath = {d} /\ d.step = step /\ d.format = format
      BY <1>6, <2>3, OneFile DEF Publish
    <3>2. files' = files \ {d} /\ aside' = {d} /\ IsFiniteSet(files')
      BY <1>6, <2>3, <3>1, FS_RemoveElement DEF Publish, SaveInv
    <3> QED
      BY <1>6, <2>1, <2>3, <3>1, <3>2 DEF Publish, SaveInv, IsNew, AtItsPath
  <2> QED
    BY <2>2, <2>3
<1>7. CASE Replace
  <2>1. PICK n : IsNew(n)
    BY <1>7 DEF Replace, SaveInv
  <2>2. files' = files \cup {n} /\ IsFiniteSet(files')
    BY <1>7, <2>1, FS_AddElement DEF Replace, IsNew, SaveInv
  <2> QED
    BY <1>7, <2>1, <2>2 DEF Replace, SaveInv, IsNew, AtItsPath
<1>8. CASE ReplaceFails
  <2>1. PICK d \in Checkpoints : aside = {d} /\ d.step = step /\ d.format = format
    BY <1>8 DEF ReplaceFails, SaveInv
  <2>2. files' = files \cup {d} /\ IsFiniteSet(files')
    BY <1>8, <2>1, FS_AddElement DEF ReplaceFails, SaveInv
  <2> QED
    BY <1>8, <2>1, <2>2 DEF ReplaceFails, SaveInv, AtItsPath
<1>9. CASE RemoveAlternate
  <2>1. IsFiniteSet(files')
    BY <1>9, FS_Subset DEF RemoveAlternate, SaveInv
  <2> QED
    BY <1>9, <2>1 DEF RemoveAlternate, SaveInv, IsNew
<1>10. CASE Prune
  <2>1. PICK c \in files : files' = files \ {c}
    BY <1>10 DEF Prune, Doomed
  <2>2. IsFiniteSet(files')
    BY <2>1, FS_RemoveElement DEF SaveInv
  <2> QED
    BY <1>10, <2>1, <2>2 DEF Prune, program, SaveInv, IsNew
<1>11. CASE Saved
  BY <1>11 DEF Saved, SaveInv
<1>12. CASE Die
  BY <1>12 DEF Die, SaveInv
<1>13. CASE UNCHANGED vars
  BY <1>13 DEF vars, program, SaveInv, IsNew, AtItsPath
<1> QED
  BY <1>1, <1>2, <1>3, <1>4, <1>5, <1>6, <1>7, <1>8, <1>9, <1>10, <1>11, <1>12, <1>13 DEF Next

\* The shape of the directory and of a save, in every reachable state.
LEMMA SaveInvariant == Spec => []SaveInv
BY SaveInit, SaveStep, PTL DEF Spec

\* The loop's state, the saves and the directory have their types, and there is
\* one file for each step and format.
THEOREM RotationTypes == Spec => []TypeOK
<1>1. SaveInv => TypeOK
  BY DEF SaveInv
<1> QED
  BY <1>1, SaveInvariant, PTL

-----------------------------------------------------------------------------
\* Nothing that is removed next to a new checkpoint, or pruned, is the newest.
LEMMA NewestStays ==
    ASSUME SaveInv, AheadInv, regular, pc \in {"alternate", "prune"}, NEW n, IsNew(n)
    PROVE  Newest(files) = {n} /\ n \notin Alternates /\ n \notin Doomed(files)
<1> USE DEF TypeOK, Checkpoints, SaveInv, IsNew
<1>1. n \in files /\ \A c \in files : c.step <= step
  BY DEF AheadInv
<1>2. n \in Latest(files)
  BY <1>1 DEF Latest
<1>3. \A c \in Latest(files) : c.step = step => c = n
  BY <1>1, <1>2 DEF Latest
<1>4. Newest(files) = {n}
  BY <1>1, <1>2, <1>3 DEF Newest, Latest
<1>5. n \notin Alternates
  BY DEF Alternates
<1>6. {d \in Latest(files) : d.step > n.step} = {}
  BY <1>1 DEF Latest
<1>7. Cardinality({d \in Latest(files) : d.step > n.step}) < KeepLast
  <2>1. Cardinality({}) = 0 /\ KeepLast \in Nat \ {0}
    BY FS_EmptySet, RotationAssumption
  <2> HIDE DEF TypeOK, Checkpoints, SaveInv, IsNew
  <2> QED
    BY <1>6, <2>1
<1> QED
  BY <1>2, <1>4, <1>5, <1>7 DEF Doomed, Retained

\* The program starts from nothing or from the newest checkpoint.
StartsAhead ==
    \/ step' = 0 /\ last' = 0 /\ files = {}
    \/ \E c \in Newest(files) : c \in files /\ step' = c.step /\ last' = RestoredLast(c)

\* A history that is regular was regular before, and a start kept it so.
LEMMA RegularBefore ==
    ASSUME [Next]_vars, regular'
    PROVE  regular /\ (Start => StartsAhead)
<1>1. Start => regular /\ StartsAhead
  BY Zenon DEF Start, StartsAhead
<1>2. Batch \/ Exhausted \/ Boundary \/ Write \/ Publish \/ Replace \/ ReplaceFails
      \/ RemoveAlternate \/ Prune \/ Saved \/ Die \/ UNCHANGED vars => regular' = regular
  BY DEF Batch, Exhausted, Boundary, Write, Publish, Replace, ReplaceFails, RemoveAlternate,
     Prune, Saved, Die, vars
<1> QED
  BY <1>1, <1>2, Zenon DEF Next

LEMMA AheadStep ==
    ASSUME SaveInv, SaveInv', AheadInv, [Next]_vars
    PROVE  AheadInv'
<1> SUFFICES ASSUME regular'
             PROVE  /\ pc' \notin {"down", "ended"} => \A c \in files' : c.step <= step'
                    /\ pc' \in {"alternate", "prune"} => new' \subseteq files'
  BY DEF AheadInv
<1>0. /\ regular
      /\ pc \notin {"down", "ended"} => \A c \in files : c.step <= step
      /\ pc \in {"alternate", "prune"} => new \subseteq files
  BY RegularBefore DEF AheadInv
<1> USE <1>0, RotationAssumption DEF TypeOK, Checkpoints, SaveInv
<1>1. CASE Start
  <2>1. \/ step' = 0 /\ files = {}
        \/ \E c \in Newest(files) : step' = c.step
    BY <1>1, RegularBefore DEF StartsAhead
  <2>2. \A c \in Newest(files) : \A d \in files : d.step <= c.step
    BY DEF Newest
  <2>3. files' = files /\ pc' = "train"
    BY <1>1 DEF Start
  <2> QED
    BY <2>1, <2>2, <2>3
<1>2. CASE Batch
  BY <1>2 DEF Batch
<1>3. CASE Exhausted \/ Saved \/ Die
  BY <1>3 DEF Exhausted, Saved, Die
<1>4. CASE Boundary \/ Write
  BY <1>4 DEF Boundary, Write
<1>5. CASE Publish \/ Replace
  <2>1. PICK n : IsNew(n)
    BY <1>5 DEF Publish, Replace
  <2>2. files' \subseteq files \cup new /\ step' = step /\ new' = new
    BY <1>5 DEF Publish, Replace
  <2>3. pc' \in {"alternate", "prune"} => files' = files \cup new
    BY <1>5 DEF Publish, Replace
  <2>4. \A c \in files' : c.step <= step
    BY <1>5, <2>1, <2>2 DEF Publish, Replace, IsNew
  <2> QED
    BY <2>2, <2>3, <2>4
<1>6. CASE ReplaceFails
  BY <1>6 DEF ReplaceFails
<1>7. CASE RemoveAlternate \/ Prune
  <2>1. PICK n : IsNew(n)
    BY <1>7 DEF RemoveAlternate, Prune
  <2>2. n \notin Alternates /\ n \notin Doomed(files)
    BY <1>7, <2>1, NewestStays DEF RemoveAlternate, Prune
  <2> QED
    BY <1>7, <2>1, <2>2 DEF RemoveAlternate, Prune, program, IsNew
<1>8. CASE UNCHANGED vars
  BY <1>8 DEF vars, program
<1> QED
  BY <1>1, <1>2, <1>3, <1>4, <1>5, <1>6, <1>7, <1>8 DEF Next

\* While every start resumes from the newest checkpoint, nothing in the directory
\* is ahead of the program, and what it has saved stays.
LEMMA AheadInvariant == Spec => [](SaveInv /\ AheadInv)
<1>1. Init => AheadInv
  BY DEF Init, AheadInv
<1>2. SaveInv /\ AheadInv /\ [Next]_vars => (SaveInv /\ AheadInv)'
  BY SaveStep, AheadStep
<1> QED
  BY <1>1, <1>2, SaveInit, PTL DEF Spec

\* SavedIsFound: a checkpoint that is at its place is the one a restart takes,
\* through the removal of the other format and the retention policy.
THEOREM SavedCheckpointIsFound == Spec => []SavedIsFound
<1>1. SaveInv /\ AheadInv => SavedIsFound
  <2> SUFFICES ASSUME SaveInv, AheadInv, regular, pc \in {"alternate", "prune"}
               PROVE  new = Newest(files)
    BY DEF SavedIsFound
  <2>1. PICK n : IsNew(n)
    BY DEF SaveInv
  <2> QED
    BY <2>1, NewestStays DEF IsNew
<1> QED
  BY <1>1, AheadInvariant, PTL

-----------------------------------------------------------------------------
LEMMA ExposureBounds ==
    ASSUME TypeOK
    PROVE  /\ Exposure \in Nat /\ MaxFrames \in Nat /\ MaxFrames <= Exposure
           /\ loop # "async" /\ ~Elapsed => step + MaxFrames <= last + Exposure
BY RotationAssumption DEF Exposure, TypeOK, Elapsed

LEMMA LossStep ==
    ASSUME SaveInv, SaveInv', AheadInv, AheadInv', LossInv, [Next]_vars
    PROVE  LossInv'
<1>1. loop' = loop
  BY DEF Next, Start, Batch, Exhausted, Boundary, Write, Publish, Replace, ReplaceFails,
     RemoveAlternate, Prune, Saved, Die, vars
<1> SUFFICES ASSUME regular', loop # "async" PROVE LossParts'
  BY <1>1 DEF LossInv
<1>2. regular /\ LossParts
  BY RegularBefore DEF LossInv
<1>3. Exposure' = Exposure
  BY <1>1 DEF Exposure
<1>4. \A c \in files : c \in Checkpoints /\ c.step \in Nat /\ c.last \in Nat /\ c.last <= c.step
  BY DEF SaveInv, TypeOK, Checkpoints
<1>5. step \in Nat /\ last \in Nat /\ TotalFrames \in Nat
  BY RotationAssumption DEF SaveInv, TypeOK
<1>6. /\ Exposure \in Nat /\ MaxFrames \in Nat /\ MaxFrames <= Exposure
      /\ ~Elapsed => step + MaxFrames <= last + Exposure
  BY ExposureBounds DEF SaveInv
<1> USE <1>2, <1>3, <1>4, <1>5, <1>6
<1>7. CASE Start
  <2>1. \/ step' = 0 /\ last' = 0
        \/ \E c \in files : step' = c.step /\ last' \in Nat /\ last' <= c.step
    BY <1>7, RegularBefore DEF StartsAhead, RestoredLast
  <2>2. files' = files /\ pc' = "train"
    BY <1>7 DEF Start
  <2> QED
    BY <2>1, <2>2 DEF LossParts
<1>8. CASE Batch
  <2>1. PICK n \in 0 .. MaxFrames : n # 0 /\ step' = step + n
    BY <1>8 DEF Batch
  <2>2. \A c \in files : c.step <= step
    BY <1>8 DEF Batch, AheadInv
  <2>3. pc = "train" /\ pc' = "boundary" /\ files' = files /\ last' = last
    BY <1>8 DEF Batch
  <2> QED
    BY <2>1, <2>2, <2>3 DEF LossParts
<1>9. CASE Exhausted
  BY <1>9 DEF Exhausted, LossParts
<1>10. CASE Boundary
  <2>1. pc = "boundary" /\ files' = files /\ step' = step
    BY <1>10 DEF Boundary
  <2>2. CASE Due(stopping')
    BY <1>10, <2>1, <2>2 DEF Boundary, LossParts
  <2>3. CASE ~Due(stopping')
    <3>1. ~Elapsed /\ ~stopping'
      <4>1. last < step
        BY <2>1 DEF LossParts
      <4> QED
        BY <2>3, <4>1 DEF Due, Elapsed
    <3>2. pc' = "train" /\ last' = last /\ ~(step >= TotalFrames)
      BY <1>10, <2>3, <3>1 DEF Boundary
    <3> QED
      BY <2>1, <3>1, <3>2 DEF LossParts
  <2> QED
    BY <2>2, <2>3
<1>11. CASE Write
  BY <1>11 DEF Write, LossParts
<1>12. CASE Publish
  <2>1. PICK n : IsNew(n)
    BY <1>12 DEF Publish, SaveInv
  <2>2. AtItsPath = {}
    BY <1>12 DEF Publish, LossParts, AtItsPath
  <2> QED
    BY <1>12, <2>1, <2>2 DEF Publish, LossParts, IsNew
<1>13. CASE Replace \/ ReplaceFails
  BY <1>13 DEF Replace, ReplaceFails, LossParts
<1>14. CASE RemoveAlternate \/ Prune
  <2>1. PICK n : IsNew(n)
    BY <1>14 DEF RemoveAlternate, Prune, SaveInv
  <2>2. n \in files'
    BY <1>14, <2>1 DEF RemoveAlternate, Prune, program, AheadInv, SaveInv, IsNew
  <2> QED
    BY <1>14, <2>1, <2>2 DEF RemoveAlternate, Prune, program, LossParts, IsNew
<1>15. CASE Saved
  BY <1>15 DEF Saved, LossParts, SaveInv
<1>16. CASE Die
  BY <1>16 DEF Die, LossParts
<1>17. CASE UNCHANGED vars
  BY <1>17 DEF vars, program, LossParts
<1> QED
  BY <1>7, <1>8, <1>9, <1>10, <1>11, <1>12, <1>13, <1>14, <1>15, <1>16, <1>17 DEF Next

\* LossIsBounded: wherever the program dies, what it did since the newest
\* checkpoint is one interval and one batch, and an end is a save.
THEOREM DeathLosesOneInterval == Spec => []LossIsBounded
<1>1. Init => LossInv
  BY DEF Init, LossInv, LossParts
<1>2. SaveInv /\ AheadInv /\ LossInv /\ [Next]_vars => (SaveInv /\ AheadInv /\ LossInv)'
  BY SaveStep, AheadStep, LossStep
<1>3. SaveInv /\ LossInv => LossIsBounded
  <2> SUFFICES ASSUME SaveInv, LossParts, regular, loop # "async" PROVE LossIsBounded
    BY DEF LossInv, LossIsBounded
  <2>1. TypeOK /\ \A c \in files : c.step \in Nat
    BY DEF SaveInv, TypeOK, Checkpoints
  <2>2. Exposure \in Nat /\ MaxFrames \in Nat /\ MaxFrames <= Exposure
    BY <2>1, ExposureBounds
  <2> QED
    BY <2>1, <2>2 DEF LossIsBounded, LossParts, TypeOK, Places
<1>4. Init => AheadInv
  BY DEF Init, AheadInv
<1> QED
  BY <1>1, <1>2, <1>3, <1>4, SaveInit, PTL DEF Spec

-----------------------------------------------------------------------------
\* A checkpoint the retention policy removes is superseded or outranked.
LEMMA DoomedMayGo ==
    ASSUME SaveInv, NEW c \in Doomed(files)
    PROVE  Store!Superseded(c) \/ Store!Outranked(c)
<1>1. \A d \in files : d \in Checkpoints /\ d.step \in Nat /\ d.at \in Nat
  BY DEF SaveInv, TypeOK, Checkpoints
<1>2. c \in files
  BY DEF Doomed
<1>3. CASE c \notin Latest(files)
  BY <1>1, <1>2, <1>3 DEF Latest, Store!Superseded
<1>4. CASE c \in Latest(files)
  <2> DEFINE Ahead == {d \in Latest(files) : d.step > c.step}
             Later == Store!LaterSteps(c)
  <2>1. ~(Cardinality(Ahead) < KeepLast) /\ c \notin Best(files)
    BY <1>2, <1>4 DEF Doomed, Retained
  <2>2. \E d \in files : Store!Better(d, c)
    BY <1>4, <2>1 DEF Best, Better, Store!Better, Latest
  <2>3. IsFiniteSet(Later)
    <3>1. IsFiniteSet({e \in files : e.step > c.step})
      BY FS_Subset DEF SaveInv, TypeOK
    <3> DEFINE S == {e \in files : e.step > c.step}
               g == [e \in S |-> e.step]
    <3>2. g \in Surjection(S, Later)
      BY DEF Surjection, Store!LaterSteps
    <3> QED
      BY <3>1, <3>2, FS_Surjection
  <2>4. Cardinality(Ahead) <= Cardinality(Later)
    <3> DEFINE f == [d \in Ahead |-> d.step]
    <3>1. \A d \in Ahead : d.step \in Later
      BY DEF Latest, Store!LaterSteps
    <3>2. \A d, e \in Ahead : d.step = e.step => d = e
      BY <1>1 DEF Latest, SaveInv
    <3>3. f \in Injection(Ahead, Later)
      BY <3>1, <3>2 DEF Injection, IsInjective
    <3> QED
      BY <2>3, <3>3, FS_Injection DEF ExistsInjection
  <2>5. Cardinality(Ahead) \in Nat /\ Cardinality(Later) \in Nat /\ KeepLast \in Nat
    <3>1. IsFiniteSet(Ahead)
      BY FS_Subset DEF SaveInv, TypeOK, Latest
    <3> QED
      BY <2>3, <3>1, FS_CardinalityType, RotationAssumption
  <2>6. Cardinality(Later) >= KeepLast
    <3> HIDE DEF Ahead, Later
    <3> QED
      BY <2>1, <2>4, <2>5
  <2>7. Store!Cardinality(Later) = Cardinality(Later)
    BY DEF Store!Cardinality, Cardinality
  <2> QED
    BY <2>2, <2>6, <2>7 DEF Store!Outranked
<1> QED
  BY <1>3, <1>4

\* Every step of the program is one of the abstract directory, or none.
LEMMA StoreStep ==
    ASSUME SaveInv, SaveInv', [Next]_vars
    PROVE  [Store!StoreNext]_(Store!storeVars)
<1> DEFINE Steps == Store!StoreNext \/ UNCHANGED Store!storeVars
<1> SUFFICES Steps
  OBVIOUS
<1> USE DEF Store!storeVars
<1>1. CASE Start
  BY <1>1 DEF Start, SaveInv
<1>2. CASE Batch \/ Exhausted
  BY <1>2 DEF Batch, Exhausted
<1>3. CASE Boundary
  <2>1. CASE Due(stopping')
    <3>1. /\ pc = "boundary" /\ pc' = "write" /\ step' = step /\ step \in Nat
          /\ aside = {} /\ UNCHANGED <<files, aside>>
      BY <1>3, <2>1 DEF Boundary, SaveInv, TypeOK
    <3>2. Store!Begin
      BY <3>1 DEF Store!Begin
    <3> QED
      BY <3>2 DEF Store!StoreNext
  <2>2. CASE ~Due(stopping')
    BY <1>3, <2>2 DEF Boundary
  <2> QED
    BY <2>1, <2>2
<1>4. CASE Write
  BY <1>4 DEF Write
<1>5. CASE Publish
  <2>1. PICK n : IsNew(n)
    BY <1>5 DEF Publish, SaveInv
  <2>2. /\ pc = "publish" /\ step' = step /\ pc' \in {"alternate", "replace"}
        /\ \A d \in files \cup aside : d.at < n.at
        /\ aside = {}
    BY <1>5, <2>1 DEF Publish, SaveInv, IsNew
  <2>3. CASE AtItsPath = {}
    <3>1. files' = files \cup {n} /\ aside' = {} /\ n.step = step
      BY <1>5, <2>1, <2>3 DEF Publish, IsNew
    <3>2. Store!Publish(n)
      BY <2>2, <3>1 DEF Store!Publish
    <3> QED
      BY <3>1, <3>2 DEF Store!StoreNext
  <2>4. CASE AtItsPath # {}
    <3>1. PICK d \in files : AtItsPath = {d} /\ d.step = step
      BY <1>5, <2>2, <2>4, OneFile
    <3>2. files' = files \ {d} /\ aside' = {d}
      BY <1>5, <2>4, <3>1 DEF Publish
    <3>3. Store!Withdraw(d)
      BY <2>2, <3>1, <3>2 DEF Store!Withdraw
    <3> QED
      BY <3>1, <3>3 DEF Store!StoreNext
  <2> QED
    BY <2>3, <2>4
<1>6. CASE Replace
  <2>1. PICK n : IsNew(n)
    BY <1>6 DEF Replace, SaveInv
  <2>2. /\ pc = "replace" /\ step' = step /\ pc' = "alternate"
        /\ \A d \in files \cup aside : d.at < n.at
        /\ files' = files \cup {n} /\ aside' = {} /\ n.step = step
    BY <1>6, <2>1 DEF Replace, SaveInv, IsNew
  <2>3. Store!Publish(n)
    BY <2>2 DEF Store!Publish
  <2> QED
    BY <2>2, <2>3 DEF Store!StoreNext
<1>7. CASE ReplaceFails
  <2>1. Store!PutBack
    BY <1>7 DEF ReplaceFails, SaveInv, Store!PutBack
  <2> QED
    BY <2>1 DEF Store!StoreNext
<1>8. CASE RemoveAlternate
  <2>1. /\ pc = "alternate" /\ pc' = "prune" /\ step' = step /\ aside' = aside
        /\ files' = files \ Alternates
    BY <1>8 DEF RemoveAlternate
  <2>2. CASE Alternates = {}
    BY <2>1, <2>2
  <2>3. CASE Alternates # {}
    <3>1. PICK d \in files : d \in Alternates /\ d.step = step /\ d.format # format
      BY <2>3 DEF Alternates
    <3>2. Alternates = {d}
      BY <3>1 DEF Alternates, SaveInv, TypeOK, Checkpoints, Formats
    <3>3. PICK n : IsNew(n)
      BY <2>1 DEF SaveInv
    <3>4. n \in files /\ n.step = d.step /\ n.at > d.at
      BY <2>1, <3>1, <3>3 DEF SaveInv, TypeOK, Checkpoints, IsNew
    <3>5. Store!Forget(d)
      BY <2>1, <3>2, <3>4 DEF Store!Forget, Store!Superseded
    <3> QED
      BY <3>1, <3>5 DEF Store!StoreNext
  <2> QED
    BY <2>2, <2>3
<1>9. CASE Prune
  <2>1. PICK c \in Doomed(files) : files' = files \ {c}
    BY <1>9 DEF Prune
  <2>2. c \in files /\ pc = "prune" /\ pc' = pc /\ step' = step /\ aside' = aside
    BY <1>9, <2>1 DEF Prune, program, Doomed
  <2>3. Store!Forget(c)
    BY <2>1, <2>2, DoomedMayGo DEF Store!Forget
  <2> QED
    BY <2>2, <2>3 DEF Store!StoreNext
<1>10. CASE Saved
  <2>1. Store!End
    BY <1>10 DEF Saved, SaveInv, Store!End
  <2> QED
    BY <2>1 DEF Store!StoreNext
<1>11. CASE Die
  <2>1. CASE pc \in {"write", "publish", "replace", "alternate", "prune"}
    <3>1. Store!End
      BY <1>11, <2>1 DEF Die, Store!End
    <3> QED
      BY <3>1 DEF Store!StoreNext
  <2>2. CASE pc \notin {"write", "publish", "replace", "alternate", "prune"}
    BY <1>11, <2>2 DEF Die, SaveInv
  <2> QED
    BY <2>1, <2>2
<1>12. CASE UNCHANGED vars
  BY <1>12 DEF vars, program
<1> QED
  BY <1>1, <1>2, <1>3, <1>4, <1>5, <1>6, <1>7, <1>8, <1>9, <1>10, <1>11, <1>12 DEF Next

\* ImplementsStore: through renames, removals, failures and deaths a checkpoint
\* leaves the directory only for a reason CheckpointStore knows.
THEOREM RotationImplementsStore == Spec => ImplementsStore
<1>1. Init => Store!StoreInit
  BY DEF Init, Store!StoreInit
<1>2. SaveInv /\ SaveInv' /\ [Next]_vars => [Store!StoreNext]_(Store!storeVars)
  BY StoreStep
<1> QED
  BY <1>1, <1>2, SaveInvariant, PTL DEF Spec, ImplementsStore, Store!StoreSpec
=============================================================================
