------------------------ MODULE MultiCollectorProofs ------------------------
(***************************************************************************)
(* Proofs about MultiCollector, for any number of workers and crashes and  *)
(* whatever calls are made when: type correctness, that no worker collects *)
(* while the collector is paused, that a batch is made of outputs the      *)
(* workers reported and have not begun to write over, and that nothing but *)
(* a crash or a pause that took too long makes the collector fail.         *)
(***************************************************************************)
EXTENDS MultiCollector, SequenceTheorems, FiniteSetTheorems, TLAPS

CallFrom(places) == main = "call" /\ resumes \in places

\* A pause has not been asked for, or is over; all workers have reported theirs.
Unpaused == main \in {"new", "gather", "body", "free"} \/ CallFrom({"new", "body", "free"})
Paused == main = "paused" \/ CallFrom({"paused"})

NoPauseSent ==
    \A w \in Workers : pipe[w] \in Seq(Messages \ {"pause"}) /\ ~At(w, "pausing")

NoPauseReported == \A i \in 1 .. Len(outQ) : outQ[i].kind # "paused"

\* A worker that has reported its pause and has not been told to go on.
Parked(w) ==
    /\ Alive(w) => At(w, "paused")
    /\ pipe[w] \in Seq(Requests)

\* Nothing follows the request to pause, so that a worker that takes it up has
\* an empty pipe: no "restart" of an earlier pause is left for it.
PauseIsLast(w) ==
    /\ \A i \in 1 .. Len(pipe[w]) : pipe[w][i] = "pause" => i = Len(pipe[w])
    /\ At(w, "pausing") => pipe[w] = << >>

\* A report that is not read yet is the one report of a parked worker.
ReportOf(w, i) == outQ[i].kind = "paused" /\ outQ[i].worker = w

ReportsAreTrue ==
    \A w \in Workers : \A i \in 1 .. Len(outQ) : ReportOf(w, i) =>
        /\ w \in awaiting
        /\ Parked(w)
        /\ \A j \in 1 .. Len(outQ) : ReportOf(w, j) => i = j

\* What holds while the coordinator waits for its workers to pause, and after it
\* gave up.
Pausing ==
    /\ ReportsAreTrue
    /\ \A w \in Workers : PauseIsLast(w)
    /\ \A w \in Workers \ awaiting : Parked(w)

\* The inductive invariant behind PausedMeansParked.
PauseInv ==
    /\ Unpaused => NoPauseSent /\ NoPauseReported
    /\ main \in {"pausing", "timed_out"} => Pausing
    /\ Paused => NoPauseReported /\ \A w \in Workers : Parked(w)

\* The inductive invariant behind the types: what has been gathered is less than
\* a batch has room for.
TypeInv == TypeOK /\ Len(gathered) <= NumWorkers

-----------------------------------------------------------------------------
\* Writing over the rollouts of a worker changes none but their being intact.
LEMMA OverwrittenOutputs ==
    ASSUME NEW s \in Seq(Outputs), NEW w
    PROVE  /\ Overwritten(s, w) \in Seq(Outputs)
           /\ Len(Overwritten(s, w)) = Len(s)
           /\ \A i \in 1 .. Len(s) : /\ Overwritten(s, w)[i].kind = s[i].kind
                                     /\ Overwritten(s, w)[i].worker = s[i].worker
<1> DEFINE new(i) == [s[i] EXCEPT !.intact = @ /\ s[i].worker # w]
<1>1. Len(s) \in Nat /\ DOMAIN s = 1 .. Len(s) /\ \A i \in 1 .. Len(s) : s[i] \in Outputs
  BY ElementOfSeq, LenProperties
<1>2. ASSUME NEW i \in 1 .. Len(s)
      PROVE  new(i) \in Outputs /\ new(i).kind = s[i].kind /\ new(i).worker = s[i].worker
  <2>1. s[i] \in Outputs
    BY <1>1
  <2> QED
    BY <2>1 DEF Outputs
<1>3. Overwritten(s, w) = [i \in 1 .. Len(s) |-> new(i)]
  BY <1>1 DEF Overwritten
<1>4. Overwritten(s, w) \in [1 .. Len(s) -> Outputs]
  BY <1>2, <1>3
<1>5. Overwritten(s, w) \in Seq(Outputs) /\ Len(Overwritten(s, w)) = Len(s)
  BY <1>1, <1>4, IsASeq, LenProperties
<1> QED
  BY <1>2, <1>3, <1>5

\* Reading a message off the pipe of a worker, and what is left of the pipe.
LEMMA ReceivedMessage ==
    ASSUME TypeOK, NEW w \in Workers, NEW msgs, Receives(w, msgs)
    PROVE  /\ pipe[w] # << >> /\ Head(pipe[w]) \in Messages \cap msgs
           /\ pipe' = [pipe EXCEPT ![w] = Tail(pipe[w])]
           /\ pipe' \in [Workers -> Seq(Messages)]
<1>1. pipe[w] \in Seq(Messages) /\ pipe[w] # << >>
  BY DEF TypeOK, TypeOKWorkers, Receives
<1>2. Head(pipe[w]) \in Messages /\ Tail(pipe[w]) \in Seq(Messages)
  BY <1>1, HeadTailProperties
<1> QED
  BY <1>1, <1>2 DEF TypeOK, TypeOKWorkers, Receives

\* A message for every worker.
LEMMA SentToAll ==
    ASSUME TypeOK, NEW msg \in Messages, SendAll(msg)
    PROVE  pipe' \in [Workers -> Seq(Messages)]
<1>1. \A w \in Workers : Append(pipe[w], msg) \in Seq(Messages)
  BY AppendProperties DEF TypeOK, TypeOKWorkers
<1> QED
  BY <1>1 DEF SendAll

\* One more output, at most as many as the queue or the batch has room for.
LEMMA OutputsGrow ==
    ASSUME NEW s \in Seq(Outputs), NEW n \in Nat, Len(s) < n, NEW o \in Outputs
    PROVE  Append(s, o) \in Seq(Outputs) /\ Len(Append(s, o)) <= n
<1>1. Len(s) \in Nat
  BY LenProperties
<1> QED
  BY <1>1, AppendProperties

LEMMA OutputsShrink ==
    ASSUME NEW s \in Seq(Outputs), s # << >>, NEW n \in Nat, Len(s) <= n
    PROVE  Head(s) \in Outputs /\ Tail(s) \in Seq(Outputs) /\ Len(Tail(s)) <= n
<1>1. Len(s) \in Nat
  BY LenProperties
<1> QED
  BY <1>1, HeadTailProperties

\* An answer names the request it answers.
LEMMA AnswerTypes ==
    ASSUME TypeOK, NEW w \in Workers, pipe[w] # << >>, Head(pipe[w]) \in Requests, Answers(w)
    PROVE  reply' \in [Workers -> Seq(Requests)]
<1>1. Append(reply[w], Head(pipe[w])) \in Seq(Requests)
  BY AppendProperties DEF TypeOK, TypeOKWorkers
<1> QED
  BY <1>1 DEF Answers, TypeOK, TypeOKWorkers

\* A rollout begins.
LEMMA RolloutTypes ==
    ASSUME TypeInv, NEW w \in Workers, NEW free \in BOOLEAN, BeginRollout(w, free)
    PROVE  /\ worker' \in [Workers -> WorkerStates]
           /\ outQ' \in Seq(Outputs) /\ Len(outQ') = Len(outQ)
           /\ gathered' \in Seq(Outputs) /\ Len(gathered') = Len(gathered)
<1> DEFINE begun == [worker[w] EXCEPT !.at = "collect", !.msg = "continue", !.free = free]
<1>a. worker[w] \in WorkerStates /\ "continue" \in Messages
  BY DEF TypeInv, TypeOK, TypeOKWorkers, Messages
<1>b. begun \in WorkerStates
  BY <1>a DEF WorkerStates
<1>c. worker' = [worker EXCEPT ![w] = begun]
  BY DEF BeginRollout
<1>1. worker' \in [Workers -> WorkerStates]
  <2> HIDE DEF begun
  <2> QED
    BY <1>b, <1>c DEF TypeInv, TypeOK, TypeOKWorkers
<1> QED
  BY <1>1, OverwrittenOutputs DEF TypeInv, TypeOK, TypeOKWorkers, BeginRollout

LEMMA QueueHasRoom == NumWorkers \in Nat \ {0} /\ QueueLen \in Nat
BY WorkersAssumption DEF QueueLen

\* The steps of a worker keep the types.
LEMMA WorkerKeepsTypes ==
    ASSUME TypeInv, NEW w \in Workers, UNCHANGED coordinator,
           WorkerNext(w) \/ GivesUpPause(w) \/ Crash(w)
    PROVE  TypeInv'
<1> USE DEF TypeInv, TypeOK, TypeOKWorkers, coordinator
<1>0. worker[w] \in WorkerStates /\ QueueLen \in Nat /\ QueueLen' = IF style' = "sync" THEN NumWorkers ELSE 1
  BY QueueHasRoom DEF QueueLen
<1>1. ASSUME UNCHANGED setup, worker' \in [Workers -> WorkerStates],
             pipe' \in [Workers -> Seq(Messages)], reply' \in [Workers -> Seq(Requests)],
             outQ' \in Seq(Outputs), Len(outQ') <= QueueLen,
             gathered' \in Seq(Outputs), Len(gathered') = Len(gathered)
      PROVE  TypeInv'
  BY <1>1 DEF setup, QueueLen
<1>2. CASE StartRollout(w)
  <2>1. pipe' \in [Workers -> Seq(Messages)]
    BY <1>2, ReceivedMessage DEF StartRollout
  <2> QED
    BY <1>1, <1>2, <2>1, RolloutTypes DEF StartRollout
<1>3. CASE RepeatRollout(w)
  <2>1. CASE worker[w].msg = "continue"
    BY <1>1, <1>3, <2>1, RolloutTypes DEF RepeatRollout
  <2>2. CASE worker[w].msg # "continue"
    <3>1. /\ worker' = [worker EXCEPT ![w].at = "dead"]
          /\ UNCHANGED <<outQ, gathered, setup, pipe, reply>>
      BY <1>3, <2>2 DEF RepeatRollout
    <3>2. worker' \in [Workers -> WorkerStates]
      BY <1>0, <3>1 DEF WorkerStates
    <3> QED
      BY <1>1, <3>1, <3>2
  <2> QED
    BY <2>1, <2>2
<1>4. CASE RunFree(w)
  <2>1. pipe' \in [Workers -> Seq(Messages)]
    BY <1>4, ReceivedMessage DEF RunFree
  <2>2. worker' \in [Workers -> WorkerStates]
    BY <1>0, <1>4 DEF RunFree, WorkerStates
  <2> QED
    BY <1>1, <1>4, <2>1, <2>2 DEF RunFree
<1>5. CASE FreeRollout(w)
  BY <1>1, <1>5, RolloutTypes DEF FreeRollout
<1>6. CASE EndRollout(w)
  <2>1. worker' \in [Workers -> WorkerStates]
    BY <1>0, <1>6 DEF EndRollout, AfterRollout, WorkerStates
  <2> QED
    BY <1>1, <1>6, <2>1 DEF EndRollout
<1>7. CASE Store(w)
  <2>1. worker' \in [Workers -> WorkerStates]
    BY <1>0, <1>7 DEF Store, WorkerStates
  <2> QED
    BY <1>1, <1>7, <2>1 DEF Store
<1>8. CASE Send(w)
  <2>1. worker' \in [Workers -> WorkerStates]
    BY <1>0, <1>8 DEF Send, Sent, WorkerStates
  <2>2. [worker |-> w, kind |-> "output", intact |-> TRUE] \in Outputs
    BY DEF Outputs
  <2>3. outQ' \in Seq(Outputs) /\ Len(outQ') <= QueueLen
    BY <1>0, <1>8, <2>2, OutputsGrow DEF Send
  <2> QED
    BY <1>1, <1>8, <2>1, <2>3 DEF Send
<1>9. CASE SendTimesOut(w)
  <2>1. worker' \in [Workers -> WorkerStates]
    BY <1>0, <1>9 DEF SendTimesOut, WorkerStates
  <2> QED
    BY <1>1, <1>9, <2>1 DEF SendTimesOut
<1>10. CASE Answer(w)
  <2>1. /\ pipe' \in [Workers -> Seq(Messages)] /\ reply' \in [Workers -> Seq(Requests)]
        /\ Head(pipe[w]) \in Messages
    BY <1>10, ReceivedMessage, AnswerTypes DEF Answer
  <2>2. (worker[w].timedOut /\ Head(pipe[w]) = "reset") \in BOOLEAN
    OBVIOUS
  <2>3. worker' \in [Workers -> WorkerStates]
    BY <1>0, <1>10, <2>1, <2>2 DEF Answer, WorkerStates
  <2> QED
    BY <1>1, <1>10, <2>1, <2>3 DEF Answer
<1>11. CASE TakePause(w)
  <2>1. pipe' \in [Workers -> Seq(Messages)]
    BY <1>11, ReceivedMessage DEF TakePause
  <2>2. worker' \in [Workers -> WorkerStates]
    BY <1>0, <1>11 DEF TakePause, WorkerStates
  <2> QED
    BY <1>1, <1>11, <2>1, <2>2 DEF TakePause
<1>12. CASE ReportPaused(w)
  <2>1. worker' \in [Workers -> WorkerStates]
    BY <1>0, <1>12 DEF ReportPaused, WorkerStates
  <2>2. [worker |-> w, kind |-> "paused", intact |-> TRUE] \in Outputs
    BY DEF Outputs
  <2>3. outQ' \in Seq(Outputs) /\ Len(outQ') <= QueueLen
    BY <1>0, <1>12, <2>2, OutputsGrow DEF ReportPaused
  <2> QED
    BY <1>1, <1>12, <2>1, <2>3 DEF ReportPaused
<1>13. CASE MessageWhilePaused(w)
  <2> DEFINE msg == Head(pipe[w])
             next == WhilePaused(w, msg)
  <2>1. pipe' \in [Workers -> Seq(Messages)] /\ pipe[w] # << >>
    BY <1>13, ReceivedMessage DEF MessageWhilePaused
  <2>2. next \in {"collect", "paused", "dead"} /\ (next = "paused" => msg \in Requests)
    BY DEF WhilePaused, Requests
  <2>3. reply' \in [Workers -> Seq(Requests)]
    <3>1. CASE next = "paused"
      <4>1. Answers(w)
        BY <1>13, <3>1 DEF MessageWhilePaused
      <4> QED
        BY <2>1, <2>2, <3>1, <4>1, AnswerTypes
    <3>2. CASE next # "paused"
      BY <1>13, <3>2 DEF MessageWhilePaused
    <3> QED
      BY <3>1, <3>2
  <2>4. CASE next = "collect"
    <3>1. BeginRollout(w, TRUE) /\ UNCHANGED setup
      BY <1>13, <2>4 DEF MessageWhilePaused
    <3> QED
      BY <1>1, <2>1, <2>3, <3>1, RolloutTypes
  <2>5. CASE next # "collect"
    <3>1. /\ worker' = [worker EXCEPT ![w].at = next]
          /\ UNCHANGED <<outQ, gathered, setup>>
      BY <1>13, <2>5 DEF MessageWhilePaused
    <3>2. worker' \in [Workers -> WorkerStates]
      <4> HIDE DEF next
      <4> QED
        BY <1>0, <2>2, <3>1 DEF WorkerStates
    <3> QED
      BY <1>1, <2>1, <2>3, <3>1, <3>2
  <2> QED
    BY <2>4, <2>5
<1>14. CASE Close(w)
  <2>1. pipe' \in [Workers -> Seq(Messages)]
    BY <1>14, ReceivedMessage DEF Close
  <2>2. worker' \in [Workers -> WorkerStates]
    BY <1>0, <1>14 DEF Close, WorkerStates
  <2> QED
    BY <1>1, <1>14, <2>1, <2>2 DEF Close
<1>15. CASE GivesUpPause(w)
  <2>1. worker' \in [Workers -> WorkerStates]
    BY <1>0, <1>15 DEF GivesUpPause, PauseTimesOut, WorkerStates
  <2> QED
    BY <1>1, <1>15, <2>1 DEF GivesUpPause, PauseTimesOut
<1>16. CASE Crash(w)
  <2>1. worker' \in [Workers -> WorkerStates]
    BY <1>0, <1>16 DEF Crash, WorkerStates
  <2> QED
    BY <1>1, <1>16, <2>1 DEF Crash
<1> QED
  BY <1>2, <1>3, <1>4, <1>5, <1>6, <1>7, <1>8, <1>9, <1>10, <1>11, <1>12, <1>13, <1>14,
     <1>15, <1>16 DEF WorkerNext
-----------------------------------------------------------------------------
\* The steps of the coordinator keep the types.
LEMMA CoordinatorKeepsTypes ==
    ASSUME TypeInv,
           \/ Iterates \/ Waits
           \/ \E call \in Calls : Call(call)
           \/ StartFree \/ Pause \/ PauseUnanswered \/ Resume \/ BodyRaises
           \/ WorkerDied \/ Shutdown
    PROVE  TypeInv'
<1> USE DEF TypeInv, TypeOK, TypeOKWorkers
<1>0. /\ QueueLen \in Nat /\ NumWorkers \in Nat \ {0}
      /\ Len(outQ) \in Nat /\ Len(gathered) \in Nat /\ Len(batch) \in Nat
  BY QueueHasRoom, LenProperties
<1>1. ASSUME UNCHANGED setup, UNCHANGED worker,
             pipe' \in [Workers -> Seq(Messages)], reply' \in [Workers -> Seq(Requests)],
             outQ' \in Seq(Outputs), Len(outQ') <= QueueLen,
             gathered' \in Seq(Outputs), Len(gathered') <= NumWorkers,
             main' \in {"new", "gather", "body", "call", "free", "pausing", "paused",
                        "abandoned", "timed_out", "raised", "closing", "closed"},
             doing' \in Calls \cup {"none"},
             resumes' \in {"new", "body", "free", "paused"},
             awaiting' \subseteq Workers,
             batch' \in Seq(Outputs), Len(batch') <= NumWorkers
      PROVE  TypeInv'
  BY <1>1 DEF setup, QueueLen
<1>2. {"continue", "run_free", "pause", "restart", "close"} \cup Requests \subseteq Messages
  BY DEF Messages
<1>3. CASE AskForBatch
  <2>1. pipe' \in [Workers -> Seq(Messages)]
    BY <1>2, <1>3, SentToAll DEF AskForBatch
  <2> QED
    BY <1>1, <1>3, <2>1 DEF AskForBatch
<1>4. CASE NextBatch
  BY <1>1, <1>4 DEF NextBatch, workerVars
<1>5. CASE GatherAsync
  <2>1. /\ Head(outQ) \in Outputs /\ Tail(outQ) \in Seq(Outputs) /\ Len(Tail(outQ)) <= QueueLen
    BY <1>0, <1>5, OutputsShrink DEF GatherAsync
  <2>2. Head(outQ).worker \in Workers
    BY <2>1 DEF Outputs
  <2>3. Append(pipe[Head(outQ).worker], "continue") \in Seq(Messages)
    BY <1>2, <2>2, AppendProperties
  <2>4. pipe' \in [Workers -> Seq(Messages)]
    BY <1>5, <2>2, <2>3 DEF GatherAsync
  <2>5. <<Head(outQ)>> \in Seq(Outputs) /\ Len(<<Head(outQ)>>) <= NumWorkers
    BY <1>0, <2>1
  <2> QED
    BY <1>1, <1>5, <2>1, <2>4, <2>5 DEF GatherAsync
<1>6. CASE Gather
  <2>1. /\ Head(outQ) \in Outputs /\ Tail(outQ) \in Seq(Outputs) /\ Len(Tail(outQ)) <= QueueLen
    BY <1>0, <1>6, OutputsShrink DEF Gather
  <2>2. gathered' \in Seq(Outputs) /\ Len(gathered') <= NumWorkers
    BY <1>0, <1>6, <2>1, OutputsGrow DEF Gather
  <2> QED
    BY <1>1, <1>6, <2>1, <2>2 DEF Gather, coordinator
<1>7. CASE Stack
  <2>1. << >> \in Seq(Outputs) /\ Len(<< >>) = 0
    BY EmptySeq
  <2> QED
    BY <1>0, <1>1, <1>7, <2>1 DEF Stack
<1>8. ASSUME NEW call \in Calls, Call(call)
      PROVE  TypeInv'
  <2>1. Request(call) \in Messages
    BY <1>2, <1>8 DEF Request, Calls, Requests
  <2>2. pipe' \in [Workers -> Seq(Messages)]
    BY <1>8, <2>1, SentToAll DEF Call
  <2>3. main \in {"new", "body", "free", "paused"}
    BY <1>8 DEF Call, CallsNow
  <2>4. main' = "call" /\ resumes' = main /\ doing' = call /\ awaiting' = Workers
    BY <1>8 DEF Call
  <2>5. UNCHANGED <<setup, worker, reply, outQ, gathered, batch>>
    BY <1>8 DEF Call
  <2> QED
    BY <1>1, <2>2, <2>3, <2>4, <2>5
<1>9. CASE ReadAnswer
  <2>1. PICK w \in Workers :
          /\ reply[w] # << >>
          /\ reply' = [reply EXCEPT ![w] = Tail(@)]
          /\ awaiting' = awaiting \ {w}
          /\ IF Head(reply[w]) # Request(doing)
               THEN main' = "raised" /\ UNCHANGED <<pipe, doing>>
             ELSE IF awaiting' = {}
               THEN AfterCall /\ doing' = "none"
             ELSE UNCHANGED <<pipe, main, doing>>
    BY <1>9 DEF ReadAnswer
  <2>2. Tail(reply[w]) \in Seq(Requests)
    BY <2>1, HeadTailProperties
  <2>3. reply' \in [Workers -> Seq(Requests)]
    BY <2>1, <2>2
  <2>4. AfterCall => main' \in {resumes, "raised"} /\ pipe' \in [Workers -> Seq(Messages)]
    BY <1>2, SentToAll DEF AfterCall
  <2>5. /\ main' \in {resumes, "raised", main} /\ doing' \in {doing, "none"}
        /\ pipe' \in [Workers -> Seq(Messages)]
    BY <2>1, <2>4
  <2>6. UNCHANGED <<setup, worker, outQ, gathered, resumes, batch>>
    BY <1>9 DEF ReadAnswer
  <2> QED
    BY <1>1, <2>1, <2>3, <2>5, <2>6
<1>10. CASE StartFree
  <2>1. pipe' \in [Workers -> Seq(Messages)]
    BY <1>2, <1>10, SentToAll DEF StartFree
  <2> QED
    BY <1>1, <1>10, <2>1 DEF StartFree
<1>11. CASE Pause
  <2>1. pipe' \in [Workers -> Seq(Messages)]
    BY <1>2, <1>11, SentToAll DEF Pause
  <2> QED
    BY <1>1, <1>11, <2>1 DEF Pause
<1>12. CASE ReadPaused
  <2>1. Tail(outQ) \in Seq(Outputs) /\ Len(Tail(outQ)) <= QueueLen
    BY <1>0, <1>12, OutputsShrink DEF ReadPaused
  <2>2. awaiting' \subseteq Workers /\ main' \in {"raised", "paused", "pausing"}
    BY <1>12 DEF ReadPaused, AfterPaused
  <2> QED
    BY <1>1, <1>12, <2>1, <2>2 DEF ReadPaused
<1>13. CASE Resume
  <2>1. pipe' \in [Workers -> Seq(Messages)]
    BY <1>2, <1>13, SentToAll DEF Resume
  <2> QED
    BY <1>1, <1>13, <2>1 DEF Resume
<1>14. CASE BodyRaises
  BY <1>1, <1>14 DEF BodyRaises, workerVars
<1>15. CASE WorkerDied
  BY <1>1, <1>15 DEF WorkerDied, workerVars
<1>16. CASE Shutdown
  <2>1. pipe' \in [Workers -> Seq(Messages)]
    BY <1>2, <1>16, SentToAll DEF Shutdown
  <2> QED
    BY <1>1, <1>16, <2>1 DEF Shutdown
<1>17. CASE Closed
  BY <1>1, <1>17 DEF Closed, workerVars
<1>18. CASE PauseUnanswered
  BY <1>1, <1>18 DEF PauseUnanswered, workerVars
<1> QED
  BY <1>3, <1>4, <1>5, <1>6, <1>7, <1>8, <1>9, <1>10, <1>11, <1>12, <1>13, <1>14, <1>15,
     <1>16, <1>17, <1>18 DEF Iterates, Waits, Gathers

LEMMA InitTypes == Init => TypeInv
<1> SUFFICES ASSUME Init PROVE TypeInv
  OBVIOUS
<1> USE DEF Init, InitWorkers
<1>1. << >> \in Seq(Messages) /\ << >> \in Seq(Requests) /\ << >> \in Seq(Outputs) /\ Len(<< >>) = 0
  BY EmptySeq
<1>2. [at |-> "poll", msg |-> "none", timedOut |-> FALSE, free |-> FALSE] \in WorkerStates
  BY DEF WorkerStates
<1>3. worker \in [Workers -> WorkerStates]
  BY <1>2
<1>4. pipe \in [Workers -> Seq(Messages)] /\ reply \in [Workers -> Seq(Requests)]
  BY <1>1
<1> QED
  BY <1>1, <1>3, <1>4, QueueHasRoom DEF TypeInv, TypeOK, TypeOKWorkers

\* Every step is a step of a worker or one of the coordinator.
LEMMA NextKeepsTypes == TypeInv /\ [Next]_vars => TypeInv'
<1>1. ASSUME TypeInv, UNCHANGED vars PROVE TypeInv'
  BY <1>1 DEF vars, coordinator, workerVars, setup, TypeInv, TypeOK, TypeOKWorkers, QueueLen
<1> QED
  BY <1>1, WorkerKeepsTypes, CoordinatorKeepsTypes DEF Next

\* The types of the coordinator and of its workers, whatever calls are made and
\* however many of the workers die (_main_async_collector, MultiCollector).
THEOREM CollectorTypes == Spec => []TypeOK
<1>1. TypeInv => TypeOK
  BY DEF TypeInv
<1> QED
  BY <1>1, InitTypes, NextKeepsTypes, PTL DEF Spec
-----------------------------------------------------------------------------
\* What a step of worker w does to the others (nothing), to its pipe, to its place
\* and to the queue, as far as a pause is concerned.
OnlyIts(w) == \A v \in Workers \ {w} : worker'[v] = worker[v]

Takes(w) ==
    /\ pipe[w] # << >>
    /\ pipe' = [pipe EXCEPT ![w] = Tail(pipe[w])]

SameOutputs ==
    /\ Len(outQ') = Len(outQ)
    /\ \A i \in 1 .. Len(outQ) :
         outQ'[i].kind = outQ[i].kind /\ outQ'[i].worker = outQ[i].worker

Puts(w) ==
    \E o \in Outputs :
        /\ outQ' = Append(outQ, o) /\ o.worker = w
        /\ o.kind = "paused" =>
             At(w, "pausing") /\ worker'[w].at = "paused" /\ pipe' = pipe

StaysParked(w) ==
    Parked(w) => worker'[w].at \in {"paused", "dead", "crashed", "closed"}

LEMMA RolloutEffect ==
    ASSUME TypeInv, NEW w \in Workers, NEW free \in BOOLEAN, BeginRollout(w, free)
    PROVE  OnlyIts(w) /\ worker'[w].at = "collect" /\ SameOutputs
<1>1. worker[w] \in WorkerStates /\ worker \in [Workers -> WorkerStates]
  BY DEF TypeInv, TypeOK, TypeOKWorkers
<1>2. OnlyIts(w) /\ worker'[w].at = "collect"
  BY <1>1 DEF BeginRollout, OnlyIts, WorkerStates
<1> QED
  BY <1>2, OverwrittenOutputs
     DEF BeginRollout, SameOutputs, TypeInv, TypeOK, TypeOKWorkers

LEMMA WorkerEffect ==
    ASSUME TypeInv, NEW w \in Workers, WorkerNext(w) \/ GivesUpPause(w) \/ Crash(w)
    PROVE  /\ OnlyIts(w)
           /\ pipe' = pipe \/ Takes(w)
           /\ worker'[w].at = "pausing" => Takes(w) /\ Head(pipe[w]) = "pause"
           /\ StaysParked(w)
           /\ SameOutputs \/ Puts(w)
<1>0. worker \in [Workers -> WorkerStates] /\ worker[w] \in WorkerStates
  BY DEF TypeInv, TypeOK, TypeOKWorkers
<1>1. UNCHANGED outQ => SameOutputs
  BY DEF SameOutputs
<1>2. ASSUME NEW msgs, Receives(w, msgs) PROVE Takes(w) /\ Head(pipe[w]) \in msgs
  BY <1>2 DEF Receives, Takes
<1>3. ASSUME At(w, "poll") \/ At(w, "collect") \/ At(w, "store") \/ At(w, "send")
             \/ At(w, "pausing")
      PROVE  StaysParked(w)
  BY <1>3 DEF At, Alive, Parked, StaysParked
<1>4. CASE StartRollout(w)
  <2>1. Takes(w) /\ BeginRollout(w, FALSE) /\ At(w, "poll")
    BY <1>2, <1>4 DEF StartRollout
  <2> QED
    BY <1>3, <2>1, RolloutEffect
<1>5. CASE RepeatRollout(w)
  <2>1. UNCHANGED pipe /\ At(w, "poll")
    BY <1>5 DEF RepeatRollout
  <2>2. CASE worker[w].msg = "continue"
    <3>1. BeginRollout(w, FALSE)
      BY <1>5, <2>2 DEF RepeatRollout
    <3> QED
      BY <1>3, <2>1, <3>1, RolloutEffect
  <2>3. CASE worker[w].msg # "continue"
    <3>1. worker' = [worker EXCEPT ![w].at = "dead"] /\ UNCHANGED outQ
      BY <1>5, <2>3 DEF RepeatRollout
    <3>2. OnlyIts(w) /\ worker'[w].at = "dead"
      BY <1>0, <3>1 DEF OnlyIts, WorkerStates
    <3> QED
      BY <1>1, <1>3, <2>1, <3>1, <3>2
  <2> QED
    BY <2>2, <2>3
<1>6. CASE RunFree(w)
  <2>1. Takes(w) /\ UNCHANGED outQ /\ At(w, "poll")
    BY <1>2, <1>6 DEF RunFree
  <2>2. OnlyIts(w) /\ worker'[w].at = "poll"
    BY <1>0, <1>6 DEF RunFree, OnlyIts, At, WorkerStates
  <2> QED
    BY <1>1, <1>3, <2>1, <2>2
<1>7. CASE FreeRollout(w)
  <2>1. UNCHANGED pipe /\ At(w, "poll") /\ BeginRollout(w, TRUE)
    BY <1>7 DEF FreeRollout
  <2> QED
    BY <1>3, <2>1, RolloutEffect
<1>8. CASE EndRollout(w)
  <2>1. UNCHANGED <<pipe, outQ>> /\ At(w, "collect")
    BY <1>8 DEF EndRollout
  <2>2. OnlyIts(w) /\ worker'[w].at \in {"poll", "store", "send"}
    BY <1>0, <1>8 DEF EndRollout, AfterRollout, OnlyIts, WorkerStates
  <2> QED
    BY <1>1, <1>3, <2>1, <2>2
<1>9. CASE Store(w)
  <2>1. UNCHANGED <<pipe, outQ>> /\ At(w, "store")
    BY <1>9 DEF Store
  <2>2. OnlyIts(w) /\ worker'[w].at \in {"poll", "send"}
    BY <1>0, <1>9 DEF Store, OnlyIts, WorkerStates
  <2> QED
    BY <1>1, <1>3, <2>1, <2>2
<1>10. CASE Send(w)
  <2> DEFINE o == [worker |-> w, kind |-> "output", intact |-> TRUE]
  <2>1. UNCHANGED pipe /\ At(w, "send") /\ outQ' = Append(outQ, o)
    BY <1>10 DEF Send
  <2>2. OnlyIts(w) /\ worker'[w].at = "poll"
    BY <1>0, <1>10 DEF Send, Sent, OnlyIts, WorkerStates
  <2>3. o \in Outputs /\ o.worker = w /\ o.kind # "paused"
    BY DEF Outputs
  <2>4. Puts(w)
    <3> HIDE DEF o
    <3> QED
      BY <2>1, <2>3 DEF Puts
  <2> QED
    BY <1>3, <2>1, <2>2, <2>4
<1>11. CASE SendTimesOut(w)
  <2>1. UNCHANGED <<pipe, outQ>> /\ At(w, "send")
    BY <1>11 DEF SendTimesOut
  <2>2. OnlyIts(w) /\ worker'[w].at = "poll"
    BY <1>0, <1>11 DEF SendTimesOut, OnlyIts, WorkerStates
  <2> QED
    BY <1>1, <1>3, <2>1, <2>2
<1>12. CASE Answer(w)
  <2>1. Takes(w) /\ UNCHANGED outQ /\ At(w, "poll")
    BY <1>2, <1>12 DEF Answer
  <2>2. OnlyIts(w) /\ worker'[w].at = "poll"
    BY <1>0, <1>12 DEF Answer, OnlyIts, At, WorkerStates
  <2> QED
    BY <1>1, <1>3, <2>1, <2>2
<1>13. CASE TakePause(w)
  <2>1. Takes(w) /\ Head(pipe[w]) = "pause" /\ UNCHANGED outQ /\ At(w, "poll")
    BY <1>2, <1>13 DEF TakePause
  <2>2. OnlyIts(w) /\ worker'[w].at = "pausing"
    BY <1>0, <1>13 DEF TakePause, OnlyIts, WorkerStates
  <2> QED
    BY <1>1, <1>3, <2>1, <2>2
<1>14. CASE ReportPaused(w)
  <2> DEFINE o == [worker |-> w, kind |-> "paused", intact |-> TRUE]
  <2>1. pipe' = pipe /\ At(w, "pausing") /\ outQ' = Append(outQ, o)
    BY <1>14 DEF ReportPaused
  <2>2. OnlyIts(w) /\ worker'[w].at = "paused"
    BY <1>0, <1>14 DEF ReportPaused, OnlyIts, WorkerStates
  <2>3. o \in Outputs /\ o.worker = w
    BY DEF Outputs
  <2>4. Puts(w)
    <3> HIDE DEF o
    <3> QED
      BY <2>1, <2>2, <2>3 DEF Puts
  <2> QED
    BY <1>3, <2>1, <2>2, <2>4
<1>15. CASE MessageWhilePaused(w)
  <2> DEFINE next == WhilePaused(w, Head(pipe[w]))
  <2>1. Takes(w) /\ next \in {"collect", "paused", "dead"}
    BY <1>2, <1>15 DEF MessageWhilePaused, WhilePaused
  <2>2. Parked(w) => next # "collect"
    <3>1. Parked(w) => Head(pipe[w]) \in Requests
      BY <2>1, HeadTailProperties DEF Parked, Takes
    <3> QED
      BY <3>1 DEF WhilePaused, Requests
  <2>3. CASE next = "collect"
    <3>1. BeginRollout(w, TRUE)
      BY <1>15, <2>3 DEF MessageWhilePaused
    <3> QED
      BY <2>1, <2>2, <2>3, <3>1, RolloutEffect DEF StaysParked
  <2>4. CASE next # "collect"
    <3>1. worker' = [worker EXCEPT ![w].at = next] /\ UNCHANGED outQ
      BY <1>15, <2>4 DEF MessageWhilePaused
    <3> HIDE DEF next
    <3>2. OnlyIts(w) /\ worker'[w].at = next
      BY <1>0, <3>1 DEF OnlyIts, WorkerStates
    <3> QED
      BY <1>1, <2>1, <2>4, <3>1, <3>2 DEF StaysParked
  <2> QED
    BY <2>3, <2>4
<1>16. CASE Close(w)
  <2>1. Takes(w) /\ UNCHANGED outQ /\ At(w, "poll")
    BY <1>2, <1>16 DEF Close
  <2>2. OnlyIts(w) /\ worker'[w].at = "closed"
    BY <1>0, <1>16 DEF Close, OnlyIts, WorkerStates
  <2> QED
    BY <1>1, <1>3, <2>1, <2>2
<1>17. CASE GivesUpPause(w)
  <2>1. UNCHANGED <<pipe, outQ>> /\ At(w, "pausing")
    BY <1>17 DEF GivesUpPause, PauseTimesOut
  <2>2. OnlyIts(w) /\ worker'[w].at = "dead"
    BY <1>0, <1>17 DEF GivesUpPause, PauseTimesOut, OnlyIts, WorkerStates
  <2> QED
    BY <1>1, <1>3, <2>1, <2>2
<1>18. CASE Crash(w)
  <2>1. UNCHANGED <<pipe, outQ>>
    BY <1>18 DEF Crash
  <2>2. OnlyIts(w) /\ worker'[w].at = "crashed"
    BY <1>0, <1>18 DEF Crash, OnlyIts, WorkerStates
  <2> QED
    BY <1>1, <2>1, <2>2 DEF StaysParked
<1> QED
  BY <1>4, <1>5, <1>6, <1>7, <1>8, <1>9, <1>10, <1>11, <1>12, <1>13, <1>14, <1>15, <1>16,
     <1>17, <1>18 DEF WorkerNext
-----------------------------------------------------------------------------
\* A worker that takes a message off its pipe leaves the rest there.
LEMMA PipeShrinks ==
    ASSUME TypeInv, NEW w \in Workers, Takes(w), NEW S, pipe[w] \in Seq(S)
    PROVE  Head(pipe[w]) \in S /\ pipe'[w] \in Seq(S) /\ Len(pipe'[w]) = Len(pipe[w]) - 1
           /\ \A i \in 1 .. Len(pipe'[w]) : pipe'[w][i] = pipe[w][i + 1]
<1>1. pipe'[w] = Tail(pipe[w])
  BY DEF Takes, TypeInv, TypeOK, TypeOKWorkers
<1> QED
  BY <1>1, HeadTailProperties DEF Takes

\* The steps of a worker keep the invariant of the pause.
LEMMA WorkerKeepsPause ==
    ASSUME TypeInv, PauseInv, NEW w \in Workers, UNCHANGED coordinator,
           WorkerNext(w) \/ GivesUpPause(w) \/ Crash(w)
    PROVE  PauseInv'
<1>1. /\ OnlyIts(w)
      /\ pipe' = pipe \/ Takes(w)
      /\ worker'[w].at = "pausing" => Takes(w) /\ Head(pipe[w]) = "pause"
      /\ StaysParked(w)
      /\ SameOutputs \/ Puts(w)
  BY WorkerEffect
<1>2. /\ pipe \in [Workers -> Seq(Messages)] /\ outQ \in Seq(Outputs) /\ Len(outQ) \in Nat
      /\ \A v \in Workers : Len(pipe[v]) \in Nat
  BY LenProperties DEF TypeInv, TypeOK, TypeOKWorkers
<1>3. \A v \in Workers \ {w} : worker'[v] = worker[v] /\ pipe'[v] = pipe[v]
  BY <1>1, <1>2 DEF OnlyIts, Takes
<1>4. ASSUME NEW v \in Workers, Parked(v) PROVE Parked(v)'
  <2>1. CASE v = w
    <3>1. pipe'[w] \in Seq(Requests)
      BY <1>1, <1>4, <2>1, PipeShrinks DEF Parked
    <3> QED
      BY <1>1, <1>4, <2>1, <3>1 DEF Parked, StaysParked, Alive, At
  <2>2. CASE v # w
    BY <1>3, <1>4, <2>2 DEF Parked, Alive, At
  <2> QED
    BY <2>1, <2>2
<1>5. ASSUME NoPauseSent PROVE NoPauseSent'
  <2>1. pipe[w] \in Seq(Messages \ {"pause"}) /\ ~At(w, "pausing")
    BY <1>5 DEF NoPauseSent
  <2>2. pipe'[w] \in Seq(Messages \ {"pause"}) /\ worker'[w].at # "pausing"
    BY <1>1, <2>1, PipeShrinks
  <2> QED
    BY <1>3, <1>5, <2>2 DEF NoPauseSent, At
<1>6. ASSUME NoPauseReported, ~At(w, "pausing") PROVE NoPauseReported'
  <2>1. CASE SameOutputs
    BY <1>6, <2>1 DEF NoPauseReported, SameOutputs
  <2>2. CASE Puts(w)
    <3>1. PICK o \in Outputs : outQ' = Append(outQ, o) /\ o.kind # "paused"
      BY <1>6, <2>2 DEF Puts
    <3> QED
      BY <1>2, <1>6, <3>1, AppendProperties DEF NoPauseReported
  <2> QED
    BY <1>1, <2>1, <2>2
<1>7. ASSUME NEW v \in Workers, PauseIsLast(v) PROVE PauseIsLast(v)'
  <2>1. CASE v # w
    BY <1>3, <1>7, <2>1 DEF PauseIsLast, At
  <2>2. CASE v = w /\ Takes(w)
    <3>1. /\ Len(pipe'[w]) = Len(pipe[w]) - 1 /\ Len(pipe[w]) \in Nat
          /\ \A i \in 1 .. Len(pipe'[w]) : pipe'[w][i] = pipe[w][i + 1]
          /\ pipe'[w] \in Seq(Messages) /\ pipe[w] # << >>
      BY <1>2, <2>2, PipeShrinks DEF Takes
    <3>2. \A i \in 1 .. Len(pipe'[w]) : pipe'[w][i] = "pause" => i = Len(pipe'[w])
      BY <1>7, <2>2, <3>1 DEF PauseIsLast
    <3>3. ASSUME worker'[w].at = "pausing" PROVE pipe'[w] = << >>
      <4>1. pipe[w][1] = "pause" /\ Len(pipe[w]) >= 1
        BY <1>1, <1>2, <3>1, <3>3, EmptySeq
      <4>2. Len(pipe[w]) = 1
        <5>1. 1 \in 1 .. Len(pipe[w])
          BY <3>1, <4>1
        <5> QED
          BY <1>7, <2>2, <4>1, <5>1 DEF PauseIsLast
      <4> QED
        BY <3>1, <4>2, EmptySeq
    <3> QED
      BY <2>2, <3>2, <3>3 DEF PauseIsLast, At
  <2>3. CASE v = w /\ ~Takes(w)
    BY <1>1, <1>7, <2>3 DEF PauseIsLast, At
  <2> QED
    BY <2>1, <2>2, <2>3
<1>8. ASSUME Pausing PROVE ReportsAreTrue'
  <2>1. CASE SameOutputs
    <3>1. Len(outQ') = Len(outQ)
          /\ \A v \in Workers : \A i \in 1 .. Len(outQ) : ReportOf(v, i)' <=> ReportOf(v, i)
      BY <2>1 DEF SameOutputs, ReportOf
    <3> QED
      BY <1>4, <1>8, <3>1 DEF coordinator, Pausing, ReportsAreTrue
  <2>2. CASE Puts(w)
    <3>1. PICK o \in Outputs :
            /\ outQ' = Append(outQ, o) /\ o.worker = w
            /\ o.kind = "paused" => At(w, "pausing") /\ worker'[w].at = "paused" /\ pipe' = pipe
      BY <2>2 DEF Puts
    <3>a. PICK n \in Nat : n = Len(outQ)
      BY <1>2
    <3>2. /\ Len(outQ') = n + 1 /\ outQ'[n + 1] = o
          /\ \A i \in 1 .. n : outQ'[i] = outQ[i]
      BY <1>2, <3>1, <3>a, AppendProperties
    <3>3. o.kind = "paused" => ~Parked(w) /\ Parked(w)' /\ w \in awaiting
      BY <1>8, <3>1, EmptySeq DEF Pausing, PauseIsLast, Parked, Alive, At
    <3>4. \A v \in Workers : \A i \in 1 .. n : ReportOf(v, i)' <=> ReportOf(v, i)
      BY <3>2 DEF ReportOf
    <3>5. \A v \in Workers : ReportOf(v, n + 1)' => v = w /\ o.kind = "paused"
      BY <3>1, <3>2 DEF ReportOf
    <3>6. 1 .. Len(outQ') = (1 .. n) \cup {n + 1}
      BY <3>2
    <3>7. \A v \in Workers : \A i \in 1 .. n : ReportOf(v, i) =>
            /\ v \in awaiting /\ Parked(v) /\ Parked(v)'
            /\ \A j \in 1 .. n : ReportOf(v, j) => i = j
      BY <1>4, <1>8, <3>a DEF Pausing, ReportsAreTrue
    <3>8. ASSUME NEW v \in Workers, NEW i \in 1 .. Len(outQ'), ReportOf(v, i)'
          PROVE  /\ v \in awaiting' /\ Parked(v)'
                 /\ \A j \in 1 .. Len(outQ') : ReportOf(v, j)' => i = j
      BY <3>3, <3>4, <3>5, <3>6, <3>7, <3>8 DEF coordinator
    <3> QED
      BY <3>8 DEF ReportsAreTrue
  <2> QED
    BY <1>1, <2>1, <2>2
<1>9. Pausing => Pausing'
  BY <1>4, <1>7, <1>8 DEF Pausing, coordinator
<1>10. (\A v \in Workers : Parked(v)) => ~At(w, "pausing")
  BY DEF Parked, Alive, At
<1>11. NoPauseSent => ~At(w, "pausing")
  BY DEF NoPauseSent
<1>12. (Unpaused <=> Unpaused') /\ (Paused <=> Paused') /\ main' = main
  BY DEF coordinator, Unpaused, Paused, CallFrom
<1> QED
  BY <1>4, <1>5, <1>6, <1>9, <1>10, <1>11, <1>12 DEF PauseInv
\* A message other than "pause" keeps "pause" out of the pipes.
LEMMA SendsNoPause ==
    ASSUME TypeInv, NoPauseSent, UNCHANGED worker,
           NEW msg \in Messages \ {"pause"}, SendAll(msg)
    PROVE  NoPauseSent'
<1>1. \A w \in Workers : Append(pipe[w], msg) \in Seq(Messages \ {"pause"})
  BY AppendProperties DEF NoPauseSent
<1>2. \A w \in Workers : pipe'[w] = Append(pipe[w], msg)
  BY DEF SendAll
<1> QED
  BY <1>1, <1>2 DEF NoPauseSent, At

\* Requests keep a worker parked.
LEMMA RequestsLeaveParked ==
    ASSUME TypeInv, NEW w \in Workers, Parked(w), UNCHANGED worker,
           pipe' = pipe \/ \E msg \in Requests : SendAll(msg)
    PROVE  Parked(w)'
<1>1. pipe'[w] \in Seq(Requests)
  BY AppendProperties DEF Parked, SendAll
<1> QED
  BY <1>1 DEF Parked, Alive, At

\* What is left of the queue, when its first output is read.
LEMMA QueueShrinks ==
    ASSUME TypeInv, outQ # << >>, outQ' = Tail(outQ)
    PROVE  /\ Len(outQ) \in Nat \ {0} /\ Len(outQ') = Len(outQ) - 1
           /\ \A i \in 1 .. Len(outQ') : outQ'[i] = outQ[i + 1]
           /\ Head(outQ) = outQ[1] /\ Head(outQ).worker \in Workers
<1>1. outQ \in Seq(Outputs)
  BY DEF TypeInv, TypeOK, TypeOKWorkers
<1>2. Len(outQ) \in Nat \ {0}
  BY <1>1, EmptySeq, LenProperties
<1>3. Head(outQ) \in Outputs
  BY <1>1, HeadTailProperties
<1> QED
  BY <1>1, <1>2, <1>3, HeadTailProperties DEF Outputs

\* The steps of the coordinator keep the invariant of the pause.
LEMMA CoordinatorKeepsPause ==
    ASSUME TypeInv, PauseInv,
           \/ Iterates \/ Waits
           \/ \E call \in Calls : Call(call)
           \/ StartFree \/ Pause \/ PauseUnanswered \/ Resume \/ BodyRaises
           \/ WorkerDied \/ Shutdown
    PROVE  PauseInv'
<1>0. /\ pipe \in [Workers -> Seq(Messages)] /\ outQ \in Seq(Outputs) /\ Len(outQ) \in Nat
      /\ resumes \in {"new", "body", "free", "paused"} /\ awaiting \subseteq Workers
  BY LenProperties DEF TypeInv, TypeOK, TypeOKWorkers
<1>1. ASSUME main' \in {"gather", "body", "free"}, NoPauseSent', NoPauseReported'
      PROVE  PauseInv'
  BY <1>1 DEF PauseInv, Unpaused, Paused, CallFrom
<1>2. ASSUME main' \in {"abandoned", "raised", "closing", "closed"}
      PROVE  PauseInv'
  BY <1>2 DEF PauseInv, Unpaused, Paused, CallFrom
<1>3. main \in {"new", "gather", "body", "free"} => NoPauseSent /\ NoPauseReported
  BY DEF PauseInv, Unpaused
<1>4. main = "paused" => NoPauseReported /\ \A w \in Workers : Parked(w)
  BY DEF PauseInv, Paused
<1>5. outQ # << >> /\ outQ' = Tail(outQ) /\ NoPauseReported => NoPauseReported'
  BY QueueShrinks DEF NoPauseReported
<1>6. UNCHANGED outQ /\ NoPauseReported => NoPauseReported'
  BY DEF NoPauseReported
<1>7. UNCHANGED <<pipe, worker>> /\ NoPauseSent => NoPauseSent'
  BY DEF NoPauseSent, At
<1>8. {"continue", "run_free", "restart"} \cup Requests \subseteq Messages \ {"pause"}
  BY DEF Messages, Requests
<1>9. CASE AskForBatch
  <2>1. /\ main \in {"new", "body"} /\ main' = "gather" /\ SendAll("continue")
        /\ UNCHANGED <<worker, outQ>>
    BY <1>9 DEF AskForBatch
  <2> QED
    BY <1>1, <1>3, <1>6, <1>8, <2>1, SendsNoPause
<1>10. CASE NextBatch
  BY <1>1, <1>3, <1>6, <1>7, <1>10 DEF NextBatch, workerVars
<1>11. CASE GatherAsync
  <2>1. /\ main = "gather" /\ main' = "body" /\ outQ # << >> /\ outQ' = Tail(outQ)
        /\ pipe' = [pipe EXCEPT ![Head(outQ).worker] = Append(@, "continue")]
        /\ UNCHANGED worker
    BY <1>11 DEF GatherAsync
  <2>2. \A w \in Workers : Append(pipe[w], "continue") \in Seq(Messages \ {"pause"})
    BY <1>3, <1>8, <2>1, AppendProperties DEF NoPauseSent
  <2>3. NoPauseSent'
    BY <1>0, <1>3, <2>1, <2>2 DEF NoPauseSent, At
  <2> QED
    BY <1>1, <1>3, <1>5, <2>1, <2>3
<1>12. CASE Gather
  BY <1>1, <1>3, <1>5, <1>7, <1>12 DEF Gather, coordinator
<1>13. CASE Stack
  BY <1>1, <1>3, <1>6, <1>7, <1>13 DEF Stack
<1>14. ASSUME NEW call \in Calls, Call(call)
       PROVE  PauseInv'
  <2>1. /\ main' = "call" /\ resumes' = main /\ main \in {"new", "body", "free", "paused"}
        /\ SendAll(Request(call)) /\ UNCHANGED <<worker, outQ>>
    BY <1>14 DEF Call, CallsNow
  <2>2. Request(call) \in Requests
    BY DEF Request, Calls, Requests
  <2>3. CASE main = "paused"
    <3>1. NoPauseReported' /\ (\A w \in Workers : Parked(w)')
      BY <1>4, <1>6, <2>1, <2>2, <2>3, RequestsLeaveParked
    <3> QED
      BY <2>1, <2>3, <3>1 DEF PauseInv, Unpaused, Paused, CallFrom
  <2>4. CASE main # "paused"
    <3>1. NoPauseSent' /\ NoPauseReported'
      BY <1>3, <1>6, <1>8, <2>1, <2>2, <2>4, SendsNoPause
    <3> QED
      BY <2>1, <2>4, <3>1 DEF PauseInv, Unpaused, Paused, CallFrom
  <2> QED
    BY <2>3, <2>4
<1>15. CASE ReadAnswer
  <2>1. /\ main = "call" /\ UNCHANGED <<worker, outQ, resumes>>
        /\ \/ main' = "raised"
           \/ main' = main /\ UNCHANGED pipe
           \/ AfterCall
    BY <1>15 DEF ReadAnswer
  <2>2. AfterCall => \/ main' = "raised"
                     \/ main' = resumes /\ UNCHANGED pipe
                     \/ main' = resumes /\ resumes = "body" /\ SendAll("continue")
    BY DEF AfterCall, Running
  <2>3. CASE main' = "raised"
    BY <1>2, <2>3
  <2>4. CASE main' # "raised" /\ resumes = "paused"
    <3>1. NoPauseReported /\ \A w \in Workers : Parked(w)
      BY <2>1, <2>4 DEF PauseInv, Paused, CallFrom
    <3>2. NoPauseReported' /\ \A w \in Workers : Parked(w)'
      BY <1>6, <2>1, <2>2, <2>4, <3>1, RequestsLeaveParked
    <3>3. main' \in {"call", "paused"} /\ resumes' = "paused"
      BY <2>1, <2>2, <2>4
    <3> QED
      BY <3>2, <3>3 DEF PauseInv, Unpaused, Paused, CallFrom
  <2>5. CASE main' # "raised" /\ resumes # "paused"
    <3>1. NoPauseSent /\ NoPauseReported
      BY <1>0, <2>1, <2>5 DEF PauseInv, Unpaused, CallFrom
    <3>2. NoPauseReported' /\ NoPauseSent'
      BY <1>6, <1>7, <1>8, <2>1, <2>2, <2>5, <3>1, SendsNoPause
    <3>3. main' \in {"call", "new", "body", "free"} /\ resumes' = resumes
      BY <1>0, <2>1, <2>2, <2>5
    <3> QED
      BY <2>5, <3>2, <3>3 DEF PauseInv, Unpaused, Paused, CallFrom
  <2> QED
    BY <2>3, <2>4, <2>5
<1>16. CASE StartFree
  <2>1. main = "new" /\ main' = "free" /\ SendAll("run_free") /\ UNCHANGED <<worker, outQ>>
    BY <1>16 DEF StartFree
  <2> QED
    BY <1>1, <1>3, <1>6, <1>8, <2>1, SendsNoPause
<1>17. CASE Pause
  <2>1. /\ main = "free" /\ main' = "pausing" /\ awaiting' = Workers
        /\ SendAll("pause") /\ UNCHANGED <<worker, outQ>>
    BY <1>17 DEF Pause
  <2>2. ReportsAreTrue'
    BY <1>3, <2>1 DEF ReportsAreTrue, ReportOf, NoPauseReported
  <2>3. ASSUME NEW w \in Workers PROVE PauseIsLast(w)'
    <3>1. pipe[w] \in Seq(Messages \ {"pause"}) /\ ~At(w, "pausing")
      BY <1>3, <2>1 DEF NoPauseSent
    <3>2. Len(pipe[w]) \in Nat /\ \A i \in 1 .. Len(pipe[w]) : pipe[w][i] # "pause"
      BY <3>1, ElementOfSeq, LenProperties
    <3>3. /\ pipe'[w] = Append(pipe[w], "pause") /\ "pause" \in Messages
      BY <2>1 DEF SendAll, Messages
    <3>4. /\ Len(pipe'[w]) = Len(pipe[w]) + 1
          /\ \A i \in 1 .. Len(pipe[w]) : pipe'[w][i] = pipe[w][i]
      BY <1>0, <3>3, AppendProperties
    <3> QED
      BY <2>1, <3>1, <3>2, <3>4 DEF PauseIsLast, At
  <2> QED
    BY <2>1, <2>2, <2>3 DEF PauseInv, Pausing, Unpaused, Paused, CallFrom
<1>18. CASE ReadPaused
  <2>1. /\ main = "pausing" /\ outQ # << >> /\ outQ' = Tail(outQ)
        /\ awaiting' = awaiting \ {Head(outQ).worker}
        /\ main' = IF Head(outQ).kind # "paused" THEN "raised"
                   ELSE IF awaiting' = {} THEN "paused" ELSE "pausing"
        /\ UNCHANGED <<worker, pipe>>
    BY <1>18 DEF ReadPaused, AfterPaused
  <2>2. Pausing
    BY <2>1 DEF PauseInv
  <2>3. CASE Head(outQ).kind # "paused"
    BY <1>2, <2>1, <2>3
  <2>4. CASE Head(outQ).kind = "paused"
    <3>1. PICK w \in Workers : w = Head(outQ).worker
      BY <2>1, QueueShrinks
    <3>2. /\ Len(outQ) \in Nat \ {0} /\ Len(outQ') = Len(outQ) - 1
          /\ \A i \in 1 .. Len(outQ') : outQ'[i] = outQ[i + 1]
          /\ Head(outQ) = outQ[1]
      BY <2>1, QueueShrinks
    <3>3. ReportOf(w, 1) /\ 1 \in 1 .. Len(outQ)
      BY <2>4, <3>1, <3>2 DEF ReportOf
    <3>4. Parked(w) /\ \A i \in 1 .. Len(outQ) : ReportOf(w, i) => i = 1
      BY <2>2, <3>3 DEF Pausing, ReportsAreTrue
    <3>5. \A v \in Workers : Parked(v) => Parked(v)'
      BY <2>1 DEF Parked, Alive, At
    <3>6. \A v \in Workers \ awaiting' : Parked(v)'
      BY <2>1, <2>2, <3>1, <3>4, <3>5 DEF Pausing
    <3>7. ASSUME NEW v \in Workers, NEW i \in 1 .. Len(outQ'), ReportOf(v, i)'
          PROVE  /\ v \in awaiting' /\ Parked(v)'
                 /\ \A j \in 1 .. Len(outQ') : ReportOf(v, j)' => i = j
      <4>1. \A j \in 1 .. Len(outQ') :
              j + 1 \in 1 .. Len(outQ) /\ j + 1 # 1 /\ (ReportOf(v, j)' => ReportOf(v, j + 1))
        BY <3>2 DEF ReportOf
      <4>2. /\ v \in awaiting /\ Parked(v)
            /\ \A j \in 1 .. Len(outQ') : ReportOf(v, j + 1) => i + 1 = j + 1
        BY <2>2, <3>7, <4>1 DEF Pausing, ReportsAreTrue
      <4>3. v # w
        BY <3>4, <3>7, <4>1
      <4> QED
        BY <2>1, <3>1, <3>2, <3>5, <4>1, <4>2, <4>3
    <3>8. Pausing'
      <4>1. \A v \in Workers : PauseIsLast(v)'
        BY <2>1, <2>2 DEF Pausing, PauseIsLast, At
      <4> QED
        BY <3>6, <3>7, <4>1 DEF Pausing, ReportsAreTrue
    <3>9. CASE awaiting' = {}
      <4>1. main' = "paused" /\ \A v \in Workers : Parked(v)'
        BY <2>1, <2>4, <3>6, <3>9
      <4>2. NoPauseReported'
        <5>1. SUFFICES ASSUME NEW i \in 1 .. Len(outQ'), outQ'[i].kind = "paused"
                       PROVE  FALSE
          BY DEF NoPauseReported
        <5>2. outQ'[i].worker \in Workers
          <6>1. i + 1 \in 1 .. Len(outQ) /\ outQ'[i] = outQ[i + 1]
            BY <3>2, <5>1
          <6>2. outQ[i + 1] \in Outputs
            BY <1>0, <6>1, ElementOfSeq
          <6> QED
            BY <6>1, <6>2 DEF Outputs
        <5> QED
          BY <3>7, <3>9, <5>1, <5>2 DEF ReportOf
      <4> QED
        BY <4>1, <4>2 DEF PauseInv, Unpaused, Paused, CallFrom
    <3>10. CASE awaiting' # {}
      BY <2>1, <2>4, <3>8, <3>10 DEF PauseInv, Unpaused, Paused, CallFrom
    <3> QED
      BY <3>9, <3>10
  <2> QED
    BY <2>3, <2>4
<1>19. CASE Resume
  <2>1. main = "paused" /\ main' = "free" /\ SendAll("restart") /\ UNCHANGED <<worker, outQ>>
    BY <1>19 DEF Resume
  <2>2. NoPauseSent
    <3>1. \A w \in Workers : pipe[w] \in Seq(Messages \ {"pause"})
      BY <1>4, <1>8, <2>1, SeqMonotonic DEF Parked
    <3> QED
      BY <1>4, <2>1, <3>1 DEF NoPauseSent, Parked, Alive, At
  <2> QED
    BY <1>1, <1>4, <1>6, <1>8, <2>1, <2>2, SendsNoPause
<1>20. CASE BodyRaises
  BY <1>2, <1>20 DEF BodyRaises
<1>21. CASE WorkerDied
  BY <1>2, <1>21 DEF WorkerDied
<1>22. CASE Shutdown
  BY <1>2, <1>22 DEF Shutdown
<1>23. CASE Closed
  BY <1>2, <1>23 DEF Closed
<1>24. CASE PauseUnanswered
  <2>1. main = "pausing" /\ main' = "timed_out" /\ UNCHANGED <<worker, pipe, outQ, awaiting>>
    BY <1>24 DEF PauseUnanswered, workerVars
  <2>2. Pausing'
    BY <2>1 DEF PauseInv, Pausing, ReportsAreTrue, ReportOf, PauseIsLast, Parked, Alive, At
  <2> QED
    BY <2>1, <2>2 DEF PauseInv, Unpaused, Paused, CallFrom
<1> QED
  BY <1>9, <1>10, <1>11, <1>12, <1>13, <1>14, <1>15, <1>16, <1>17, <1>18, <1>19, <1>20,
     <1>21, <1>22, <1>23, <1>24 DEF Iterates, Waits, Gathers

LEMMA InitPause == Init => PauseInv
<1> SUFFICES ASSUME Init PROVE PauseInv
  OBVIOUS
<1>1. NoPauseSent
  BY EmptySeq DEF Init, InitWorkers, NoPauseSent, At
<1>2. NoPauseReported
  BY EmptySeq DEF Init, InitWorkers, NoPauseReported
<1> QED
  BY <1>1, <1>2 DEF Init, PauseInv, Paused, CallFrom

LEMMA NextKeepsPause == TypeInv /\ PauseInv /\ [Next]_vars => PauseInv'
<1>1. ASSUME TypeInv, PauseInv, UNCHANGED vars PROVE PauseInv'
  BY <1>1 DEF vars, coordinator, workerVars, setup, PauseInv, Unpaused, Paused, CallFrom,
              NoPauseSent, NoPauseReported, Pausing, ReportsAreTrue, ReportOf, PauseIsLast,
              Parked, Alive, At
<1> QED
  BY <1>1, WorkerKeepsPause, CoordinatorKeepsPause DEF Next

\* While the collector is paused no worker collects or writes to the replay buffer,
\* however many workers there are, whatever was asked of them before and during the
\* pause and whichever of them die (pause of MultiCollector and the inner loop of
\* _main_async_collector).
THEOREM PauseParksWorkers == Spec => []PausedMeansParked
<1>1. PauseInv => PausedMeansParked
  BY DEF PauseInv, Paused, Parked, PausedMeansParked
<1> QED
  BY <1>1, InitTypes, NextKeepsTypes, InitPause, NextKeepsPause, PTL DEF Spec
-----------------------------------------------------------------------------
(***************************************************************************)
(* Marked elements of a sequence.                                          *)
(***************************************************************************)
Some(s, M) == \E i \in 1 .. Len(s) : s[i] \in M

AtMostOne(s, M) == \A i, j \in 1 .. Len(s) : s[i] \in M /\ s[j] \in M => i = j

OutputsOf(w) == {o \in Outputs : o.worker = w}

Told(w) == Some(pipe[w], {"continue"})
Busy(w) == worker[w].at \in {"collect", "store", "send"} \/ worker[w].timedOut
Queued(w) == Some(outQ, OutputsOf(w))
Gathered(w) == Some(gathered, OutputsOf(w))

(***************************************************************************)
(* Iteration: each worker has one ticket at most -- the word to go on, the *)
(* rollout it is busy with or has to repeat, its output on the queue or in *)
(* the coordinator's hands.                                                *)
(***************************************************************************)
OneTicket(w) ==
    /\ AtMostOne(pipe[w], {"continue"})
    /\ AtMostOne(outQ, OutputsOf(w))
    /\ AtMostOne(gathered, OutputsOf(w))
    /\ Told(w) => ~Busy(w) /\ ~Queued(w) /\ ~Gathered(w)
    /\ Busy(w) => ~Queued(w) /\ ~Gathered(w)
    /\ Queued(w) => ~Gathered(w)

NoTicket(w) == ~Told(w) /\ ~Busy(w) /\ ~Queued(w) /\ ~Gathered(w)

Fresh(s) == \A i \in 1 .. Len(s) : s[i].kind = "output" /\ s[i].intact

\* No call between two batches of an asynchronous iteration tells a worker to go on
\* that was not waiting for the word.
CallsKeepTickets == AsyncCalls \cap {"reset", "worker_policy_versions"} = {}

Iterating ==
    /\ style # "free" /\ (style = "async" => CallsKeepTickets)
    /\ main \in {"new", "gather", "body"} \/ CallFrom({"new", "body"})

BetweenBatches ==
    \/ main = "new" \/ CallFrom({"new"})
    \/ style = "sync" /\ (main = "body" \/ CallFrom({"body"}))

Tickets ==
    /\ Fresh(outQ) /\ Fresh(gathered)
    /\ style = "async" => gathered = << >>
    /\ \A w \in Workers :
         /\ pipe[w] \in Seq(Requests \cup {"continue"})
         /\ ~worker[w].free /\ worker[w].at \notin {"pausing", "paused"}
         /\ OneTicket(w)
         /\ BetweenBatches => NoTicket(w)

\* What the coordinator does in which style, and for which call.
ModeInv ==
    /\ style # "free" => \/ main \in {"new", "gather", "body", "raised", "closing", "closed"}
                         \/ CallFrom({"new", "body"})
    /\ style = "free" => main \notin {"gather", "body"} /\ ~CallFrom({"body"})
    /\ main = "call" => doing \in Calls
    /\ style = "async" /\ CallFrom({"body"}) => doing \in AsyncCalls
    /\ CallFrom({"paused"}) => doing \in PausedCalls

\* The inductive invariant behind BatchIsReported.
TicketInv ==
    /\ ModeInv
    /\ Iterating => Tickets
    /\ (style = "async" => CallsKeepTickets) => BatchIsReported

-----------------------------------------------------------------------------
(***************************************************************************)
(* Failures: as long as nobody crashed and nobody shuts down.              *)
(***************************************************************************)
Up == Crashed = {} /\ main \notin {"closing", "closed"}

\* A request is under way to worker w, or its answer; and nothing else is.
Asked(w) ==
    /\ AtMostOne(pipe[w], Requests)
    /\ \A i \in 1 .. Len(pipe[w]) : pipe[w][i] \in Requests => pipe[w][i] = Request(doing)
    /\ reply[w] # << >> => reply[w] = <<Request(doing)>> /\ ~Some(pipe[w], Requests)

NotAsked(w) == reply[w] = << >> /\ ~Some(pipe[w], Requests)

AnswersFit == \A w \in Workers : IF main = "call" /\ w \in awaiting THEN Asked(w) ELSE NotAsked(w)

\* Nothing was asked of the workers but requests.
Untouched(w) ==
    /\ At(w, "poll") /\ ~worker[w].timedOut /\ ~worker[w].free
    /\ pipe[w] \in Seq(Requests)

\* A worker of an iteration, which has no other command than "continue" to repeat.
Iterated(w) ==
    /\ pipe[w] \in Seq(Requests \cup {"continue"})
    /\ worker[w].at \notin {"pausing", "paused"}
    /\ Busy(w) => worker[w].msg = "continue"
    /\ style = "sync" => ~worker[w].timedOut

\* A worker that runs free has nothing to send, and a paused one gets nothing that
\* would end it: the word to go on comes before everything else.
RunsFree(w) ==
    /\ pipe[w] \in Seq(Messages \ {"continue", "close"})
    /\ ~worker[w].timedOut /\ worker[w].at \notin {"send", "closed"}
    /\ worker[w].at \in {"collect", "store"} => worker[w].free
    /\ At(w, "pausing") => main \in {"pausing", "timed_out"}
    /\ At(w, "paused") =>
         IF main = "free" \/ CallFrom({"free"})
           THEN pipe[w] # << >> /\ Head(pipe[w]) = "restart"
           ELSE pipe[w] = << >> \/ Head(pipe[w]) \in {"restart", "cascade_execute"}
    /\ main = "abandoned" => At(w, "paused") /\ pipe[w] = << >>

OnlyPauses(s) == \A i \in 1 .. Len(s) : s[i].kind = "paused"

\* The inductive invariant behind NothingElseFails.
Sound ==
    /\ main # "raised" /\ (Dead # {} => UnreadPause)
    /\ AnswersFit
    /\ main = "new" \/ CallFrom({"new"}) => \A w \in Workers : Untouched(w)
    /\ style # "free" => \A w \in Workers : Iterated(w)
    /\ style = "free" => /\ replay /\ \A w \in Workers : RunsFree(w)
                         /\ OnlyPauses(outQ)

FailInv == Up => Sound

\* A reset between two batches of an asynchronous iteration finds workers that timed
\* out, and refuses when an output is on the queue; paused workers know one kind of
\* request.
CallsNeverFail ==
    /\ "reset" \notin AsyncCalls
    /\ PausedCalls \subseteq {"map_fn", "worker_policy_versions"}
-----------------------------------------------------------------------------
LEMMA MarkEmpty == \A M : ~Some(<< >>, M) /\ AtMostOne(<< >>, M)
BY EmptySeq DEF Some, AtMostOne

LEMMA MarkAppend ==
    ASSUME NEW S, NEW s \in Seq(S), NEW x \in S, NEW M
    PROVE  /\ Some(Append(s, x), M) <=> Some(s, M) \/ x \in M
           /\ AtMostOne(s, M) /\ (x \in M => ~Some(s, M)) => AtMostOne(Append(s, x), M)
<1>1. PICK n \in Nat : n = Len(s)
  BY LenProperties
<1> DEFINE u == Append(s, x)
<1>2. /\ Len(u) = n + 1 /\ u[n + 1] = x
      /\ \A i \in 1 .. n : u[i] = s[i]
  BY <1>1, AppendProperties
<1>3. 1 .. n + 1 = (1 .. n) \cup {n + 1}
  BY ONLY n \in Nat
<1> HIDE DEF u
<1>4. Some(u, M) <=> Some(s, M) \/ x \in M
  BY ONLY <1>1, <1>2, <1>3, Zenon DEF Some
<1>5. AtMostOne(s, M) /\ (x \in M => ~Some(s, M)) => AtMostOne(u, M)
  <2> SUFFICES ASSUME AtMostOne(s, M), x \in M => ~Some(s, M),
                      NEW i \in 1 .. n + 1, NEW j \in 1 .. n + 1, u[i] \in M, u[j] \in M
               PROVE  i = j
    BY <1>2 DEF AtMostOne
  <2>1. CASE i \in 1 .. n /\ j \in 1 .. n
    BY <1>1, <1>2, <2>1, Zenon DEF AtMostOne
  <2>2. CASE i = n + 1 /\ j \in 1 .. n
    BY <1>1, <1>2, <2>2, Zenon DEF Some
  <2>3. CASE i \in 1 .. n /\ j = n + 1
    BY <1>1, <1>2, <2>3, Zenon DEF Some
  <2> QED
    BY <1>3, <2>1, <2>2, <2>3, Zenon
<1> QED
  BY <1>4, <1>5 DEF u

LEMMA MarkTail ==
    ASSUME NEW S, NEW s \in Seq(S), s # << >>, NEW M
    PROVE  /\ Some(s, M) <=> Head(s) \in M \/ Some(Tail(s), M)
           /\ AtMostOne(s, M) => AtMostOne(Tail(s), M) /\ (Head(s) \in M => ~Some(Tail(s), M))
<1>1. Len(s) \in Nat \ {0}
  BY EmptySeq
<1>2. PICK n \in Nat : Len(s) = n + 1
  <2>1. Len(s) - 1 \in Nat /\ Len(s) = (Len(s) - 1) + 1
    BY <1>1
  <2> QED
    BY <2>1
<1> DEFINE u == Tail(s)
<1>3. Len(u) = n /\ Head(s) = s[1] /\ \A i \in 1 .. n : u[i] = s[i + 1]
  BY <1>2, HeadTailProperties
<1>4. \A i \in 1 .. n : i + 1 \in 1 .. n + 1 /\ i + 1 # 1
  BY ONLY n \in Nat
<1>5. \A i \in 1 .. n + 1 : i = 1 \/ \E j \in 1 .. n : i = j + 1
  <2>1. \A i \in 1 .. n + 1 : i # 1 => i - 1 \in 1 .. n /\ i = (i - 1) + 1
    BY ONLY n \in Nat
  <2> QED
    BY ONLY <2>1
<1>6. \A i, j \in 1 .. n : i + 1 = j + 1 => i = j
  BY ONLY n \in Nat
<1>7. 1 \in 1 .. n + 1
  BY ONLY n \in Nat
<1> HIDE DEF u
<1>8. Some(s, M) <=> Head(s) \in M \/ Some(u, M)
  <2>1. ASSUME NEW i \in 1 .. n + 1, s[i] \in M PROVE Head(s) \in M \/ Some(u, M)
    <3>1. CASE i = 1
      BY <1>3, <2>1, <3>1
    <3>2. ASSUME NEW j \in 1 .. n, i = j + 1 PROVE Some(u, M)
      BY <1>3, <2>1, <3>2 DEF Some
    <3> QED
      BY <1>5, <3>1, <3>2
  <2>2. Head(s) \in M => Some(s, M)
    BY <1>2, <1>3, <1>7 DEF Some
  <2>3. ASSUME NEW i \in 1 .. n, u[i] \in M PROVE Some(s, M)
    BY <1>2, <1>3, <1>4, <2>3 DEF Some
  <2> QED
    BY <1>2, <1>3, <2>1, <2>2, <2>3 DEF Some
<1>9. ASSUME AtMostOne(s, M) PROVE AtMostOne(u, M) /\ (Head(s) \in M => ~Some(u, M))
  <2>1. \A i, j \in 1 .. n + 1 : s[i] \in M /\ s[j] \in M => i = j
    BY <1>2, <1>9 DEF AtMostOne
  <2>2. AtMostOne(u, M)
    BY ONLY <1>3, <1>4, <1>6, <2>1, Zenon DEF AtMostOne
  <2>3. Head(s) \in M => ~Some(u, M)
    BY ONLY <1>3, <1>4, <1>7, <2>1, Zenon DEF Some
  <2> QED
    BY <2>2, <2>3
<1> QED
  BY <1>8, <1>9 DEF u

\* Nothing happens to the outputs of other workers.
LEMMA OverwrittenOthers ==
    ASSUME NEW s \in Seq(Outputs), NEW w, ~Some(s, OutputsOf(w))
    PROVE  Overwritten(s, w) = s
<1>1. /\ Overwritten(s, w) \in Seq(Outputs) /\ Len(Overwritten(s, w)) = Len(s)
      /\ DOMAIN s = 1 .. Len(s) /\ \A i \in 1 .. Len(s) : s[i] \in Outputs
  BY OverwrittenOutputs, ElementOfSeq, LenProperties
<1>2. ASSUME NEW i \in 1 .. Len(s) PROVE Overwritten(s, w)[i] = s[i]
  <2>1. s[i] \in Outputs /\ s[i].worker # w
    BY <1>1 DEF Some, OutputsOf
  <2>2. Overwritten(s, w)[i] = [s[i] EXCEPT !.intact = s[i].intact /\ s[i].worker # w]
    BY <1>1 DEF Overwritten
  <2>3. (s[i].intact /\ s[i].worker # w) = s[i].intact
    <3>1. s[i].intact \in BOOLEAN
      BY <2>1 DEF Outputs
    <3> QED
      BY <2>1, <3>1, Zenon
  <2>4. [s[i] EXCEPT !.intact = s[i].intact] = s[i]
    BY <2>1 DEF Outputs
  <2> QED
    BY <2>2, <2>3, <2>4, Zenon
<1> QED
  BY <1>1, <1>2, SeqEqual

-----------------------------------------------------------------------------
\* What a step of a worker does to its ticket.
Begins(w) ==
    /\ Busy(w)'
    /\ \/ pipe' = pipe /\ worker[w].timedOut
       \/ Takes(w) /\ Head(pipe[w]) = "continue"
    /\ UNCHANGED <<outQ, gathered>>

Sends(w) ==
    /\ Busy(w) /\ ~Busy(w)' /\ UNCHANGED <<pipe, gathered>>
    /\ outQ' = Append(outQ, [worker |-> w, kind |-> "output", intact |-> TRUE])

Rests(w) ==
    /\ Busy(w)' => Busy(w)
    /\ pipe' = pipe \/ Takes(w)
    /\ UNCHANGED <<outQ, gathered>>

LEMMA BeginsWithTicket ==
    ASSUME TypeInv, NEW w \in Workers, BeginRollout(w, FALSE), ~Queued(w), ~Gathered(w)
    PROVE  /\ Busy(w)' /\ UNCHANGED <<outQ, gathered>>
           /\ ~worker'[w].free /\ worker'[w].at = "collect"
<1>1. outQ \in Seq(Outputs) /\ gathered \in Seq(Outputs) /\ worker \in [Workers -> WorkerStates]
      /\ worker[w] \in WorkerStates
  BY DEF TypeInv, TypeOK, TypeOKWorkers
<1>2. UNCHANGED <<outQ, gathered>>
  BY <1>1, OverwrittenOthers DEF BeginRollout, Queued, Gathered
<1>3. worker'[w] = [worker[w] EXCEPT !.at = "collect", !.msg = "continue", !.free = FALSE]
  BY <1>1 DEF BeginRollout
<1>4. ~worker'[w].free /\ worker'[w].at = "collect"
  BY <1>1, <1>3 DEF WorkerStates
<1> QED
  BY <1>2, <1>4 DEF Busy

LEMMA TicketEffect ==
    ASSUME TypeInv, Iterating, Tickets, NEW w \in Workers,
           WorkerNext(w) \/ GivesUpPause(w) \/ Crash(w)
    PROVE  /\ ~worker'[w].free /\ worker'[w].at \notin {"pausing", "paused"}
           /\ Begins(w) \/ Sends(w) \/ Rests(w)
<1>0. /\ worker \in [Workers -> WorkerStates] /\ worker[w] \in WorkerStates
      /\ outQ \in Seq(Outputs) /\ gathered \in Seq(Outputs)
  BY DEF TypeInv, TypeOK, TypeOKWorkers
<1>1. /\ ~worker[w].free /\ worker[w].at \notin {"pausing", "paused"} /\ OneTicket(w)
      /\ pipe[w] \in Seq(Requests \cup {"continue"})
  BY DEF Tickets
<1>2. pipe[w] # << >> => Head(pipe[w]) \in Requests \cup {"continue"}
                         /\ (Head(pipe[w]) = "continue" => Told(w))
  <2>1. pipe[w] # << >> => Head(pipe[w]) = pipe[w][1] /\ 1 \in 1 .. Len(pipe[w])
    BY <1>1, EmptySeq
  <2> QED
    BY <1>1, <2>1, HeadTailProperties DEF Told, Some
<1>3. ASSUME NEW msgs, Receives(w, msgs)
      PROVE  Takes(w) /\ Head(pipe[w]) \in msgs /\ Head(pipe[w]) \in Requests \cup {"continue"}
  BY <1>2, <1>3 DEF Receives, Takes
<1>4. CASE StartRollout(w)
  <2>1. Takes(w) /\ Head(pipe[w]) = "continue" /\ Told(w) /\ BeginRollout(w, FALSE)
    <3>1. Receives(w, {"continue"}) /\ BeginRollout(w, FALSE)
      BY <1>4 DEF StartRollout
    <3>2. Takes(w) /\ Head(pipe[w]) \in {"continue"}
      BY <1>3, <3>1
    <3> QED
      BY <1>2, <3>1, <3>2 DEF Takes
  <2>2. ~Queued(w) /\ ~Gathered(w)
    BY <1>1, <2>1 DEF OneTicket
  <2> QED
    BY <2>1, <2>2, BeginsWithTicket DEF Begins
<1>5. CASE RepeatRollout(w)
  <2>1. worker[w].timedOut /\ UNCHANGED pipe
    BY <1>5 DEF RepeatRollout
  <2>2. ~Queued(w) /\ ~Gathered(w)
    BY <1>1, <2>1 DEF OneTicket, Busy
  <2>3. CASE worker[w].msg = "continue"
    <3>1. BeginRollout(w, FALSE)
      BY <1>5, <2>3 DEF RepeatRollout
    <3> QED
      BY <2>1, <2>2, <3>1, BeginsWithTicket DEF Begins
  <2>4. CASE worker[w].msg # "continue"
    <3>1. worker' = [worker EXCEPT ![w].at = "dead"] /\ UNCHANGED <<outQ, gathered>>
      BY <1>5, <2>4 DEF RepeatRollout
    <3>2. worker'[w].at = "dead" /\ worker'[w].free = worker[w].free
      BY <1>0, <3>1 DEF WorkerStates
    <3> QED
      BY <1>1, <2>1, <3>1, <3>2 DEF Rests, Busy
  <2> QED
    BY <2>3, <2>4
<1>6. CASE RunFree(w) \/ FreeRollout(w) \/ TakePause(w) \/ ReportPaused(w) \/ Close(w)
           \/ MessageWhilePaused(w) \/ GivesUpPause(w)
  <2>1. "run_free" \notin Requests \cup {"continue"} /\ "close" \notin Requests \cup {"continue"}
    BY DEF Requests
  <2>2. ~RunFree(w) /\ ~Close(w)
    BY <1>3, <2>1 DEF RunFree, Close
  <2> QED
    BY <1>1, <1>6, <2>2
       DEF FreeRollout, TakePause, ReportPaused, MessageWhilePaused, GivesUpPause, PauseTimesOut, At
<1>7. CASE EndRollout(w)
  <2>1. UNCHANGED <<pipe, outQ, gathered>> /\ At(w, "collect")
    BY <1>7 DEF EndRollout
  <2>2. worker'[w] = [worker[w] EXCEPT !.at = AfterRollout(w)]
    BY <1>0, <1>7 DEF EndRollout
  <2>3. worker'[w].free = worker[w].free /\ worker'[w].at \in {"poll", "store", "send"}
    BY <1>0, <2>2 DEF WorkerStates, AfterRollout
  <2> QED
    BY <1>1, <2>1, <2>3 DEF Rests, Busy, At
<1>8. CASE Store(w)
  <2>1. UNCHANGED <<pipe, outQ, gathered>> /\ At(w, "store")
    BY <1>8 DEF Store
  <2>2. worker'[w].free = worker[w].free /\ worker'[w].at \in {"poll", "send"}
    BY <1>0, <1>8 DEF Store, WorkerStates
  <2> QED
    BY <1>1, <2>1, <2>2 DEF Rests, Busy, At
<1>9. CASE Send(w)
  <2>1. UNCHANGED <<pipe, gathered>> /\ At(w, "send")
        /\ outQ' = Append(outQ, [worker |-> w, kind |-> "output", intact |-> TRUE])
    BY <1>9 DEF Send
  <2>2. worker'[w].free = worker[w].free /\ worker'[w].at = "poll" /\ ~worker'[w].timedOut
    BY <1>0, <1>9 DEF Send, Sent, WorkerStates
  <2> QED
    BY <1>1, <2>1, <2>2 DEF Sends, Busy, At
<1>10. CASE SendTimesOut(w)
  <2>1. UNCHANGED <<pipe, outQ, gathered>> /\ At(w, "send")
    BY <1>10 DEF SendTimesOut
  <2>2. worker'[w].free = worker[w].free /\ worker'[w].at = "poll"
    BY <1>0, <1>10 DEF SendTimesOut, WorkerStates
  <2> QED
    BY <1>1, <2>1, <2>2 DEF Rests, Busy, At
<1>11. CASE Answer(w)
  <2>1. Takes(w) /\ UNCHANGED <<outQ, gathered>> /\ At(w, "poll")
    BY <1>3, <1>11 DEF Answer
  <2>2. worker'[w].free = worker[w].free /\ worker'[w].at = "poll"
        /\ (worker'[w].timedOut => worker[w].timedOut)
    BY <1>0, <1>11 DEF Answer, WorkerStates, At
  <2> QED
    BY <1>1, <2>1, <2>2 DEF Rests, Busy, At
<1>12. CASE Crash(w)
  <2>1. UNCHANGED <<pipe, outQ, gathered>>
    BY <1>12 DEF Crash
  <2>2. worker'[w].free = worker[w].free /\ worker'[w].at = "crashed"
        /\ worker'[w].timedOut = worker[w].timedOut
    BY <1>0, <1>12 DEF Crash, WorkerStates
  <2> QED
    BY <1>1, <2>1, <2>2 DEF Rests, Busy
<1> QED
  BY <1>4, <1>5, <1>6, <1>7, <1>8, <1>9, <1>10, <1>11, <1>12 DEF WorkerNext
-----------------------------------------------------------------------------
LEMMA WorkerKeepsSetup ==
    ASSUME NEW w \in Workers, WorkerNext(w) \/ GivesUpPause(w) \/ Crash(w)
    PROVE  UNCHANGED setup
BY DEF WorkerNext, StartRollout, RepeatRollout, RunFree, FreeRollout, EndRollout, Store, Send,
       SendTimesOut, Answer, TakePause, ReportPaused, MessageWhilePaused, Close,
       GivesUpPause, PauseTimesOut, Crash

LEMMA ModeKept ==
    ASSUME UNCHANGED <<coordinator, setup>>
    PROVE  /\ ModeInv' <=> ModeInv
           /\ Iterating' <=> Iterating
           /\ BetweenBatches' <=> BetweenBatches
           /\ BatchIsReported' <=> BatchIsReported
BY DEF coordinator, setup, ModeInv, Iterating, BetweenBatches, BatchIsReported, CallFrom,
       CallsKeepTickets

\* What a worker takes off its pipe, as far as the word to go on is concerned.
LEMMA TakenWord ==
    ASSUME TypeInv, NEW w \in Workers, Takes(w)
    PROVE  /\ Told(w)' => Told(w)
           /\ AtMostOne(pipe[w], {"continue"}) =>
                /\ AtMostOne(pipe[w], {"continue"})'
                /\ Head(pipe[w]) = "continue" => ~Told(w)'
           /\ Head(pipe[w]) = "continue" => Told(w)
<1>1. pipe'[w] = Tail(pipe[w]) /\ pipe[w] # << >> /\ pipe[w] \in Seq(Messages)
  BY DEF Takes, TypeInv, TypeOK, TypeOKWorkers
<1>2. /\ Some(pipe[w], {"continue"}) <=> Head(pipe[w]) \in {"continue"} \/ Some(Tail(pipe[w]), {"continue"})
      /\ AtMostOne(pipe[w], {"continue"}) =>
           AtMostOne(Tail(pipe[w]), {"continue"})
             /\ (Head(pipe[w]) \in {"continue"} => ~Some(Tail(pipe[w]), {"continue"}))
  BY <1>1, MarkTail
<1>3. /\ Told(w) = Some(pipe[w], {"continue"})
      /\ Told(w)' = Some(Tail(pipe[w]), {"continue"})
  BY <1>1, Zenon DEF Told
<1>4. AtMostOne(pipe[w], {"continue"})' = AtMostOne(Tail(pipe[w]), {"continue"})
  BY <1>1, Zenon DEF AtMostOne
<1> QED
  BY <1>2, <1>3, <1>4

\* The steps of a worker keep the tickets.
LEMMA WorkerKeepsTickets ==
    ASSUME TypeInv, TicketInv, NEW w \in Workers, UNCHANGED coordinator,
           WorkerNext(w) \/ GivesUpPause(w) \/ Crash(w)
    PROVE  TicketInv'
<1>1. UNCHANGED <<coordinator, setup>>
  BY WorkerKeepsSetup
<1>2. SUFFICES ASSUME Iterating PROVE Tickets'
  BY <1>1, ModeKept DEF TicketInv, setup
<1>3. Tickets
  BY <1>2 DEF TicketInv
<1>4. /\ OnlyIts(w) /\ (pipe' = pipe \/ Takes(w))
      /\ ~worker'[w].free /\ worker'[w].at \notin {"pausing", "paused"}
      /\ Begins(w) \/ Sends(w) \/ Rests(w)
  BY <1>2, <1>3, WorkerEffect, TicketEffect
<1>5. pipe \in [Workers -> Seq(Messages)] /\ outQ \in Seq(Outputs) /\ gathered \in Seq(Outputs)
  BY DEF TypeInv, TypeOK, TypeOKWorkers
<1>6. \A v \in Workers \ {w} : worker'[v] = worker[v] /\ pipe'[v] = pipe[v]
  BY <1>4, <1>5 DEF OnlyIts, Takes
<1> DEFINE o == [worker |-> w, kind |-> "output", intact |-> TRUE]
<1>7. o \in Outputs /\ \A v \in Workers : o \in OutputsOf(v) <=> v = w
  BY DEF Outputs, OutputsOf
<1>8. gathered' = gathered
  BY <1>4 DEF Begins, Sends, Rests
<1>9. CASE Sends(w)
  <2>1. outQ' = Append(outQ, o) /\ pipe' = pipe /\ Busy(w) /\ ~Busy(w)'
    BY <1>9 DEF Sends
  <2> HIDE DEF o
  <2>2. \A v \in Workers : /\ Queued(v)' <=> Queued(v) \/ v = w
                           /\ AtMostOne(outQ, OutputsOf(v)) /\ (v = w => ~Queued(v)) =>
                                AtMostOne(outQ', OutputsOf(v))
    BY <1>5, <1>7, <2>1, MarkAppend DEF Queued
  <2>3. Fresh(outQ')
    <3>1. PICK n \in Nat : n = Len(outQ)
      BY <1>5, LenProperties
    <3>2. /\ Len(outQ') = n + 1 /\ outQ'[n + 1] = o
          /\ \A i \in 1 .. n : outQ'[i] = outQ[i]
      BY <1>5, <1>7, <2>1, <3>1, AppendProperties
    <3>3. 1 .. n + 1 = (1 .. n) \cup {n + 1}
      BY ONLY n \in Nat
    <3>4. o.kind = "output" /\ o.intact
      BY DEF o
    <3> QED
      BY <1>3, <3>1, <3>2, <3>3, <3>4, Zenon DEF Fresh, Tickets
  <2>4. ASSUME NEW v \in Workers
        PROVE  /\ pipe'[v] \in Seq(Requests \cup {"continue"})
               /\ ~worker'[v].free /\ worker'[v].at \notin {"pausing", "paused"}
               /\ OneTicket(v)'
               /\ BetweenBatches' => NoTicket(v)'
    <3>1. /\ Told(v)' <=> Told(v)
          /\ Gathered(v)' <=> Gathered(v)
          /\ AtMostOne(pipe[v], {"continue"})' <=> AtMostOne(pipe[v], {"continue"})
          /\ AtMostOne(gathered, OutputsOf(v))' <=> AtMostOne(gathered, OutputsOf(v))
      BY <1>8, <2>1 DEF Told, Gathered
    <3>2. v # w => (Busy(v)' <=> Busy(v))
      BY <1>6 DEF Busy
    <3>3. OneTicket(v) /\ (BetweenBatches => NoTicket(v)) /\ (BetweenBatches' <=> BetweenBatches)
      BY <1>1, <1>3, ModeKept DEF Tickets
    <3>4. OneTicket(v)' /\ (BetweenBatches' => NoTicket(v)')
      BY <2>1, <2>2, <3>1, <3>2, <3>3 DEF OneTicket, NoTicket
    <3> QED
      BY <1>3, <1>4, <1>6, <2>1, <3>4 DEF Tickets
  <2> QED
    BY <1>1, <1>3, <1>8, <2>3, <2>4 DEF Tickets, setup
<1>10. CASE Begins(w) \/ Rests(w)
  <2>1. outQ' = outQ
    BY <1>10 DEF Begins, Rests
  <2>2. ASSUME NEW v \in Workers
        PROVE  /\ pipe'[v] \in Seq(Requests \cup {"continue"})
               /\ ~worker'[v].free /\ worker'[v].at \notin {"pausing", "paused"}
               /\ OneTicket(v)'
               /\ BetweenBatches' => NoTicket(v)'
    <3>1. /\ Queued(v)' <=> Queued(v)
          /\ Gathered(v)' <=> Gathered(v)
          /\ AtMostOne(outQ, OutputsOf(v))' <=> AtMostOne(outQ, OutputsOf(v))
          /\ AtMostOne(gathered, OutputsOf(v))' <=> AtMostOne(gathered, OutputsOf(v))
      BY <1>8, <2>1 DEF Queued, Gathered
    <3>2. OneTicket(v) /\ (BetweenBatches => NoTicket(v)) /\ (BetweenBatches' <=> BetweenBatches)
      BY <1>1, <1>3, ModeKept DEF Tickets
    <3>3. CASE v # w
      <4>1. /\ Told(v)' <=> Told(v)
            /\ AtMostOne(pipe[v], {"continue"})' <=> AtMostOne(pipe[v], {"continue"})
            /\ Busy(v)' <=> Busy(v)
        BY <1>6, <3>3 DEF Told, Busy
      <4>2. OneTicket(v)' /\ (BetweenBatches' => NoTicket(v)')
        BY <3>1, <3>2, <4>1 DEF OneTicket, NoTicket
      <4> QED
        BY <1>3, <1>6, <3>3, <4>2 DEF Tickets
    <3>4. CASE v = w
      <4>1. pipe'[w] \in Seq(Requests \cup {"continue"})
        BY <1>3, <1>4, PipeShrinks DEF Tickets
      <4>2. \/ /\ Told(w)' <=> Told(w)
               /\ AtMostOne(pipe[w], {"continue"})' <=> AtMostOne(pipe[w], {"continue"})
               /\ pipe' = pipe
            \/ /\ Told(w)' => Told(w)
               /\ AtMostOne(pipe[w], {"continue"}) =>
                    /\ AtMostOne(pipe[w], {"continue"})'
                    /\ Head(pipe[w]) = "continue" => ~Told(w)'
               /\ Head(pipe[w]) = "continue" => Told(w)
        <5>1. CASE pipe' = pipe
          BY <5>1 DEF Told
        <5>2. CASE Takes(w)
          BY <5>2, TakenWord
        <5> QED
          BY <1>4, <5>1, <5>2
      <4>3. CASE Rests(w)
        <5>1. Busy(w)' => Busy(w)
          BY <4>3 DEF Rests
        <5> QED
          BY <1>4, <3>1, <3>2, <3>4, <4>1, <4>2, <5>1 DEF OneTicket, NoTicket
      <4>4. CASE Begins(w)
        <5>1. /\ Busy(w)'
              /\ \/ Busy(w) /\ pipe' = pipe
                 \/ Told(w) /\ ~Told(w)'
          <6>1. CASE pipe' = pipe /\ worker[w].timedOut
            BY <4>4, <6>1 DEF Begins, Busy
          <6>2. CASE Takes(w) /\ Head(pipe[w]) = "continue"
            BY <3>2, <3>4, <4>4, <6>2, TakenWord DEF Begins, OneTicket
          <6> QED
            BY <4>4, <6>1, <6>2 DEF Begins
        <5>2. Told(w)' => Told(w)
          BY <4>2
        <5>3. AtMostOne(pipe[w], {"continue"})'
          BY <3>2, <3>4, <4>2 DEF OneTicket
        <5>4. ~BetweenBatches
          BY <3>2, <3>4, <5>1 DEF NoTicket
        <5>5. OneTicket(w)'
          BY <3>1, <3>2, <3>4, <5>1, <5>2, <5>3, <4>2 DEF OneTicket
        <5> QED
          BY <1>4, <3>2, <3>4, <4>1, <5>4, <5>5
      <4> QED
        BY <1>10, <4>3, <4>4
    <3> QED
      BY <3>3, <3>4
  <2>3. Fresh(outQ') /\ Fresh(gathered')
    BY <1>3, <1>8, <2>1 DEF Tickets
  <2> QED
    BY <1>1, <1>3, <1>8, <2>2, <2>3 DEF Tickets, setup
<1> QED
  BY <1>4, <1>9, <1>10
-----------------------------------------------------------------------------
\* Outputs of different workers, and none of worker w: there are fewer of them than
\* workers.
LEMMA RoomForEach ==
    ASSUME NEW s \in Seq(Outputs), \A v \in Workers : AtMostOne(s, OutputsOf(v)),
           NEW w \in Workers, ~Some(s, OutputsOf(w))
    PROVE  Len(s) < NumWorkers
<1>1. PICK n \in Nat : n = Len(s)
  BY LenProperties
<1>2. SUFFICES ASSUME ~(n < NumWorkers) PROVE FALSE
  BY <1>1
<1> DEFINE others == Workers \ {w}
           from == [i \in 1 .. n |-> s[i].worker]
<1>3. ASSUME NEW i \in 1 .. n
      PROVE  s[i].worker \in Workers /\ s[i] \in OutputsOf(s[i].worker)
  <2>1. s[i] \in Outputs
    BY <1>1, ElementOfSeq
  <2> QED
    BY <2>1 DEF Outputs, OutputsOf
<1>4. \A i \in 1 .. n : s[i].worker # w
  BY <1>1, <1>3 DEF Some
<1>5. from \in [1 .. n -> others]
  BY <1>3, <1>4
<1>6. \A i, j \in 1 .. n : from[i] = from[j] => i = j
  <2>1. SUFFICES ASSUME NEW i \in 1 .. n, NEW j \in 1 .. n, s[i].worker = s[j].worker
                 PROVE  i = j
    OBVIOUS
  <2>2. s[i].worker \in Workers /\ s[i] \in OutputsOf(s[i].worker) /\ s[j] \in OutputsOf(s[i].worker)
    BY <1>3, <2>1
  <2> QED
    BY <1>1, <2>2, Zenon DEF AtMostOne
<1>7. IsFiniteSet(1 .. n) /\ Cardinality(1 .. n) = n
  <2>1. 1 \in Int /\ n \in Int /\ (IF 1 > n THEN 0 ELSE n - 1 + 1) = n
    BY ONLY n \in Nat
  <2>2. IsFiniteSet(1 .. n) /\ Cardinality(1 .. n) = IF 1 > n THEN 0 ELSE n - 1 + 1
    BY ONLY <2>1, FS_Interval
  <2> QED
    BY ONLY <2>1, <2>2
<1>8. IsFiniteSet(Workers) /\ Cardinality(Workers) = NumWorkers
  <2>1. NumWorkers \in Nat \ {0} /\ NumWorkers - 1 \in Int /\ 0 \in Int
    BY WorkersAssumption
  <2>2. /\ IsFiniteSet(0 .. NumWorkers - 1)
        /\ Cardinality(0 .. NumWorkers - 1) =
             IF 0 > NumWorkers - 1 THEN 0 ELSE NumWorkers - 1 - 0 + 1
    BY <2>1, FS_Interval
  <2> QED
    BY <2>1, <2>2 DEF Workers
<1>9. IsFiniteSet(others) /\ Cardinality(others) = NumWorkers - 1
  BY <1>8, FS_RemoveElement
<1>10. Cardinality(others) < Cardinality(1 .. n)
  BY <1>2, <1>7, <1>9, WorkersAssumption
<1> HIDE DEF others, from
<1>11. \E i, j \in 1 .. n : i # j /\ from[i] = from[j]
  BY ONLY <1>5, <1>7, <1>9, <1>10, FS_PigeonHole
<1> QED
  BY <1>6, <1>11

\* The style and the calls allow what the coordinator does next.
LEMMA CoordinatorKeepsMode ==
    ASSUME TypeInv, ModeInv,
           \/ Iterates \/ Waits
           \/ \E call \in Calls : Call(call)
           \/ StartFree \/ Pause \/ PauseUnanswered \/ Resume \/ BodyRaises
           \/ WorkerDied \/ Shutdown
    PROVE  ModeInv' /\ UNCHANGED setup
<1> USE DEF ModeInv, CallFrom
<1>1. CASE Iterates \/ Gathers \/ Closed \/ WorkerDied \/ Shutdown
  BY <1>1 DEF Iterates, Gathers, AskForBatch, NextBatch, GatherAsync, Gather, Stack, Closed,
              WorkerDied, Shutdown, workerVars, setup, coordinator
<1>2. CASE StartFree \/ Pause \/ PauseUnanswered \/ Resume \/ BodyRaises \/ ReadPaused
  BY <1>2 DEF StartFree, Pause, PauseUnanswered, Resume, BodyRaises, ReadPaused, workerVars,
              setup
<1>3. ASSUME NEW call \in Calls, Call(call)
      PROVE  ModeInv' /\ UNCHANGED setup
  <2>1. /\ call \in CallsNow
        /\ main' = "call" /\ doing' = call /\ resumes' = main /\ UNCHANGED setup
    BY <1>3 DEF Call
  <2>2. /\ main \in {"new", "body", "free", "paused"}
        /\ main = "body" /\ style = "async" => call \in AsyncCalls
        /\ main = "paused" => call \in PausedCalls
    BY <2>1 DEF CallsNow
  <2> QED
    BY <2>1, <2>2 DEF setup
<1>4. CASE ReadAnswer
  <2>1. main = "call" /\ UNCHANGED <<setup, resumes>>
    BY <1>4 DEF ReadAnswer
  <2>2. main' \in {"raised", resumes} \/ (main' = main /\ doing' = doing)
    BY <1>4 DEF ReadAnswer, AfterCall
  <2>3. resumes \in {"new", "body", "free", "paused"}
    BY DEF TypeInv, TypeOK
  <2> QED
    BY <2>1, <2>2, <2>3 DEF setup
<1> QED
  BY <1>1, <1>2, <1>3, <1>4 DEF Waits

LEMMA TicketsStay ==
    ASSUME Tickets, UNCHANGED <<setup, worker, pipe, outQ, gathered>>,
           BetweenBatches' => BetweenBatches
    PROVE  Tickets'
<1>1. Fresh(outQ)' /\ Fresh(gathered)' /\ (style' = "async" => gathered' = << >>)
  BY DEF Tickets, Fresh, setup
<1>2. ASSUME NEW w \in Workers
      PROVE  /\ pipe'[w] \in Seq(Requests \cup {"continue"})
             /\ ~worker'[w].free /\ worker'[w].at \notin {"pausing", "paused"}
             /\ OneTicket(w)' /\ (BetweenBatches' => NoTicket(w)')
  BY DEF Tickets, OneTicket, NoTicket, AtMostOne, Told, Busy, Queued, Gathered, Some
<1> QED
  BY <1>1, <1>2 DEF Tickets

\* A message for worker w, as far as the word to go on is concerned.
LEMMA SentWord ==
    ASSUME TypeInv, NEW w \in Workers, NEW msg \in Requests \cup {"continue"},
           pipe'[w] = Append(pipe[w], msg)
    PROVE  /\ Told(w)' <=> Told(w) \/ msg = "continue"
           /\ AtMostOne(pipe[w], {"continue"}) /\ (msg = "continue" => ~Told(w)) =>
                AtMostOne(pipe[w], {"continue"})'
           /\ pipe[w] \in Seq(Requests \cup {"continue"}) =>
                pipe'[w] \in Seq(Requests \cup {"continue"})
<1>1. pipe[w] \in Seq(Messages) /\ msg \in Messages
  BY DEF TypeInv, TypeOK, TypeOKWorkers, Messages
<1>2. /\ Some(Append(pipe[w], msg), {"continue"}) <=> Some(pipe[w], {"continue"}) \/ msg \in {"continue"}
      /\ AtMostOne(pipe[w], {"continue"}) /\ (msg \in {"continue"} => ~Some(pipe[w], {"continue"})) =>
           AtMostOne(Append(pipe[w], msg), {"continue"})
  BY <1>1, MarkAppend
<1>3. /\ Told(w) = Some(pipe[w], {"continue"})
      /\ Told(w)' = Some(Append(pipe[w], msg), {"continue"})
      /\ AtMostOne(pipe[w], {"continue"})' = AtMostOne(Append(pipe[w], msg), {"continue"})
  BY Zenon DEF Told, AtMostOne
<1>4. pipe[w] \in Seq(Requests \cup {"continue"}) =>
          Append(pipe[w], msg) \in Seq(Requests \cup {"continue"})
  BY AppendProperties
<1> QED
  BY <1>2, <1>3, <1>4

\* The next output on the queue, as far as the tickets of the workers are concerned.
LEMMA NextOutput ==
    ASSUME TypeInv, Tickets, outQ # << >>, outQ' = Tail(outQ)
    PROVE  /\ Head(outQ) \in Outputs /\ Head(outQ).kind = "output" /\ Head(outQ).intact
           /\ Fresh(outQ')
           /\ \A w \in Workers :
                /\ Head(outQ) \in OutputsOf(w) <=> w = Head(outQ).worker
                /\ Queued(w) <=> w = Head(outQ).worker \/ Queued(w)'
                /\ AtMostOne(outQ, OutputsOf(w))'
                /\ w = Head(outQ).worker => ~Queued(w)'
<1>1. outQ \in Seq(Outputs)
  BY DEF TypeInv, TypeOK, TypeOKWorkers
<1>2. PICK n \in Nat : n = Len(outQ)
  BY <1>1, LenProperties
<1>3. n # 0
  BY <1>1, <1>2, EmptySeq
<1>4. /\ Head(outQ) = outQ[1] /\ Head(outQ) \in Outputs
      /\ Len(outQ') = n - 1 /\ \A i \in 1 .. n - 1 : outQ'[i] = outQ[i + 1]
  BY <1>1, <1>2, HeadTailProperties
<1>5. 1 \in 1 .. n /\ \A i \in 1 .. n - 1 : i + 1 \in 1 .. n
  BY ONLY n \in Nat, <1>3
<1>6. Fresh(outQ)
  BY DEF Tickets
<1>7. Head(outQ).kind = "output" /\ Head(outQ).intact /\ Fresh(outQ')
  BY <1>2, <1>4, <1>5, <1>6 DEF Fresh
<1>8. ASSUME NEW w \in Workers
      PROVE  /\ Head(outQ) \in OutputsOf(w) <=> w = Head(outQ).worker
             /\ Queued(w) <=> w = Head(outQ).worker \/ Queued(w)'
             /\ AtMostOne(outQ, OutputsOf(w))'
             /\ w = Head(outQ).worker => ~Queued(w)'
  <2>1. Head(outQ) \in OutputsOf(w) <=> w = Head(outQ).worker
    BY <1>4 DEF OutputsOf
  <2>2. AtMostOne(outQ, OutputsOf(w))
    BY DEF Tickets, OneTicket
  <2>3. /\ Some(outQ, OutputsOf(w)) <=> Head(outQ) \in OutputsOf(w) \/ Some(Tail(outQ), OutputsOf(w))
        /\ AtMostOne(outQ, OutputsOf(w)) =>
             /\ AtMostOne(Tail(outQ), OutputsOf(w))
             /\ Head(outQ) \in OutputsOf(w) => ~Some(Tail(outQ), OutputsOf(w))
    BY <1>1, MarkTail
  <2>4. /\ Queued(w) = Some(outQ, OutputsOf(w)) /\ Queued(w)' = Some(Tail(outQ), OutputsOf(w))
        /\ AtMostOne(outQ, OutputsOf(w))' = AtMostOne(Tail(outQ), OutputsOf(w))
    BY Zenon DEF Queued, AtMostOne
  <2> QED
    BY <2>1, <2>2, <2>3, <2>4
<1> QED
  BY <1>4, <1>7, <1>8

\* All workers are told to go on, or asked something.
LEMMA WordToAll ==
    ASSUME TypeInv, Tickets, NEW msg \in Requests \cup {"continue"}, SendAll(msg),
           UNCHANGED <<setup, worker, outQ, gathered>>,
           IF msg = "continue" THEN BetweenBatches /\ ~BetweenBatches'
                               ELSE BetweenBatches' => BetweenBatches
    PROVE  Tickets'
<1>1. Fresh(outQ)' /\ Fresh(gathered)' /\ (style' = "async" => gathered' = << >>)
  BY DEF Tickets, Fresh, setup
<1>2. ASSUME NEW w \in Workers
      PROVE  /\ pipe'[w] \in Seq(Requests \cup {"continue"})
             /\ ~worker'[w].free /\ worker'[w].at \notin {"pausing", "paused"}
             /\ OneTicket(w)' /\ (BetweenBatches' => NoTicket(w)')
  <2>1. pipe'[w] = Append(pipe[w], msg)
    BY DEF SendAll
  <2>2. /\ pipe[w] \in Seq(Requests \cup {"continue"}) /\ OneTicket(w)
        /\ BetweenBatches => NoTicket(w)
    BY DEF Tickets
  <2>3. /\ Told(w)' <=> Told(w) \/ msg = "continue"
        /\ msg # "continue" \/ ~Told(w) => AtMostOne(pipe[w], {"continue"})'
        /\ pipe'[w] \in Seq(Requests \cup {"continue"})
    BY <2>1, <2>2, SentWord DEF OneTicket
  <2>4. /\ Busy(w)' <=> Busy(w)
        /\ Queued(w)' <=> Queued(w)
        /\ Gathered(w)' <=> Gathered(w)
    BY DEF Busy, Queued, Gathered
  <2>5. /\ AtMostOne(outQ, OutputsOf(w))' <=> AtMostOne(outQ, OutputsOf(w))
        /\ AtMostOne(gathered, OutputsOf(w))' <=> AtMostOne(gathered, OutputsOf(w))
    BY DEF AtMostOne
  <2>6. OneTicket(w)' /\ (BetweenBatches' => NoTicket(w)')
    BY <2>2, <2>3, <2>4, <2>5 DEF OneTicket, NoTicket
  <2> QED
    BY <2>3, <2>6 DEF Tickets
<1> QED
  BY <1>1, <1>2 DEF Tickets

\* The coordinator takes an output and tells its worker to go on.
LEMMA GatherAsyncKeepsTickets ==
    ASSUME TypeInv, Tickets, GatherAsync
    PROVE  Tickets' /\ BatchIsReported'
<1>1. /\ style = "async" /\ outQ # << >> /\ outQ' = Tail(outQ) /\ batch' = <<Head(outQ)>>
      /\ pipe' = [pipe EXCEPT ![Head(outQ).worker] = Append(@, "continue")]
      /\ main' = "body" /\ UNCHANGED <<setup, worker, gathered>>
  BY DEF GatherAsync
<1>2. /\ Head(outQ) \in Outputs /\ Head(outQ).kind = "output" /\ Head(outQ).intact
      /\ Fresh(outQ')
      /\ \A w \in Workers :
           /\ Queued(w) <=> w = Head(outQ).worker \/ Queued(w)'
           /\ AtMostOne(outQ, OutputsOf(w))'
           /\ w = Head(outQ).worker => ~Queued(w)'
  BY <1>1, NextOutput
<1>3. PICK v \in Workers : v = Head(outQ).worker
  BY <1>2 DEF Outputs
<1>4. /\ pipe \in [Workers -> Seq(Messages)]
      /\ pipe' = [pipe EXCEPT ![v] = Append(pipe[v], "continue")]
  BY <1>1, <1>3 DEF TypeInv, TypeOK, TypeOKWorkers
<1>5. ~BetweenBatches' /\ style' = "async"
  BY <1>1 DEF BetweenBatches, CallFrom, setup
<1>6. ASSUME NEW w \in Workers
      PROVE  /\ pipe'[w] \in Seq(Requests \cup {"continue"})
             /\ ~worker'[w].free /\ worker'[w].at \notin {"pausing", "paused"}
             /\ OneTicket(w)'
  <2>1. pipe[w] \in Seq(Requests \cup {"continue"}) /\ OneTicket(w)
    BY DEF Tickets
  <2>2. /\ Busy(w)' <=> Busy(w)
        /\ Gathered(w)' <=> Gathered(w)
        /\ AtMostOne(gathered, OutputsOf(w))' <=> AtMostOne(gathered, OutputsOf(w))
    BY <1>1 DEF Busy, Gathered
  <2>3. /\ Told(w)' <=> Told(w) \/ w = v
        /\ AtMostOne(pipe[w], {"continue"})'
        /\ pipe'[w] \in Seq(Requests \cup {"continue"})
    <3>1. CASE w = v
      <4>1. pipe'[w] = Append(pipe[w], "continue") /\ ~Told(w)
        BY <1>2, <1>3, <1>4, <2>1, <3>1 DEF OneTicket
      <4> QED
        BY <2>1, <3>1, <4>1, SentWord DEF OneTicket
    <3>2. CASE w # v
      <4>1. pipe'[w] = pipe[w]
        BY <1>4, <3>2
      <4> QED
        BY <2>1, <3>2, <4>1 DEF Told, OneTicket, AtMostOne
    <3> QED
      BY <3>1, <3>2
  <2>4. OneTicket(w)'
    BY <1>2, <1>3, <2>1, <2>2, <2>3 DEF OneTicket
  <2> QED
    BY <1>1, <2>3, <2>4 DEF Tickets
<1>7. Tickets'
  BY <1>1, <1>2, <1>5, <1>6 DEF Tickets, Fresh, setup
<1>8. BatchIsReported'
  <2> DEFINE h == Head(outQ)
  <2>1. batch' = <<h>> /\ h.kind = "output" /\ h.intact
    BY <1>1, <1>2
  <2> HIDE DEF h
  <2> QED
    BY <1>5, <2>1 DEF BatchIsReported
<1> QED
  BY <1>7, <1>8

\* The coordinator takes the output of one of the workers.
LEMMA GatherKeepsTickets ==
    ASSUME TypeInv, Tickets, Gather
    PROVE  Tickets'
<1>1. /\ style = "sync" /\ main = "gather" /\ outQ # << >> /\ outQ' = Tail(outQ)
      /\ gathered' = Append(gathered, Head(outQ))
      /\ main' = main /\ UNCHANGED <<setup, worker, pipe>>
  BY DEF Gather, coordinator
<1> DEFINE h == Head(outQ)
<1>2. /\ h \in Outputs /\ h.kind = "output" /\ h.intact /\ Fresh(outQ')
      /\ \A w \in Workers :
           /\ h \in OutputsOf(w) <=> w = h.worker
           /\ Queued(w) <=> w = h.worker \/ Queued(w)'
           /\ AtMostOne(outQ, OutputsOf(w))'
           /\ w = h.worker => ~Queued(w)'
  BY <1>1, NextOutput
<1>3. gathered \in Seq(Outputs) /\ gathered' = Append(gathered, h)
  BY <1>1 DEF TypeInv, TypeOK, TypeOKWorkers
<1> HIDE DEF h
<1>4. ~BetweenBatches' /\ style' = "sync"
  BY <1>1 DEF BetweenBatches, CallFrom, setup
<1>5. ASSUME NEW w \in Workers
      PROVE  /\ pipe'[w] \in Seq(Requests \cup {"continue"})
             /\ ~worker'[w].free /\ worker'[w].at \notin {"pausing", "paused"}
             /\ OneTicket(w)'
  <2>1. pipe[w] \in Seq(Requests \cup {"continue"}) /\ OneTicket(w)
    BY DEF Tickets
  <2>2. /\ Busy(w)' <=> Busy(w)
        /\ Told(w)' <=> Told(w)
        /\ AtMostOne(pipe[w], {"continue"})' <=> AtMostOne(pipe[w], {"continue"})
    BY <1>1 DEF Busy, Told
  <2>3. /\ Gathered(w)' <=> Gathered(w) \/ w = h.worker
        /\ AtMostOne(gathered, OutputsOf(w)) /\ (w = h.worker => ~Gathered(w)) =>
             AtMostOne(gathered, OutputsOf(w))'
    <3>1. /\ Some(Append(gathered, h), OutputsOf(w)) <=> Some(gathered, OutputsOf(w)) \/ h \in OutputsOf(w)
          /\ AtMostOne(gathered, OutputsOf(w)) /\ (h \in OutputsOf(w) => ~Some(gathered, OutputsOf(w))) =>
               AtMostOne(Append(gathered, h), OutputsOf(w))
      BY <1>2, <1>3, MarkAppend
    <3>2. /\ Gathered(w) = Some(gathered, OutputsOf(w))
          /\ Gathered(w)' = Some(Append(gathered, h), OutputsOf(w))
          /\ AtMostOne(gathered, OutputsOf(w))' = AtMostOne(Append(gathered, h), OutputsOf(w))
      BY <1>3, Zenon DEF Gathered, AtMostOne
    <3> QED
      BY <1>2, <3>1, <3>2
  <2>4. OneTicket(w)'
    BY <1>2, <2>1, <2>2, <2>3 DEF OneTicket
  <2> QED
    BY <1>1, <2>1, <2>4 DEF Tickets
<1>6. Fresh(gathered')
  <2>1. PICK n \in Nat : n = Len(gathered)
    BY <1>3, LenProperties
  <2>2. /\ Len(gathered') = n + 1 /\ gathered'[n + 1] = h
        /\ \A i \in 1 .. n : gathered'[i] = gathered[i]
    BY <1>2, <1>3, <2>1, AppendProperties
  <2>3. 1 .. n + 1 = (1 .. n) \cup {n + 1}
    BY ONLY n \in Nat
  <2>4. \A i \in 1 .. n : gathered[i].kind = "output" /\ gathered[i].intact
    BY <2>1 DEF Fresh, Tickets
  <2>5. ASSUME NEW i \in 1 .. n + 1 PROVE gathered'[i].kind = "output" /\ gathered'[i].intact
    <3>1. CASE i \in 1 .. n
      BY <2>2, <2>4, <3>1, Zenon
    <3>2. CASE i = n + 1
      BY <1>2, <2>2, <3>2, Zenon
    <3> QED
      BY <2>3, <3>1, <3>2, Zenon
  <2> QED
    BY <2>2, <2>5 DEF Fresh
<1>7. QED
  BY <1>1, <1>2, <1>4, <1>5, <1>6 DEF Tickets, Fresh

\* The batch of a synchronous iteration has an output of every worker, and no worker
\* has anything left.
LEMMA StackKeepsTickets ==
    ASSUME TypeInv, Tickets, Stack
    PROVE  Tickets' /\ BatchIsReported'
<1>1. /\ style = "sync" /\ Len(gathered) = NumWorkers /\ batch' = gathered
      /\ gathered' = << >> /\ UNCHANGED <<setup, worker, pipe, outQ>>
  BY DEF Stack
<1>2. gathered \in Seq(Outputs) /\ Fresh(gathered) /\ style' = "sync"
  BY <1>1 DEF TypeInv, TypeOK, TypeOKWorkers, Tickets, setup
<1>3. \A w \in Workers : Gathered(w)
  <2>1. \A w \in Workers : AtMostOne(gathered, OutputsOf(w))
    BY DEF Tickets, OneTicket
  <2> QED
    BY <1>1, <1>2, <2>1, RoomForEach, WorkersAssumption DEF Gathered
<1>4. ASSUME NEW w \in Workers
      PROVE  /\ pipe'[w] \in Seq(Requests \cup {"continue"})
             /\ ~worker'[w].free /\ worker'[w].at \notin {"pausing", "paused"}
             /\ OneTicket(w)' /\ NoTicket(w)'
  <2>1. pipe[w] \in Seq(Requests \cup {"continue"}) /\ OneTicket(w)
    BY DEF Tickets
  <2>2. /\ Busy(w)' <=> Busy(w)
        /\ Told(w)' <=> Told(w)
        /\ Queued(w)' <=> Queued(w)
        /\ AtMostOne(pipe[w], {"continue"})' <=> AtMostOne(pipe[w], {"continue"})
        /\ AtMostOne(outQ, OutputsOf(w))' <=> AtMostOne(outQ, OutputsOf(w))
    BY <1>1 DEF Busy, Told, Queued
  <2>3. ~Gathered(w)' /\ AtMostOne(gathered, OutputsOf(w))'
    BY <1>1, MarkEmpty DEF Gathered
  <2>4. OneTicket(w)' /\ NoTicket(w)'
    BY <1>3, <2>1, <2>2, <2>3 DEF OneTicket, NoTicket
  <2> QED
    BY <1>1, <2>1, <2>4 DEF Tickets
<1>5. Tickets'
  <2>1. Fresh(outQ') /\ Fresh(gathered')
    BY <1>1, EmptySeq DEF Tickets, Fresh
  <2> QED
    BY <1>2, <1>4, <2>1 DEF Tickets
<1>6. BatchIsReported'
  <2>1. DOMAIN gathered = 1 .. Len(gathered) /\ \A i \in 1 .. Len(gathered) : gathered[i] \in Outputs
    BY <1>2, LenProperties, ElementOfSeq
  <2>2. \A i \in DOMAIN batch' : batch'[i].kind = "output" /\ batch'[i].intact
    BY <1>1, <1>2, <2>1 DEF Fresh
  <2>3. \A i \in DOMAIN gathered : gathered[i].worker \in Workers
    BY <2>1 DEF Outputs
  <2>4. \A w \in Workers : \E i \in DOMAIN gathered : gathered[i].worker = w
    BY <1>3, <2>1 DEF Gathered, Some, OutputsOf
  <2>5. {batch'[i].worker : i \in DOMAIN batch'} = Workers
    BY <1>1, <2>3, <2>4
  <2> QED
    BY <2>2, <2>5 DEF BatchIsReported
<1> QED
  BY <1>5, <1>6

\* What a batch was when it was handed out it remains.
LEMMA BatchStays ==
    ASSUME BatchIsReported, UNCHANGED <<batch, setup>>
    PROVE  BatchIsReported'
BY DEF BatchIsReported, setup

\* The steps of the coordinator keep the tickets.
LEMMA CoordinatorKeepsTickets ==
    ASSUME TypeInv, TicketInv,
           \/ Iterates \/ Waits
           \/ \E call \in Calls : Call(call)
           \/ StartFree \/ Pause \/ PauseUnanswered \/ Resume \/ BodyRaises
           \/ WorkerDied \/ Shutdown
    PROVE  TicketInv'
<1>1. ModeInv /\ ModeInv' /\ UNCHANGED setup
  BY CoordinatorKeepsMode DEF TicketInv
<1>2. ASSUME UNCHANGED batch PROVE (style' = "async" => CallsKeepTickets) => BatchIsReported'
  BY <1>1, <1>2, BatchStays DEF TicketInv, setup
<1>3. SUFFICES /\ Iterating' => Tickets'
               /\ (style' = "async" => CallsKeepTickets) => BatchIsReported'
  BY <1>1 DEF TicketInv, CallsKeepTickets
<1>4. ASSUME Iterating PROVE Tickets
  BY <1>4 DEF TicketInv
<1>5. CASE AskForBatch
  <2>1. /\ main \in {"new", "body"} /\ BetweenBatches /\ ~BetweenBatches'
        /\ SendAll("continue") /\ UNCHANGED <<setup, worker, outQ, gathered, batch>>
    BY <1>5 DEF AskForBatch, BetweenBatches, CallFrom
  <2>2. Iterating' => Iterating
    BY <1>1, <2>1 DEF Iterating, setup, CallsKeepTickets
  <2> QED
    BY <1>2, <1>4, <2>1, <2>2, WordToAll
<1>6. CASE NextBatch
  <2>1. /\ main = "body" /\ ~BetweenBatches' /\ UNCHANGED <<setup, worker, pipe, outQ, gathered, batch>>
    BY <1>6 DEF NextBatch, BetweenBatches, CallFrom, workerVars
  <2>2. Iterating' => Iterating
    BY <1>1, <2>1 DEF Iterating, setup, CallsKeepTickets
  <2> QED
    BY <1>2, <1>4, <2>1, <2>2, TicketsStay
<1>7. CASE GatherAsync
  <2>1. main = "gather" /\ style = "async"
    BY <1>7 DEF GatherAsync
  <2>2. CallsKeepTickets => Iterating
    BY <2>1 DEF Iterating
  <2>3. CallsKeepTickets => Tickets' /\ BatchIsReported'
    BY <1>4, <1>7, <2>2, GatherAsyncKeepsTickets
  <2>4. style' = "async" /\ (Iterating' => CallsKeepTickets)
    BY <1>1, <2>1 DEF Iterating, setup, CallsKeepTickets
  <2> QED
    BY <2>3, <2>4
<1>8. CASE Gather
  <2>1. main = "gather" /\ style = "sync" /\ UNCHANGED batch
    BY <1>8 DEF Gather, coordinator
  <2>2. Iterating
    BY <2>1 DEF Iterating
  <2> QED
    BY <1>2, <1>4, <1>8, <2>1, <2>2, GatherKeepsTickets
<1>9. CASE Stack
  <2>1. main = "gather" /\ style = "sync"
    BY <1>9 DEF Stack
  <2>2. Iterating
    BY <2>1 DEF Iterating
  <2> QED
    BY <1>4, <1>9, <2>2, StackKeepsTickets
<1>10. ASSUME NEW call \in Calls, Call(call)
       PROVE  /\ Iterating' => Tickets'
              /\ (style' = "async" => CallsKeepTickets) => BatchIsReported'
  <2>1. /\ SendAll(Request(call)) /\ UNCHANGED <<setup, worker, outQ, gathered, batch>>
        /\ main' = "call" /\ resumes' = main /\ main \in {"new", "body", "free", "paused"}
    BY <1>10 DEF Call, CallsNow
  <2>2. Request(call) \in Requests /\ Request(call) # "continue"
    BY DEF Request, Calls, Requests
  <2>3. (BetweenBatches' => BetweenBatches) /\ (Iterating' => Iterating)
    BY <1>1, <2>1 DEF BetweenBatches, Iterating, CallFrom, setup, CallsKeepTickets
  <2> QED
    BY <1>2, <1>4, <2>1, <2>2, <2>3, WordToAll
<1>11. CASE ReadAnswer
  <2>1. main = "call" /\ UNCHANGED <<setup, worker, outQ, gathered, resumes, batch>>
    BY <1>11 DEF ReadAnswer
  <2>2. resumes \in {"new", "body", "free", "paused"}
    BY DEF TypeInv, TypeOK
  <2>3. \/ main' = "raised" /\ UNCHANGED pipe
        \/ UNCHANGED <<main, pipe>>
        \/ AfterCall
    BY <1>11 DEF ReadAnswer
  <2>4. main' \in {"raised", resumes} \/ main' = main
    BY <2>3 DEF AfterCall
  <2>5. Iterating' => Iterating
    BY <1>1, <2>1, <2>2, <2>4 DEF Iterating, CallFrom, setup, CallsKeepTickets
  <2>6. BetweenBatches' => BetweenBatches
    BY <1>1, <2>1, <2>2, <2>4 DEF BetweenBatches, CallFrom, setup
  <2>7. ASSUME Iterating PROVE UNCHANGED pipe
    <3>1. Running => doing \in AsyncCalls /\ CallsKeepTickets
      BY <1>1, <2>1, <2>7 DEF Running, ModeInv, CallFrom, Iterating
    <3>2. AfterCall => UNCHANGED pipe
      BY <3>1 DEF AfterCall, CallsKeepTickets
    <3> QED
      BY <2>3, <3>2
  <2> QED
    BY <1>2, <1>4, <2>1, <2>5, <2>6, <2>7, TicketsStay
<1>12. CASE StartFree \/ Pause \/ PauseUnanswered \/ Resume \/ BodyRaises \/ ReadPaused
            \/ WorkerDied \/ Shutdown \/ Closed
  <2>1. UNCHANGED batch
    BY <1>12 DEF StartFree, Pause, PauseUnanswered, Resume, BodyRaises, ReadPaused, WorkerDied,
                 Shutdown, Closed
  <2>2. main' \notin {"new", "gather", "body", "call"}
    BY <1>12 DEF StartFree, Pause, PauseUnanswered, Resume, BodyRaises, ReadPaused, WorkerDied,
                 Shutdown, Closed
  <2> QED
    BY <1>2, <2>1, <2>2 DEF Iterating, CallFrom
<1> QED
  BY <1>5, <1>6, <1>7, <1>8, <1>9, <1>10, <1>11, <1>12 DEF Iterates, Waits, Gathers

LEMMA InitTickets == Init => TicketInv
<1> SUFFICES ASSUME Init PROVE TicketInv
  OBVIOUS
<1>1. /\ style \in {"sync", "async", "free"} /\ main = "new" /\ batch = << >>
      /\ outQ = << >> /\ gathered = << >>
      /\ \A w \in Workers : /\ pipe[w] = << >> /\ worker[w].at = "poll"
                            /\ ~worker[w].free /\ ~worker[w].timedOut
  BY DEF Init, InitWorkers
<1>2. ModeInv /\ BatchIsReported
  BY <1>1 DEF ModeInv, BatchIsReported, CallFrom
<1>3. \A w \in Workers : NoTicket(w) /\ OneTicket(w)
  BY <1>1, MarkEmpty DEF NoTicket, OneTicket, Told, Busy, Queued, Gathered
<1>4. Tickets
  <2>1. Fresh(outQ) /\ Fresh(gathered)
    BY <1>1, EmptySeq DEF Fresh
  <2>2. \A w \in Workers : /\ pipe[w] \in Seq(Requests \cup {"continue"})
                           /\ ~worker[w].free /\ worker[w].at \notin {"pausing", "paused"}
    BY <1>1, EmptySeq
  <2> QED
    BY <1>1, <1>3, <2>1, <2>2 DEF Tickets
<1> QED
  BY <1>2, <1>4 DEF TicketInv

LEMMA NextKeepsTickets == TypeInv /\ TicketInv /\ [Next]_vars => TicketInv'
<1>1. ASSUME TypeInv, TicketInv, UNCHANGED vars PROVE TicketInv'
  <2>1. UNCHANGED <<coordinator, setup, worker, pipe, outQ, gathered>>
    BY <1>1 DEF vars, workerVars
  <2> QED
    BY <1>1, <2>1, ModeKept, TicketsStay DEF TicketInv, setup
<1> QED
  BY <1>1, WorkerKeepsTickets, CoordinatorKeepsTickets DEF Next

\* A batch is made of outputs the workers reported and had not begun to write over
\* when they were copied, and a synchronous batch has one of every worker, however
\* many workers there are and whichever of them crash -- as long as no caller of an
\* asynchronous collector makes, between two batches, one of the two calls after which
\* running workers are told to go on (reset and worker_policy_versions of
\* MultiAsyncCollector).
THEOREM BatchesAreReported ==
    ASSUME CallsKeepTickets
    PROVE  Spec => []BatchIsReported
<1>1. TicketInv => BatchIsReported
  BY CallsKeepTickets DEF TicketInv
<1> QED
  BY <1>1, InitTypes, NextKeepsTypes, InitTickets, NextKeepsTickets, PTL DEF Spec

\* Of a synchronous iteration it holds whatever calls are made.
THEOREM SyncBatchesAreReported == Spec => [](style = "sync" => BatchIsReported)
<1>1. TicketInv => (style = "sync" => BatchIsReported)
  BY DEF TicketInv
<1> QED
  BY <1>1, InitTypes, NextKeepsTypes, InitTickets, NextKeepsTickets, PTL DEF Spec
-----------------------------------------------------------------------------
\* A step of a worker takes a message at most, and may answer it.
LEMMA ReplyEffect ==
    ASSUME TypeInv, NEW w \in Workers, WorkerNext(w) \/ GivesUpPause(w)
    PROVE  \/ UNCHANGED reply /\ (pipe' = pipe \/ Takes(w))
           \/ Takes(w) /\ Answers(w)
<1>1. ASSUME NEW msgs, Receives(w, msgs) PROVE Takes(w)
  BY <1>1 DEF Receives, Takes
<1>2. CASE StartRollout(w) \/ RunFree(w) \/ TakePause(w) \/ Close(w)
  BY <1>1, <1>2 DEF StartRollout, RunFree, TakePause, Close
<1>3. CASE RepeatRollout(w) \/ FreeRollout(w) \/ EndRollout(w) \/ Store(w) \/ Send(w)
           \/ SendTimesOut(w) \/ ReportPaused(w) \/ GivesUpPause(w)
  BY <1>3 DEF RepeatRollout, FreeRollout, EndRollout, Store, Send, SendTimesOut, ReportPaused,
              GivesUpPause, PauseTimesOut
<1>4. CASE Answer(w)
  BY <1>1, <1>4 DEF Answer
<1>5. CASE MessageWhilePaused(w)
  BY <1>1, <1>5 DEF MessageWhilePaused
<1> QED
  BY <1>2, <1>3, <1>4, <1>5 DEF WorkerNext

\* Only requests are answered.
LEMMA AnswersRequests ==
    ASSUME TypeInv, NEW w \in Workers, WorkerNext(w) \/ GivesUpPause(w), ~UNCHANGED reply
    PROVE  Head(pipe[w]) \in Requests
<1>1. CASE Answer(w)
  BY <1>1 DEF Answer, Receives
<1>2. CASE MessageWhilePaused(w)
  <2>1. WhilePaused(w, Head(pipe[w])) = "paused"
    BY <1>2 DEF MessageWhilePaused
  <2> QED
    BY <2>1 DEF WhilePaused, Requests
<1> QED
  BY <1>1, <1>2
     DEF WorkerNext, StartRollout, RunFree, TakePause, Close, RepeatRollout, FreeRollout,
         EndRollout, Store, Send, SendTimesOut, ReportPaused, GivesUpPause, PauseTimesOut

LEMMA WorkerKeepsAnswersFit ==
    ASSUME TypeInv, AnswersFit, NEW w \in Workers, UNCHANGED coordinator,
           WorkerNext(w) \/ GivesUpPause(w)
    PROVE  AnswersFit'
<1>1. /\ pipe \in [Workers -> Seq(Messages)] /\ pipe[w] \in Seq(Messages)
      /\ reply \in [Workers -> Seq(Requests)] /\ UNCHANGED <<main, awaiting, doing>>
  BY DEF TypeInv, TypeOK, TypeOKWorkers, coordinator
<1>2. \/ UNCHANGED reply /\ (pipe' = pipe \/ Takes(w))
      \/ Takes(w) /\ Answers(w) /\ Head(pipe[w]) \in Requests
  BY ReplyEffect, AnswersRequests
<1>3. Request(doing)' = Request(doing)
  BY <1>1 DEF Request
<1>4. ASSUME NEW v \in Workers
      PROVE  IF main = "call" /\ v \in awaiting THEN Asked(v)' ELSE NotAsked(v)'
  <2>1. IF main = "call" /\ v \in awaiting THEN Asked(v) ELSE NotAsked(v)
    BY DEF AnswersFit
  <2>2. CASE pipe'[v] = pipe[v] /\ reply'[v] = reply[v]
    BY <1>3, <2>1, <2>2 DEF Asked, NotAsked, AtMostOne, Some
  <2>3. CASE v = w /\ Takes(w)
    <3>1. pipe[w] # << >> /\ pipe'[w] = Tail(pipe[w])
      BY <1>1, <2>3 DEF Takes
    <3>2. /\ Some(pipe[w], Requests) <=> Head(pipe[w]) \in Requests \/ Some(Tail(pipe[w]), Requests)
          /\ AtMostOne(pipe[w], Requests) =>
               /\ AtMostOne(Tail(pipe[w]), Requests)
               /\ Head(pipe[w]) \in Requests => ~Some(Tail(pipe[w]), Requests)
      BY <1>1, <3>1, MarkTail
    <3>3. \A i \in 1 .. Len(pipe'[w]) : i + 1 \in 1 .. Len(pipe[w]) /\ pipe'[w][i] = pipe[w][i + 1]
      BY <1>1, <3>1, HeadTailProperties, LenProperties
    <3>4. /\ Some(pipe[w], Requests)' = Some(Tail(pipe[w]), Requests)
          /\ AtMostOne(pipe[w], Requests)' = AtMostOne(Tail(pipe[w]), Requests)
      BY <3>1, Zenon DEF Some, AtMostOne
    <3>5. CASE reply'[w] = reply[w]
      <4>1. Asked(w) => Asked(w)'
        BY <1>3, <3>2, <3>3, <3>4, <3>5 DEF Asked
      <4>2. NotAsked(w) => NotAsked(w)'
        BY <3>2, <3>4, <3>5 DEF NotAsked
      <4> QED
        BY <2>1, <2>3, <4>1, <4>2
    <3>6. CASE Answers(w) /\ Head(pipe[w]) \in Requests
      <4>1. main = "call" /\ v \in awaiting /\ Asked(w)
        BY <2>1, <2>3, <3>2, <3>6 DEF NotAsked
      <4>2. reply[w] = << >> /\ ~Some(Tail(pipe[w]), Requests) /\ AtMostOne(Tail(pipe[w]), Requests)
        BY <3>2, <3>6, <4>1 DEF Asked
      <4>3. Head(pipe[w]) = Request(doing)
        <5>1. 1 \in 1 .. Len(pipe[w]) /\ Head(pipe[w]) = pipe[w][1]
          BY <1>1, <3>1, EmptySeq
        <5> QED
          BY <3>6, <4>1, <5>1 DEF Asked
      <4>4. reply'[w] = <<Request(doing)>>
        BY <1>1, <3>6, <4>2, <4>3 DEF Answers
      <4>5. Asked(w)'
        BY <1>3, <3>3, <3>4, <4>1, <4>2, <4>4 DEF Asked
      <4> QED
        BY <2>3, <4>1, <4>5
    <3>7. CASE UNCHANGED reply
      BY <3>5, <3>7
    <3> QED
      BY <1>2, <2>3, <3>6, <3>7
  <2>4. v # w => pipe'[v] = pipe[v] /\ reply'[v] = reply[v]
    BY <1>1, <1>2 DEF Takes, Answers
  <2> QED
    BY <1>2, <2>2, <2>3, <2>4
<1> QED
  BY <1>1, <1>4 DEF AnswersFit

\* No worker is restarted.
LEMMA CrashesRemain ==
    ASSUME TypeInv, NEW w \in Workers, Crashed' = {},
           WorkerNext(w) \/ GivesUpPause(w) \/ Crash(w)
    PROVE  Crashed = {} /\ (WorkerNext(w) \/ GivesUpPause(w))
<1>1. worker \in [Workers -> WorkerStates] /\ worker[w] \in WorkerStates
  BY DEF TypeInv, TypeOK, TypeOKWorkers
<1>2. ~Crash(w)
  <2>1. Crash(w) => worker'[w].at = "crashed"
    BY <1>1 DEF Crash, WorkerStates
  <2> QED
    BY <2>1 DEF Crashed, At
<1>3. worker[w].at # "crashed"
  BY <1>2 DEF WorkerNext, StartRollout, RepeatRollout, RunFree, FreeRollout, EndRollout, Store,
              Send, SendTimesOut, Answer, TakePause, ReportPaused, MessageWhilePaused, Close,
              GivesUpPause, PauseTimesOut, At
<1>4. \A v \in Workers \ {w} : worker'[v] = worker[v]
  BY WorkerEffect DEF OnlyIts
<1>5. \A v \in Workers : worker[v].at # "crashed"
  BY <1>3, <1>4 DEF Crashed, At
<1> QED
  BY <1>2, <1>5 DEF Crashed, At

\* The first message on the pipe of a worker.
LEMMA ReceivedIsSent ==
    ASSUME TypeInv, NEW w \in Workers, NEW S, pipe[w] \in Seq(S), NEW msgs, Receives(w, msgs)
    PROVE  Head(pipe[w]) \in S \cap msgs
BY HeadTailProperties DEF Receives

LEMMA PipeStays ==
    ASSUME TypeInv, NEW w \in Workers, NEW S, pipe[w] \in Seq(S),
           WorkerNext(w) \/ GivesUpPause(w)
    PROVE  pipe'[w] \in Seq(S)
BY WorkerEffect, PipeShrinks

\* A worker that has been sent nothing but requests waits for the next.
LEMMA UntouchedStays ==
    ASSUME TypeInv, NEW w \in Workers, Untouched(w), WorkerNext(w) \/ GivesUpPause(w)
    PROVE  Untouched(w)'
<1>1. /\ worker \in [Workers -> WorkerStates] /\ worker[w] \in WorkerStates
      /\ worker[w].at = "poll" /\ ~worker[w].timedOut /\ ~worker[w].free
      /\ pipe[w] \in Seq(Requests)
  BY DEF TypeInv, TypeOK, TypeOKWorkers, Untouched, At
<1>2. {"continue", "run_free", "pause", "close"} \cap Requests = {}
  BY DEF Requests
<1>3. ~StartRollout(w) /\ ~RunFree(w) /\ ~TakePause(w) /\ ~Close(w)
  <2>1. \A msgs : Receives(w, msgs) => Head(pipe[w]) \in Requests \cap msgs
    BY <1>1, ReceivedIsSent
  <2> QED
    BY <1>2, <2>1 DEF StartRollout, RunFree, TakePause, Close
<1>4. Answer(w)
  BY <1>1, <1>3 DEF WorkerNext, RepeatRollout, FreeRollout, EndRollout, Store, Send,
                    SendTimesOut, ReportPaused, MessageWhilePaused, GivesUpPause,
                    PauseTimesOut, At
<1>5. worker'[w].at = "poll" /\ ~worker'[w].timedOut /\ worker'[w].free = worker[w].free
  BY <1>1, <1>4 DEF Answer, WorkerStates
<1>6. pipe'[w] \in Seq(Requests)
  BY <1>1, PipeStays
<1> QED
  BY <1>1, <1>5, <1>6 DEF Untouched, At

LEMMA BegunRollout ==
    ASSUME TypeInv, NEW w \in Workers, NEW free \in BOOLEAN, BeginRollout(w, free)
    PROVE  /\ worker'[w].at = "collect" /\ worker'[w].msg = "continue"
           /\ worker'[w].free = free /\ worker'[w].timedOut = worker[w].timedOut
<1>1. worker \in [Workers -> WorkerStates] /\ worker[w] \in WorkerStates
  BY DEF TypeInv, TypeOK, TypeOKWorkers
<1>2. worker'[w] = [worker[w] EXCEPT !.at = "collect", !.msg = "continue", !.free = free]
  BY <1>1 DEF BeginRollout
<1> QED
  BY <1>1, <1>2 DEF WorkerStates

\* A worker of an iteration has "continue" to repeat, if it has to repeat anything:
\* the queue of a synchronous one has room for it, and no reset finds it timed out.
LEMMA IteratedStays ==
    ASSUME TypeInv, NEW w \in Workers, Iterated(w), WorkerNext(w) \/ GivesUpPause(w),
           style = "sync" /\ At(w, "send") => Len(outQ) < QueueLen,
           worker[w].timedOut /\ pipe[w] # << >> => Head(pipe[w]) # "reset"
    PROVE  Iterated(w)' /\ worker'[w].at # "dead"
<1> DEFINE S == Requests \cup {"continue"}
<1>1. /\ worker \in [Workers -> WorkerStates] /\ worker[w] \in WorkerStates
      /\ worker[w].at \notin {"pausing", "paused"} /\ pipe[w] \in Seq(S)
      /\ Busy(w) => worker[w].msg = "continue"
      /\ style = "sync" => ~worker[w].timedOut
  BY DEF TypeInv, TypeOK, TypeOKWorkers, Iterated
<1>2. pipe'[w] \in Seq(S) /\ style' = style
  BY <1>1, PipeStays, WorkerKeepsSetup DEF setup
<1>3. SUFFICES /\ worker'[w].at \notin {"pausing", "paused", "dead"}
               /\ Busy(w)' => worker'[w].msg = "continue"
               /\ worker'[w].timedOut => worker[w].timedOut \/ style # "sync"
  BY <1>1, <1>2 DEF Iterated
<1>4. {"run_free", "pause", "close"} \cap S = {}
  BY DEF Requests
<1>5. ~RunFree(w) /\ ~TakePause(w) /\ ~Close(w)
  BY <1>1, <1>4, ReceivedIsSent DEF RunFree, TakePause, Close
<1>6. CASE StartRollout(w) \/ FreeRollout(w)
  BY <1>6, BegunRollout DEF StartRollout, FreeRollout
<1>7. CASE RepeatRollout(w)
  <2>1. worker[w].msg = "continue"
    BY <1>1, <1>7 DEF RepeatRollout, Busy
  <2> QED
    BY <1>7, <2>1, BegunRollout DEF RepeatRollout
<1>8. CASE EndRollout(w)
  <2>1. At(w, "collect") /\ worker' = [worker EXCEPT ![w].at = AfterRollout(w)]
    BY <1>8 DEF EndRollout
  <2>2. AfterRollout(w) \in {"poll", "store", "send"}
    BY DEF AfterRollout
  <2> QED
    BY <1>1, <2>1, <2>2 DEF Busy, At, WorkerStates
<1>9. CASE Store(w)
  BY <1>1, <1>9 DEF Store, Busy, At, WorkerStates
<1>10. CASE Send(w)
  BY <1>1, <1>10 DEF Send, Sent, Busy, At, WorkerStates
<1>11. CASE SendTimesOut(w)
  <2>1. At(w, "send") /\ Len(outQ) = QueueLen /\ Len(outQ) \in Nat
    BY <1>11, LenProperties DEF SendTimesOut, TypeInv, TypeOK, TypeOKWorkers
  <2>2. style # "sync"
    BY <2>1
  <2> QED
    BY <1>1, <1>11, <2>1, <2>2 DEF SendTimesOut, Busy, At, WorkerStates
<1>12. CASE Answer(w)
  <2>1. pipe[w] # << >> /\ At(w, "poll")
    BY <1>12 DEF Answer, Receives
  <2>2. /\ worker'[w].at = "poll"
        /\ worker'[w].timedOut = (worker[w].timedOut /\ Head(pipe[w]) = "reset")
    BY <1>1, <1>12, <2>1 DEF Answer, At, WorkerStates
  <2> QED
    BY <2>1, <2>2 DEF Busy
<1> QED
  BY <1>1, <1>5, <1>6, <1>7, <1>8, <1>9, <1>10, <1>11, <1>12
     DEF WorkerNext, ReportPaused, MessageWhilePaused, GivesUpPause, PauseTimesOut, At

\* A worker that runs free keeps its rollouts to the replay buffer, is not paused but
\* when it is asked to, and is not sent what it does not know.
LEMMA RunsFreeStays ==
    ASSUME TypeInv, PauseInv, ModeInv, Sound, style = "free", UNCHANGED coordinator,
           main \notin {"closing", "closed"},
           NEW w \in Workers, WorkerNext(w) \/ GivesUpPause(w)
    PROVE  /\ RunsFree(w)' /\ OnlyPauses(outQ')
           /\ GivesUpPause(w) \/ worker'[w].at # "dead"
<1> DEFINE S == Messages \ {"continue", "close"}
<1>1. /\ worker \in [Workers -> WorkerStates] /\ worker[w] \in WorkerStates
      /\ pipe[w] \in Seq(S)
      /\ ~worker[w].timedOut /\ worker[w].at \notin {"send", "closed"}
      /\ worker[w].at \in {"collect", "store"} => worker[w].free
      /\ At(w, "pausing") => main \in {"pausing", "timed_out"}
      /\ At(w, "paused") =>
           IF main = "free" \/ CallFrom({"free"})
             THEN pipe[w] # << >> /\ Head(pipe[w]) = "restart"
             ELSE pipe[w] = << >> \/ Head(pipe[w]) \in {"restart", "cascade_execute"}
      /\ main = "abandoned" => At(w, "paused") /\ pipe[w] = << >>
      /\ replay /\ OnlyPauses(outQ) /\ outQ \in Seq(Outputs)
  BY DEF TypeInv, TypeOK, TypeOKWorkers, Sound, RunsFree
<1>2. pipe'[w] \in Seq(S) /\ UNCHANGED <<main, resumes>>
  BY <1>1, PipeStays DEF coordinator
<1>3. main # "abandoned"
  BY <1>1 DEF At, WorkerNext, StartRollout, RepeatRollout, RunFree, FreeRollout, EndRollout,
              Store, Send, SendTimesOut, Answer, TakePause, ReportPaused, MessageWhilePaused,
              Close, GivesUpPause, PauseTimesOut, Receives
<1>4. ASSUME worker'[w].at \in {"poll", "collect", "store", "pausing"},
             ~worker'[w].timedOut,
             worker'[w].at \in {"collect", "store"} => worker'[w].free,
             worker'[w].at = "pausing" => main \in {"pausing", "timed_out"}
      PROVE  RunsFree(w)' /\ worker'[w].at # "dead"
  BY <1>2, <1>3, <1>4 DEF RunsFree, At
<1>5. ASSUME SameOutputs PROVE OnlyPauses(outQ')
  BY <1>1, <1>5 DEF SameOutputs, OnlyPauses
<1>6. UNCHANGED outQ => SameOutputs
  BY DEF SameOutputs
<1>7. "continue" \notin S /\ "close" \notin S
  OBVIOUS
<1>8. ~StartRollout(w) /\ ~Close(w)
  <2>1. \A msgs : Receives(w, msgs) => Head(pipe[w]) \in S \cap msgs
    BY <1>1, ReceivedIsSent
  <2> QED
    BY <1>7, <2>1 DEF StartRollout, Close
<1>9. ~RepeatRollout(w) /\ ~Send(w) /\ ~SendTimesOut(w)
  BY <1>1 DEF RepeatRollout, Send, SendTimesOut, At
<1>10. CASE RunFree(w)
  <2>1. worker'[w].at = "poll" /\ ~worker'[w].timedOut /\ UNCHANGED outQ
    BY <1>1, <1>10 DEF RunFree, At, WorkerStates
  <2> QED
    BY <1>4, <1>5, <1>6, <2>1
<1>11. CASE FreeRollout(w)
  <2>1. BeginRollout(w, TRUE)
    BY <1>11 DEF FreeRollout
  <2>2. SameOutputs
    BY <2>1, RolloutEffect
  <2> QED
    BY <1>1, <1>4, <1>5, <2>1, <2>2, BegunRollout
<1>12. CASE EndRollout(w)
  <2>1. At(w, "collect") /\ worker' = [worker EXCEPT ![w].at = AfterRollout(w)] /\ UNCHANGED outQ
    BY <1>12 DEF EndRollout
  <2>2. AfterRollout(w) \in {"poll", "store"}
    BY <1>1 DEF AfterRollout
  <2>3. worker'[w].at \in {"poll", "store"} /\ ~worker'[w].timedOut /\ worker'[w].free
    BY <1>1, <2>1, <2>2 DEF At, WorkerStates
  <2> QED
    BY <1>4, <1>5, <1>6, <2>1, <2>3
<1>13. CASE Store(w)
  <2>1. worker'[w].at = "poll" /\ ~worker'[w].timedOut /\ UNCHANGED outQ
    BY <1>1, <1>13 DEF Store, At, WorkerStates
  <2> QED
    BY <1>4, <1>5, <1>6, <2>1
<1>14. CASE Answer(w)
  <2>1. worker'[w].at = "poll" /\ ~worker'[w].timedOut /\ UNCHANGED outQ
    BY <1>1, <1>14 DEF Answer, At, WorkerStates
  <2> QED
    BY <1>4, <1>5, <1>6, <2>1
<1>15. CASE TakePause(w)
  <2>1. At(w, "poll") /\ pipe[w] # << >> /\ Head(pipe[w]) = "pause" /\ UNCHANGED outQ
    BY <1>15 DEF TakePause, Receives
  <2>2. worker'[w].at = "pausing" /\ ~worker'[w].timedOut
    BY <1>1, <1>15 DEF TakePause, WorkerStates
  <2>3. main \in {"pausing", "timed_out"}
    <3>1. ~NoPauseSent
      <4>1. pipe[w] \in Seq(Messages \ {"pause"}) => Head(pipe[w]) \in Messages \ {"pause"}
        BY <2>1, HeadTailProperties
      <4> QED
        BY <2>1, <4>1 DEF NoPauseSent
    <3>2. ~Parked(w)
      BY <2>1 DEF Parked, Alive, At
    <3>3. ~Unpaused /\ ~Paused
      BY <3>1, <3>2 DEF PauseInv
    <3>4. main # "raised" /\ main \in {"new", "gather", "body", "call", "free", "pausing", "paused",
                 "abandoned", "timed_out", "raised", "closing", "closed"}
          /\ resumes \in {"new", "body", "free", "paused"}
      BY DEF Sound, TypeInv, TypeOK
    <3> QED
      BY <1>3, <3>3, <3>4 DEF Unpaused, Paused, CallFrom
  <2> QED
    BY <1>4, <1>5, <1>6, <2>1, <2>2, <2>3
<1>16. CASE ReportPaused(w)
  <2> DEFINE o == [worker |-> w, kind |-> "paused", intact |-> TRUE]
  <2>1. At(w, "pausing") /\ pipe' = pipe /\ outQ' = Append(outQ, o)
    BY <1>16 DEF ReportPaused
  <2>2. worker'[w].at = "paused" /\ ~worker'[w].timedOut
    BY <1>1, <1>16 DEF ReportPaused, WorkerStates
  <2>3. main \in {"pausing", "timed_out"} /\ pipe[w] = << >>
    BY <1>1, <2>1 DEF PauseInv, Pausing, PauseIsLast
  <2>4. RunsFree(w)'
    BY <1>2, <2>1, <2>2, <2>3 DEF RunsFree, At, CallFrom
  <2>5. o \in Outputs /\ o.kind = "paused"
    BY DEF Outputs
  <2> HIDE DEF o
  <2>6. OnlyPauses(outQ')
    <3>1. PICK n \in Nat : n = Len(outQ)
      BY <1>1, LenProperties
    <3>2. /\ Len(outQ') = n + 1 /\ outQ'[n + 1] = o
          /\ \A i \in 1 .. n : outQ'[i] = outQ[i]
      BY <1>1, <2>1, <2>5, <3>1, AppendProperties
    <3>3. 1 .. n + 1 = (1 .. n) \cup {n + 1}
      BY ONLY n \in Nat
    <3> QED
      BY <1>1, <2>5, <3>1, <3>2, <3>3, Zenon DEF OnlyPauses
  <2> QED
    BY <2>2, <2>4, <2>6
<1>17. CASE MessageWhilePaused(w)
  <2>1. At(w, "paused") /\ pipe[w] # << >> /\ Takes(w)
    BY <1>17 DEF MessageWhilePaused, Receives, Takes
  <2>2. CASE Head(pipe[w]) = "restart"
    <3>1. BeginRollout(w, TRUE)
      BY <1>17, <2>2 DEF MessageWhilePaused, WhilePaused
    <3>2. SameOutputs
      BY <3>1, RolloutEffect
    <3> QED
      BY <1>1, <1>4, <1>5, <3>1, <3>2, BegunRollout
  <2>3. CASE Head(pipe[w]) = "cascade_execute"
    <3>1. worker' = [worker EXCEPT ![w].at = "paused"] /\ UNCHANGED outQ
      BY <1>17, <2>3 DEF MessageWhilePaused, WhilePaused
    <3>2. worker'[w].at = "paused" /\ ~worker'[w].timedOut
      BY <1>1, <3>1 DEF WorkerStates
    <3>3. pipe[w] \in Seq(Messages) /\ pipe'[w] = Tail(pipe[w])
      BY <2>1 DEF Takes, TypeInv, TypeOK, TypeOKWorkers
    <3>4. /\ Some(pipe[w], Requests)
          /\ AtMostOne(pipe[w], Requests) => ~Some(Tail(pipe[w]), Requests)
      <4>1. Head(pipe[w]) \in Requests
        BY <2>3 DEF Requests
      <4>2. /\ Some(pipe[w], Requests) <=> Head(pipe[w]) \in Requests \/ Some(Tail(pipe[w]), Requests)
            /\ AtMostOne(pipe[w], Requests) =>
                 /\ AtMostOne(Tail(pipe[w]), Requests)
                 /\ Head(pipe[w]) \in Requests => ~Some(Tail(pipe[w]), Requests)
        BY <2>1, <3>3, MarkTail
      <4> QED
        BY <4>1, <4>2
    <3>5. main = "call" /\ w \in awaiting /\ Asked(w)
      BY <3>4 DEF Sound, AnswersFit, NotAsked
    <3>6. CallFrom({"paused"})
      <4>1. resumes \in {"new", "body", "free", "paused"}
        BY DEF TypeInv, TypeOK
      <4>2. resumes # "free"
        BY <1>1, <2>1, <2>3, <3>5 DEF CallFrom
      <4>3. ~CallFrom({"new"})
        BY <2>1 DEF Sound, Untouched, At
      <4>4. ~CallFrom({"body"})
        BY DEF ModeInv
      <4> QED
        BY <3>5, <4>1, <4>2, <4>3, <4>4 DEF CallFrom
    <3>7. pipe'[w] = << >>
      <4>1. pipe[w] \in Seq(Requests)
        BY <3>6 DEF PauseInv, Paused, Parked
      <4>2. Tail(pipe[w]) \in Seq(Requests) /\ ~Some(Tail(pipe[w]), Requests)
        BY <2>1, <3>4, <3>5, <4>1, HeadTailProperties DEF Asked
      <4>3. Tail(pipe[w]) # << >> => 1 \in 1 .. Len(Tail(pipe[w])) /\ Tail(pipe[w])[1] \in Requests
        BY <4>2, EmptySeq, ElementOfSeq, LenProperties
      <4> QED
        BY <3>3, <4>2, <4>3 DEF Some
    <3>8. RunsFree(w)'
      BY <1>2, <3>2, <3>6, <3>7 DEF RunsFree, At, CallFrom
    <3> QED
      BY <1>5, <1>6, <3>1, <3>2, <3>8
  <2> QED
    BY <1>1, <2>1, <2>2, <2>3
<1>18. CASE GivesUpPause(w)
  <2>1. worker'[w].at = "dead" /\ ~worker'[w].timedOut /\ UNCHANGED outQ
    BY <1>1, <1>18 DEF GivesUpPause, PauseTimesOut, WorkerStates
  <2>2. RunsFree(w)'
    BY <1>2, <1>3, <2>1 DEF RunsFree, At
  <2> QED
    BY <1>5, <1>6, <1>18, <2>1, <2>2
<1> QED
  BY <1>8, <1>9, <1>10, <1>11, <1>12, <1>13, <1>14, <1>15, <1>16, <1>17, <1>18 DEF WorkerNext

\* Where a coordinator is as long as nothing fails.
LEMMA UpAndIterating ==
    ASSUME TypeInv, ModeInv, Up, Sound, style # "free"
    PROVE  main \in {"new", "gather", "body"} \/ CallFrom({"new", "body"})
BY DEF ModeInv, Up, Sound

\* The queue of a synchronous iteration has room for the output of a worker.
LEMMA RoomToSend ==
    ASSUME TypeInv, TicketInv, Up, Sound, style = "sync", NEW w \in Workers, At(w, "send")
    PROVE  Len(outQ) < QueueLen
<1>1. Tickets
  BY UpAndIterating DEF TicketInv, Iterating
<1>2. /\ ~Some(outQ, OutputsOf(w))
      /\ \A v \in Workers : AtMostOne(outQ, OutputsOf(v))
      /\ outQ \in Seq(Outputs)
  BY <1>1 DEF Tickets, OneTicket, Busy, Queued, At, TypeInv, TypeOK, TypeOKWorkers
<1>3. Len(outQ) < NumWorkers
  BY <1>2, RoomForEach
<1> QED
  BY <1>3 DEF QueueLen

\* A request on the pipe of a worker is the one the coordinator makes.
LEMMA RequestIsAwaited ==
    ASSUME TypeInv, Sound, NEW w \in Workers, pipe[w] # << >>, Head(pipe[w]) \in Requests
    PROVE  main = "call" /\ w \in awaiting /\ Head(pipe[w]) = Request(doing)
<1>1. 1 \in 1 .. Len(pipe[w]) /\ Head(pipe[w]) = pipe[w][1]
  BY EmptySeq DEF TypeInv, TypeOK, TypeOKWorkers
<1>2. Some(pipe[w], Requests)
  BY <1>1 DEF Some
<1>3. main = "call" /\ w \in awaiting /\ Asked(w)
  BY <1>2 DEF Sound, AnswersFit, NotAsked
<1> QED
  BY <1>1, <1>3 DEF Asked

\* Somebody who was asked nothing has nothing to read.
LEMMA NothingToRead ==
    ASSUME NEW w \in Workers, pipe[w] \in Seq(Requests), NotAsked(w)
    PROVE  pipe[w] = << >>
<1>1. pipe[w] # << >> => 1 \in 1 .. Len(pipe[w]) /\ pipe[w][1] \in Requests
  BY EmptySeq, ElementOfSeq, LenProperties
<1> QED
  BY <1>1 DEF NotAsked, Some

\* A worker with an unread word that it is paused has nothing to read and stays.
LEMMA LateWordStays ==
    ASSUME TypeInv, PauseInv, ModeInv, Sound, Up, style = "free", UNCHANGED coordinator,
           NEW w \in Workers, WorkerNext(w) \/ GivesUpPause(w)
    PROVE  Dead' # {} => UnreadPause'
<1> SUFFICES ASSUME Dead' # {} PROVE UnreadPause'
  OBVIOUS
<1>1. /\ worker \in [Workers -> WorkerStates] /\ outQ \in Seq(Outputs) /\ Len(outQ) \in Nat
      /\ \A i \in 1 .. Len(outQ) : outQ[i] \in Outputs /\ outQ[i].worker \in Workers
      /\ UNCHANGED <<main, awaiting>>
  <2>1. worker \in [Workers -> WorkerStates] /\ outQ \in Seq(Outputs)
    BY DEF TypeInv, TypeOK, TypeOKWorkers
  <2>2. Len(outQ) \in Nat /\ \A i \in 1 .. Len(outQ) : outQ[i] \in Outputs
    BY <2>1, ElementOfSeq, LenProperties
  <2>3. \A o \in Outputs : o.worker \in Workers
    BY DEF Outputs
  <2> QED
    BY <2>1, <2>2, <2>3 DEF coordinator
<1>2. OnlyIts(w) /\ (SameOutputs \/ Puts(w))
  BY WorkerEffect
<1>3. \A i \in 1 .. Len(outQ) : /\ i \in 1 .. Len(outQ')
                                /\ outQ'[i].worker = outQ[i].worker /\ outQ'[i].kind = outQ[i].kind
  <2>1. CASE SameOutputs
    BY <2>1 DEF SameOutputs
  <2>2. CASE Puts(w)
    <3>1. PICK o \in Outputs : outQ' = Append(outQ, o)
      BY <2>2 DEF Puts
    <3> QED
      BY <1>1, <3>1, AppendProperties
  <2> QED
    BY <1>2, <2>1, <2>2
<1>4. main = "timed_out" => \A i \in 1 .. Len(outQ) : outQ[i].kind = "paused" => Parked(outQ[i].worker)
  BY <1>1 DEF PauseInv, Pausing, ReportsAreTrue, ReportOf
<1>5. ASSUME main = "timed_out", NEW i \in 1 .. Len(outQ), outQ[i].kind = "paused",
             At(outQ[i].worker, "paused")
      PROVE  UnreadPause'
  <2>1. PICK v \in Workers : v = outQ[i].worker
    BY <1>1
  <2>2. v # w
    <3>1. Parked(v) /\ NotAsked(v)
      BY <1>4, <1>5, <2>1 DEF Sound, AnswersFit
    <3>2. pipe[v] = << >>
      BY <3>1, NothingToRead DEF Parked
    <3> QED
      BY <1>5, <2>1, <3>2
         DEF WorkerNext, StartRollout, RepeatRollout, RunFree, FreeRollout, EndRollout, Store,
             Send, SendTimesOut, Answer, TakePause, ReportPaused, MessageWhilePaused, Close,
             GivesUpPause, PauseTimesOut, Receives, At
  <2>3. worker'[v].at = "paused"
    BY <1>2, <1>5, <2>1, <2>2 DEF OnlyIts, At
  <2> QED
    BY <1>1, <1>3, <1>5, <2>1, <2>3 DEF UnreadPause, At
<1>6. CASE Dead # {}
  <2>1. PICK i \in DOMAIN outQ : outQ[i].kind = "paused" /\ At(outQ[i].worker, "paused")
    BY <1>6 DEF Sound, UnreadPause
  <2>2. i \in 1 .. Len(outQ)
    BY <1>1, <2>1, LenProperties
  <2> QED
    BY <1>5, <1>6, <2>1, <2>2 DEF Sound, UnreadPause
<1>7. CASE Dead = {}
  <2>1. worker'[w].at = "dead"
    BY <1>2, <1>7 DEF OnlyIts, Dead, At
  <2>2. GivesUpPause(w)
    BY <2>1, RunsFreeStays DEF Up
  <2>3. main = "timed_out"
    BY <2>2 DEF GivesUpPause, PauseTimesOut, Sound, RunsFree
  <2>4. 1 \in 1 .. Len(outQ)
    BY <2>2 DEF GivesUpPause, PauseTimesOut, QueueLen
  <2>5. PICK v \in Workers : v = outQ[1].worker
    BY <1>1, <2>4
  <2>6. outQ[1].kind = "paused" /\ Parked(v)
    BY <1>4, <2>3, <2>4, <2>5 DEF Sound, OnlyPauses
  <2>7. Alive(v)
    BY <1>7 DEF Sound, RunsFree, Up, Crashed, Dead, Alive, At
  <2> QED
    BY <1>5, <2>3, <2>4, <2>5, <2>6, <2>7 DEF Parked
<1> QED
  BY <1>6, <1>7

\* The steps of a worker end no worker but one that finds the word of another unread.
LEMMA WorkerKeepsSound ==
    ASSUME CallsNeverFail, TypeInv, PauseInv, TicketInv, FailInv,
           NEW w \in Workers, UNCHANGED coordinator,
           WorkerNext(w) \/ GivesUpPause(w) \/ Crash(w)
    PROVE  FailInv'
<1>1. SUFFICES ASSUME Up' PROVE Sound'
  BY DEF FailInv
<1>2. /\ UNCHANGED <<main, doing, resumes, awaiting, batch>>
      /\ UNCHANGED <<style, replay>>
  BY WorkerKeepsSetup DEF coordinator, setup
<1>3. Up /\ (WorkerNext(w) \/ GivesUpPause(w))
  BY <1>1, <1>2, CrashesRemain DEF Up
<1>4. Sound /\ ModeInv
  BY <1>3 DEF FailInv, TicketInv
<1>5. OnlyIts(w) /\ (pipe' = pipe \/ Takes(w))
  BY WorkerEffect
<1>6. \A v \in Workers \ {w} : worker'[v] = worker[v] /\ pipe'[v] = pipe[v]
  BY <1>5 DEF OnlyIts, Takes, TypeInv, TypeOK, TypeOKWorkers
<1>7. AnswersFit'
  BY <1>3, <1>4, WorkerKeepsAnswersFit DEF Sound
<1>8. ASSUME main = "new" \/ CallFrom({"new"}), NEW v \in Workers PROVE Untouched(v)'
  <2>1. \A u \in Workers : Untouched(u)
    BY <1>4, <1>8 DEF Sound
  <2>2. Untouched(w)'
    BY <1>3, <2>1, UntouchedStays
  <2> QED
    BY <1>6, <2>1, <2>2 DEF Untouched, At
<1>9. CallFrom({"new"})' <=> CallFrom({"new"})
  BY <1>2 DEF CallFrom
<1>10. CASE style # "free"
  <2>1. \A v \in Workers : Iterated(v)
    BY <1>4, <1>10 DEF Sound
  <2>2. style = "sync" /\ At(w, "send") => Len(outQ) < QueueLen
    BY <1>3, <1>4, RoomToSend
  <2>3. worker[w].timedOut /\ pipe[w] # << >> => Head(pipe[w]) # "reset"
    <3>1. SUFFICES ASSUME worker[w].timedOut, pipe[w] # << >>, Head(pipe[w]) = "reset"
                   PROVE  FALSE
      OBVIOUS
    <3>2. main = "call" /\ doing = "reset"
      <4>1. main = "call" /\ "reset" = Request(doing)
        BY <1>4, <3>1, RequestIsAwaited DEF Requests
      <4> QED
        BY <4>1 DEF Request
    <3>3. CallFrom({"new", "body"})
      BY <1>3, <1>4, <1>10, <3>2, UpAndIterating
    <3>4. ~CallFrom({"new"})
      BY <1>4, <3>1 DEF Sound, Untouched
    <3>5. style = "async"
      BY <1>10, <2>1, <3>1 DEF Iterated, TypeInv, TypeOK, TypeOKWorkers
    <3>6. doing \in AsyncCalls
      BY <1>4, <3>3, <3>4, <3>5 DEF ModeInv, CallFrom
    <3> QED
      BY <3>2, <3>6 DEF CallsNeverFail
  <2>4. Iterated(w)' /\ worker'[w].at # "dead"
    BY <1>3, <2>1, <2>2, <2>3, IteratedStays
  <2>5. \A v \in Workers : Iterated(v)'
    <3>1. \A v \in Workers \ {w} : Iterated(v)'
      BY <1>2, <1>6, <2>1 DEF Iterated, Busy
    <3> QED
      BY <2>4, <3>1
  <2>6. Dead' = {}
    <3>1. Dead = {}
      BY <1>4, <1>10 DEF Sound, UnreadPause, ModeInv, CallFrom
    <3> QED
      BY <1>6, <2>4, <3>1 DEF Dead, At
  <2> QED
    BY <1>2, <1>4, <1>7, <1>8, <1>9, <1>10, <2>5, <2>6 DEF Sound
<1>11. CASE style = "free"
  <2>1. replay /\ \A v \in Workers : RunsFree(v)
    BY <1>4, <1>11 DEF Sound
  <2>2. RunsFree(w)' /\ OnlyPauses(outQ') /\ (Dead' # {} => UnreadPause')
    <3>1. main \notin {"closing", "closed"}
      BY <1>3 DEF Up
    <3> QED
      BY <1>1, <1>3, <1>4, <1>11, <3>1, RunsFreeStays, LateWordStays
  <2>3. \A v \in Workers : RunsFree(v)'
    <3>1. \A v \in Workers \ {w} : RunsFree(v)'
      BY <1>2, <1>6, <2>1 DEF RunsFree, At, CallFrom
    <3> QED
      BY <2>2, <3>1
  <2> QED
    BY <1>2, <1>4, <1>7, <1>8, <1>9, <1>11, <2>1, <2>2, <2>3 DEF Sound
<1> QED
  BY <1>10, <1>11
-----------------------------------------------------------------------------
\* A message for worker w, as far as requests are concerned.
LEMMA SentRequest ==
    ASSUME TypeInv, NEW w \in Workers, NEW msg \in Messages, pipe'[w] = Append(pipe[w], msg)
    PROVE  /\ Some(pipe[w], Requests)' <=> Some(pipe[w], Requests) \/ msg \in Requests
           /\ ~Some(pipe[w], Requests) => AtMostOne(pipe[w], Requests)'
           /\ ~Some(pipe[w], Requests) =>
                \A i \in 1 .. Len(pipe'[w]) : pipe'[w][i] \in Requests => pipe'[w][i] = msg
<1>1. pipe[w] \in Seq(Messages)
  BY DEF TypeInv, TypeOK, TypeOKWorkers
<1>2. /\ Some(Append(pipe[w], msg), Requests) <=> Some(pipe[w], Requests) \/ msg \in Requests
      /\ AtMostOne(pipe[w], Requests) /\ (msg \in Requests => ~Some(pipe[w], Requests)) =>
           AtMostOne(Append(pipe[w], msg), Requests)
  BY <1>1, MarkAppend
<1>3. /\ Some(pipe[w], Requests)' = Some(Append(pipe[w], msg), Requests)
      /\ AtMostOne(pipe[w], Requests)' = AtMostOne(Append(pipe[w], msg), Requests)
  BY Zenon DEF Some, AtMostOne
<1>4. ~Some(pipe[w], Requests) => AtMostOne(pipe[w], Requests)
  BY DEF Some, AtMostOne
<1>5. PICK n \in Nat : n = Len(pipe[w])
  BY <1>1, LenProperties
<1>6. /\ Len(pipe'[w]) = n + 1 /\ pipe'[w][n + 1] = msg
      /\ \A i \in 1 .. n : pipe'[w][i] = pipe[w][i]
  BY <1>1, <1>5, AppendProperties
<1>7. \A i \in 1 .. n + 1 : i \in 1 .. n \/ i = n + 1
  BY ONLY n \in Nat
<1>8. ~Some(pipe[w], Requests) =>
          \A i \in 1 .. Len(pipe'[w]) : pipe'[w][i] \in Requests => pipe'[w][i] = msg
  BY <1>5, <1>6, <1>7 DEF Some
<1> QED
  BY <1>2, <1>3, <1>4, <1>8

\* A command is no request.
LEMMA CommandsAreNotAnswered ==
    ASSUME TypeInv, AnswersFit, main # "call", main' # "call", UNCHANGED reply,
           NEW msg \in Messages \ Requests,
           \A w \in Workers : pipe'[w] = pipe[w] \/ pipe'[w] = Append(pipe[w], msg)
    PROVE  AnswersFit'
<1>1. ASSUME NEW w \in Workers PROVE NotAsked(w)'
  <2>1. NotAsked(w)
    BY DEF AnswersFit
  <2>2. CASE pipe'[w] = pipe[w]
    BY <2>1, <2>2 DEF NotAsked, Some
  <2>3. CASE pipe'[w] = Append(pipe[w], msg)
    BY <2>1, <2>3, SentRequest DEF NotAsked
  <2> QED
    BY <2>2, <2>3
<1> QED
  BY <1>1 DEF AnswersFit

\* A request to all workers.
LEMMA RequestsAreAnswered ==
    ASSUME TypeInv, AnswersFit, NEW call \in Calls, Call(call)
    PROVE  AnswersFit'
<1>1. /\ main # "call" /\ main' = "call" /\ doing' = call /\ awaiting' = Workers
      /\ SendAll(Request(call)) /\ UNCHANGED reply
  BY DEF Call, CallsNow
<1>2. Request(call) \in Messages /\ Request(doing)' = Request(call)
  BY <1>1 DEF Request, Calls, Requests, Messages
<1>3. ASSUME NEW w \in Workers PROVE Asked(w)'
  <2>1. NotAsked(w) /\ pipe'[w] = Append(pipe[w], Request(call))
    BY <1>1 DEF AnswersFit, SendAll
  <2> QED
    BY <1>1, <1>2, <2>1, SentRequest DEF NotAsked, Asked
<1> QED
  BY <1>1, <1>3 DEF AnswersFit

\* The answer that is read is the one awaited; after the last all is as before the
\* call, but that workers that ran may have been told to go on.
LEMMA AnswersAreRead ==
    ASSUME CallsNeverFail, TypeInv, ModeInv, AnswersFit, ReadAnswer
    PROVE  /\ AnswersFit'
           /\ \/ UNCHANGED <<pipe, main, doing>>
              \/ main' = resumes /\ UNCHANGED pipe
              \/ main' = resumes /\ Running /\ SendAll("continue")
<1>1. main = "call" /\ UNCHANGED <<setup, worker, outQ, resumes>>
  BY DEF ReadAnswer
<1>2. PICK w \in Workers :
        /\ Awaited(w) /\ reply[w] # << >>
        /\ reply' = [reply EXCEPT ![w] = Tail(@)]
        /\ awaiting' = awaiting \ {w}
        /\ IF Head(reply[w]) # Request(doing)
             THEN main' = "raised" /\ UNCHANGED <<pipe, doing>>
           ELSE IF awaiting' = {}
             THEN AfterCall /\ doing' = "none"
           ELSE UNCHANGED <<pipe, main, doing>>
  BY DEF ReadAnswer
<1>3. w \in awaiting /\ Asked(w)
  BY <1>1, <1>2 DEF Awaited, AnswersFit
<1>4. reply[w] = <<Request(doing)>> /\ ~Some(pipe[w], Requests)
  BY <1>2, <1>3 DEF Asked
<1>5. Head(reply[w]) = Request(doing) /\ Tail(reply[w]) = << >>
  BY <1>4
<1>6. /\ reply'[w] = << >>
      /\ \A v \in Workers \ {w} : reply'[v] = reply[v]
  BY <1>2, <1>5 DEF TypeInv, TypeOK, TypeOKWorkers
<1>7. CASE awaiting' # {}
  <2>1. UNCHANGED <<pipe, main, doing>>
    BY <1>2, <1>5, <1>7
  <2>2. Request(doing)' = Request(doing)
    BY <2>1 DEF Request
  <2>3. NotAsked(w)'
    BY <1>4, <1>6, <2>1 DEF NotAsked, Some
  <2>4. ASSUME NEW v \in Workers \ {w}
        PROVE  IF main' = "call" /\ v \in awaiting' THEN Asked(v)' ELSE NotAsked(v)'
    <3>1. IF main = "call" /\ v \in awaiting THEN Asked(v) ELSE NotAsked(v)
      BY DEF AnswersFit
    <3>2. Asked(v) => Asked(v)'
      BY <1>6, <2>1, <2>2 DEF Asked, AtMostOne, Some
    <3>3. NotAsked(v) => NotAsked(v)'
      BY <1>6, <2>1 DEF NotAsked, Some
    <3> QED
      BY <1>2, <2>1, <3>1, <3>2, <3>3
  <2> QED
    BY <1>2, <2>1, <2>3, <2>4 DEF AnswersFit
<1>8. CASE awaiting' = {}
  <2>1. AfterCall
    BY <1>2, <1>5, <1>8
  <2>2. Running => doing \in AsyncCalls
    BY <1>1 DEF Running, ModeInv, CallFrom
  <2>3. \/ main' = resumes /\ UNCHANGED pipe
        \/ main' = resumes /\ Running /\ SendAll("continue")
    BY <2>1, <2>2 DEF AfterCall, CallsNeverFail
  <2>4. \A v \in Workers : pipe'[v] = pipe[v] \/ pipe'[v] = Append(pipe[v], "continue")
    BY <2>3 DEF SendAll
  <2>5. \A v \in Workers : reply'[v] = << >> /\ ~Some(pipe[v], Requests)
    <3>1. \A v \in Workers \ {w} : NotAsked(v)
      BY <1>2, <1>8 DEF AnswersFit
    <3> QED
      BY <1>4, <1>6, <3>1 DEF NotAsked
  <2>6. ASSUME NEW v \in Workers PROVE NotAsked(v)'
    <3>1. CASE pipe'[v] = pipe[v]
      BY <2>5, <3>1 DEF NotAsked, Some
    <3>2. CASE pipe'[v] = Append(pipe[v], "continue")
      <4>1. "continue" \in Messages /\ "continue" \notin Requests
        BY DEF Messages, Requests
      <4> QED
        BY <2>5, <3>2, <4>1, SentRequest DEF NotAsked
    <3> QED
      BY <2>4, <3>1, <3>2
  <2> QED
    BY <1>8, <2>3, <2>6 DEF AnswersFit
<1> QED
  BY <1>7, <1>8

\* A parked worker of which nothing is asked has nothing to read.
LEMMA IteratedKept ==
    ASSUME NEW w \in Workers, Iterated(w), UNCHANGED <<setup, worker>>,
           NEW msg \in Requests \cup {"continue"},
           pipe'[w] = pipe[w] \/ pipe'[w] = Append(pipe[w], msg)
    PROVE  Iterated(w)'
<1>1. pipe'[w] \in Seq(Requests \cup {"continue"})
  BY AppendProperties DEF Iterated
<1> QED
  BY <1>1 DEF Iterated, Busy, setup

\* The steps of an iteration.
LEMMA IterationKeepsSound ==
    ASSUME TypeInv, Sound, AllUp,
           AskForBatch \/ NextBatch \/ GatherAsync \/ Gather \/ Stack
    PROVE  Sound'
<1>1. /\ main \in {"new", "body", "gather"} /\ main' \in {"gather", "body"}
      /\ style \in {"sync", "async"} /\ UNCHANGED <<setup, worker, reply>>
  BY DEF AskForBatch, NextBatch, GatherAsync, Gather, Stack, workerVars, coordinator
<1>2. \A w \in Workers : pipe'[w] = pipe[w] \/ pipe'[w] = Append(pipe[w], "continue")
  <2>1. pipe \in [Workers -> Seq(Messages)]
    BY DEF TypeInv, TypeOK, TypeOKWorkers
  <2> QED
    BY <2>1 DEF AskForBatch, NextBatch, GatherAsync, Gather, Stack, workerVars, SendAll
<1>3. "continue" \in Messages \ Requests
  BY DEF Messages, Requests
<1>4. AnswersFit'
  BY <1>1, <1>2, <1>3, CommandsAreNotAnswered DEF Sound
<1>5. \A w \in Workers : Iterated(w)'
  BY <1>1, <1>2, IteratedKept DEF Sound
<1>6. Dead' = {}
  BY <1>1 DEF AllUp, Dead, At
<1> QED
  BY <1>1, <1>4, <1>5, <1>6 DEF Sound, CallFrom, setup

\* The steps of a coordinator that lets its workers run free, and pauses them.
LEMMA FreeKeepsSound ==
    ASSUME TypeInv, PauseInv, PauseInv', ModeInv, Sound, AllUp,
           StartFree \/ Pause \/ ReadPaused \/ PauseUnanswered \/ Resume \/ BodyRaises
    PROVE  Sound'
<1> DEFINE S == Messages \ {"continue", "close"}
<1>1. /\ style = "free" /\ main # "call" /\ UNCHANGED <<setup, worker, reply>>
  BY DEF StartFree, Pause, ReadPaused, PauseUnanswered, Resume, BodyRaises, workerVars, ModeInv,
         CallFrom
<1>2. /\ OnlyPauses(outQ) /\ replay /\ Dead = {}
      /\ \A w \in Workers : RunsFree(w) /\ NotAsked(w)
  BY <1>1 DEF Sound, AllUp, AnswersFit
<1>3. main' \in {"free", "pausing", "paused", "abandoned", "timed_out"}
  <2>1. CASE ReadPaused
    <3>1. Head(outQ).kind = "paused"
      <4>1. outQ # << >> /\ outQ \in Seq(Outputs)
        BY <2>1 DEF ReadPaused, TypeInv, TypeOK, TypeOKWorkers
      <4>2. Head(outQ) = outQ[1] /\ 1 \in 1 .. Len(outQ)
        BY <4>1, EmptySeq
      <4> QED
        BY <1>2, <4>2 DEF OnlyPauses
    <3> QED
      BY <2>1, <3>1 DEF ReadPaused
  <2> QED
    BY <2>1 DEF StartFree, Pause, PauseUnanswered, Resume, BodyRaises
<1>4. OnlyPauses(outQ')
  <2>1. CASE ReadPaused
    <3>1. outQ # << >> /\ outQ' = Tail(outQ)
      BY <2>1 DEF ReadPaused
    <3>2. /\ Len(outQ) \in Nat \ {0} /\ Len(outQ') = Len(outQ) - 1
          /\ \A i \in 1 .. Len(outQ') : outQ'[i] = outQ[i + 1]
      BY <3>1, QueueShrinks
    <3> QED
      BY <1>2, <3>2 DEF OnlyPauses
  <2> QED
    BY <1>2, <2>1 DEF StartFree, Pause, PauseUnanswered, Resume, BodyRaises, workerVars
<1>5. ASSUME main = "paused", NEW w \in Workers PROVE At(w, "paused") /\ pipe[w] = << >>
  <2>1. Parked(w)
    BY <1>5 DEF PauseInv, Paused
  <2>2. At(w, "paused")
    BY <1>2, <2>1 DEF Parked, Alive, AllUp, Dead, Crashed, At, RunsFree
  <2> QED
    BY <1>2, <2>1, <2>2, NothingToRead DEF Parked
<1>6. ASSUME NEW w \in Workers,
             pipe'[w] = pipe[w] \/ \E msg \in S : pipe'[w] = Append(pipe[w], msg),
             At(w, "pausing") => main' \in {"pausing", "timed_out"},
             At(w, "paused") =>
               IF main' = "free"
                 THEN pipe'[w] # << >> /\ Head(pipe'[w]) = "restart"
                 ELSE pipe'[w] = << >> \/ Head(pipe'[w]) \in {"restart", "cascade_execute"},
             main' = "abandoned" => At(w, "paused") /\ pipe'[w] = << >>
      PROVE  RunsFree(w)'
  <2>1. pipe'[w] \in Seq(S)
    BY <1>2, <1>6, AppendProperties DEF RunsFree
  <2>2. ~CallFrom({"free"})'
    BY <1>3 DEF CallFrom
  <2> QED
    BY <1>1, <1>2, <1>6, <2>1, <2>2 DEF RunsFree, At
<1>7. \A msg \in {"run_free", "pause", "restart"} : msg \in S /\ msg \in Messages \ Requests
  BY DEF Messages, Requests
<1>8. ASSUME \E msg \in {"run_free", "pause", "restart"} :
               \A w \in Workers : pipe'[w] = pipe[w] \/ pipe'[w] = Append(pipe[w], msg)
      PROVE  AnswersFit'
  BY <1>1, <1>3, <1>7, <1>8, CommandsAreNotAnswered DEF Sound
<1>9. ASSUME AnswersFit', \A w \in Workers : RunsFree(w)' PROVE Sound'
  <2>1. Dead' = {}
    BY <1>1, <1>2 DEF Dead, At
  <2> QED
    BY <1>1, <1>2, <1>3, <1>4, <1>9, <2>1 DEF Sound, CallFrom, setup
<1>10. CASE StartFree
  <2>1. main = "new" /\ \A w \in Workers : pipe'[w] = Append(pipe[w], "run_free")
    BY <1>10 DEF StartFree, SendAll
  <2>2. \A w \in Workers : At(w, "poll")
    BY <2>1 DEF Sound, Untouched
  <2>3. ASSUME NEW w \in Workers PROVE RunsFree(w)'
    <3>1. ~At(w, "pausing") /\ ~At(w, "paused") /\ main' = "free"
      BY <1>10, <2>2 DEF At, StartFree
    <3> QED
      BY <1>6, <1>7, <2>1, <3>1
  <2> QED
    BY <1>8, <1>9, <2>1, <2>3
<1>11. CASE Pause
  <2>1. main = "free" /\ main' = "pausing" /\ \A w \in Workers : pipe'[w] = Append(pipe[w], "pause")
    BY <1>11 DEF Pause, SendAll
  <2>2. ASSUME NEW w \in Workers PROVE RunsFree(w)'
    <3>1. At(w, "paused") => pipe'[w] # << >> /\ Head(pipe'[w]) = "restart"
      <4>1. At(w, "paused") => pipe[w] # << >> /\ Head(pipe[w]) = "restart" /\ pipe[w] \in Seq(S)
        BY <1>2, <2>1 DEF RunsFree
      <4> QED
        BY <1>7, <2>1, <4>1, AppendProperties, HeadTailProperties, EmptySeq
    <3> QED
      BY <1>6, <1>7, <2>1, <3>1
  <2> QED
    BY <1>8, <1>9, <2>1, <2>2
<1>12. CASE ReadPaused
  <2>1. main = "pausing" /\ main' \in {"pausing", "paused"} /\ UNCHANGED pipe
    BY <1>3, <1>12 DEF ReadPaused
  <2>2. ASSUME NEW w \in Workers PROVE RunsFree(w)'
    <3>1. At(w, "pausing") => main' \in {"pausing", "timed_out"}
      <4>1. main' = "paused" => Parked(w)'
        BY DEF PauseInv, Paused
      <4> QED
        BY <1>1, <2>1, <4>1 DEF Parked, Alive, At
    <3>2. At(w, "paused") => pipe[w] = << >> \/ Head(pipe[w]) \in {"restart", "cascade_execute"}
      BY <1>2, <2>1 DEF RunsFree, CallFrom
    <3> QED
      BY <1>6, <2>1, <3>1, <3>2
  <2> QED
    BY <1>8, <1>9, <2>1, <2>2
<1>13. CASE Resume
  <2>1. main = "paused" /\ main' = "free" /\ \A w \in Workers : pipe'[w] = Append(pipe[w], "restart")
    BY <1>13 DEF Resume, SendAll
  <2>2. ASSUME NEW w \in Workers PROVE RunsFree(w)'
    <3>1. At(w, "paused") /\ pipe'[w] = <<"restart">>
      BY <1>5, <2>1
    <3>2. pipe'[w] # << >> /\ Head(pipe'[w]) = "restart"
      BY <3>1
    <3> QED
      BY <1>6, <1>7, <2>1, <3>1, <3>2 DEF At
  <2> QED
    BY <1>8, <1>9, <2>1, <2>2
<1>14. CASE BodyRaises
  <2>1. main = "paused" /\ main' = "abandoned" /\ UNCHANGED pipe
    BY <1>14 DEF BodyRaises, workerVars
  <2>2. ASSUME NEW w \in Workers PROVE RunsFree(w)'
    BY <1>5, <1>6, <2>1 DEF At
  <2> QED
    BY <1>8, <1>9, <2>1, <2>2
<1>15. CASE PauseUnanswered
  <2>1. main = "pausing" /\ main' = "timed_out" /\ UNCHANGED pipe
    BY <1>15 DEF PauseUnanswered, workerVars
  <2>2. ASSUME NEW w \in Workers PROVE RunsFree(w)'
    BY <1>2, <1>6, <2>1 DEF RunsFree, CallFrom
  <2> QED
    BY <1>8, <1>9, <2>1, <2>2
<1> QED
  BY <1>10, <1>11, <1>12, <1>13, <1>14, <1>15

\* A call finds paused workers with nothing to read, and asks them what they know.
LEMMA CallKeepsSound ==
    ASSUME CallsNeverFail, TypeInv, PauseInv, ModeInv, Sound, NEW call \in Calls, Call(call)
    PROVE  Sound'
<1>1. /\ main' = "call" /\ resumes' = main /\ SendAll(Request(call))
      /\ main \in {"new", "body", "free", "paused"}
      /\ UNCHANGED <<setup, worker, outQ>>
  BY DEF Call, CallsNow
<1>2. Request(call) \in Requests
  BY DEF Request, Calls, Requests
<1>3. AnswersFit'
  BY RequestsAreAnswered DEF Sound
<1>4. \A w \in Workers : NotAsked(w) /\ pipe'[w] = Append(pipe[w], Request(call))
  BY <1>1 DEF Sound, AnswersFit, SendAll
<1>5. ASSUME CallFrom({"new"})', NEW w \in Workers PROVE Untouched(w)'
  <2>1. Untouched(w)
    BY <1>1, <1>5 DEF Sound, CallFrom
  <2>2. pipe'[w] \in Seq(Requests)
    <3>1. pipe[w] \in Seq(Requests)
      BY <2>1 DEF Untouched
    <3>2. Append(pipe[w], Request(call)) \in Seq(Requests)
      BY <1>2, <3>1, AppendProperties
    <3> QED
      BY <1>4, <3>2
  <2> QED
    BY <1>1, <2>1, <2>2 DEF Untouched, At
<1>6. ASSUME style # "free", NEW w \in Workers PROVE Iterated(w)'
  BY <1>1, <1>2, <1>4, <1>6, IteratedKept DEF Sound
<1>7. ASSUME style = "free", NEW w \in Workers PROVE RunsFree(w)'
  <2> DEFINE S == Messages \ {"continue", "close"}
  <2>1. RunsFree(w) /\ pipe[w] \in Seq(S)
    BY <1>7 DEF Sound, RunsFree
  <2>2. Request(call) \in S
    BY <1>2 DEF Messages, Requests
  <2>3. pipe'[w] \in Seq(S)
    BY <1>4, <2>1, <2>2, AppendProperties
  <2>4. main \in {"new", "free", "paused"}
    BY <1>1, <1>7 DEF ModeInv
  <2>5. ASSUME At(w, "paused")
        PROVE  IF main = "free"
                 THEN pipe'[w] # << >> /\ Head(pipe'[w]) = "restart"
                 ELSE pipe'[w] = << >> \/ Head(pipe'[w]) \in {"restart", "cascade_execute"}
    <3>1. CASE main = "free"
      <4>1. pipe[w] # << >> /\ Head(pipe[w]) = "restart"
        BY <2>1, <2>5, <3>1 DEF RunsFree
      <4> QED
        BY <1>4, <2>1, <2>2, <3>1, <4>1, AppendProperties, HeadTailProperties, EmptySeq
    <3>2. CASE main = "paused"
      <4>1. pipe[w] = << >>
        BY <1>4, <3>2, NothingToRead DEF PauseInv, Paused, Parked
      <4>2. call \in PausedCalls
        BY <3>2 DEF Call, CallsNow
      <4>3. Request(call) = "cascade_execute"
        BY <4>2 DEF CallsNeverFail, Request
      <4>4. pipe'[w] = <<"cascade_execute">>
        BY <1>4, <4>1, <4>3
      <4> QED
        BY <3>2, <4>4
    <3>3. main # "new"
      BY <2>5 DEF Sound, Untouched, At
    <3> QED
      BY <2>4, <3>1, <3>2, <3>3
  <2>6. main' # "free" /\ (CallFrom({"free"})' <=> main = "free")
    BY <1>1 DEF CallFrom
  <2>7. ~At(w, "pausing")
    BY <1>1, <2>1 DEF RunsFree
  <2> QED
    BY <1>1, <2>1, <2>3, <2>4, <2>5, <2>6, <2>7 DEF RunsFree, At
<1>8. Dead' = {}
  BY <1>1 DEF Call, AllUp, Dead, At
<1> QED
  BY <1>1, <1>3, <1>5, <1>6, <1>7, <1>8 DEF Sound, setup

\* The answers are the right ones.
LEMMA ReadAnswerKeepsSound ==
    ASSUME CallsNeverFail, TypeInv, ModeInv, Sound, ReadAnswer
    PROVE  Sound'
<1>1. main = "call" /\ UNCHANGED <<setup, worker, outQ, resumes>>
  BY DEF ReadAnswer
<1>2. /\ AnswersFit'
      /\ \/ UNCHANGED <<pipe, main, doing>>
         \/ main' = resumes /\ UNCHANGED pipe
         \/ main' = resumes /\ Running /\ SendAll("continue")
  BY AnswersAreRead DEF Sound
<1>3. resumes \in {"new", "body", "free", "paused"} /\ style' = style /\ replay' = replay
  BY <1>1 DEF TypeInv, TypeOK, setup
<1>4. /\ main' \in {"call", resumes}
      /\ pipe' = pipe \/ (Running /\ SendAll("continue"))
  BY <1>1, <1>2
<1>5. ASSUME main' = "new" \/ CallFrom({"new"})', NEW w \in Workers PROVE Untouched(w)'
  <2>1. resumes = "new" /\ UNCHANGED pipe
    BY <1>1, <1>3, <1>4, <1>5 DEF CallFrom, Running
  <2>2. Untouched(w)
    BY <1>1, <2>1 DEF Sound, CallFrom
  <2> QED
    BY <1>1, <2>1, <2>2 DEF Untouched, At
<1>6. ASSUME style # "free", NEW w \in Workers PROVE Iterated(w)'
  <2>1. pipe'[w] = pipe[w] \/ pipe'[w] = Append(pipe[w], "continue")
    BY <1>4 DEF SendAll
  <2> QED
    BY <1>1, <1>6, <2>1, IteratedKept DEF Sound
<1>7. ASSUME style = "free", NEW w \in Workers PROVE RunsFree(w)'
  <2>1. RunsFree(w) /\ UNCHANGED pipe
    BY <1>4, <1>7 DEF Sound, Running
  <2>2. main' # "abandoned" /\ ~At(w, "pausing")
    BY <1>1, <1>3, <1>4, <2>1 DEF RunsFree
  <2>3. (main' = "free" \/ CallFrom({"free"})') <=> CallFrom({"free"})
    BY <1>1, <1>3, <1>4 DEF CallFrom
  <2> QED
    BY <1>1, <2>1, <2>2, <2>3 DEF RunsFree, At
<1>8. Dead' = {}
  BY <1>1 DEF Sound, UnreadPause, Dead, At
<1> QED
  BY <1>1, <1>2, <1>3, <1>4, <1>5, <1>6, <1>7, <1>8 DEF Sound

\* The steps of the coordinator end no worker, and it raises nothing.
LEMMA CoordinatorKeepsSound ==
    ASSUME CallsNeverFail, TypeInv, PauseInv, PauseInv', TicketInv, FailInv,
           \/ Iterates \/ Waits
           \/ \E call \in Calls : Call(call)
           \/ StartFree \/ Pause \/ PauseUnanswered \/ Resume \/ BodyRaises
           \/ WorkerDied \/ Shutdown
    PROVE  FailInv'
<1>1. SUFFICES ASSUME Up' PROVE Sound'
  BY DEF FailInv
<1>2. UNCHANGED worker
  BY DEF Iterates, Waits, Gathers, AskForBatch, NextBatch, GatherAsync, Gather, Stack, Call,
         ReadAnswer, StartFree, Pause, ReadPaused, PauseUnanswered, Resume, BodyRaises,
         WorkerDied, Shutdown, Closed, workerVars
<1>3. ~Shutdown /\ ~Closed
  BY <1>1 DEF Shutdown, Closed, Up
<1>4. main \notin {"closing", "closed", "timed_out"}
  BY <1>3 DEF Iterates, Waits, Gathers, AskForBatch, NextBatch, GatherAsync, Gather, Stack, Call,
              CallsNow, ReadAnswer, StartFree, Pause, ReadPaused, PauseUnanswered, Resume,
              BodyRaises, WorkerDied
<1>5. Crashed' = Crashed
  BY <1>2 DEF Crashed, At
<1>6. Up
  BY <1>1, <1>4, <1>5 DEF Up
<1>7. Sound /\ ModeInv
  BY <1>6 DEF FailInv, TicketInv
<1>8. AllUp
  BY <1>4, <1>6, <1>7 DEF AllUp, Up, Sound, UnreadPause
<1>9. ~WorkerDied
  BY <1>8 DEF WorkerDied
<1> QED
  BY <1>3, <1>7, <1>8, <1>9, IterationKeepsSound, FreeKeepsSound, CallKeepsSound,
     ReadAnswerKeepsSound DEF Iterates, Waits, Gathers

LEMMA InitSound == Init => FailInv
<1> SUFFICES ASSUME Init PROVE Sound
  BY DEF FailInv
<1>1. /\ style \in {"sync", "async", "free"} /\ main = "new" /\ outQ = << >>
      /\ style = "free" => replay
      /\ \A w \in Workers : /\ pipe[w] = << >> /\ reply[w] = << >> /\ worker[w].at = "poll"
                            /\ ~worker[w].free /\ ~worker[w].timedOut
      /\ replay \in BOOLEAN
  BY DEF Init, InitWorkers
<1>2. \A S : << >> \in Seq(S) /\ Len(<< >>) = 0
  BY EmptySeq
<1>3. AnswersFit
  BY <1>1, MarkEmpty DEF AnswersFit, NotAsked
<1>4. ASSUME NEW w \in Workers PROVE Untouched(w) /\ Iterated(w) /\ RunsFree(w)
  <2>1. /\ pipe[w] \in Seq(Requests) /\ pipe[w] \in Seq(Requests \cup {"continue"})
        /\ pipe[w] \in Seq(Messages \ {"continue", "close"})
    BY <1>1, <1>2
  <2> QED
    BY <1>1, <2>1 DEF Untouched, Iterated, RunsFree, At, Busy
<1>5. OnlyPauses(outQ) /\ Dead = {}
  BY <1>1, <1>2 DEF OnlyPauses, Dead, At
<1> QED
  BY <1>1, <1>3, <1>4, <1>5 DEF Sound

LEMMA NextKeepsSound ==
    ASSUME CallsNeverFail
    PROVE  TypeInv /\ PauseInv /\ TicketInv /\ FailInv /\ [Next]_vars => FailInv'
<1> SUFFICES ASSUME TypeInv, PauseInv, TicketInv, FailInv, [Next]_vars PROVE FailInv'
  OBVIOUS
<1>1. CASE UNCHANGED vars
  <2>1. UNCHANGED <<main, doing, resumes, awaiting, style, replay, worker, pipe, reply, outQ>>
    BY <1>1 DEF vars, coordinator, workerVars, setup
  <2>2. AnswersFit' <=> AnswersFit
    BY <2>1 DEF AnswersFit, Asked, NotAsked, AtMostOne, Some, Request
  <2>3. \A w \in Workers : /\ Untouched(w)' <=> Untouched(w)
                           /\ Iterated(w)' <=> Iterated(w)
                           /\ RunsFree(w)' <=> RunsFree(w)
    BY <2>1 DEF Untouched, Iterated, Busy, RunsFree, CallFrom, At
  <2>4. Dead' = Dead /\ Crashed' = Crashed /\ (UnreadPause' <=> UnreadPause)
    BY <2>1 DEF Dead, Crashed, UnreadPause, At
  <2> QED
    BY <2>1, <2>2, <2>3, <2>4 DEF FailInv, Up, Sound, CallFrom
<1>2. ASSUME NEW w \in Workers, WorkerNext(w) \/ GivesUpPause(w) \/ Crash(w),
             UNCHANGED coordinator
      PROVE  FailInv'
  BY <1>2, CallsNeverFail, WorkerKeepsSound
<1>3. CASE \/ Iterates \/ Waits
           \/ \E call \in Calls : Call(call)
           \/ StartFree \/ Pause \/ PauseUnanswered \/ Resume \/ BodyRaises
           \/ WorkerDied \/ Shutdown
  <2>1. PauseInv'
    BY NextKeepsPause
  <2> QED
    BY <1>3, <2>1, CallsNeverFail, CoordinatorKeepsSound
<1> QED
  BY <1>1, <1>2, <1>3 DEF Next

\* But for a crash and a pause that took too long nothing fails: no message ends a
\* worker, no answer is to another request, no stale output is taken for a pause, and
\* after a pause that gave up a worker ends only when another is paused whose word is
\* unread -- in whichever order workers and coordinator run and however many workers
\* there are.  It takes two restrictions of what the callers ask, as what the code does
\* when they ask it shows: no reset between two batches of an asynchronous iteration,
\* and of paused workers only what travels as cascade_execute (_main_async_collector
\* and MultiCollector).
THEOREM OnlyCrashesAndLatePausesFail ==
    ASSUME CallsNeverFail
    PROVE  Spec => []NothingElseFails
<1>1. TypeInv /\ PauseInv /\ TicketInv /\ FailInv /\ [Next]_vars => FailInv'
  BY CallsNeverFail, NextKeepsSound
<1>2. FailInv => NothingElseFails
  BY DEF FailInv, Up, Sound, NothingElseFails
<1> QED
  BY <1>1, <1>2, InitTypes, NextKeepsTypes, InitPause, NextKeepsPause, InitTickets,
     NextKeepsTickets, InitSound, PTL DEF Spec
=============================================================================
