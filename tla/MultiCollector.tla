--------------------------- MODULE MultiCollector ---------------------------
(***************************************************************************)
(* The coordinator of a MultiSyncCollector or a MultiAsyncCollector, with  *)
(* the worker processes of CollectorWorkers.                               *)
(*                                                                         *)
(* It iterates -- a batch is one output of every worker (sync) or the next *)
(* output of any (async) -- or lets the workers run free and pauses them.  *)
(* Between two batches its caller may send requests to all workers, which  *)
(* travel on the same pipes as the commands to collect.                    *)
(***************************************************************************)
EXTENDS CollectorWorkers

CONSTANTS
    SyncCalls,     \* calls made between two batches of a synchronous iteration
    AsyncCalls,    \* ... of an asynchronous one
    FreeCalls,     \* calls made while the workers run free
    PausedCalls    \* calls made while they are paused

Calls == {"state_dict", "reset", "map_fn", "worker_policy_versions"}

ASSUME CallsAssumption ==
    SyncCalls \cup AsyncCalls \cup FreeCalls \cup PausedCalls \subseteq Calls

VARIABLES
    main,        \* what the coordinator is doing
    doing,       \* the call it makes, or "none"
    resumes,     \* where it goes after the call
    awaiting,    \* workers whose answer it awaits
    batch        \* the outputs of the batch it handed out last

coordinator == <<main, doing, resumes, awaiting, batch>>
vars == <<workerVars, coordinator>>

Init ==
    /\ InitWorkers
    /\ main = "new" /\ doing = "none" /\ resumes = "new"
    /\ awaiting = {} /\ batch = << >>

SendAll(msg) == pipe' = [w \in Workers |-> Append(pipe[w], msg)]
Dead == {w \in Workers : At(w, "dead")}
AllUp == Dead = {} /\ Crashed = {}

(***************************************************************************)
(* Iteration.                                                              *)
(***************************************************************************)
\* The first next of an asynchronous iterator, every next of a synchronous one.
AskForBatch ==
    /\ \/ style = "async" /\ main = "new"
       \/ style = "sync" /\ main \in {"new", "body"}
    /\ AllUp
    /\ SendAll("continue")
    /\ main' = "gather"
    /\ UNCHANGED <<setup, worker, reply, outQ, gathered, doing, resumes, awaiting, batch>>

\* The later ones of an asynchronous iterator.
NextBatch ==
    /\ style = "async" /\ main = "body"
    /\ main' = "gather"
    /\ UNCHANGED <<workerVars, doing, resumes, awaiting, batch>>

\* The output is copied before its worker is told to go on.
GatherAsync ==
    /\ style = "async" /\ main = "gather"
    /\ outQ # << >>
    /\ batch' = <<Head(outQ)>>
    /\ outQ' = Tail(outQ)
    /\ pipe' = [pipe EXCEPT ![Head(outQ).worker] = Append(@, "continue")]
    /\ main' = "body"
    /\ UNCHANGED <<setup, worker, reply, gathered, doing, resumes, awaiting>>

Gather ==
    /\ style = "sync" /\ main = "gather"
    /\ Len(gathered) < NumWorkers
    /\ outQ # << >>
    /\ gathered' = Append(gathered, Head(outQ))
    /\ outQ' = Tail(outQ)
    /\ UNCHANGED <<setup, worker, pipe, reply, coordinator>>

Stack ==
    /\ style = "sync" /\ main = "gather"
    /\ Len(gathered) = NumWorkers
    /\ batch' = gathered
    /\ gathered' = << >>
    /\ main' = "body"
    /\ UNCHANGED <<setup, worker, pipe, reply, outQ, doing, resumes, awaiting>>

(***************************************************************************)
(* Calls that ask every worker and wait for every answer.                  *)
(***************************************************************************)
\* The call is sent under its own name.
Request_Raw(call) == call

Request(call) ==
    IF call \in {"map_fn", "worker_policy_versions"} THEN "cascade_execute" ELSE call

CallsNow ==
    CASE main = "new"                       -> Calls
      [] main = "body" /\ style = "sync"    -> SyncCalls
      [] main = "body" /\ style = "async"   -> AsyncCalls
      [] main = "free"                      -> FreeCalls
      [] main = "paused"                    -> PausedCalls
      [] OTHER                              -> {}

Call(call) ==
    /\ call \in CallsNow /\ AllUp
    /\ SendAll(Request(call))
    /\ main' = "call" /\ doing' = call /\ resumes' = main
    /\ awaiting' = Workers
    /\ UNCHANGED <<setup, worker, reply, outQ, gathered, batch>>

\* running is set by the iterator of MultiAsyncCollector alone.
Running == style = "async" /\ resumes = "body"

\* After the last answer worker_policy_versions and the reset of
\* MultiAsyncCollector set running workers going again; reset refuses to when an
\* output is on the queue.
AfterCall ==
    IF ~Running \/ doing \notin {"reset", "worker_policy_versions"}
      THEN main' = resumes /\ UNCHANGED pipe
    ELSE IF doing = "reset" /\ Len(outQ) = QueueLen
      THEN main' = "raised" /\ UNCHANGED pipe
    ELSE main' = resumes /\ SendAll("continue")

\* The answers are read in the order of the workers, and have to be the right ones.
Awaited(w) == w \in awaiting /\ \A v \in awaiting : w <= v

ReadAnswer ==
    /\ main = "call"
    /\ \E w \in Workers :
         /\ Awaited(w)
         /\ reply[w] # << >>
         /\ reply' = [reply EXCEPT ![w] = Tail(@)]
         /\ awaiting' = awaiting \ {w}
         /\ IF Head(reply[w]) # Request(doing)
              THEN main' = "raised" /\ UNCHANGED <<pipe, doing>>
            ELSE IF awaiting' = {}
              THEN AfterCall /\ doing' = "none"
            ELSE UNCHANGED <<pipe, main, doing>>
    /\ UNCHANGED <<setup, worker, outQ, gathered, resumes, batch>>

(***************************************************************************)
(* Free running.                                                           *)
(***************************************************************************)
StartFree ==
    /\ style = "free" /\ main = "new" /\ AllUp
    /\ SendAll("run_free")
    /\ main' = "free"
    /\ UNCHANGED <<setup, worker, reply, outQ, gathered, doing, resumes, awaiting, batch>>

Pause ==
    /\ main = "free" /\ AllUp
    /\ SendAll("pause")
    /\ main' = "pausing" /\ awaiting' = Workers
    /\ UNCHANGED <<setup, worker, reply, outQ, gathered, doing, resumes, batch>>

\* Only the first worker is waited for.
AfterPaused_First(w) == {}

\* The loop waits for "paused" as often as there are workers.
AfterPaused(w) == awaiting \ {w}

ReadPaused ==
    /\ main = "pausing"
    /\ outQ # << >>
    /\ outQ' = Tail(outQ)
    /\ awaiting' = AfterPaused(Head(outQ).worker)
    /\ main' = IF Head(outQ).kind # "paused" THEN "raised"
               ELSE IF awaiting' = {} THEN "paused" ELSE "pausing"
    /\ UNCHANGED <<setup, worker, pipe, reply, gathered, doing, resumes, batch>>

\* 30 s passed without another "paused" and nobody is dead, as when a rollout takes
\* longer: a worker looks at its pipe between two of them only.
PauseUnanswered ==
    /\ main = "pausing" /\ AllUp
    /\ outQ = << >>
    /\ main' = "timed_out"
    /\ UNCHANGED <<workerVars, doing, resumes, awaiting, batch>>

\* The body of the with statement ends: the workers go on.
Resume ==
    /\ main = "paused" /\ AllUp
    /\ SendAll("restart")
    /\ main' = "free"
    /\ UNCHANGED <<setup, worker, reply, outQ, gathered, doing, resumes, awaiting, batch>>

\* The body raises: pause has no handler, and the workers stay paused.
BodyRaises ==
    /\ main = "paused"
    /\ main' = "abandoned"
    /\ UNCHANGED <<workerVars, doing, resumes, awaiting, batch>>

(***************************************************************************)
(* Failure and shutdown.                                                   *)
(***************************************************************************)
\* A dead worker is found by _check_for_faulty_process, in the waits that have
\* nothing to read and before most calls, or by the next message to it.
WorkerDied ==
    /\ ~AllUp
    /\ \/ main \in {"new", "body", "free", "paused"}
       \/ main = "gather" /\ (style = "async" \/ outQ = << >>)
       \/ main = "pausing" /\ outQ = << >>
       \/ main = "call" /\ \E w \in Workers : Awaited(w) /\ reply[w] = << >>
    /\ main' = "raised"
    /\ UNCHANGED <<workerVars, doing, resumes, awaiting, batch>>

Shutdown ==
    /\ main \in {"new", "body", "free", "abandoned", "timed_out", "raised"}
    /\ SendAll("close")
    /\ main' = "closing"
    /\ UNCHANGED <<setup, worker, reply, outQ, gathered, doing, resumes, awaiting, batch>>

\* The processes ended.  Those that do not are terminated, which is left out.
Closed ==
    /\ main = "closing"
    /\ \A w \in Workers : ~Alive(w)
    /\ main' = "closed"
    /\ UNCHANGED <<workerVars, doing, resumes, awaiting, batch>>

\* A coordinator that waits for its workers to pause reads in less than _TIMEOUT.
GivesUpPause(w) == main # "pausing" /\ PauseTimesOut(w)

Iterates == AskForBatch \/ NextBatch
Gathers == GatherAsync \/ Gather \/ Stack
Waits == Gathers \/ ReadAnswer \/ ReadPaused \/ Closed

Next ==
    \/ \E w \in Workers :
         /\ WorkerNext(w) \/ GivesUpPause(w) \/ Crash(w)
         /\ UNCHANGED coordinator
    \/ Iterates \/ Waits
    \/ \E call \in Calls : Call(call)
    \/ StartFree \/ Pause \/ PauseUnanswered \/ Resume \/ BodyRaises
    \/ WorkerDied
    \/ Shutdown

\* The processes run, and the coordinator does not stop in the middle of a wait.
\* What its caller does is up to the caller.
Fairness ==
    /\ \A w \in Workers : WF_vars((WorkerNext(w) \/ GivesUpPause(w)) /\ UNCHANGED coordinator)
    /\ WF_vars(Waits \/ (WorkerDied /\ main \in {"gather", "call", "pausing"}))

Spec == Init /\ [][Next]_vars
FairSpec == Spec /\ Fairness

(***************************************************************************)
(* Properties.                                                             *)
(***************************************************************************)
\* Types of the state of MultiCollector and of its workers.
TypeOK ==
    /\ TypeOKWorkers
    /\ main \in {"new", "gather", "body", "call", "free", "pausing", "paused",
                 "abandoned", "timed_out", "raised", "closing", "closed"}
    /\ doing \in Calls \cup {"none"}
    /\ resumes \in {"new", "body", "free", "paused"}
    /\ awaiting \subseteq Workers
    /\ batch \in Seq(Outputs) /\ Len(batch) <= NumWorkers

\* A batch is made of outputs the workers reported, none of which its worker had
\* begun to write over when it was copied; a synchronous batch has one output of
\* every worker.
BatchIsReported ==
    /\ \A i \in DOMAIN batch :
         batch[i].kind = "output" /\ (replay \/ batch[i].intact)
    /\ style = "sync" /\ batch # << >> =>
         {batch[i].worker : i \in DOMAIN batch} = Workers

\* While the collector is paused no worker collects or writes to the replay buffer.
PausedMeansParked ==
    main = "paused" => \A w \in Workers : Alive(w) => At(w, "paused")

\* pause gave up; a worker paused too late, and its word, which nobody reads, takes
\* the room of the others'.
UnreadPause ==
    main = "timed_out" /\ \E i \in DOMAIN outQ :
        outQ[i].kind = "paused" /\ At(outQ[i].worker, "paused")

\* But for a crash and a pause that took too long nothing fails: no message of the
\* coordinator ends a worker, but for a shutdown, no answer is to another request,
\* no stale output is taken for a worker's word that it is paused.  After a pause
\* that gave up a worker ends only while another is paused whose word is unread.
NothingElseFails ==
    (main = "raised" \/ Dead # {}) /\ main \notin {"closing", "closed"} =>
        Crashed # {} \/ UnreadPause

\* Every wait of the coordinator ends, whether or not a worker crashes: batches
\* keep coming, requests are answered, the workers pause and shutdown ends the
\* processes.
WaitsEnd ==
    /\ \A wait \in {"gather", "call", "pausing"} : main = wait ~> main # wait
    /\ main = "closing" ~> main = "closed"

\* _runner.py:251-254 says of a worker that found the queue full that the message
\* it repeats "will typically be" continue, and that otherwise "it is not expected
\* that has_timed_out is True".  reset is answered without clearing it.
TimedOutRepeatsContinue ==
    \A w \in Workers :
        At(w, "poll") /\ worker[w].timedOut => worker[w].msg = "continue"

\* trainers.py:1250 pauses an asynchronous collector "while a checkpoint is
\* written"; the checkpoint holds the collector's state_dict, a request that ends
\* the paused workers.
PausedCallsReturn ==
    [][main = "call" /\ resumes = "paused" => main' # "raised"]_vars
=============================================================================
