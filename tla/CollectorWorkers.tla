-------------------------- MODULE CollectorWorkers --------------------------
(***************************************************************************)
(* The worker processes of a MultiSyncCollector or MultiAsyncCollector:    *)
(* _main_async_collector, its loop over the messages of its pipe.          *)
(*                                                                         *)
(* A worker collects a rollout when told to, drops it when a message came  *)
(* meanwhile, and otherwise puts it on the output queue that all workers   *)
(* share; when the queue stays full it collects again, unasked.  In free   *)
(* running it collects on its own and stores its rollouts in a replay      *)
(* buffer.                                                                 *)
(*                                                                         *)
(* The rollouts of a worker are written over one another in memory it      *)
(* shares with the coordinator (use_buffers).  An output is intact as long *)
(* as its worker has not started the next rollout.                         *)
(*                                                                         *)
(* "continue" also stands for "continue_random", and "state_dict" for the  *)
(* other requests a paused worker does not know and that clear             *)
(* has_timed_out (load_state_dict, seed, getattr_*, setattr);              *)
(* "cascade_execute" also stands for "get_distant_attr".                   *)
(*                                                                         *)
(* A definition named X_Something is X as a plausible bug would have it;   *)
(* no specification uses it.                                               *)
(***************************************************************************)
EXTENDS Naturals, Sequences, FiniteSets

CONSTANTS
    NumWorkers,
    MaxCrashes     \* bound: workers that die of themselves

ASSUME WorkersAssumption == NumWorkers \in Nat \ {0} /\ MaxCrashes \in Nat

Workers == 0 .. NumWorkers - 1

VARIABLES
    style,      \* how the coordinator runs its workers: "sync", "async" or "free"
    replay,     \* the rollouts go to a replay buffer, not to the coordinator
    worker,     \* per worker: where it is, the last message, has_timed_out, run_free
    pipe,       \* per worker: messages of the coordinator
    reply,      \* per worker: its answers
    outQ,       \* queue_out
    gathered    \* outputs taken off the queue whose memory is not copied yet

setup == <<style, replay>>
workerVars == <<setup, worker, pipe, reply, outQ, gathered>>

Requests == {"state_dict", "reset", "cascade_execute"}
Messages == Requests \cup {"continue", "run_free", "pause", "restart", "close"}

QueueLen == IF style = "sync" THEN NumWorkers ELSE 1

InitWorkers ==
    /\ style \in {"sync", "async", "free"}
    /\ replay \in BOOLEAN /\ (style = "free" => replay)
    /\ worker = [w \in Workers |-> [at |-> "poll", msg |-> "none",
                                    timedOut |-> FALSE, free |-> FALSE]]
    /\ pipe = [w \in Workers |-> << >>]
    /\ reply = [w \in Workers |-> << >>]
    /\ outQ = << >> /\ gathered = << >>

At(w, place) == worker[w].at = place
Receives(w, msgs) ==
    /\ pipe[w] # << >>
    /\ Head(pipe[w]) \in msgs
    /\ pipe' = [pipe EXCEPT ![w] = Tail(@)]
Answers(w) == reply' = [reply EXCEPT ![w] = Append(@, Head(pipe[w]))]

\* The rollout of a worker is written over the one before it.
Overwritten(outputs, w) ==
    [i \in DOMAIN outputs |->
        [outputs[i] EXCEPT !.intact = @ /\ outputs[i].worker # w]]

BeginRollout(w, free) ==
    /\ worker' = [worker EXCEPT ![w].at = "collect", ![w].msg = "continue",
                                ![w].free = free]
    /\ outQ' = Overwritten(outQ, w)
    /\ gathered' = Overwritten(gathered, w)

\* Told to collect, which also ends free running.
StartRollout(w) ==
    /\ At(w, "poll")
    /\ Receives(w, {"continue"})
    /\ BeginRollout(w, FALSE)
    /\ UNCHANGED <<setup, reply>>

\* The last output found no room on the queue and nobody wrote since: the last
\* message is taken again, which has to be "continue".
RepeatRollout(w) ==
    /\ At(w, "poll") /\ ~worker[w].free
    /\ worker[w].timedOut /\ pipe[w] = << >>
    /\ IF worker[w].msg = "continue"
         THEN BeginRollout(w, FALSE)
         ELSE /\ worker' = [worker EXCEPT ![w].at = "dead"]
              /\ UNCHANGED <<outQ, gathered>>
    /\ UNCHANGED <<setup, pipe, reply>>

RunFree(w) ==
    /\ At(w, "poll") /\ ~worker[w].free
    /\ Receives(w, {"run_free"})
    /\ worker' = [worker EXCEPT ![w].free = TRUE]
    /\ UNCHANGED <<setup, reply, outQ, gathered>>

FreeRollout(w) ==
    /\ At(w, "poll") /\ worker[w].free
    /\ pipe[w] = << >>
    /\ BeginRollout(w, TRUE)
    /\ UNCHANGED <<setup, pipe, reply>>

\* Where a rollout goes: it is dropped when a message came while it was collected.
AfterRollout(w) ==
    IF pipe[w] # << >> THEN "poll" ELSE IF replay THEN "store" ELSE "send"

EndRollout(w) ==
    /\ At(w, "collect")
    /\ worker' = [worker EXCEPT ![w].at = AfterRollout(w)]
    /\ UNCHANGED <<setup, pipe, reply, outQ, gathered>>

Store(w) ==
    /\ At(w, "store")
    /\ worker' = [worker EXCEPT ![w].at = IF worker[w].free THEN "poll" ELSE "send"]
    /\ UNCHANGED <<setup, pipe, reply, outQ, gathered>>

\* has_timed_out is not cleared by the put.
Sent_StaysTimedOut(w) == [worker[w] EXCEPT !.at = "poll"]

Sent(w) == [worker[w] EXCEPT !.at = "poll", !.timedOut = FALSE]

Send(w) ==
    /\ At(w, "send")
    /\ Len(outQ) < QueueLen
    /\ outQ' = Append(outQ, [worker |-> w, kind |-> "output", intact |-> TRUE])
    /\ worker' = [worker EXCEPT ![w] = Sent(w)]
    /\ UNCHANGED <<setup, pipe, reply, gathered>>

\* The queue stayed full for _TIMEOUT.
SendTimesOut(w) ==
    /\ At(w, "send")
    /\ Len(outQ) = QueueLen
    /\ worker' = [worker EXCEPT ![w].at = "poll", ![w].timedOut = TRUE]
    /\ UNCHANGED <<setup, pipe, reply, outQ, gathered>>

\* A request of the coordinator; all but reset clear has_timed_out.
Answer(w) ==
    /\ At(w, "poll")
    /\ Receives(w, Requests)
    /\ Answers(w)
    /\ worker' = [worker EXCEPT ![w].msg = Head(pipe[w]),
                                ![w].timedOut = @ /\ Head(pipe[w]) = "reset"]
    /\ UNCHANGED <<setup, outQ, gathered>>

TakePause(w) ==
    /\ At(w, "poll") /\ worker[w].free
    /\ Receives(w, {"pause"})
    /\ worker' = [worker EXCEPT ![w].at = "pausing"]
    /\ UNCHANGED <<setup, reply, outQ, gathered>>

ReportPaused(w) ==
    /\ At(w, "pausing")
    /\ Len(outQ) < QueueLen
    /\ outQ' = Append(outQ, [worker |-> w, kind |-> "paused", intact |-> TRUE])
    /\ worker' = [worker EXCEPT ![w].at = "paused"]
    /\ UNCHANGED <<setup, pipe, reply, gathered>>

\* Nobody reads the queue for _TIMEOUT: queue.Full ends the worker.
PauseTimesOut(w) ==
    /\ At(w, "pausing")
    /\ Len(outQ) = QueueLen
    /\ worker' = [worker EXCEPT ![w].at = "dead"]
    /\ UNCHANGED <<setup, pipe, reply, outQ, gathered>>

\* What a paused worker does with a message: it knows "restart" and one kind of
\* request; any other ends it.
WhilePaused_OnlyRestarts(w, msg) == IF msg = "restart" THEN "collect" ELSE "dead"

WhilePaused_Ignores(w, msg) == IF msg = "restart" THEN "collect" ELSE "paused"

WhilePaused(w, msg) ==
    CASE msg = "restart"         -> "collect"
      [] msg = "cascade_execute" -> "paused"
      [] OTHER                   -> "dead"

MessageWhilePaused(w) ==
    LET next == WhilePaused(w, Head(pipe[w]))
    IN  /\ At(w, "paused")
        /\ Receives(w, Messages)
        /\ IF next = "paused" THEN Answers(w) ELSE UNCHANGED reply
        /\ IF next = "collect"
             THEN BeginRollout(w, TRUE)
             ELSE /\ worker' = [worker EXCEPT ![w].at = next]
                  /\ UNCHANGED <<outQ, gathered>>
        /\ UNCHANGED setup

Close(w) ==
    /\ At(w, "poll")
    /\ Receives(w, {"close"})
    /\ worker' = [worker EXCEPT ![w].at = "closed"]
    /\ UNCHANGED <<setup, reply, outQ, gathered>>

Alive(w) == worker[w].at \notin {"dead", "crashed", "closed"}
Crashed == {w \in Workers : At(w, "crashed")}

\* The process dies, of its environment, its memory or a signal.
Crash(w) ==
    /\ Alive(w)
    /\ Cardinality(Crashed) < MaxCrashes
    /\ worker' = [worker EXCEPT ![w].at = "crashed"]
    /\ UNCHANGED <<setup, pipe, reply, outQ, gathered>>

WorkerNext(w) ==
    \/ StartRollout(w) \/ RepeatRollout(w) \/ RunFree(w) \/ FreeRollout(w)
    \/ EndRollout(w) \/ Store(w) \/ Send(w) \/ SendTimesOut(w)
    \/ Answer(w)
    \/ TakePause(w) \/ ReportPaused(w) \/ MessageWhilePaused(w)
    \/ Close(w)

Outputs == [worker : Workers, kind : {"output", "paused"}, intact : BOOLEAN]
WorkerStates ==
    [at : {"poll", "collect", "store", "send", "pausing", "paused", "dead",
           "crashed", "closed"},
     msg : Messages \cup {"none"}, timedOut : BOOLEAN, free : BOOLEAN]

TypeOKWorkers ==
    /\ style \in {"sync", "async", "free"} /\ replay \in BOOLEAN
    /\ worker \in [Workers -> WorkerStates]
    /\ pipe \in [Workers -> Seq(Messages)]
    /\ reply \in [Workers -> Seq(Requests)]
    /\ outQ \in Seq(Outputs) /\ Len(outQ) <= QueueLen
    /\ gathered \in Seq(Outputs)
=============================================================================
