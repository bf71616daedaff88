-------------------------- MODULE InferenceService --------------------------
(***************************************************************************)
(* A ProcessInferenceServer: a policy in a process of its own, served      *)
(* through the request/reply mailbox of an MPTransport.                    *)
(*                                                                         *)
(* Client threads put requests on one request queue and read replies from  *)
(* their client's response queue, keeping the replies of others for later. *)
(* The serve loop takes requests in batches, runs the model and answers    *)
(* them one by one.  The process's main thread executes the commands of    *)
(* its owner.  The process may be killed at any point and started again;   *)
(* the queues outlive it.  A monitor thread of the owner clears a flag     *)
(* when the process is gone, which the clients look at when they wait in   *)
(* vain.                                                                   *)
(*                                                                         *)
(* A payload stands for its request: an answer says which request the      *)
(* model was run on.  The queues of multiprocessing are sequences; what a  *)
(* killed process had put on one may be lost from its end.                 *)
(*                                                                         *)
(* A definition named X_Something is X as a plausible bug would have it;   *)
(* no specification uses it.                                               *)
(***************************************************************************)
EXTENDS Naturals, Sequences, FiniteSets

CONSTANTS
    Clients,      \* mailbox clients
    Threads,      \* threads that share each client
    MaxBatch,     \* max_batch_size
    MinBatch,     \* min_batch_size
    MaxRequests,  \* bound: requests per client
    MaxUpdates,   \* bound: update_model_weights commands
    MaxStarts,    \* bound: starts of the process
    MaxKills      \* bound: kills of the process

ASSUME ServiceAssumption ==
    /\ MaxBatch \in Nat \ {0}
    /\ MinBatch \in 1 .. MaxBatch
    /\ {MaxRequests, MaxUpdates, MaxStarts, MaxKills} \subseteq Nat

RequestIds == 0 .. MaxRequests - 1
Requests == [client : Clients, id : RequestIds]
NoRequest == MaxRequests                     \* a future a thread does not hold

VARIABLES
    requestQ,      \* the request queue
    responseQ,     \* per client: its response queue
    nextId,        \* per client: _next_request_id
    buffered,      \* per client: replies read by a call that waits for another
    call,          \* per thread: its call of submit or result
    peerAlive,     \* the liveness flag baked into every client
    monitor,       \* the monitor thread watches the process
    running,       \* the process is alive
    life,          \* starts so far
    kills,         \* kills so far
    serve,         \* where the serve loop is
    peeked,        \* the request wait_for_work took, if any
    batch,         \* the callbacks of the batch being served
    version,       \* _policy_version in the process
    mirror,        \* the shared value behind the owner's policy_version
    stopping,      \* _shutdown_event
    controlQ,      \* the control channel's shutdown commands: the life each was sent in
    updates,       \* commands to update the weights so far
    asked,         \* the owner is in shutdown and has not set the event
    returned,      \* history, per client: what result returned
    lost           \* history: requests that died with a process

clientVars == <<nextId, buffered, call>>
serverVars == <<serve, peeked, batch>>
ownerVars  == <<monitor, life, kills, asked, updates>>
weightVars == <<version, mirror>>
history    == <<returned, lost>>
vars == <<requestQ, responseQ, clientVars, peerAlive, running, serverVars,
          ownerVars, weightVars, stopping, controlQ, history>>

Elements(s) == {s[i] : i \in DOMAIN s}
Least(a, b) == IF a < b THEN a ELSE b

Init ==
    /\ requestQ = << >> /\ peeked = << >> /\ batch = << >> /\ controlQ = << >>
    /\ responseQ = [c \in Clients |-> << >>]
    /\ nextId = [c \in Clients |-> 0]
    /\ buffered = [c \in Clients |-> {}]
    /\ call = [c \in Clients |-> [t \in Threads |-> [pc |-> "idle", id |-> NoRequest]]]
    /\ peerAlive = TRUE /\ monitor = FALSE /\ running = FALSE /\ stopping = FALSE
    /\ life = 0 /\ kills = 0 /\ updates = 0 /\ version = 0 /\ mirror = 0
    /\ serve = "loop" /\ asked = FALSE
    /\ returned = [c \in Clients |-> {}] /\ lost = {}

(***************************************************************************)
(* Clients.  submit never blocks; result holds the client's response lock  *)
(* until it has an answer, gives up, or learns that the server is gone.    *)
(***************************************************************************)
SetCall(c, t, pc, id) == call' = [call EXCEPT ![c][t] = [pc |-> pc, id |-> id]]

Goto(c, t, pc) == SetCall(c, t, pc, call[c][t].id)

InResponseLock(c, t) == call[c][t].pc \in {"get", "peer", "closed"}

Submit(c, t) ==
    /\ call[c][t].pc = "idle"
    /\ call[c][t].id = NoRequest
    /\ nextId[c] < MaxRequests
    /\ nextId' = [nextId EXCEPT ![c] = @ + 1]
    /\ requestQ' = Append(requestQ, [client |-> c, id |-> nextId[c]])
    /\ SetCall(c, t, "idle", nextId[c])
    /\ UNCHANGED <<responseQ, buffered, peerAlive, running, serverVars, ownerVars,
                   weightVars, stopping, controlQ, history>>

Result(c, t) ==
    /\ call[c][t].pc = "idle"
    /\ call[c][t].id # NoRequest
    /\ Goto(c, t, "lock")
    /\ UNCHANGED <<requestQ, responseQ, nextId, buffered, peerAlive, running,
                   serverVars, ownerVars, weightVars, stopping, controlQ, history>>

\* The call returns this reply and its future is done.
Return(c, t, reply) ==
    /\ SetCall(c, t, "idle", NoRequest)
    /\ returned' = [returned EXCEPT ![c] = @ \cup {reply}]

EnterResult(c, t) ==
    /\ call[c][t].pc = "lock"
    /\ \A u \in Threads : ~InResponseLock(c, u)
    /\ \/ /\ \A r \in buffered[c] : r.id # call[c][t].id
          /\ Goto(c, t, "get")
          /\ UNCHANGED <<buffered, returned>>
       \/ \E r \in buffered[c] :
            /\ r.id = call[c][t].id
            /\ buffered' = [buffered EXCEPT ![c] = @ \ {r}]
            /\ Return(c, t, r)
    /\ UNCHANGED <<requestQ, responseQ, nextId, peerAlive, running, serverVars,
                   ownerVars, weightVars, stopping, controlQ, lost>>

\* The mailbox without request ids: the next reply is taken for ours.
TakesReply_Any(c, t, reply) ==
    Return(c, t, [reply EXCEPT !.id = call[c][t].id]) /\ UNCHANGED buffered

TakesReply(c, t, reply) ==
    IF reply.id = call[c][t].id
      THEN Return(c, t, reply) /\ UNCHANGED buffered
      ELSE /\ buffered' = [buffered EXCEPT ![c] = @ \cup {reply}]
           /\ UNCHANGED <<call, returned>>

GetReply(c, t) ==
    /\ call[c][t].pc \in {"get", "closed"}
    /\ responseQ[c] # << >>
    /\ TakesReply(c, t, Head(responseQ[c]))
    /\ responseQ' = [responseQ EXCEPT ![c] = Tail(@)]
    /\ UNCHANGED <<requestQ, nextId, peerAlive, running, serverVars, ownerVars,
                   weightVars, stopping, controlQ, lost>>

\* Nothing came in the interval: look at the flag.
GetNothing(c, t) ==
    /\ call[c][t].pc = "get"
    /\ responseQ[c] = << >>
    /\ Goto(c, t, "peer")
    /\ UNCHANGED <<requestQ, responseQ, nextId, buffered, peerAlive, running,
                   serverVars, ownerVars, weightVars, stopping, controlQ, history>>

\* The flag is not looked at.
NextAfterNothing_NoPeer == {"get", "idle"}

\* A dead peer sends the call to the replies it may have left; a call with a
\* timeout may raise queue.Empty, and keeps its future.  A call without one is
\* a call that never does.
NextAfterNothing == IF peerAlive THEN {"get", "idle"} ELSE {"closed"}

CheckPeer(c, t) ==
    /\ call[c][t].pc = "peer"
    /\ \E next \in NextAfterNothing : Goto(c, t, next)
    /\ UNCHANGED <<requestQ, responseQ, nextId, buffered, peerAlive, running,
                   serverVars, ownerVars, weightVars, stopping, controlQ, history>>

\* MailboxPeerClosedError: the future keeps no result, result may be called again.
PeerClosed(c, t) ==
    /\ call[c][t].pc = "closed"
    /\ responseQ[c] = << >>
    /\ Goto(c, t, "idle")
    /\ UNCHANGED <<requestQ, responseQ, nextId, buffered, peerAlive, running,
                   serverVars, ownerVars, weightVars, stopping, controlQ, history>>

(***************************************************************************)
(* The serve loop.                                                         *)
(***************************************************************************)
\* The peeked request is forgotten.
Drained_NoPeeked(max) ==
    LET n == Least(max, Len(requestQ))
    IN  [taken |-> SubSeq(requestQ, 1, n), left |-> SubSeq(requestQ, n + 1, Len(requestQ))]

Drained(max) ==
    LET pending == peeked \o requestQ
        n == Least(max, Len(pending))
    IN  [taken |-> SubSeq(pending, 1, n), left |-> SubSeq(pending, n + 1, Len(pending))]

ServeStep(from, to) == running /\ serve = from /\ serve' = to

\* The head of the loop and wait_for_work, which takes one request off the queue
\* or times out; the event is not looked at between them.
WaitForWork ==
    /\ ServeStep("loop", "drain") /\ ~stopping
    /\ IF peeked = << >> /\ requestQ # << >>
         THEN peeked' = <<Head(requestQ)>> /\ requestQ' = Tail(requestQ)
         ELSE UNCHANGED <<peeked, requestQ>>
    /\ UNCHANGED <<responseQ, clientVars, peerAlive, running, batch, ownerVars,
                   weightVars, stopping, controlQ, history>>

AfterDrain(callbacks) ==
    IF callbacks = << >> THEN "loop"
    ELSE IF Len(callbacks) < MinBatch THEN "more" ELSE "model"

Drain ==
    LET d == Drained(MaxBatch)
    IN  /\ ServeStep("drain", AfterDrain(d.taken))
        /\ batch' = d.taken /\ requestQ' = d.left /\ peeked' = << >>
        /\ UNCHANGED <<responseQ, clientVars, peerAlive, running, ownerVars,
                       weightVars, stopping, controlQ, history>>

\* Wait for more requests, up to min_batch_size: they come, or the deadline does.
Accumulate ==
    LET d == Drained(MaxBatch - Len(batch))
    IN  /\ \/ /\ ServeStep("more", AfterDrain(batch \o d.taken))
              /\ d.taken # << >>
              /\ batch' = batch \o d.taken
              /\ requestQ' = d.left /\ peeked' = << >>
           \/ /\ ServeStep("more", "model")
              /\ UNCHANGED <<batch, requestQ, peeked>>
        /\ UNCHANGED <<responseQ, clientVars, peerAlive, running, ownerVars,
                       weightVars, stopping, controlQ, history>>

\* collate, forward and stamp the version under the model lock; an exception
\* anywhere in it is the answer to the whole batch.
ServeBatch ==
    /\ ServeStep("model", "output") \/ ServeStep("model", "error")
    /\ UNCHANGED <<requestQ, responseQ, clientVars, peerAlive, running, peeked, batch,
                   ownerVars, weightVars, stopping, controlQ, history>>

\* The payload is sent bare, without the word whether it is a result.
Reply_Bare(r) == [id |-> r.id, answer |-> [request |-> r]]

Reply(r) == [id |-> r.id, answer |-> [ok |-> serve = "output", request |-> r]]

\* resolve and resolve_exception: the next callback's reply goes to its client.
Resolve ==
    /\ batch # << >>
    /\ \E outcome \in {"output", "error"} :
         ServeStep(outcome, IF Len(batch) = 1 THEN "loop" ELSE outcome)
    /\ LET r == Head(batch)
       IN  responseQ' = [responseQ EXCEPT ![r.client] = Append(@, Reply(r))]
    /\ batch' = Tail(batch)
    /\ UNCHANGED <<requestQ, clientVars, peerAlive, running, peeked, ownerVars,
                   weightVars, stopping, controlQ, history>>

\* _drain_pending_on_shutdown: one turn of its loop, whose batch is answered with
\* an error.  When nothing is left the process closes its control channel, which
\* rejects what is queued there, and exits.
DrainOnShutdown ==
    LET d == Drained(MaxBatch)
    IN  /\ ServeStep("loop", IF d.taken = << >> THEN "loop" ELSE "error") /\ stopping
        /\ batch' = d.taken /\ requestQ' = d.left /\ peeked' = << >>
        /\ running' = (d.taken # << >>)
        /\ controlQ' = IF d.taken = << >> THEN << >> ELSE controlQ
        /\ UNCHANGED <<responseQ, clientVars, peerAlive, ownerVars, weightVars, stopping,
                       history>>

(***************************************************************************)
(* The owner, and the main thread of the process that runs its commands.   *)
(***************************************************************************)
Start ==
    /\ ~running /\ ~monitor
    /\ ~asked
    /\ life < MaxStarts
    /\ stopping' = FALSE
    /\ peerAlive' = TRUE
    /\ running' = TRUE /\ monitor' = TRUE
    /\ life' = life + 1
    /\ version' = 0
    /\ serve' = "loop" /\ peeked' = << >> /\ batch' = << >>
    /\ UNCHANGED <<requestQ, responseQ, clientVars, kills, asked, updates, mirror,
                   controlQ, history>>

\* update_model_weights: the owner waits while the process applies the weights,
\* under the model lock.
UpdateModelWeights ==
    /\ ~asked /\ running /\ ~stopping
    /\ updates < MaxUpdates
    /\ updates' = updates + 1
    /\ version' = version + 1
    /\ mirror' = version + 1
    /\ UNCHANGED <<requestQ, responseQ, clientVars, peerAlive, running, serverVars,
                   monitor, life, kills, asked, stopping, controlQ, history>>

\* shutdown sends a command, and sets the event once it is answered or timed out.
AskShutdown ==
    /\ ~asked /\ running /\ ~stopping
    /\ asked' = TRUE
    /\ controlQ' = Append(controlQ, life)
    /\ UNCHANGED <<requestQ, responseQ, clientVars, peerAlive, running, serverVars,
                   monitor, life, kills, updates, weightVars, stopping, history>>

SetEvent ==
    /\ asked
    /\ asked' = FALSE
    /\ stopping' = (stopping \/ running)
    /\ UNCHANGED <<requestQ, responseQ, clientVars, peerAlive, running, serverVars,
                   monitor, life, kills, updates, weightVars, controlQ, history>>

\* The main thread takes the shutdown command.
RunCommand ==
    /\ running /\ ~stopping
    /\ controlQ # << >>
    /\ controlQ' = Tail(controlQ)
    /\ stopping' = TRUE
    /\ UNCHANGED <<requestQ, responseQ, clientVars, peerAlive, running, serverVars,
                   ownerVars, weightVars, history>>

\* The process is killed, by its owner when the join timed out or by anybody
\* else: what it had taken off the queues is lost, and of each response queue
\* perhaps the last replies.
Kill ==
    /\ running
    /\ kills < MaxKills
    /\ kills' = kills + 1
    /\ running' = FALSE
    /\ serve' = "loop" /\ peeked' = << >> /\ batch' = << >>
    /\ \E kept \in [Clients -> 0 .. MaxRequests] :
         /\ \A c \in Clients : kept[c] <= Len(responseQ[c])
         /\ responseQ' = [c \in Clients |-> SubSeq(responseQ[c], 1, kept[c])]
         /\ lost' = lost
              \cup Elements(peeked \o batch)
              \cup UNION {{[client |-> c, id |-> responseQ[c][i].id] :
                             i \in kept[c] + 1 .. Len(responseQ[c])} : c \in Clients}
    /\ UNCHANGED <<requestQ, clientVars, peerAlive, monitor, life, asked, updates,
                   weightVars, stopping, controlQ, returned>>

\* watch_process_liveness
NoticeExit ==
    /\ monitor /\ ~running
    /\ monitor' = FALSE
    /\ peerAlive' = FALSE
    /\ UNCHANGED <<requestQ, responseQ, clientVars, running, serverVars, life, kills,
                   asked, updates, weightVars, stopping, controlQ, history>>

ClientNext(c, t) ==
    \/ Submit(c, t)
    \/ Result(c, t)
    \/ EnterResult(c, t) \/ GetReply(c, t) \/ GetNothing(c, t)
    \/ CheckPeer(c, t) \/ PeerClosed(c, t)

ServeNext ==
    \/ WaitForWork \/ Drain \/ Accumulate
    \/ ServeBatch \/ Resolve \/ DrainOnShutdown

OwnerNext == Start \/ UpdateModelWeights \/ AskShutdown \/ SetEvent

Next ==
    \/ \E c \in Clients, t \in Threads : ClientNext(c, t)
    \/ ServeNext
    \/ OwnerNext
    \/ RunCommand
    \/ Kill
    \/ NoticeExit

(***************************************************************************)
(* The threads run and a response lock that is free again and again is     *)
(* obtained.  Nobody has to call, and the owner need not do anything.      *)
(***************************************************************************)
Fairness ==
    /\ WF_vars(ServeNext)
    /\ WF_vars(RunCommand)
    /\ WF_vars(NoticeExit)
    /\ \A c \in Clients, t \in Threads :
         /\ SF_vars(EnterResult(c, t))
         /\ WF_vars(GetReply(c, t) \/ GetNothing(c, t) \/ CheckPeer(c, t)
                      \/ PeerClosed(c, t))

Spec == Init /\ [][Next]_vars
FairSpec == Spec /\ Fairness

(***************************************************************************)
(* Properties.                                                             *)
(***************************************************************************)
Answers == [ok : BOOLEAN, request : Requests]
Replies == [id : RequestIds, answer : Answers]
CallStates == [pc : {"idle", "lock", "get", "peer", "closed"}, id : 0 .. MaxRequests]

\* Types of the state of InferenceServer, Mailbox and MailboxClient.
TypeOK ==
    /\ requestQ \in Seq(Requests)
    /\ responseQ \in [Clients -> Seq(Replies)]
    /\ nextId \in [Clients -> 0 .. MaxRequests]
    /\ buffered \in [Clients -> SUBSET Replies]
    /\ call \in [Clients -> [Threads -> CallStates]]
    /\ {peerAlive, monitor, running, stopping, asked} \subseteq BOOLEAN
    /\ {life, kills, updates, version, mirror} \subseteq Nat
    /\ serve \in {"loop", "drain", "more", "model", "output", "error"}
    /\ peeked \in Seq(Requests) /\ Len(peeked) <= 1
    /\ batch \in Seq(Requests) /\ Len(batch) <= MaxBatch
    /\ controlQ \in Seq(Nat)
    /\ returned \in [Clients -> SUBSET Replies]
    /\ lost \subseteq Requests

Occurrences(s, c, i) == Cardinality({j \in DOMAIN s : s[j].client = c /\ s[j].id = i})

\* A request is never lost, duplicated or answered twice: it is on the request
\* queue, peeked, in the batch being served, or its reply is on the way, put
\* aside or returned -- exactly one of these, unless it died with a process
\* (Mailbox.wait_for_work, drain and resolve; MailboxClient._get_result, which
\* puts aside the replies to other calls, the late ones included).
EachRequestInOnePlace ==
    \A c \in Clients : \A i \in RequestIds :
        LET replies == {j \in DOMAIN responseQ[c] : responseQ[c][j].id = i}
            places  == Occurrences(requestQ, c, i) + Occurrences(peeked, c, i)
                         + Occurrences(batch, c, i) + Cardinality(replies)
                         + Cardinality({r \in buffered[c] : r.id = i})
                         + Cardinality({r \in returned[c] : r.id = i})
                         + (IF [client |-> c, id |-> i] \in lost THEN 1 ELSE 0)
        IN  places = (IF i < nextId[c] THEN 1 ELSE 0)

\* result returns what the model computed for the very request its future was
\* made for, whatever the order in which the threads that share a client submit
\* and wait, time out and ask again.
RepliesMatchRequests ==
    \A c \in Clients : \A r \in returned[c] :
        r.answer.request = [client |-> c, id |-> r.id]

Waiting(c, t) == call[c][t].pc # "idle"

\* Some thread of the client waits for a request that died with an earlier
\* process, while a later one runs.
Orphaned(c) ==
    /\ running
    /\ \E t \in Threads : Waiting(c, t) /\ [client |-> c, id |-> call[c][t].id] \in lost

\* A call of result ends, without a timeout too, once the server was started:
\* with a reply, or with MailboxPeerClosedError when the process is shut down or
\* killed (test_killed_server_unblocks_waiting_clients).  The exception is a call
\* that waits, or whose client's other thread waits, for a request that died with
\* a process that was replaced since.
CallsReturn ==
    \A c \in Clients, t \in Threads :
        (Waiting(c, t) /\ life > 0) ~> (~Waiting(c, t) \/ Orphaned(c))

\* _server.py:1561 says of the flag that it makes blocked clients raise "instead
\* of hanging forever".  A server that is started again sets it anew, perhaps
\* before a client in its wait interval has seen it cleared; the request it
\* waits for died with the old process.
EveryCallReturns ==
    \A c \in Clients, t \in Threads : (Waiting(c, t) /\ life > 0) ~> ~Waiting(c, t)

\* policy_version of the owner is "the live behavior-policy version of the child
\* server" (_server.py:1631); a new process starts from the initial version and
\* does not write the shared value until its first update.
MirrorIsLive == running => mirror = version

\* A process executes only commands sent to it; those a killed process left on
\* the control queue are executed by the next one.
CommandsAreCurrent ==
    [][RunCommand => Head(controlQ) = life]_vars
==============================================================================
