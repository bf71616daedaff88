----------------------- MODULE InferenceServiceProofs -----------------------
(***************************************************************************)
(* Proofs about InferenceService, for any set of clients and threads and   *)
(* any batch sizes: type correctness, that result returns the answer to    *)
(* the request it was called for, and that a request and its answer are in *)
(* one place only -- through batching, errors, time-outs, replies put      *)
(* aside for other threads, kills and restarts.                            *)
(***************************************************************************)
EXTENDS InferenceService, SequenceTheorems, FiniteSetTheorems, TLAPS

\* What the client may be sent: an answer that carries the very request whose
\* id the reply has.
Genuine(c) == {r \in Replies : r.answer.request = [client |-> c, id |-> r.id]}

\* The inductive invariant behind RepliesMatchRequests.
GenuineInv ==
    /\ TypeOK
    /\ \A c \in Clients :
         /\ responseQ[c] \in Seq(Genuine(c))
         /\ buffered[c] \subseteq Genuine(c)
         /\ returned[c] \subseteq Genuine(c)

-----------------------------------------------------------------------------
\* The elements of a sequence.
LEMMA ElementsType ==
    ASSUME NEW S, NEW s \in Seq(S)
    PROVE  Elements(s) \subseteq S
BY ElementOfSeq, LenProperties DEF Elements

\* The first n and the other elements of a sequence.
LEMMA Split ==
    ASSUME NEW S, NEW s \in Seq(S), NEW n \in Nat, n <= Len(s)
    PROVE  /\ SubSeq(s, 1, n) \in Seq(S) /\ Len(SubSeq(s, 1, n)) = n
           /\ SubSeq(s, n + 1, Len(s)) \in Seq(S)
<1>1. Len(s) \in Nat /\ \A i \in 1 .. Len(s) : s[i] \in S
  BY ElementOfSeq, LenProperties
<1>2. \A i \in 1 .. n : s[i] \in S
  BY <1>1
<1>3. \A i \in n + 1 .. Len(s) : s[i] \in S
  BY <1>1
<1>4. SubSeq(s, 1, n) \in Seq(S) /\ Len(SubSeq(s, 1, n)) = IF 1 <= n THEN n - 1 + 1 ELSE 0
  BY <1>2, SubSeqProperties
<1>5. SubSeq(s, n + 1, Len(s)) \in Seq(S)
  BY <1>1, <1>3, SubSeqProperties
<1> QED
  BY <1>4, <1>5

\* What drain takes is no more than it was asked for.
LEMMA DrainedType ==
    ASSUME TypeOK, NEW max \in Nat
    PROVE  /\ Drained(max).taken \in Seq(Requests) /\ Len(Drained(max).taken) <= max
           /\ Drained(max).left \in Seq(Requests)
<1> DEFINE pending == peeked \o requestQ
           n == Least(max, Len(pending))
<1>1. pending \in Seq(Requests) /\ Len(pending) \in Nat
  BY ConcatProperties, LenProperties DEF TypeOK
<1>2. n \in Nat /\ n <= max /\ n <= Len(pending)
  BY <1>1 DEF Least
<1>3. /\ SubSeq(pending, 1, n) \in Seq(Requests) /\ Len(SubSeq(pending, 1, n)) = n
      /\ SubSeq(pending, n + 1, Len(pending)) \in Seq(Requests)
  <2> HIDE DEF pending, n
  <2> QED
    BY <1>1, <1>2, Split
<1>4. Drained(max) = [taken |-> SubSeq(pending, 1, n), left |-> SubSeq(pending, n + 1, Len(pending))]
  BY DEF Drained
<1> HIDE DEF pending, n
<1> QED
  BY <1>2, <1>3, <1>4

\* The reply to a request is genuine, and is its client's.
LEMMA ReplyIsGenuine ==
    ASSUME NEW r \in Requests
    PROVE  r.client \in Clients /\ Reply(r) \in Genuine(r.client)
<1>1. r = [client |-> r.client, id |-> r.id] /\ r.client \in Clients /\ r.id \in RequestIds
  BY DEF Requests
<1>2. Reply(r) \in Replies
  BY <1>1 DEF Reply, Replies, Answers
<1> QED
  BY <1>1, <1>2 DEF Reply, Genuine

LEMMA GenuineTypes ==
    \A c \in Clients : Genuine(c) \subseteq Replies /\ Seq(Genuine(c)) \subseteq Seq(Replies)
<1>1. \A c \in Clients : Genuine(c) \subseteq Replies
  BY DEF Genuine
<1>2. \A c \in Clients : \A s \in Seq(Genuine(c)) : s \in Seq(Replies)
  BY <1>1, SeqMonotonic
<1> QED
  BY <1>1, <1>2

-----------------------------------------------------------------------------
LEMMA GenuineInit == Init => GenuineInv
<1> SUFFICES ASSUME Init PROVE GenuineInv
  OBVIOUS
<1>1. << >> \in Seq(Requests) /\ Len(<< >>) = 0 /\ << >> \in Seq(Nat)
      /\ \A c \in Clients : << >> \in Seq(Replies) /\ << >> \in Seq(Genuine(c))
  BY EmptySeq
<1>2. requestQ \in Seq(Requests) /\ peeked \in Seq(Requests) /\ Len(peeked) <= 1
      /\ batch \in Seq(Requests) /\ Len(batch) <= MaxBatch /\ controlQ \in Seq(Nat)
  BY <1>1, ServiceAssumption DEF Init
<1>3. responseQ \in [Clients -> Seq(Replies)]
      /\ \A c \in Clients : responseQ[c] \in Seq(Genuine(c))
  BY <1>1 DEF Init
<1>4. nextId \in [Clients -> 0 .. MaxRequests]
      /\ call \in [Clients -> [Threads -> CallStates]]
  BY ServiceAssumption DEF Init, NoRequest, CallStates
<1>5. /\ buffered \in [Clients -> SUBSET Replies]
      /\ returned \in [Clients -> SUBSET Replies]
      /\ \A c \in Clients : buffered[c] \subseteq Genuine(c) /\ returned[c] \subseteq Genuine(c)
  BY DEF Init
<1>6. {peerAlive, monitor, running, stopping, asked} \subseteq BOOLEAN
  BY Zenon DEF Init
<1>7. /\ {life, kills, updates, version, mirror} \subseteq Nat
      /\ serve \in {"loop", "drain", "more", "model", "output", "error"}
      /\ lost \subseteq Requests
  BY DEF Init
<1> QED
  BY <1>2, <1>3, <1>4, <1>5, <1>6, <1>7 DEF GenuineInv, TypeOK

\* A call stays a call, wherever it goes and whatever future it holds.
LEMMA SetCallTypes ==
    ASSUME TypeOK, NEW c \in Clients, NEW t \in Threads,
           NEW pc \in {"idle", "lock", "get", "peer", "closed"}, NEW id \in 0 .. MaxRequests,
           SetCall(c, t, pc, id)
    PROVE  call' \in [Clients -> [Threads -> CallStates]]
<1>1. [pc |-> pc, id |-> id] \in CallStates
  BY DEF CallStates
<1> QED
  BY <1>1 DEF SetCall, TypeOK

LEMMA GotoTypes ==
    ASSUME TypeOK, NEW c \in Clients, NEW t \in Threads,
           NEW pc \in {"idle", "lock", "get", "peer", "closed"}, Goto(c, t, pc)
    PROVE  call' \in [Clients -> [Threads -> CallStates]]
<1>1. call[c][t] \in CallStates
  BY DEF TypeOK
<1>2. call[c][t].id \in 0 .. MaxRequests
  BY <1>1 DEF CallStates
<1> QED
  BY <1>2, SetCallTypes DEF Goto

\* A call that returns a genuine reply keeps the invariant of what was returned.
LEMMA ReturnTypes ==
    ASSUME GenuineInv, NEW c \in Clients, NEW t \in Threads, NEW r \in Genuine(c),
           Return(c, t, r)
    PROVE  /\ call' \in [Clients -> [Threads -> CallStates]]
           /\ returned' \in [Clients -> SUBSET Replies]
           /\ \A d \in Clients : returned'[d] \subseteq Genuine(d)
<1>1. r \in Replies /\ MaxRequests \in 0 .. MaxRequests
  BY GenuineTypes, ServiceAssumption
<1>2. call' \in [Clients -> [Threads -> CallStates]]
  BY <1>1, SetCallTypes DEF Return, GenuineInv, NoRequest
<1>3. \A d \in Clients : returned'[d] = IF d = c THEN returned[c] \cup {r} ELSE returned[d]
  BY DEF Return, GenuineInv, TypeOK
<1>4. returned' \in [Clients -> SUBSET Replies]
  BY <1>1 DEF Return, GenuineInv, TypeOK
<1> QED
  BY <1>2, <1>3, <1>4 DEF GenuineInv

\* The actions of the clients.
LEMMA ClientStep ==
    ASSUME GenuineInv, NEW c \in Clients, NEW t \in Threads, ClientNext(c, t)
    PROVE  GenuineInv'
<1> USE DEF GenuineInv
<1>1. CASE Submit(c, t)
  <2>1. nextId[c] \in RequestIds /\ nextId[c] + 1 \in 0 .. MaxRequests
    <3>1. nextId[c] \in 0 .. MaxRequests /\ nextId[c] < MaxRequests /\ MaxRequests \in Nat
      BY <1>1, ServiceAssumption DEF Submit, TypeOK
    <3> QED
      BY <3>1 DEF RequestIds
  <2>2. requestQ' \in Seq(Requests)
    BY <1>1, <2>1, AppendProperties DEF Submit, TypeOK, Requests
  <2>3. nextId' \in [Clients -> 0 .. MaxRequests]
    BY <1>1, <2>1 DEF Submit, TypeOK
  <2>4. call' \in [Clients -> [Threads -> CallStates]]
    <3>1. nextId[c] \in 0 .. MaxRequests
      BY DEF TypeOK
    <3> QED
      BY <1>1, <3>1, SetCallTypes DEF Submit
  <2> QED
    BY <1>1, <2>2, <2>3, <2>4
       DEF Submit, TypeOK, serverVars, ownerVars, weightVars, history
<1>2. CASE Result(c, t)
  <2>1. call' \in [Clients -> [Threads -> CallStates]]
    BY <1>2, GotoTypes DEF Result
  <2> QED
    BY <1>2, <2>1 DEF Result, TypeOK, serverVars, ownerVars, weightVars, history
<1>3. CASE EnterResult(c, t)
  <2>1. CASE Goto(c, t, "get") /\ UNCHANGED <<buffered, returned>>
    <3>1. call' \in [Clients -> [Threads -> CallStates]]
      BY <2>1, GotoTypes
    <3> QED
      BY <1>3, <2>1, <3>1 DEF EnterResult, TypeOK, serverVars, ownerVars, weightVars
  <2>2. ASSUME NEW r \in buffered[c], buffered' = [buffered EXCEPT ![c] = @ \ {r}],
               Return(c, t, r)
        PROVE  GenuineInv'
    <3>1. r \in Genuine(c)
      OBVIOUS
    <3>2. /\ buffered' \in [Clients -> SUBSET Replies]
          /\ \A d \in Clients : buffered'[d] \subseteq buffered[d]
      BY <2>2 DEF TypeOK
    <3> QED
      BY <1>3, <2>2, <3>1, <3>2, ReturnTypes
         DEF EnterResult, TypeOK, serverVars, ownerVars, weightVars
  <2> QED
    BY <1>3, <2>1, <2>2 DEF EnterResult
<1>4. CASE GetReply(c, t)
  <2> DEFINE r == Head(responseQ[c])
  <2>1. r \in Genuine(c) /\ Tail(responseQ[c]) \in Seq(Genuine(c)) /\ r \in Replies
    BY <1>4, HeadTailProperties, GenuineTypes DEF GetReply
  <2>2. \A d \in Clients : responseQ'[d] \in Seq(Genuine(d))
    BY <1>4, <2>1 DEF GetReply, TypeOK
  <2>3. responseQ' \in [Clients -> Seq(Replies)]
    BY <1>4, <2>1, GenuineTypes DEF GetReply, TypeOK
  <2>4. CASE Return(c, t, r) /\ UNCHANGED buffered
    BY <1>4, <2>1, <2>2, <2>3, <2>4, ReturnTypes
       DEF GetReply, TypeOK, serverVars, ownerVars, weightVars
  <2>5. CASE /\ buffered' = [buffered EXCEPT ![c] = @ \cup {r}]
             /\ UNCHANGED <<call, returned>>
    <3>1. \A d \in Clients : buffered'[d] = IF d = c THEN buffered[c] \cup {r} ELSE buffered[d]
      BY <2>5 DEF TypeOK
    <3>2. buffered' \in [Clients -> SUBSET Replies]
      BY <2>1, <2>5 DEF TypeOK
    <3> QED
      BY <1>4, <2>1, <2>2, <2>3, <2>5, <3>1, <3>2
         DEF GetReply, TypeOK, serverVars, ownerVars, weightVars
  <2> QED
    BY <1>4, <2>4, <2>5 DEF GetReply, TakesReply
<1>5. CASE GetNothing(c, t) \/ CheckPeer(c, t) \/ PeerClosed(c, t)
  <2>1. \E pc \in {"idle", "lock", "get", "peer", "closed"} : Goto(c, t, pc)
    BY <1>5 DEF GetNothing, CheckPeer, PeerClosed, NextAfterNothing
  <2>2. call' \in [Clients -> [Threads -> CallStates]]
    BY <2>1, GotoTypes
  <2>3. UNCHANGED <<requestQ, responseQ, nextId, buffered, peerAlive, running,
                    serverVars, ownerVars, weightVars, stopping, controlQ, history>>
    BY <1>5 DEF GetNothing, CheckPeer, PeerClosed
  <2> QED
    BY <2>2, <2>3 DEF TypeOK, serverVars, ownerVars, weightVars, history
<1> QED
  BY <1>1, <1>2, <1>3, <1>4, <1>5 DEF ClientNext

-----------------------------------------------------------------------------
\* The serve loop.  What it puts on a response queue is the reply to a request of
\* that client.
LEMMA ServeStepTypes ==
    ASSUME NEW from, NEW to \in {"loop", "drain", "more", "model", "output", "error"},
           ServeStep(from, to)
    PROVE  serve' \in {"loop", "drain", "more", "model", "output", "error"}
BY DEF ServeStep

LEMMA ServeLoopStep ==
    ASSUME GenuineInv, ServeNext
    PROVE  GenuineInv'
<1> USE DEF GenuineInv
<1>0. MaxBatch \in Nat /\ << >> \in Seq(Requests) /\ Len(<< >>) = 0
  BY EmptySeq, ServiceAssumption
<1>1. CASE WaitForWork
  <2>1. serve' \in {"loop", "drain", "more", "model", "output", "error"}
    BY <1>1, ServeStepTypes DEF WaitForWork
  <2>2. requestQ' \in Seq(Requests) /\ peeked' \in Seq(Requests) /\ Len(peeked') <= 1
    <3>1. CASE peeked = << >> /\ requestQ # << >>
      <4>1. Head(requestQ) \in Requests /\ Tail(requestQ) \in Seq(Requests)
        BY <3>1, HeadTailProperties DEF TypeOK
      <4>2. peeked' = <<Head(requestQ)>> /\ requestQ' = Tail(requestQ)
        BY <1>1, <3>1 DEF WaitForWork
      <4>3. <<Head(requestQ)>> \in Seq(Requests) /\ Len(<<Head(requestQ)>>) = 1
        BY <4>1
      <4> QED
        BY <4>1, <4>2, <4>3
    <3>2. CASE ~(peeked = << >> /\ requestQ # << >>)
      BY <1>1, <3>2 DEF WaitForWork, TypeOK
    <3> QED
      BY <3>1, <3>2
  <2> QED
    BY <1>1, <2>1, <2>2
       DEF WaitForWork, TypeOK, clientVars, ownerVars, weightVars, history
<1>2. CASE Drain
  <2>1. /\ batch' \in Seq(Requests) /\ Len(batch') <= MaxBatch
        /\ requestQ' \in Seq(Requests) /\ peeked' = << >>
    BY <1>0, <1>2, DrainedType DEF Drain
  <2>2. serve' \in {"loop", "drain", "more", "model", "output", "error"}
    BY <1>2, ServeStepTypes DEF Drain, AfterDrain
  <2> QED
    BY <1>0, <1>2, <2>1, <2>2 DEF Drain, TypeOK, clientVars, ownerVars, weightVars, history
<1>3. CASE Accumulate
  <2> DEFINE d == Drained(MaxBatch - Len(batch))
  <2>1. MaxBatch - Len(batch) \in Nat /\ batch \in Seq(Requests) /\ Len(batch) \in Nat
    BY <1>0, LenProperties DEF TypeOK
  <2>2. d.taken \in Seq(Requests) /\ Len(d.taken) <= MaxBatch - Len(batch)
        /\ d.left \in Seq(Requests) /\ Len(d.taken) \in Nat
    BY <2>1, DrainedType, LenProperties
  <2>3. batch \o d.taken \in Seq(Requests) /\ Len(batch \o d.taken) <= MaxBatch
    <3> HIDE DEF d
    <3>1. batch \o d.taken \in Seq(Requests)
          /\ Len(batch \o d.taken) = Len(batch) + Len(d.taken)
      BY <2>1, <2>2, ConcatProperties
    <3> QED
      BY <1>0, <2>1, <2>2, <3>1
  <2>4. serve' \in {"loop", "drain", "more", "model", "output", "error"}
    <3>1. \A s \in Seq(Requests) : AfterDrain(s) \in {"loop", "more", "model"}
      BY DEF AfterDrain
    <3> QED
      BY <1>3, <2>3, <3>1, ServeStepTypes DEF Accumulate
  <2>5. /\ batch' \in Seq(Requests) /\ Len(batch') <= MaxBatch
        /\ requestQ' \in Seq(Requests) /\ peeked' \in Seq(Requests) /\ Len(peeked') <= 1
    <3>1. CASE batch' = batch \o d.taken /\ requestQ' = d.left /\ peeked' = << >>
      <4> HIDE DEF d
      <4> QED
        BY <1>0, <2>2, <2>3, <3>1
    <3>2. CASE UNCHANGED <<batch, requestQ, peeked>>
      BY <3>2 DEF TypeOK
    <3> QED
      BY <1>3, <3>1, <3>2 DEF Accumulate
  <2> QED
    BY <1>3, <2>4, <2>5 DEF Accumulate, TypeOK, clientVars, ownerVars, weightVars, history
<1>4. CASE ServeBatch
  <2>1. serve' \in {"loop", "drain", "more", "model", "output", "error"}
    BY <1>4, ServeStepTypes DEF ServeBatch
  <2> QED
    BY <1>4, <2>1 DEF ServeBatch, TypeOK, clientVars, ownerVars, weightVars, history
<1>5. CASE Resolve
  <2> DEFINE r == Head(batch)
  <2>1. r \in Requests /\ Tail(batch) \in Seq(Requests) /\ Len(Tail(batch)) <= MaxBatch
    <3>1. batch # << >> /\ batch \in Seq(Requests) /\ Len(batch) \in Nat /\ Len(batch) <= MaxBatch
      BY <1>5, LenProperties DEF Resolve, TypeOK
    <3> QED
      BY <1>0, <3>1, HeadTailProperties
  <2>2. serve' \in {"loop", "drain", "more", "model", "output", "error"}
    BY <1>5, ServeStepTypes DEF Resolve
  <2>3. r.client \in Clients /\ Reply(r) \in Genuine(r.client) /\ Reply(r) \in Replies
    BY <2>1, ReplyIsGenuine, GenuineTypes
  <2>4. responseQ' = [responseQ EXCEPT ![r.client] = Append(@, Reply(r))]
    BY <1>5 DEF Resolve
  <2>5. Append(responseQ[r.client], Reply(r)) \in Seq(Genuine(r.client))
        /\ Append(responseQ[r.client], Reply(r)) \in Seq(Replies)
    BY <2>3, AppendProperties, GenuineTypes
  <2>6. /\ responseQ' \in [Clients -> Seq(Replies)]
        /\ \A c \in Clients : responseQ'[c] \in Seq(Genuine(c))
    <3> HIDE DEF r
    <3> QED
      BY <2>3, <2>4, <2>5 DEF TypeOK
  <2> QED
    BY <1>5, <2>1, <2>2, <2>6
       DEF Resolve, TypeOK, clientVars, ownerVars, weightVars, history
<1>6. CASE DrainOnShutdown
  <2>1. /\ batch' \in Seq(Requests) /\ Len(batch') <= MaxBatch
        /\ requestQ' \in Seq(Requests) /\ peeked' = << >>
    BY <1>0, <1>6, DrainedType DEF DrainOnShutdown
  <2>2. serve' \in {"loop", "drain", "more", "model", "output", "error"}
    BY <1>6, ServeStepTypes DEF DrainOnShutdown
  <2>3. running' \in BOOLEAN
    BY <1>6 DEF DrainOnShutdown
  <2>4. controlQ' \in Seq(Nat)
    BY <1>6, EmptySeq DEF DrainOnShutdown, TypeOK
  <2>5. UNCHANGED <<responseQ, clientVars, peerAlive, ownerVars, weightVars, stopping, history>>
    BY <1>6 DEF DrainOnShutdown
  <2>6. TypeOK'
    BY <1>0, <2>1, <2>2, <2>3, <2>4, <2>5
       DEF TypeOK, clientVars, ownerVars, weightVars, history
  <2> QED
    BY <2>5, <2>6 DEF clientVars, history
<1> QED
  BY <1>1, <1>2, <1>3, <1>4, <1>5, <1>6 DEF ServeNext

-----------------------------------------------------------------------------
\* The owner and the process's main thread.
LEMMA OwnerStep ==
    ASSUME GenuineInv, OwnerNext \/ RunCommand \/ NoticeExit
    PROVE  GenuineInv'
<1> USE DEF GenuineInv
<1>0. MaxBatch \in Nat /\ << >> \in Seq(Requests) /\ Len(<< >>) = 0
  BY EmptySeq, ServiceAssumption
<1>1. CASE Start
  <2>1. serve' = "loop" /\ peeked' = << >> /\ batch' = << >> /\ life' = life + 1 /\ version' = 0
    BY <1>1 DEF Start
  <2>2. {peerAlive', monitor', running', stopping', asked'} \subseteq BOOLEAN
    <3>1. /\ peerAlive' = TRUE /\ monitor' = TRUE /\ running' = TRUE /\ stopping' = FALSE
          /\ asked' = asked /\ asked \in BOOLEAN
      BY <1>1 DEF Start, TypeOK
    <3> QED
      BY <3>1, Zenon
  <2> QED
    BY <1>0, <1>1, <2>1, <2>2 DEF Start, TypeOK, clientVars, history
<1>2. CASE UpdateModelWeights
  BY <1>2 DEF UpdateModelWeights, TypeOK, clientVars, serverVars, history
<1>3. CASE AskShutdown
  <2>1. controlQ' \in Seq(Nat)
    BY <1>3, AppendProperties DEF AskShutdown, TypeOK
  <2> QED
    BY <1>3, <2>1 DEF AskShutdown, TypeOK, clientVars, serverVars, weightVars, history
<1>4. CASE SetEvent
  <2>1. stopping' \in BOOLEAN /\ asked' \in BOOLEAN
    BY <1>4, Zenon DEF SetEvent
  <2> QED
    BY <1>4, <2>1 DEF SetEvent, TypeOK, clientVars, serverVars, weightVars, history
<1>5. CASE RunCommand
  <2>1. controlQ' \in Seq(Nat)
    BY <1>5, HeadTailProperties DEF RunCommand, TypeOK
  <2> QED
    BY <1>5, <2>1 DEF RunCommand, TypeOK, clientVars, serverVars, ownerVars, weightVars, history
<1>6. CASE NoticeExit
  BY <1>6 DEF NoticeExit, TypeOK, clientVars, serverVars, weightVars, history
<1> QED
  BY <1>1, <1>2, <1>3, <1>4, <1>5, <1>6 DEF OwnerNext

\* A kill takes replies away from the ends of the response queues.
LEMMA KillStep ==
    ASSUME GenuineInv, Kill
    PROVE  GenuineInv'
<1> USE DEF GenuineInv
<1>0. MaxBatch \in Nat /\ << >> \in Seq(Requests) /\ Len(<< >>) = 0 /\ MaxRequests \in Nat
  BY EmptySeq, ServiceAssumption
<1>1. PICK kept \in [Clients -> 0 .. MaxRequests] :
        /\ \A c \in Clients : kept[c] <= Len(responseQ[c])
        /\ responseQ' = [c \in Clients |-> SubSeq(responseQ[c], 1, kept[c])]
        /\ lost' = lost
             \cup Elements(peeked \o batch)
             \cup UNION {{[client |-> c, id |-> responseQ[c][i].id] :
                            i \in kept[c] + 1 .. Len(responseQ[c])} : c \in Clients}
  BY DEF Kill
<1>2. \A c \in Clients : /\ kept[c] \in Nat
                         /\ responseQ[c] \in Seq(Genuine(c)) /\ responseQ[c] \in Seq(Replies)
  BY <1>0 DEF TypeOK
<1>3. \A c \in Clients : /\ SubSeq(responseQ[c], 1, kept[c]) \in Seq(Genuine(c))
                         /\ SubSeq(responseQ[c], 1, kept[c]) \in Seq(Replies)
  BY <1>1, <1>2, Split
<1>4. /\ responseQ' \in [Clients -> Seq(Replies)]
      /\ \A c \in Clients : responseQ'[c] \in Seq(Genuine(c))
  BY <1>1, <1>3
<1>5. Elements(peeked \o batch) \subseteq Requests
  BY ConcatProperties, ElementsType DEF TypeOK
<1>6. ASSUME NEW c \in Clients, NEW i \in kept[c] + 1 .. Len(responseQ[c])
      PROVE  [client |-> c, id |-> responseQ[c][i].id] \in Requests
  <2>1. Len(responseQ[c]) \in Nat /\ i \in 1 .. Len(responseQ[c])
    BY <1>2, LenProperties
  <2>2. responseQ[c][i] \in Replies
    BY <1>2, <2>1, ElementOfSeq
  <2> QED
    BY <2>2 DEF Replies, Requests
<1>7. lost' \subseteq Requests
  BY <1>1, <1>5, <1>6 DEF TypeOK
<1>8. serve' = "loop" /\ peeked' = << >> /\ batch' = << >> /\ kills' = kills + 1 /\ running' = FALSE
  BY DEF Kill
<1>9. UNCHANGED <<requestQ, clientVars, peerAlive, monitor, life, asked, updates,
                  weightVars, stopping, controlQ, returned>>
  BY DEF Kill
<1>10. {peerAlive', monitor', running', stopping', asked'} \subseteq BOOLEAN
  <2>1. /\ peerAlive' = peerAlive /\ monitor' = monitor /\ stopping' = stopping /\ asked' = asked
        /\ {peerAlive, monitor, running, stopping, asked} \subseteq BOOLEAN
    BY <1>9 DEF TypeOK
  <2> QED
    BY <1>8, <2>1, Zenon
<1>11. TypeOK'
  BY <1>0, <1>4, <1>7, <1>8, <1>9, <1>10 DEF TypeOK, clientVars, weightVars
<1> QED
  BY <1>4, <1>9, <1>11 DEF clientVars

LEMMA GenuineStep == GenuineInv /\ [Next]_vars => GenuineInv'
<1> SUFFICES ASSUME GenuineInv, [Next]_vars PROVE GenuineInv'
  OBVIOUS
<1>1. CASE UNCHANGED vars
  <2>1. TypeOK'
    BY <1>1 DEF vars, clientVars, serverVars, ownerVars, weightVars, history, GenuineInv, TypeOK
  <2>2. responseQ' = responseQ /\ buffered' = buffered /\ returned' = returned
    BY <1>1 DEF vars, clientVars, history
  <2> QED
    BY <2>1, <2>2 DEF GenuineInv
<1> QED
  BY <1>1, ClientStep, ServeLoopStep, OwnerStep, KillStep DEF Next

LEMMA GenuineInvariant == Spec => []GenuineInv
BY GenuineInit, GenuineStep, PTL DEF Spec

\* The requests, replies, calls and queues of InferenceServer, Mailbox and
\* MailboxClient have their types, whatever the number of clients and threads.
THEOREM ServiceTypes == Spec => []TypeOK
<1>1. GenuineInv => TypeOK
  BY DEF GenuineInv
<1> QED
  BY <1>1, GenuineInvariant, PTL

\* result returns the answer to its own request, to every thread of every client,
\* through batches, errors, time-outs, kills and restarts (MailboxClient.
\* _get_result_unlocked, Mailbox.resolve).
THEOREM AnswersAreTheirOwn == Spec => []RepliesMatchRequests
<1>1. GenuineInv => RepliesMatchRequests
  BY DEF GenuineInv, Genuine, RepliesMatchRequests
<1> QED
  BY <1>1, GenuineInvariant, PTL
-----------------------------------------------------------------------------
(***************************************************************************)
(* Counting in sequences: how many elements of s are in M.                 *)
(***************************************************************************)
At(s, M) == {j \in DOMAIN s : s[j] \in M}

CountIn(s, M) == Cardinality(At(s, M))

LEMMA CountType ==
    ASSUME NEW S, NEW s \in Seq(S), NEW M
    PROVE  IsFiniteSet(At(s, M)) /\ CountIn(s, M) \in Nat
<1>1. Len(s) \in Nat /\ DOMAIN s = 1 .. Len(s)
  BY LenProperties
<1>2. IsFiniteSet(1 .. Len(s)) /\ At(s, M) \in SUBSET (1 .. Len(s))
  BY <1>1, FS_Interval DEF At
<1>3. IsFiniteSet(At(s, M))
  BY <1>2, FS_Subset
<1> QED
  BY <1>3, FS_CardinalityType DEF CountIn

\* The count of a sequence u that is s followed by t is the sum of theirs.
LEMMA CountJoined ==
    ASSUME NEW S, NEW s \in Seq(S), NEW t \in Seq(S), NEW u \in Seq(S), NEW M,
           Len(u) = Len(s) + Len(t),
           \A i \in 1 .. Len(s) + Len(t) : u[i] = IF i <= Len(s) THEN s[i] ELSE t[i - Len(s)]
    PROVE  CountIn(u, M) = CountIn(s, M) + CountIn(t, M)
<1> DEFINE shifted == {j \in Len(s) + 1 .. Len(s) + Len(t) : t[j - Len(s)] \in M}
           f == [j \in At(t, M) |-> j + Len(s)]
<1>1. /\ Len(s) \in Nat /\ DOMAIN s = 1 .. Len(s)
      /\ Len(t) \in Nat /\ DOMAIN t = 1 .. Len(t)
  BY LenProperties
<1>2. DOMAIN u = 1 .. Len(s) + Len(t)
  BY LenProperties
<1>4. PICK m \in Nat : m = Len(s)
  BY <1>1
<1>5. PICK n \in Nat : n = Len(t)
  BY <1>1
<1>6. At(u, M) = At(s, M) \cup shifted
  <2>1. \A j : j \in At(u, M) <=> j \in 1 .. m + n /\ u[j] \in M
    BY <1>2, <1>4, <1>5 DEF At
  <2>2. \A j : j \in At(s, M) <=> j \in 1 .. m /\ s[j] \in M
    BY <1>1, <1>4 DEF At
  <2>3. \A j : j \in shifted <=> j \in m + 1 .. m + n /\ t[j - m] \in M
    BY <1>4, <1>5
  <2>4. \A j \in 1 .. m + n : u[j] = IF j <= m THEN s[j] ELSE t[j - m]
    BY <1>4, <1>5
  <2> HIDE DEF shifted
  <2>5. ASSUME NEW j PROVE j \in At(u, M) <=> j \in At(s, M) \/ j \in shifted
    <3>1. CASE j \in 1 .. m
      <4>1. j \in 1 .. m + n /\ j <= m /\ j \notin m + 1 .. m + n
        BY ONLY <3>1, m \in Nat, n \in Nat
      <4>2. u[j] = s[j]
        BY <2>4, <4>1
      <4> QED
        BY ONLY <2>1, <2>2, <2>3, <3>1, <4>1, <4>2, Zenon
    <3>2. CASE j \in m + 1 .. m + n
      <4>1. j \in 1 .. m + n /\ ~(j <= m) /\ j \notin 1 .. m
        BY ONLY <3>2, m \in Nat, n \in Nat
      <4>2. u[j] = t[j - m]
        BY <2>4, <4>1
      <4> QED
        BY ONLY <2>1, <2>2, <2>3, <3>2, <4>1, <4>2, Zenon
    <3>3. CASE j \notin 1 .. m /\ j \notin m + 1 .. m + n
      <4>1. j \notin 1 .. m + n
        BY ONLY <3>3, m \in Nat, n \in Nat
      <4> QED
        BY ONLY <2>1, <2>2, <2>3, <3>3, <4>1, Zenon
    <3> QED
      BY <3>1, <3>2, <3>3
  <2> QED
    BY <2>5
<1>7. At(s, M) \cap shifted = {}
  <2>1. \A j \in At(s, M) : j \in 1 .. m
    BY <1>1, <1>4 DEF At
  <2>2. \A j \in shifted : j \in m + 1 .. m + n
    BY <1>4, <1>5
  <2> HIDE DEF shifted
  <2> QED
    BY ONLY <2>1, <2>2, m \in Nat, n \in Nat
<1>8. ExistsBijection(At(t, M), shifted)
  <2>1. \A j : j \in At(t, M) <=> j \in 1 .. n /\ t[j] \in M
    BY <1>1, <1>5 DEF At
  <2>2. \A j : j \in shifted <=> j \in m + 1 .. m + n /\ t[j - m] \in M
    BY <1>4, <1>5
  <2>3. \A j \in At(t, M) : f[j] = j + m
    BY <1>4
  <2> HIDE DEF shifted
  <2>4. ASSUME NEW j \in At(t, M) PROVE j + m \in shifted
    <3>1. j \in 1 .. n /\ t[j] \in M /\ (j + m) - m = j /\ j + m \in m + 1 .. m + n
      BY ONLY <2>1, j \in At(t, M), m \in Nat, n \in Nat
    <3> QED
      BY <2>2, <3>1
  <2>5. f \in [At(t, M) -> shifted]
    BY <1>4, <2>4
  <2>6. \A j, k \in At(t, M) : f[j] = f[k] => j = k
    <3> HIDE DEF f
    <3> QED
      BY ONLY <2>1, <2>3, m \in Nat, n \in Nat
  <2>7. ASSUME NEW k \in shifted PROVE \E j \in At(t, M) : f[j] = k
    <3>1. k \in m + 1 .. m + n /\ t[k - m] \in M
      BY <2>2
    <3>2. k - m \in 1 .. n /\ (k - m) + m = k
      BY ONLY <3>1, m \in Nat, n \in Nat
    <3>3. k - m \in At(t, M)
      BY <2>1, <3>1, <3>2
    <3> HIDE DEF f
    <3> QED
      BY <2>3, <3>2, <3>3
  <2>8. f \in Bijection(At(t, M), shifted)
    <3> HIDE DEF f
    <3> QED
      <4>1. f \in Injection(At(t, M), shifted)
        BY ONLY <2>5, <2>6 DEF Injection, IsInjective
      <4>2. f \in Surjection(At(t, M), shifted)
        BY ONLY <2>5, <2>7 DEF Surjection
      <4> QED
        BY <4>1, <4>2 DEF Bijection
  <2> QED
    BY <2>8 DEF ExistsBijection
<1>9. IsFiniteSet(shifted) /\ Cardinality(shifted) = CountIn(t, M)
  BY <1>8, CountType, FS_Bijection DEF CountIn
<1> HIDE DEF shifted
<1>10. Cardinality(At(s, M) \cup shifted)
         = Cardinality(At(s, M)) + Cardinality(shifted) - Cardinality(At(s, M) \cap shifted)
  BY <1>9, CountType, FS_Union
<1>11. Cardinality(At(s, M) \cap shifted) = 0
  BY <1>7, FS_EmptySet
<1>12. CountIn(s, M) \in Nat /\ CountIn(t, M) \in Nat
  BY CountType
<1> QED
  BY <1>6, <1>9, <1>10, <1>11, <1>12 DEF CountIn

LEMMA CountConcat ==
    ASSUME NEW S, NEW s \in Seq(S), NEW t \in Seq(S), NEW M
    PROVE  CountIn(s \o t, M) = CountIn(s, M) + CountIn(t, M)
<1>1. /\ s \o t \in Seq(S) /\ Len(s \o t) = Len(s) + Len(t)
      /\ \A i \in 1 .. Len(s) + Len(t) : (s \o t)[i] = IF i <= Len(s) THEN s[i] ELSE t[i - Len(s)]
  BY ConcatProperties
<1> DEFINE u == s \o t
<1> HIDE DEF u
<1>2. /\ u \in Seq(S) /\ Len(u) = Len(s) + Len(t)
      /\ \A i \in 1 .. Len(s) + Len(t) : u[i] = IF i <= Len(s) THEN s[i] ELSE t[i - Len(s)]
  BY <1>1, Zenon DEF u
<1>3. CountIn(u, M) = CountIn(s, M) + CountIn(t, M)
  BY <1>2, CountJoined
<1> QED
  BY <1>3 DEF u

LEMMA CountShort ==
    ASSUME NEW x, NEW M
    PROVE  /\ CountIn(<< >>, M) = 0
           /\ CountIn(<<x>>, M) = IF x \in M THEN 1 ELSE 0
<1>1. At(<< >>, M) = {}
  BY DEF At
<1>2. At(<<x>>, M) = IF x \in M THEN {1} ELSE {}
  BY DEF At
<1> QED
  BY <1>1, <1>2, FS_EmptySet, FS_Singleton DEF CountIn

\* The count of what is appended, of a head and its tail, of two parts.
LEMMA CountAppend ==
    ASSUME NEW S, NEW s \in Seq(S), NEW x \in S, NEW M
    PROVE  CountIn(Append(s, x), M) = CountIn(s, M) + (IF x \in M THEN 1 ELSE 0)
<1>1. Append(s, x) = s \o <<x>> /\ <<x>> \in Seq(S)
  BY AppendIsConcat
<1>2. CountIn(s \o <<x>>, M) = CountIn(s, M) + CountIn(<<x>>, M)
  BY <1>1, CountConcat
<1> QED
  BY <1>1, <1>2, CountShort

LEMMA CountSplit ==
    ASSUME NEW S, NEW s \in Seq(S), NEW n \in Nat, n <= Len(s), NEW M
    PROVE  CountIn(s, M) = CountIn(SubSeq(s, 1, n), M) + CountIn(SubSeq(s, n + 1, Len(s)), M)
<1>1. Len(s) \in Nat /\ 1 \in 1 .. Len(s) + 1 /\ n \in 1 - 1 .. Len(s) /\ Len(s) \in n .. Len(s)
  BY LenProperties
<1>2. SubSeq(s, 1, n) \o SubSeq(s, n + 1, Len(s)) = SubSeq(s, 1, Len(s))
  BY <1>1, ConcatAdjacentSubSeq
<1>3. SubSeq(s, 1, Len(s)) = s
  BY SubSeqFull
<1>4. SubSeq(s, 1, n) \in Seq(S) /\ SubSeq(s, n + 1, Len(s)) \in Seq(S)
  BY Split
<1>5. CountIn(SubSeq(s, 1, n) \o SubSeq(s, n + 1, Len(s)), M)
        = CountIn(SubSeq(s, 1, n), M) + CountIn(SubSeq(s, n + 1, Len(s)), M)
  BY ONLY <1>4, CountConcat, Zenon
<1> QED
  BY ONLY <1>2, <1>3, <1>5, Zenon

LEMMA CountHeadTail ==
    ASSUME NEW S, NEW s \in Seq(S), s # << >>, NEW M
    PROVE  CountIn(s, M) = (IF Head(s) \in M THEN 1 ELSE 0) + CountIn(Tail(s), M)
<1>1. Head(s) \in S /\ Tail(s) \in Seq(S)
  BY HeadTailProperties
<1>2. Len(s) \in Nat \ {0}
  BY EmptySeq
<1>3. /\ <<Head(s)>> \in Seq(S) /\ Len(<<Head(s)>>) = 1 /\ Len(Tail(s)) = Len(s) - 1
      /\ \A i \in 1 .. Len(Tail(s)) : Tail(s)[i] = s[i + 1]
  BY <1>1, HeadTailProperties
<1>4. s = <<Head(s)>> \o Tail(s)
  <2>1. 1 \in 1 .. Len(s) /\ Len(s) \in 1 .. Len(s)
    BY <1>2
  <2>2. SubSeq(s, 1, Len(s)) = <<s[1]>> \o SubSeq(s, 1 + 1, Len(s))
    BY <2>1, SubSeqRecursiveFirst
  <2>3. SubSeq(s, 1, Len(s)) = s /\ Tail(s) = SubSeq(s, 2, Len(s)) /\ s[1] = Head(s)
    BY SubSeqFull, TailIsSubSeq
  <2> QED
    BY <2>2, <2>3
<1>5. CountIn(<<Head(s)>> \o Tail(s), M) = CountIn(<<Head(s)>>, M) + CountIn(Tail(s), M)
  BY <1>1, <1>3, CountConcat
<1> QED
  BY <1>4, <1>5, CountShort

\* A count is zero when no element is in M.
LEMMA CountSome ==
    ASSUME NEW S, NEW s \in Seq(S), NEW M
    PROVE  CountIn(s, M) # 0 <=> \E j \in DOMAIN s : s[j] \in M
<1>1. CountIn(s, M) = 0 <=> At(s, M) = {}
  BY CountType, FS_EmptySet DEF CountIn
<1>2. At(s, M) = {} <=> ~\E j \in DOMAIN s : s[j] \in M
  BY Zenon DEF At
<1> QED
  BY ONLY <1>1, <1>2, Zenon
-----------------------------------------------------------------------------
(***************************************************************************)
(* Each request in one place.                                              *)
(***************************************************************************)
Request(c, i) == [client |-> c, id |-> i]
RepliesTo(i)  == {r \in Replies : r.id = i}
With(R, i)    == {r \in R : r.id = i}

\* The places of request i of client c.
Queued(c, i)   == CountIn(requestQ, {Request(c, i)})
Peeked(c, i)   == CountIn(peeked, {Request(c, i)})
InBatch(c, i)  == CountIn(batch, {Request(c, i)})
Answered(c, i) == CountIn(responseQ[c], RepliesTo(i))
PutAside(c, i) == Cardinality(With(buffered[c], i))
Returned(c, i) == Cardinality(With(returned[c], i))
Died(c, i)     == IF Request(c, i) \in lost THEN 1 ELSE 0
Issued(c, i)   == IF i < nextId[c] THEN 1 ELSE 0

InOnePlace(c, i) ==
    Queued(c, i) + Peeked(c, i) + InBatch(c, i) + Answered(c, i) + PutAside(c, i)
      + Returned(c, i) + Died(c, i) = Issued(c, i)

\* The inductive invariant behind EachRequestInOnePlace: what a step of the serve
\* loop overwrites, and what a start throws away, is empty.
PlacesInv ==
    /\ GenuineInv
    /\ \A c \in Clients : \A i \in RequestIds : InOnePlace(c, i)
    /\ serve \in {"loop", "drain"} => batch = << >>
    /\ ~running => peeked = << >> /\ batch = << >>
\* An answer is a result or an error: there are at most two genuine replies to a
\* request, whatever else is not finite.
LEMMA FewReplies ==
    ASSUME NEW c, NEW i, NEW R, R \subseteq Genuine(c)
    PROVE  IsFiniteSet(With(R, i)) /\ Cardinality(With(R, i)) \in Nat
<1> DEFINE reply(ok) == [id |-> i, answer |-> [ok |-> ok, request |-> [client |-> c, id |-> i]]]
<1>1. ASSUME NEW r \in With(R, i) PROVE r = reply(TRUE) \/ r = reply(FALSE)
  <2>1. r \in Replies /\ r.id = i /\ r.answer.request = [client |-> c, id |-> r.id]
    BY DEF With, Genuine
  <2>2. r = [id |-> r.id, answer |-> r.answer] /\ r.answer \in Answers
    BY <2>1 DEF Replies
  <2>3. r.answer = [ok |-> r.answer.ok, request |-> r.answer.request] /\ r.answer.ok \in BOOLEAN
    BY <2>2 DEF Answers
  <2>4. r.answer.ok = TRUE \/ r.answer.ok = FALSE
    BY <2>3, Zenon
  <2>5. r.answer = [ok |-> r.answer.ok, request |-> [client |-> c, id |-> i]]
    BY <2>1, <2>3, Zenon
  <2> QED
    BY <2>1, <2>2, <2>4, <2>5, Zenon
<1> HIDE DEF reply
<1>2. With(R, i) \in SUBSET {reply(TRUE), reply(FALSE)}
  BY <1>1, Zenon
<1>3. IsFiniteSet({reply(TRUE)}) /\ {reply(TRUE), reply(FALSE)} = {reply(TRUE)} \cup {reply(FALSE)}
  BY FS_Singleton
<1>4. IsFiniteSet({reply(TRUE), reply(FALSE)})
  BY <1>3, FS_AddElement
<1>5. IsFiniteSet(With(R, i))
  BY <1>2, <1>4, FS_Subset
<1> QED
  BY <1>5, FS_CardinalityType

PlacesAreNumbers(c, i) ==
    /\ Queued(c, i) \in Nat /\ Peeked(c, i) \in Nat /\ InBatch(c, i) \in Nat
    /\ Answered(c, i) \in Nat /\ PutAside(c, i) \in Nat /\ Returned(c, i) \in Nat
    /\ Died(c, i) \in {0, 1} /\ Issued(c, i) \in {0, 1}

LEMMA PlacesTypes ==
    ASSUME GenuineInv, NEW c \in Clients, NEW i \in RequestIds
    PROVE  PlacesAreNumbers(c, i)
<1>1. requestQ \in Seq(Requests) /\ peeked \in Seq(Requests) /\ batch \in Seq(Requests)
      /\ responseQ[c] \in Seq(Replies)
  BY DEF GenuineInv, TypeOK
<1>2. buffered[c] \subseteq Genuine(c) /\ returned[c] \subseteq Genuine(c)
  BY DEF GenuineInv
<1>3. /\ Queued(c, i) \in Nat /\ Peeked(c, i) \in Nat /\ InBatch(c, i) \in Nat
      /\ Answered(c, i) \in Nat
  BY <1>1, CountType DEF Queued, Peeked, InBatch, Answered
<1>4. PutAside(c, i) \in Nat /\ Returned(c, i) \in Nat
  BY <1>2, FewReplies DEF PutAside, Returned
<1> QED
  BY <1>3, <1>4 DEF Died, Issued, PlacesAreNumbers

LEMMA RequestEqual ==
    ASSUME NEW c, NEW d, NEW i, NEW j
    PROVE  Request(c, i) = Request(d, j) <=> c = d /\ i = j
BY DEF Request

\* The replies to one request among a set with one reply more, or one less.
LEMMA WithMore ==
    ASSUME NEW c, NEW i, NEW R, R \subseteq Genuine(c), NEW r,
           With(R, r.id) = {}
    PROVE  Cardinality(With(R \cup {r}, i))
             = Cardinality(With(R, i)) + (IF r.id = i THEN 1 ELSE 0)
<1>1. CASE r.id = i
  <2>1. With(R \cup {r}, i) = {r} /\ With(R, i) = {}
    BY <1>1 DEF With
  <2>2. Cardinality(With(R \cup {r}, i)) = 1 /\ Cardinality(With(R, i)) = 0
    BY <2>1, FS_Singleton, FS_EmptySet, Zenon
  <2> QED
    BY <1>1, <2>2
<1>2. CASE r.id # i
  <2>1. With(R \cup {r}, i) = With(R, i)
    BY <1>2 DEF With
  <2>2. Cardinality(With(R, i)) \in Nat
    BY FewReplies
  <2> QED
    BY <1>2, <2>1, <2>2
<1> QED
  BY <1>1, <1>2

LEMMA WithLess ==
    ASSUME NEW c, NEW i, NEW R, R \subseteq Genuine(c), NEW r \in R
    PROVE  Cardinality(With(R, i))
             = Cardinality(With(R \ {r}, i)) + (IF r.id = i THEN 1 ELSE 0)
<1>1. CASE r.id = i
  <2>1. With(R \ {r}, i) = With(R, i) \ {r} /\ r \in With(R, i)
    BY <1>1 DEF With
  <2>2. IsFiniteSet(With(R, i)) /\ Cardinality(With(R, i)) \in Nat
    BY FewReplies
  <2>3. Cardinality(With(R, i) \ {r}) = Cardinality(With(R, i)) - 1
    BY <2>1, <2>2, FS_RemoveElement
  <2>4. Cardinality(With(R \ {r}, i)) = Cardinality(With(R, i)) - 1
    BY <2>1, <2>3, Zenon
  <2> QED
    BY ONLY <1>1, <2>2, <2>4
<1>2. CASE r.id # i
  <2>1. With(R \ {r}, i) = With(R, i)
    BY <1>2 DEF With
  <2>2. Cardinality(With(R, i)) \in Nat
    BY FewReplies
  <2> QED
    BY <1>2, <2>1, <2>2
<1> QED
  BY <1>1, <1>2
-----------------------------------------------------------------------------
\* The clients.  A step says what happens to each request i of each client d.
LEMMA SubmitPlaces ==
    ASSUME PlacesInv, NEW c \in Clients, NEW t \in Threads, Submit(c, t),
           NEW d \in Clients, NEW i \in RequestIds
    PROVE  InOnePlace(d, i)'
<1> DEFINE n == nextId[c]
           new == IF c = d /\ i = n THEN 1 ELSE 0
<1>1. /\ requestQ' = Append(requestQ, Request(c, n)) /\ n < MaxRequests
      /\ nextId' = [nextId EXCEPT ![c] = @ + 1]
      /\ UNCHANGED <<peeked, batch, responseQ, buffered, returned, lost>>
  BY DEF Submit, Request, serverVars, history
<1>2. n \in Nat /\ nextId[d] \in Nat /\ i \in Nat
  <2>1. nextId \in [Clients -> 0 .. MaxRequests] /\ MaxRequests \in Nat
    BY ServiceAssumption DEF PlacesInv, GenuineInv, TypeOK
  <2> QED
    BY <2>1 DEF RequestIds
<1>3. n \in RequestIds /\ requestQ \in Seq(Requests) /\ Request(c, n) \in Requests
  <2>1. n \in RequestIds
    BY <1>1, <1>2, ServiceAssumption DEF RequestIds
  <2> QED
    BY <2>1 DEF PlacesInv, GenuineInv, TypeOK, Requests, Request
<1>4. Queued(d, i)' = Queued(d, i) + new
  <2>1. CountIn(Append(requestQ, Request(c, n)), {Request(d, i)})
          = CountIn(requestQ, {Request(d, i)})
              + (IF Request(c, n) \in {Request(d, i)} THEN 1 ELSE 0)
    BY <1>3, CountAppend
  <2>2. Request(c, n) \in {Request(d, i)} <=> c = d /\ i = n
    BY RequestEqual
  <2> QED
    BY <1>1, <2>1, <2>2 DEF Queued
<1>5. nextId'[d] = IF c = d THEN n + 1 ELSE nextId[d]
  BY <1>1 DEF PlacesInv, GenuineInv, TypeOK
<1>6. Issued(d, i)' = Issued(d, i) + new
  <2>1. c = d => n = nextId[d]
    OBVIOUS
  <2> HIDE DEF n
  <2> QED
    BY <1>2, <1>5, <2>1 DEF Issued
<1>7. /\ Peeked(d, i)' = Peeked(d, i) /\ InBatch(d, i)' = InBatch(d, i)
      /\ Answered(d, i)' = Answered(d, i) /\ PutAside(d, i)' = PutAside(d, i)
      /\ Returned(d, i)' = Returned(d, i) /\ Died(d, i)' = Died(d, i)
  BY <1>1 DEF Peeked, InBatch, Answered, PutAside, Returned, Died
<1>8. InOnePlace(d, i) /\ PlacesAreNumbers(d, i) /\ new \in {0, 1}
  BY PlacesTypes DEF PlacesInv
<1> HIDE DEF n, new
<1> QED
  BY ONLY <1>4, <1>6, <1>7, <1>8 DEF InOnePlace, PlacesAreNumbers

\* A step that leaves the places of client d alone.
LEMMA SamePlaces ==
    ASSUME PlacesInv, NEW d \in Clients, NEW i \in RequestIds,
           UNCHANGED <<requestQ, peeked, batch, lost, nextId, responseQ[d], buffered[d], returned[d]>>
    PROVE  InOnePlace(d, i)'
BY DEF PlacesInv, InOnePlace, Queued, Peeked, InBatch, Answered, PutAside, Returned, Died, Issued

\* A request with an answer on the response queue, or put aside, has no other.
LEMMA AnsweredOnce ==
    ASSUME PlacesInv, NEW c \in Clients, NEW i \in RequestIds
    PROVE  /\ Answered(c, i) # 0 => With(buffered[c], i) = {} /\ With(returned[c], i) = {}
           /\ PutAside(c, i) # 0 => With(returned[c], i) = {}
<1>1. InOnePlace(c, i)
  BY DEF PlacesInv
<1>2. /\ Answered(c, i) # 0 => PutAside(c, i) = 0 /\ Returned(c, i) = 0
      /\ PutAside(c, i) # 0 => Returned(c, i) = 0
  BY <1>1, PlacesTypes DEF PlacesInv, InOnePlace, PlacesAreNumbers
<1>3. IsFiniteSet(With(buffered[c], i)) /\ IsFiniteSet(With(returned[c], i))
  BY FewReplies DEF PlacesInv, GenuineInv
<1>4. /\ PutAside(c, i) = 0 => With(buffered[c], i) = {}
      /\ Returned(c, i) = 0 => With(returned[c], i) = {}
  BY <1>3, FS_EmptySet DEF PutAside, Returned
<1> QED
  BY <1>2, <1>4

LEMMA EnterResultPlaces ==
    ASSUME PlacesInv, NEW c \in Clients, NEW t \in Threads, EnterResult(c, t),
           NEW d \in Clients, NEW i \in RequestIds
    PROVE  InOnePlace(d, i)'
<1>1. UNCHANGED <<requestQ, peeked, batch, responseQ, lost, nextId>>
  BY DEF EnterResult, serverVars
<1>2. CASE UNCHANGED <<buffered, returned>>
  BY <1>1, <1>2, SamePlaces
<1>3. ASSUME NEW r \in buffered[c],
             buffered' = [buffered EXCEPT ![c] = @ \ {r}],
             returned' = [returned EXCEPT ![c] = @ \cup {r}]
      PROVE  InOnePlace(d, i)'
  <2> DEFINE this == IF r.id = i THEN 1 ELSE 0
  <2>1. /\ buffered'[d] = IF d = c THEN buffered[c] \ {r} ELSE buffered[d]
        /\ returned'[d] = IF d = c THEN returned[c] \cup {r} ELSE returned[d]
    BY <1>3 DEF PlacesInv, GenuineInv, TypeOK
  <2>2. CASE d # c
    BY <1>1, <2>1, <2>2, SamePlaces
  <2>3. CASE d = c
    <3>1. /\ buffered[c] \subseteq Genuine(c) /\ returned[c] \subseteq Genuine(c)
          /\ r \in Replies /\ r.id \in RequestIds
      BY DEF PlacesInv, GenuineInv, TypeOK, Replies
    <3>2. With(returned[c], r.id) = {}
      <4>1. PutAside(c, r.id) # 0
        <5>1. r \in With(buffered[c], r.id)
          BY DEF With
        <5> QED
          BY <3>1, <5>1, FewReplies, FS_EmptySet DEF PutAside
      <4> QED
        BY <3>1, <4>1, AnsweredOnce
    <3>3. PutAside(c, i) = PutAside(c, i)' + this
      BY <2>1, <2>3, <3>1, WithLess DEF PutAside
    <3>4. Returned(c, i)' = Returned(c, i) + this
      BY <2>1, <2>3, <3>1, <3>2, WithMore DEF Returned
    <3>5. PutAside(c, i)' \in Nat
      <4>1. buffered[c] \ {r} \subseteq Genuine(c)
        BY <3>1
      <4> QED
        BY <2>1, <2>3, <4>1, FewReplies DEF PutAside
    <3>6. /\ Queued(c, i)' = Queued(c, i) /\ Peeked(c, i)' = Peeked(c, i)
          /\ InBatch(c, i)' = InBatch(c, i) /\ Answered(c, i)' = Answered(c, i)
          /\ Died(c, i)' = Died(c, i) /\ Issued(c, i)' = Issued(c, i)
      BY <1>1 DEF Queued, Peeked, InBatch, Answered, Died, Issued
    <3>7. InOnePlace(c, i) /\ PlacesAreNumbers(c, i) /\ this \in {0, 1}
      BY PlacesTypes DEF PlacesInv
    <3> HIDE DEF this
    <3>8. InOnePlace(c, i)'
      BY ONLY <3>3, <3>4, <3>5, <3>6, <3>7 DEF InOnePlace, PlacesAreNumbers
    <3> QED
      BY <2>3, <3>8
  <2> QED
    BY <2>2, <2>3
<1> QED
  BY <1>2, <1>3 DEF EnterResult, Return

LEMMA GetReplyPlaces ==
    ASSUME PlacesInv, NEW c \in Clients, NEW t \in Threads, GetReply(c, t),
           NEW d \in Clients, NEW i \in RequestIds
    PROVE  InOnePlace(d, i)'
<1> DEFINE r == Head(responseQ[c])
           this == IF r.id = i THEN 1 ELSE 0
<1>1. UNCHANGED <<requestQ, peeked, batch, lost, nextId>> /\ responseQ[c] # << >>
  BY DEF GetReply, serverVars
<1>2. responseQ'[d] = IF d = c THEN Tail(responseQ[c]) ELSE responseQ[d]
  BY DEF GetReply, PlacesInv, GenuineInv, TypeOK
<1>3. \/ /\ buffered'[d] = buffered[d]
         /\ returned'[d] = IF d = c THEN returned[c] \cup {r} ELSE returned[d]
      \/ /\ buffered'[d] = IF d = c THEN buffered[c] \cup {r} ELSE buffered[d]
         /\ returned'[d] = returned[d]
  BY DEF GetReply, TakesReply, Return, PlacesInv, GenuineInv, TypeOK
<1>4. CASE d # c
  BY <1>1, <1>2, <1>3, <1>4, SamePlaces
<1>5. CASE d = c
  <2>1. /\ responseQ[c] \in Seq(Replies) /\ r \in Replies /\ r.id \in RequestIds
        /\ Tail(responseQ[c]) \in Seq(Replies)
        /\ buffered[c] \subseteq Genuine(c) /\ returned[c] \subseteq Genuine(c)
    <3>1. responseQ[c] \in Seq(Replies)
      BY DEF PlacesInv, GenuineInv, TypeOK
    <3>2. r \in Replies /\ Tail(responseQ[c]) \in Seq(Replies)
      BY <1>1, <3>1, HeadTailProperties
    <3>3. r.id \in RequestIds
      BY <3>2 DEF Replies
    <3> QED
      BY <3>1, <3>2, <3>3 DEF PlacesInv, GenuineInv
  <2> HIDE DEF r
  <2>2. \A j : r \in RepliesTo(j) <=> r.id = j
    BY <2>1 DEF RepliesTo
  <2>3. \A M : CountIn(responseQ[c], M) = (IF r \in M THEN 1 ELSE 0) + CountIn(Tail(responseQ[c]), M)
    BY <1>1, <2>1, CountHeadTail DEF r
  <2>4. \A M : CountIn(Tail(responseQ[c]), M) \in Nat
    BY <2>1, CountType
  <2>5. With(returned[c], r.id) = {} /\ With(buffered[c], r.id) = {}
    <3>1. Answered(c, r.id) # 0
      BY <2>2, <2>3, <2>4 DEF Answered
    <3> QED
      BY <2>1, <3>1, AnsweredOnce
  <2>6. Answered(c, i) = this + Answered(c, i)' /\ Answered(c, i)' \in Nat
    <3>1. responseQ'[c] = Tail(responseQ[c])
      BY <1>2, <1>5
    <3>2. CountIn(responseQ[c], RepliesTo(i))
            = (IF r \in RepliesTo(i) THEN 1 ELSE 0) + CountIn(Tail(responseQ[c]), RepliesTo(i))
      BY <2>3
    <3>3. CountIn(Tail(responseQ[c]), RepliesTo(i)) \in Nat
      BY <2>4
    <3> QED
      BY <2>2, <3>1, <3>2, <3>3 DEF Answered
  <2>7. \/ Returned(c, i)' = Returned(c, i) + this /\ PutAside(c, i)' = PutAside(c, i)
        \/ Returned(c, i)' = Returned(c, i) /\ PutAside(c, i)' = PutAside(c, i) + this
    <3>0. /\ Cardinality(With(returned[c] \cup {r}, i)) = Cardinality(With(returned[c], i)) + this
          /\ Cardinality(With(buffered[c] \cup {r}, i)) = Cardinality(With(buffered[c], i)) + this
      BY <2>1, <2>5, WithMore
    <3> HIDE DEF this
    <3>1. CASE buffered'[c] = buffered[c] /\ returned'[c] = returned[c] \cup {r}
      BY <3>0, <3>1, Zenon DEF Returned, PutAside
    <3>2. CASE buffered'[c] = buffered[c] \cup {r} /\ returned'[c] = returned[c]
      BY <3>0, <3>2, Zenon DEF Returned, PutAside
    <3> QED
      BY <1>3, <1>5, <3>1, <3>2
  <2>8. /\ Queued(c, i)' = Queued(c, i) /\ Peeked(c, i)' = Peeked(c, i)
        /\ InBatch(c, i)' = InBatch(c, i) /\ Died(c, i)' = Died(c, i)
        /\ Issued(c, i)' = Issued(c, i)
    BY <1>1 DEF Queued, Peeked, InBatch, Died, Issued
  <2>9. InOnePlace(c, i) /\ PlacesAreNumbers(c, i) /\ this \in {0, 1}
    BY PlacesTypes DEF PlacesInv
  <2> HIDE DEF this
  <2>10. InOnePlace(c, i)'
    BY ONLY <2>6, <2>7, <2>8, <2>9 DEF InOnePlace, PlacesAreNumbers
  <2> QED
    BY <1>5, <2>10
<1> QED
  BY <1>4, <1>5
-----------------------------------------------------------------------------
\* The serve loop: what drain takes and what it leaves is what was there.
LEMMA DrainedCount ==
    ASSUME TypeOK, NEW max \in Nat, NEW M
    PROVE  /\ CountIn(Drained(max).taken, M) \in Nat /\ CountIn(Drained(max).left, M) \in Nat
           /\ CountIn(peeked, M) + CountIn(requestQ, M)
                = CountIn(Drained(max).taken, M) + CountIn(Drained(max).left, M)
<1> DEFINE pending == peeked \o requestQ
           n == Least(max, Len(pending))
<1>1. peeked \in Seq(Requests) /\ requestQ \in Seq(Requests)
  BY DEF TypeOK
<1>2. pending \in Seq(Requests) /\ Len(pending) \in Nat
  BY <1>1, ConcatProperties, LenProperties
<1>3. n \in Nat /\ n <= Len(pending)
  BY <1>2 DEF Least
<1>4. Drained(max).taken = SubSeq(pending, 1, n) /\ Drained(max).left = SubSeq(pending, n + 1, Len(pending))
  BY DEF Drained
<1>5. CountIn(pending, M) = CountIn(peeked, M) + CountIn(requestQ, M)
  BY <1>1, CountConcat
<1> HIDE DEF pending, n
<1>6. CountIn(pending, M) = CountIn(SubSeq(pending, 1, n), M) + CountIn(SubSeq(pending, n + 1, Len(pending)), M)
  BY <1>2, <1>3, CountSplit
<1>7. CountIn(Drained(max).taken, M) \in Nat /\ CountIn(Drained(max).left, M) \in Nat
  BY DrainedType, CountType
<1> QED
  BY <1>4, <1>5, <1>6, <1>7, Zenon

\* A step that moves a request between the queue, the hand and the batch.
LEMMA MovedPlaces ==
    ASSUME PlacesInv, NEW d \in Clients, NEW i \in RequestIds,
           UNCHANGED <<responseQ, buffered, returned, lost, nextId>>,
           Queued(d, i)' + Peeked(d, i)' + InBatch(d, i)'
             = Queued(d, i) + Peeked(d, i) + InBatch(d, i)
    PROVE  InOnePlace(d, i)'
<1>1. /\ Answered(d, i)' = Answered(d, i) /\ PutAside(d, i)' = PutAside(d, i)
      /\ Returned(d, i)' = Returned(d, i) /\ Died(d, i)' = Died(d, i)
      /\ Issued(d, i)' = Issued(d, i)
  BY DEF Answered, PutAside, Returned, Died, Issued
<1>2. InOnePlace(d, i)
  BY DEF PlacesInv
<1> QED
  BY <1>1, <1>2 DEF InOnePlace

LEMMA WaitForWorkPlaces ==
    ASSUME PlacesInv, WaitForWork, NEW d \in Clients, NEW i \in RequestIds
    PROVE  InOnePlace(d, i)'
<1> DEFINE M == {Request(d, i)}
<1>1. UNCHANGED <<batch, responseQ, buffered, returned, lost, nextId>>
  BY DEF WaitForWork, clientVars, history
<1>2. CASE UNCHANGED <<peeked, requestQ>>
  BY <1>1, <1>2, SamePlaces
<1>3. CASE /\ peeked = << >> /\ requestQ # << >>
           /\ peeked' = <<Head(requestQ)>> /\ requestQ' = Tail(requestQ)
  <2>1. requestQ \in Seq(Requests) /\ Tail(requestQ) \in Seq(Requests)
    BY <1>3, HeadTailProperties DEF PlacesInv, GenuineInv, TypeOK
  <2>2. CountIn(requestQ, M) = (IF Head(requestQ) \in M THEN 1 ELSE 0) + CountIn(Tail(requestQ), M)
    BY <1>3, <2>1, CountHeadTail
  <2>3. /\ CountIn(<<Head(requestQ)>>, M) = IF Head(requestQ) \in M THEN 1 ELSE 0
        /\ CountIn(<< >>, M) = 0
    BY CountShort
  <2>4. CountIn(Tail(requestQ), M) \in Nat
    BY <2>1, CountType
  <2>5. /\ Queued(d, i) = CountIn(requestQ, M) /\ Queued(d, i)' = CountIn(Tail(requestQ), M)
        /\ Peeked(d, i) = CountIn(<< >>, M) /\ Peeked(d, i)' = CountIn(<<Head(requestQ)>>, M)
        /\ InBatch(d, i)' = InBatch(d, i)
    BY <1>1, <1>3, Zenon DEF Queued, Peeked, InBatch
  <2>6. InBatch(d, i) \in Nat
    BY PlacesTypes DEF PlacesInv, PlacesAreNumbers
  <2>7. Queued(d, i)' + Peeked(d, i)' + InBatch(d, i)'
          = Queued(d, i) + Peeked(d, i) + InBatch(d, i)
    <3> HIDE DEF M
    <3> QED
      BY ONLY <2>2, <2>3, <2>4, <2>5, <2>6
  <2> QED
    BY <1>1, <2>7, MovedPlaces
<1> QED
  BY <1>2, <1>3 DEF WaitForWork

\* The turns of the loop that drain the mailbox.
LEMMA DrainingPlaces ==
    ASSUME PlacesInv, NEW d \in Clients, NEW i \in RequestIds, NEW max \in Nat,
           UNCHANGED <<responseQ, buffered, returned, lost, nextId>>,
           batch' = batch \o Drained(max).taken,
           requestQ' = Drained(max).left, peeked' = << >>
    PROVE  InOnePlace(d, i)'
<1> DEFINE M == {Request(d, i)}
           took == CountIn(Drained(max).taken, M)
           left == CountIn(Drained(max).left, M)
<1>1. /\ took \in Nat /\ left \in Nat /\ CountIn(peeked, M) + CountIn(requestQ, M) = took + left
  BY DrainedCount DEF PlacesInv, GenuineInv
<1>2. CountIn(batch \o Drained(max).taken, M) = CountIn(batch, M) + took
  BY DrainedType, CountConcat DEF PlacesInv, GenuineInv, TypeOK
<1>3. CountIn(<< >>, M) = 0
  BY CountShort
<1> HIDE DEF took, left
<1>4. /\ Queued(d, i)' = left /\ Peeked(d, i)' = 0 /\ InBatch(d, i)' = InBatch(d, i) + took
      /\ Peeked(d, i) + Queued(d, i) = took + left
  BY <1>1, <1>2, <1>3, Zenon DEF Queued, Peeked, InBatch, left
<1>5. InBatch(d, i) \in Nat /\ Peeked(d, i) \in Nat /\ Queued(d, i) \in Nat
  BY PlacesTypes DEF PlacesInv, PlacesAreNumbers
<1>6. Queued(d, i)' + Peeked(d, i)' + InBatch(d, i)'
        = Queued(d, i) + Peeked(d, i) + InBatch(d, i)
  BY ONLY <1>1, <1>4, <1>5
<1> QED
  BY <1>6, MovedPlaces

LEMMA DrainPlaces ==
    ASSUME PlacesInv, Drain \/ Accumulate \/ DrainOnShutdown, NEW d \in Clients, NEW i \in RequestIds
    PROVE  InOnePlace(d, i)'
<1>1. UNCHANGED <<responseQ, buffered, returned, lost, nextId>>
  BY DEF Drain, Accumulate, DrainOnShutdown, clientVars, history
<1>2. MaxBatch \in Nat /\ MaxBatch - Len(batch) \in Nat /\ batch \in Seq(Requests)
  BY ServiceAssumption, LenProperties DEF PlacesInv, GenuineInv, TypeOK
<1>3. CASE Drain \/ DrainOnShutdown
  <2>1. /\ batch = << >> /\ batch' = Drained(MaxBatch).taken
        /\ requestQ' = Drained(MaxBatch).left /\ peeked' = << >>
    BY <1>3 DEF Drain, DrainOnShutdown, ServeStep, PlacesInv
  <2>2. batch' = batch \o Drained(MaxBatch).taken
    <3>1. Drained(MaxBatch).taken \in Seq(Requests)
      BY <1>2, DrainedType DEF PlacesInv, GenuineInv
    <3>2. << >> \o Drained(MaxBatch).taken = Drained(MaxBatch).taken
      BY <3>1, ConcatEmptySeq
    <3> QED
      BY <2>1, <3>2, Zenon
  <2> QED
    BY <1>1, <1>2, <2>1, <2>2, DrainingPlaces
<1>4. CASE Accumulate
  <2>1. CASE /\ batch' = batch \o Drained(MaxBatch - Len(batch)).taken
             /\ requestQ' = Drained(MaxBatch - Len(batch)).left /\ peeked' = << >>
    BY <1>1, <1>2, <2>1, DrainingPlaces
  <2>2. CASE UNCHANGED <<batch, requestQ, peeked>>
    BY <1>1, <2>2, SamePlaces
  <2> QED
    BY <1>4, <2>1, <2>2 DEF Accumulate
<1> QED
  BY <1>3, <1>4

LEMMA ResolvePlaces ==
    ASSUME PlacesInv, Resolve, NEW d \in Clients, NEW i \in RequestIds
    PROVE  InOnePlace(d, i)'
<1> DEFINE r == Head(batch)
           this == IF r = Request(d, i) THEN 1 ELSE 0
<1>1. UNCHANGED <<requestQ, peeked, buffered, returned, lost, nextId>>
      /\ batch # << >> /\ batch' = Tail(batch)
      /\ responseQ' = [responseQ EXCEPT ![r.client] = Append(@, Reply(r))]
  BY DEF Resolve, clientVars, history
<1>2. batch \in Seq(Requests) /\ Tail(batch) \in Seq(Requests) /\ r \in Requests
  BY <1>1, HeadTailProperties DEF PlacesInv, GenuineInv, TypeOK
<1> HIDE DEF r
<1>3. /\ r = Request(r.client, r.id) /\ r.client \in Clients
      /\ Reply(r) \in Replies /\ Reply(r).id = r.id
  BY <1>2, ReplyIsGenuine DEF Requests, Request, Genuine, Reply
<1>4. InBatch(d, i) = this + InBatch(d, i)' /\ InBatch(d, i)' \in Nat
  <2>1. CountIn(batch, {Request(d, i)})
          = (IF r \in {Request(d, i)} THEN 1 ELSE 0) + CountIn(Tail(batch), {Request(d, i)})
    BY <1>1, <1>2, CountHeadTail DEF r
  <2>2. CountIn(Tail(batch), {Request(d, i)}) \in Nat
    BY <1>2, CountType
  <2> QED
    BY <1>1, <2>1, <2>2 DEF InBatch
<1>5. Answered(d, i)' = Answered(d, i) + this
  <2>1. responseQ'[d] = IF d = r.client THEN Append(responseQ[d], Reply(r)) ELSE responseQ[d]
    BY <1>1 DEF PlacesInv, GenuineInv, TypeOK
  <2>2. r = Request(d, i) <=> d = r.client /\ Reply(r) \in RepliesTo(i)
    BY <1>3 DEF RepliesTo, Request
  <2>3. Answered(d, i) \in Nat
    BY PlacesTypes DEF PlacesInv, PlacesAreNumbers
  <2>4. CASE d # r.client
    BY <2>1, <2>2, <2>3, <2>4 DEF Answered
  <2>5. CASE d = r.client
    <3>1. responseQ[d] \in Seq(Replies)
      BY DEF PlacesInv, GenuineInv, TypeOK
    <3>2. CountIn(Append(responseQ[d], Reply(r)), RepliesTo(i))
            = CountIn(responseQ[d], RepliesTo(i)) + (IF Reply(r) \in RepliesTo(i) THEN 1 ELSE 0)
      BY <1>3, <3>1, CountAppend
    <3> QED
      BY <2>1, <2>2, <2>5, <3>2 DEF Answered
  <2> QED
    BY <2>4, <2>5
<1>6. /\ Queued(d, i)' = Queued(d, i) /\ Peeked(d, i)' = Peeked(d, i)
      /\ PutAside(d, i)' = PutAside(d, i) /\ Returned(d, i)' = Returned(d, i)
      /\ Died(d, i)' = Died(d, i) /\ Issued(d, i)' = Issued(d, i)
  BY <1>1 DEF Queued, Peeked, PutAside, Returned, Died, Issued
<1>7. InOnePlace(d, i) /\ PlacesAreNumbers(d, i) /\ this \in {0, 1}
  BY PlacesTypes DEF PlacesInv
<1> HIDE DEF this
<1> QED
  BY ONLY <1>4, <1>5, <1>6, <1>7 DEF InOnePlace, PlacesAreNumbers
-----------------------------------------------------------------------------
\* A kill: the replies cut off the end of a response queue are those after the
\* kept ones.
LEMMA CutOff ==
    ASSUME NEW s \in Seq(Replies), NEW k \in Nat, k <= Len(s), NEW i
    PROVE  CountIn(SubSeq(s, k + 1, Len(s)), RepliesTo(i)) # 0
             <=> \E j \in k + 1 .. Len(s) : s[j].id = i
<1> DEFINE cut == SubSeq(s, k + 1, Len(s))
<1>1. PICK n \in Nat : n = Len(s)
  BY LenProperties
<1>2. \A j \in 1 .. n : s[j] \in Replies
  BY <1>1, ElementOfSeq
<1>3. /\ cut \in Seq(Replies) /\ Len(cut) = IF k + 1 <= n THEN n - (k + 1) + 1 ELSE 0
      /\ \A j \in 1 .. n - (k + 1) + 1 : cut[j] = s[k + 1 + j - 1]
  <2>1. \A j \in k + 1 .. n : s[j] \in Replies
    BY <1>2
  <2> QED
    BY <1>1, <2>1, SubSeqProperties
<1> HIDE DEF cut
<1>4. Len(cut) = n - k
  BY ONLY <1>1, <1>3, k \in Nat, k <= Len(s)
<1>5. DOMAIN cut = 1 .. n - k
  BY <1>3, <1>4, LenProperties
<1>6. CountIn(cut, RepliesTo(i)) # 0 <=> \E j \in 1 .. n - k : cut[j] \in RepliesTo(i)
  BY <1>3, <1>5, CountSome
<1>7. \A j \in 1 .. n - k : cut[j] = s[k + j] /\ k + j \in k + 1 .. n /\ s[k + j] \in Replies
  <2> SUFFICES ASSUME NEW j \in 1 .. n - k
               PROVE  cut[j] = s[k + j] /\ k + j \in k + 1 .. n /\ s[k + j] \in Replies
    OBVIOUS
  <2>1. j \in 1 .. n - (k + 1) + 1 /\ k + 1 + j - 1 = k + j /\ k + j \in k + 1 .. n /\ k + j \in 1 .. n
    BY ONLY n \in Nat, k \in Nat, j \in 1 .. n - k
  <2> QED
    BY <1>2, <1>3, <2>1
<1>8. \A j \in k + 1 .. n : j - k \in 1 .. n - k /\ k + (j - k) = j
  BY ONLY n \in Nat, k \in Nat
<1>9. (\E j \in 1 .. n - k : cut[j] \in RepliesTo(i)) <=> \E j \in k + 1 .. n : s[j].id = i
  <2>1. ASSUME NEW j \in 1 .. n - k, cut[j] \in RepliesTo(i) PROVE \E l \in k + 1 .. n : s[l].id = i
    BY <1>7, <2>1 DEF RepliesTo
  <2>2. ASSUME NEW l \in k + 1 .. n, s[l].id = i PROVE \E j \in 1 .. n - k : cut[j] \in RepliesTo(i)
    <3>1. cut[l - k] = s[l] /\ s[l] \in Replies /\ l - k \in 1 .. n - k
      BY <1>7, <1>8
    <3> QED
      BY <2>2, <3>1 DEF RepliesTo
  <2> QED
    BY <2>1, <2>2
<1> QED
  BY <1>1, <1>6, <1>9 DEF cut

LEMMA KillPlaces ==
    ASSUME PlacesInv, Kill, NEW d \in Clients, NEW i \in RequestIds
    PROVE  InOnePlace(d, i)'
<1> DEFINE R == Request(d, i)
<1>1. PICK kept \in [Clients -> 0 .. MaxRequests] :
        /\ \A c \in Clients : kept[c] <= Len(responseQ[c])
        /\ responseQ' = [c \in Clients |-> SubSeq(responseQ[c], 1, kept[c])]
        /\ lost' = lost
             \cup Elements(peeked \o batch)
             \cup UNION {{[client |-> c, id |-> responseQ[c][j].id] :
                            j \in kept[c] + 1 .. Len(responseQ[c])} : c \in Clients}
  BY DEF Kill
<1>2. /\ UNCHANGED <<requestQ, nextId, buffered, returned>> /\ peeked' = << >> /\ batch' = << >>
      /\ responseQ'[d] = SubSeq(responseQ[d], 1, kept[d])
  BY <1>1 DEF Kill, clientVars
<1> DEFINE cut == CountIn(SubSeq(responseQ[d], kept[d] + 1, Len(responseQ[d])), RepliesTo(i))
<1>3. responseQ[d] \in Seq(Replies) /\ kept[d] \in Nat /\ kept[d] <= Len(responseQ[d])
  <2>1. MaxRequests \in Nat
    BY ServiceAssumption
  <2> QED
    BY <1>1, <2>1 DEF PlacesInv, GenuineInv, TypeOK
<1>4. Answered(d, i) = Answered(d, i)' + cut /\ Answered(d, i)' \in Nat /\ cut \in Nat
  <2>1. CountIn(responseQ[d], RepliesTo(i)) = CountIn(SubSeq(responseQ[d], 1, kept[d]), RepliesTo(i)) + cut
    BY <1>3, CountSplit
  <2>2. CountIn(SubSeq(responseQ[d], 1, kept[d]), RepliesTo(i)) \in Nat /\ cut \in Nat
    BY <1>3, Split, CountType
  <2> HIDE DEF cut
  <2> QED
    BY <1>2, <2>1, <2>2 DEF Answered
<1>5. R \in Elements(peeked \o batch) <=> Peeked(d, i) + InBatch(d, i) # 0
  <2>1. peeked \in Seq(Requests) /\ batch \in Seq(Requests)
    BY DEF PlacesInv, GenuineInv, TypeOK
  <2>2. peeked \o batch \in Seq(Requests)
    BY <2>1, ConcatProperties
  <2>3. CountIn(peeked \o batch, {R}) = Peeked(d, i) + InBatch(d, i)
    BY <2>1, CountConcat DEF Peeked, InBatch
  <2>4. CountIn(peeked \o batch, {R}) # 0 <=> \E j \in DOMAIN (peeked \o batch) : (peeked \o batch)[j] \in {R}
    BY <2>2, CountSome
  <2>5. R \in Elements(peeked \o batch)
          <=> \E j \in DOMAIN (peeked \o batch) : (peeked \o batch)[j] \in {R}
    BY Zenon DEF Elements
  <2> QED
    BY <2>3, <2>4, <2>5, Zenon
<1>6. (\E j \in kept[d] + 1 .. Len(responseQ[d]) : responseQ[d][j].id = i) <=> cut # 0
  BY <1>3, CutOff
<1> HIDE DEF cut
<1>7. R \in lost' <=> R \in lost \/ Peeked(d, i) + InBatch(d, i) # 0 \/ cut # 0
  <2>1. (R \in UNION {{[client |-> c, id |-> responseQ[c][j].id] :
                           j \in kept[c] + 1 .. Len(responseQ[c])} : c \in Clients})
          <=> \E c \in Clients : \E j \in kept[c] + 1 .. Len(responseQ[c]) :
                 R = [client |-> c, id |-> responseQ[c][j].id]
    OBVIOUS
  <2>2. \A c, j : R = [client |-> c, id |-> responseQ[c][j].id] <=> c = d /\ responseQ[c][j].id = i
    BY DEF Request
  <2>3. (R \in UNION {{[client |-> c, id |-> responseQ[c][j].id] :
                           j \in kept[c] + 1 .. Len(responseQ[c])} : c \in Clients})
          <=> cut # 0
    BY <1>6, <2>1, <2>2, Zenon
  <2> QED
    BY <1>1, <1>5, <2>3, Zenon
<1>8. Queued(d, i)' = Queued(d, i) /\ PutAside(d, i)' = PutAside(d, i)
      /\ Returned(d, i)' = Returned(d, i) /\ Issued(d, i)' = Issued(d, i)
  BY <1>2 DEF Queued, PutAside, Returned, Issued
<1>9. Peeked(d, i)' = 0 /\ InBatch(d, i)' = 0
  BY <1>2, CountShort DEF Peeked, InBatch
<1>10. InOnePlace(d, i) /\ PlacesAreNumbers(d, i)
  BY PlacesTypes DEF PlacesInv
<1>11. Died(d, i)' = Died(d, i) + Peeked(d, i) + InBatch(d, i) + cut
  <2>1. Died(d, i)' = IF R \in lost' THEN 1 ELSE 0
    BY DEF Died
  <2>2. Died(d, i) = IF R \in lost THEN 1 ELSE 0
    BY DEF Died
  <2>3. Died(d, i) + Peeked(d, i) + InBatch(d, i) + cut <= 1
    BY ONLY <1>4, <1>10 DEF InOnePlace, PlacesAreNumbers
  <2> HIDE DEF R
  <2> QED
    BY ONLY <1>4, <1>7, <1>10, <2>1, <2>2, <2>3 DEF PlacesAreNumbers
<1> QED
  BY ONLY <1>4, <1>8, <1>9, <1>10, <1>11 DEF InOnePlace, PlacesAreNumbers

-----------------------------------------------------------------------------
LEMMA PlacesInit == Init => PlacesInv
<1> SUFFICES ASSUME Init PROVE PlacesInv
  OBVIOUS
<1>1. ASSUME NEW c \in Clients, NEW i \in RequestIds PROVE InOnePlace(c, i)
  <2>1. Queued(c, i) = 0 /\ Peeked(c, i) = 0 /\ InBatch(c, i) = 0 /\ Answered(c, i) = 0
    BY CountShort DEF Init, Queued, Peeked, InBatch, Answered
  <2>2. With(buffered[c], i) = {} /\ With(returned[c], i) = {}
    BY DEF Init, With
  <2>3. PutAside(c, i) = 0 /\ Returned(c, i) = 0
    BY <2>2, FS_EmptySet DEF PutAside, Returned
  <2>4. Died(c, i) = 0
    BY DEF Init, Died
  <2>5. Issued(c, i) = 0
    BY ServiceAssumption DEF Init, Issued, RequestIds
  <2> QED
    BY <2>1, <2>3, <2>4, <2>5 DEF InOnePlace
<1>2. batch = << >> /\ peeked = << >>
  BY DEF Init
<1> QED
  BY <1>1, <1>2, GenuineInit DEF PlacesInv

\* What a step of the loop overwrites is empty, and so is what a dead process held.
LEMMA HandsEmpty ==
    ASSUME PlacesInv, [Next]_vars
    PROVE  /\ (serve \in {"loop", "drain"} => batch = << >>)'
           /\ (~running => peeked = << >> /\ batch = << >>)'
<1> DEFINE A == (serve \in {"loop", "drain"} => batch = << >>)'
           B == (~running => peeked = << >> /\ batch = << >>)'
<1>0. batch \in Seq(Requests)
  BY DEF PlacesInv, GenuineInv, TypeOK
<1>1. CASE UNCHANGED <<serverVars, running>>
  BY <1>1 DEF PlacesInv, serverVars
<1>2. CASE Start \/ Kill
  BY <1>2 DEF Start, Kill
<1>3. CASE WaitForWork
  BY <1>3 DEF WaitForWork, ServeStep, PlacesInv
<1>4. CASE Drain
  BY <1>4 DEF Drain, ServeStep, AfterDrain, PlacesInv
<1>5. CASE Accumulate
  <2> DEFINE d == Drained(MaxBatch - Len(batch))
  <2>1. running' /\ serve = "more"
    BY <1>5 DEF Accumulate, ServeStep
  <2>2. CASE serve' = "model"
    BY <2>1, <2>2
  <2>3. CASE serve' = AfterDrain(batch \o d.taken) /\ d.taken # << >>
    <3>1. MaxBatch - Len(batch) \in Nat
      BY ServiceAssumption, LenProperties, <1>0 DEF PlacesInv, GenuineInv, TypeOK
    <3>2. d.taken \in Seq(Requests)
      BY <3>1, DrainedType DEF PlacesInv, GenuineInv
    <3> HIDE DEF d
    <3>3. batch \o d.taken # << >>
      BY <1>0, <2>3, <3>2, ConcatEqualIffEmpty
    <3>4. serve' \in {"more", "model"}
      BY <2>3, <3>3 DEF AfterDrain
    <3> QED
      BY <2>1, <3>4
  <2> QED
    BY <1>5, <2>2, <2>3 DEF Accumulate, ServeStep
<1>6. CASE ServeBatch
  BY <1>6 DEF ServeBatch, ServeStep, PlacesInv
<1>7. CASE Resolve
  <2>1. running' /\ batch # << >> /\ batch' = Tail(batch)
        /\ (serve' \in {"output", "error"} \/ Len(batch) = 1)
    BY <1>7 DEF Resolve, ServeStep
  <2>2. Len(batch) = 1 => Tail(batch) = << >>
    <3>1. Len(Tail(batch)) = Len(batch) - 1 /\ Tail(batch) \in Seq(Requests)
      BY <1>0, <2>1, HeadTailProperties
    <3>2. Tail(batch) # << >> => Len(Tail(batch)) \in Nat \ {0}
      BY <3>1, EmptySeq
    <3>3. Len(batch) = 1 => Len(Tail(batch)) = 0
      BY ONLY <3>1
    <3> QED
      BY ONLY <3>2, <3>3
  <2> QED
    BY <2>1, <2>2
<1>8. CASE DrainOnShutdown
  BY <1>8 DEF DrainOnShutdown, ServeStep, PlacesInv
<1>9. ASSUME NEW c \in Clients, NEW t \in Threads, ClientNext(c, t)
      PROVE  UNCHANGED <<serverVars, running>>
  BY <1>9 DEF ClientNext, Submit, Result, EnterResult, GetReply, GetNothing, CheckPeer, PeerClosed
<1>10. CASE UpdateModelWeights \/ AskShutdown \/ SetEvent \/ RunCommand \/ NoticeExit
  BY <1>1, <1>10 DEF UpdateModelWeights, AskShutdown, SetEvent, RunCommand, NoticeExit
<1>11. CASE UNCHANGED vars
  BY <1>1, <1>11 DEF vars
<1> HIDE DEF A, B
<1> QED
  BY <1>1, <1>2, <1>3, <1>4, <1>5, <1>6, <1>7, <1>8, <1>9, <1>10, <1>11
     DEF Next, ServeNext, OwnerNext

LEMMA PlacesStep == PlacesInv /\ [Next]_vars => PlacesInv'
<1> SUFFICES ASSUME PlacesInv, [Next]_vars PROVE PlacesInv'
  OBVIOUS
<1>1. ASSUME NEW d \in Clients, NEW i \in RequestIds PROVE InOnePlace(d, i)'
  <2>1. ASSUME NEW c \in Clients, NEW t \in Threads, ClientNext(c, t)
        PROVE  InOnePlace(d, i)'
    <3>1. CASE Result(c, t) \/ GetNothing(c, t) \/ CheckPeer(c, t) \/ PeerClosed(c, t)
      BY <3>1, SamePlaces DEF Result, GetNothing, CheckPeer, PeerClosed, serverVars, history
    <3> QED
      BY <2>1, <3>1, SubmitPlaces, EnterResultPlaces, GetReplyPlaces DEF ClientNext
  <2>2. CASE ServeNext
    <3>1. CASE ServeBatch
      BY <3>1, SamePlaces DEF ServeBatch, clientVars, history
    <3> QED
      BY <2>2, <3>1, WaitForWorkPlaces, DrainPlaces, ResolvePlaces DEF ServeNext
  <2>3. CASE Start
    <3>1. UNCHANGED <<requestQ, responseQ, buffered, returned, lost, nextId>>
          /\ peeked' = << >> /\ batch' = << >> /\ peeked = << >> /\ batch = << >>
      BY <2>3 DEF Start, clientVars, history, PlacesInv
    <3> QED
      BY <3>1, SamePlaces
  <2>4. CASE UpdateModelWeights \/ AskShutdown \/ SetEvent \/ RunCommand \/ NoticeExit
    BY <2>4, SamePlaces
       DEF UpdateModelWeights, AskShutdown, SetEvent, RunCommand, NoticeExit,
           clientVars, serverVars, history
  <2>5. CASE UNCHANGED vars
    BY <2>5, SamePlaces DEF vars, clientVars, serverVars, history
  <2> QED
    BY <2>1, <2>2, <2>3, <2>4, <2>5, KillPlaces DEF Next, OwnerNext
<1>2. GenuineInv'
  BY GenuineStep DEF PlacesInv
<1> QED
  BY <1>1, <1>2, HandsEmpty DEF PlacesInv

LEMMA PlacesInvariant == Spec => []PlacesInv
BY PlacesInit, PlacesStep, PTL DEF Spec

LEMMA PlacesAsStated == PlacesInv => EachRequestInOnePlace
<1> SUFFICES ASSUME PlacesInv, NEW c \in Clients, NEW i \in RequestIds
             PROVE  LET replies == {j \in DOMAIN responseQ[c] : responseQ[c][j].id = i}
                        places  == Occurrences(requestQ, c, i) + Occurrences(peeked, c, i)
                                     + Occurrences(batch, c, i) + Cardinality(replies)
                                     + Cardinality({r \in buffered[c] : r.id = i})
                                     + Cardinality({r \in returned[c] : r.id = i})
                                     + (IF [client |-> c, id |-> i] \in lost THEN 1 ELSE 0)
                    IN  places = (IF i < nextId[c] THEN 1 ELSE 0)
  BY DEF EachRequestInOnePlace
<1>1. ASSUME NEW s \in Seq(Requests)
      PROVE  Occurrences(s, c, i) = CountIn(s, {Request(c, i)})
  <2>1. \A j \in DOMAIN s : s[j] \in Requests
    BY ElementOfSeq, LenProperties
  <2>2. \A j \in DOMAIN s : s[j] \in {Request(c, i)} <=> s[j].client = c /\ s[j].id = i
    BY <2>1 DEF Request, Requests
  <2>3. {j \in DOMAIN s : s[j].client = c /\ s[j].id = i} = At(s, {Request(c, i)})
    BY <2>2, Zenon DEF At
  <2> QED
    BY <2>3, Zenon DEF Occurrences, CountIn
<1>2. {j \in DOMAIN responseQ[c] : responseQ[c][j].id = i} = At(responseQ[c], RepliesTo(i))
  <2>1. responseQ[c] \in Seq(Replies)
    BY DEF PlacesInv, GenuineInv, TypeOK
  <2>2. \A j \in DOMAIN responseQ[c] : responseQ[c][j] \in Replies
    BY <2>1, ElementOfSeq, LenProperties
  <2> QED
    BY <2>2 DEF At, RepliesTo
<1>3. requestQ \in Seq(Requests) /\ peeked \in Seq(Requests) /\ batch \in Seq(Requests)
  BY DEF PlacesInv, GenuineInv, TypeOK
<1>4. InOnePlace(c, i)
  BY DEF PlacesInv
<1> QED
  BY <1>1, <1>2, <1>3, <1>4, Zenon
     DEF InOnePlace, Queued, Peeked, InBatch, Answered, PutAside, Returned, Died, Issued,
         CountIn, With, Request

\* No request is lost, duplicated or answered twice: it is queued, peeked, in the
\* batch, or its answer is on the way, put aside or returned, and one of these only,
\* unless it died with a process (Mailbox.wait_for_work, drain, resolve,
\* MailboxClient._get_result), through any number of kills and restarts.
THEOREM RequestsAreNeitherLostNorDoubled == Spec => []EachRequestInOnePlace
BY PlacesInvariant, PlacesAsStated, PTL
=============================================================================
