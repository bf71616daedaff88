---------------------------- MODULE EpochPrefetch ----------------------------
(***************************************************************************)
(* Iterating over a replay buffer whose sampler is a                       *)
(* SamplerWithoutReplacement and which prefetches batches.                 *)
(*                                                                         *)
(* Prefetched batches are drawn by the threads of a pool, in whatever      *)
(* order they get the replay lock, while the consumer decides from the     *)
(* sampler's _remaining_batches and ran_out how many more to request and   *)
(* when the iteration is over.  The consumer reads the two without the     *)
(* lock, one after the other; what a draw leaves in them halfway can only  *)
(* end the refill earlier.                                                 *)
(*                                                                         *)
(* The sampler's list of indices is the set of items it still holds: which *)
(* of them the permutation puts first is decided when they are drawn.  The *)
(* storage does not change.                                                *)
(*                                                                         *)
(* A definition named X_Something is X as a plausible bug would have it;   *)
(* no specification uses it.                                               *)
(***************************************************************************)
EXTENDS Integers, Sequences, SequencesExt

CONSTANTS
    Items,       \* the slots of the storage
    BatchSize,
    DropChoices, \* the values of drop_last the sampler may be created with
    Cap,         \* prefetch
    PlainCalls,  \* bound: calls of sample outside an iteration
    Checkpoints, \* bound: restores of a saved buffer
    Iterations,  \* bound: iterations started
    MaxBatches   \* bound: batches returned within one iteration

Size == Cardinality(Items)

ASSUME EpochAssumption ==
    /\ IsFiniteSet(Items)
    /\ BatchSize \in 1 .. Size
    /\ DropChoices \subseteq BOOLEAN
    /\ Cap \in Nat \ {0}
    /\ {PlainCalls, Checkpoints, Iterations} \subseteq Nat
    /\ MaxBatches \in Nat

VARIABLES
    dropLast,    \* the sampler drops the last, incomplete batch
    sampler,     \* left, remaining, ranOut of the SamplerWithoutReplacement
    queue,       \* _prefetch_queue: pending requests and drawn batches
    pc,          \* where the consumer is
    batch,       \* the batch sample() is about to return
    iterating,   \* the call of sample was made by __iter__
    epoch,       \* batches returned of the epoch under way
    saved,       \* checkpoints taken: sampler, queue and epoch
    regular,     \* no call since the last complete iteration was misled; see Misled
    used         \* calls made, iterations started, restores: see the bounds

vars == <<dropLast, sampler, queue, pc, batch, iterating, epoch, saved, regular,
          used>>

Pending == [drawn |-> FALSE, items |-> {}]
Drawn(b) == [drawn |-> TRUE, items |-> b]

\* Batches in a list of n indices.
Batches(n) == IF dropLast THEN n \div BatchSize ELSE -((-n) \div BatchSize)

\* _remaining_batches of a sampler that has not sampled: the class's default.
Unlimited == Batches(Size) + Cap

NewSampler == [left |-> Items, remaining |-> Unlimited, ranOut |-> FALSE]

Init ==
    /\ dropLast \in DropChoices
    /\ sampler = NewSampler
    /\ queue = <<>>
    /\ pc = "idle"
    /\ batch = {}
    /\ iterating = FALSE
    /\ epoch = <<>>
    /\ saved = {}
    /\ regular = TRUE
    /\ used = [calls |-> 0, iterations |-> 0, restores |-> 0]

-----------------------------------------------------------------------------
(***************************************************************************)
(* The sampler.                                                            *)
(***************************************************************************)
\* The next batch: fewer than BatchSize items only at the end of the list.
NextBatches == {b \in SUBSET sampler.left :
                   Cardinality(b) = IF Cardinality(sampler.left) < BatchSize
                                    THEN Cardinality(sampler.left) ELSE BatchSize}

Exhausted(left) == left = {} \/ (dropLast /\ Cardinality(left) < BatchSize)

\* A list with no batch left is replaced by a new one at once.
Draw_NewListLater(b) ==
    LET left == sampler.left \ b
    IN  sampler' = [left |-> left, remaining |-> Batches(Cardinality(left)),
                    ranOut |-> Exhausted(left)]
Draw(b) ==
    LET left == sampler.left \ b
    IN  sampler' = IF Exhausted(left)
                   THEN [left |-> Items, remaining |-> Batches(Size), ranOut |-> TRUE]
                   ELSE [left |-> left,
                         remaining |-> Batches(Cardinality(left)), ranOut |-> FALSE]

\* A thread of the pool draws the batch of a pending request.
RunRequest ==
    \E i \in DOMAIN queue, b \in NextBatches :
        /\ ~queue[i].drawn
        /\ Draw(b)
        /\ queue' = [queue EXCEPT ![i] = Drawn(b)]
        /\ UNCHANGED <<dropLast, pc, batch, iterating, epoch, saved, regular, used>>

-----------------------------------------------------------------------------
(***************************************************************************)
(* The consumer: ReplayBuffer.__iter__ and sample.                         *)
(***************************************************************************)
ClearRanOut == sampler' = [sampler EXCEPT !.ranOut = FALSE]

\* The refill counts on more batches than the sampler's list holds: nothing was drawn
\* since a checkpoint was restored, whose state lacks _remaining_batches.
Misled ==
    /\ queue # <<>>
    /\ ~sampler.ranOut
    /\ sampler.remaining > Batches(Cardinality(sampler.left))

\* ran_out, which __iter__ clears, speaks of an epoch that is in the queue.
EpochIsQueued == sampler.ranOut /\ queue # <<>>

StartIteration ==
    /\ pc = "idle"
    /\ used.iterations < Iterations
    /\ used' = [used EXCEPT !.iterations = @ + 1]
    /\ ClearRanOut
    /\ iterating' = TRUE
    /\ pc' = "next"
    /\ regular' = (regular /\ ~Misled /\ ~EpochIsQueued)
    /\ UNCHANGED <<dropLast, queue, batch, epoch, saved>>

Continues_WhileBatchesRemain == sampler.remaining > 0 \/ queue # <<>>
Continues_NotDraining == ~sampler.ranOut
Continues == ~sampler.ranOut \/ queue # <<>>

NextOfIteration ==
    /\ pc = "next"
    /\ pc' = IF Continues THEN "sample" ELSE "end"
    /\ UNCHANGED <<dropLast, regular, sampler, queue, batch, iterating, epoch, saved, used>>

EndIteration ==
    /\ pc = "end"
    /\ pc' = "idle"
    /\ iterating' = FALSE
    /\ epoch' = <<>>
    /\ regular' = TRUE
    /\ UNCHANGED <<dropLast, sampler, queue, batch, saved, used>>

PlainSample ==
    /\ pc = "idle"
    /\ used.calls < PlainCalls
    /\ used' = [used EXCEPT !.calls = @ + 1]
    /\ pc' = "sample"
    /\ regular' = (regular /\ ~Misled)
    /\ UNCHANGED <<dropLast, sampler, queue, batch, iterating, epoch, saved>>

\* The oldest prefetched batch, once it is drawn; without one, a batch drawn
\* by the consumer itself.
TakeBatch ==
    /\ pc = "sample"
    /\ Len(epoch) < MaxBatches
    /\ \/ /\ queue # <<>>
          /\ Head(queue).drawn
          /\ batch' = Head(queue).items
          /\ queue' = Tail(queue)
          /\ UNCHANGED sampler
       \/ /\ queue = <<>>
          /\ \E b \in NextBatches : Draw(b) /\ batch' = b
          /\ UNCHANGED queue
    /\ pc' = "refill"
    /\ UNCHANGED <<dropLast, regular, iterating, epoch, saved, used>>

HasRoom_CapOnly == Len(queue) < Cap
HasRoom == Len(queue) < Cap /\ Len(queue) < sampler.remaining

\* The two halves of the condition of sample's while loop.
RefillTestRoom ==
    /\ pc = "refill"
    /\ pc' = IF HasRoom THEN "flag" ELSE "return"
    /\ UNCHANGED <<dropLast, regular, sampler, queue, batch, iterating, epoch, saved, used>>

RefillTestRanOut ==
    /\ pc = "flag"
    /\ IF sampler.ranOut
       THEN pc' = "return" /\ UNCHANGED queue
       ELSE pc' = "refill" /\ queue' = Append(queue, Pending)
    /\ UNCHANGED <<dropLast, regular, sampler, batch, iterating, epoch, saved, used>>

\* Calls outside an iteration that have returned a whole epoch begin the next.
ReturnBatch ==
    /\ pc = "return"
    /\ epoch' = IF ~iterating /\ Len(epoch) + 1 = Batches(Size) THEN <<>>
                ELSE Append(epoch, batch)
    /\ batch' = {}
    /\ pc' = IF iterating THEN "next" ELSE "idle"
    /\ UNCHANGED <<dropLast, regular, sampler, queue, iterating, saved, used>>

-----------------------------------------------------------------------------
(***************************************************************************)
(* Checkpoints, between two calls of the consumer.  Saving waits for the   *)
(* pending requests.  The state of the sampler does not include            *)
(* _remaining_batches.                                                     *)
(***************************************************************************)
StateDict == [left |-> sampler.left, ranOut |-> sampler.ranOut,
              queue |-> queue, epoch |-> epoch, regular |-> regular]

Save ==
    /\ pc = "idle"
    /\ Checkpoints > 0 /\ saved = {} /\ epoch # <<>>
    /\ \A i \in DOMAIN queue : queue[i].drawn
    /\ saved' = saved \cup {StateDict}
    /\ UNCHANGED <<dropLast, regular, sampler, queue, pc, batch, iterating, epoch, used>>

\* The checkpoint is loaded into a new buffer, or into the one that saved it.
Load ==
    /\ pc = "idle"
    /\ used.restores < Checkpoints
    /\ used' = [used EXCEPT !.restores = @ + 1]
    /\ \E s \in saved, remaining \in {Unlimited, sampler.remaining} :
        /\ sampler' = [left |-> s.left, remaining |-> remaining, ranOut |-> s.ranOut]
        /\ queue' = s.queue
        /\ epoch' = s.epoch
        /\ regular' = s.regular
    /\ UNCHANGED <<dropLast, pc, batch, iterating, saved>>

-----------------------------------------------------------------------------
Consumer ==
    \/ StartIteration \/ NextOfIteration \/ EndIteration \/ PlainSample
    \/ TakeBatch \/ RefillTestRoom \/ RefillTestRanOut \/ ReturnBatch

Next == Consumer \/ RunRequest \/ Save \/ Load

\* The pool runs what it is given; a consumer that is iterating goes on.
Fairness ==
    /\ WF_vars(RunRequest)
    /\ WF_vars(pc # "idle" /\ Consumer)

Spec == Init /\ [][Next]_vars /\ Fairness

-----------------------------------------------------------------------------
\* The types of the variables; the sampler always holds the list of its next batch.
TypeOK ==
    /\ sampler \in [left : (SUBSET Items) \ {{}}, remaining : 0 .. Unlimited, ranOut : BOOLEAN]
    /\ queue \in Seq([drawn : BOOLEAN, items : SUBSET Items]) /\ Len(queue) <= Cap
    /\ batch \subseteq Items

EpochReturned ==
    /\ Len(epoch) = Batches(Size)
    /\ \A i, j \in DOMAIN epoch : i # j => epoch[i] \cap epoch[j] = {}
    /\ dropLast \/ UNION ToSet(epoch) = Items

\* A complete iteration returns every item exactly once (but for the incomplete
\* batch that drop_last drops), those of the epoch that calls of sample returned
\* before it started included: not a batch of the epoch is left behind in the
\* prefetch queue, not one of the next epoch is returned.
EveryIterationIsOneEpoch == pc = "end" => EpochReturned

\* The same of iterations before which no call was misled, however many calls of
\* sample, other iterations and restored checkpoints came before.
IterationIsOneEpoch == pc = "end" /\ regular => EpochReturned

\* Until a call is misled nothing of the next epoch is drawn while batches of the one
\* under way are to come, although the refill reads the sampler's counters without
\* the lock (sample).
NeverAhead ==
    regular =>
        LET inHand == (IF batch = {} THEN {} ELSE {batch})
                      \cup {queue[i].items : i \in {j \in DOMAIN queue : queue[j].drawn}}
        IN  \A b \in inHand, i \in DOMAIN epoch : b \cap epoch[i] = {}

\* Epochs do not mix, within an epoch or at the end of an iteration.
EpochsStayApart == IterationIsOneEpoch /\ NeverAhead

\* "completed with other samples from a fresh indices permutation": without
\* drop_last the last batch of an epoch is as large as the others.
BatchesAreFull == ~dropLast => \A i \in DOMAIN epoch : Cardinality(epoch[i]) = BatchSize

\* An iteration that is not misled ends: it neither waits for a batch nobody
\* requested nor runs on into one epoch after another (__iter__, sample).
IterationEnds == (pc = "next" /\ regular) ~> pc = "end"
=============================================================================
