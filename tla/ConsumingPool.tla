---------------------------- MODULE ConsumingPool ----------------------------
(***************************************************************************)
(* What a consuming replay buffer promises its users: a pool of records,   *)
(* each of which may be sampled MaxSampleCount times and is then gone.  A  *)
(* write to a storage of its own gives up records that were not consumed   *)
(* only when the pool cannot hold them beside the new ones, and no more of *)
(* them than it has to.                                                    *)
(***************************************************************************)
EXTENDS Naturals, FiniteSets, Functions

CONSTANTS Capacity, MaxSampleCount, BatchSize

VARIABLES
    alone,    \* no other buffer writes to the storage
    uses,     \* record -> the samples it is still good for
    written,  \* records written so far; record k is the k-th one
    kept      \* the pools of the checkpoints

Pool == DOMAIN uses

Init == alone \in BOOLEAN /\ uses = <<>> /\ written = 0 /\ kept = {}

NewRecords(n) == written + 1 .. written + n

\* The records given up for n new ones: with another writer about, whatever
\* was in the n places.
Excess(n) == IF Cardinality(Pool) + n > Capacity THEN Cardinality(Pool) + n - Capacity ELSE 0

Dropped(n) ==
    {d \in SUBSET Pool : IF alone THEN Cardinality(d) = Excess(n)
                                  ELSE Cardinality(d) \in Excess(n) .. n}

Holds(records) == [r \in records |-> IF r \in Pool THEN uses[r] ELSE MaxSampleCount]

Write(n) ==
    /\ \E d \in Dropped(n) : uses' = Holds((Pool \ d) \cup NewRecords(n))
    /\ written' = written + n
    /\ UNCHANGED <<alone, kept>>

Sample ==
    /\ \E b \in SUBSET Pool :
        /\ Cardinality(b) = (IF Cardinality(Pool) < BatchSize
                             THEN Cardinality(Pool) ELSE BatchSize)
        /\ uses' = [r \in {p \in Pool : p \in b => uses[p] > 1} |->
                       IF r \in b THEN uses[r] - 1 ELSE uses[r]]
    /\ UNCHANGED <<alone, written, kept>>

Clear == uses' = <<>> /\ UNCHANGED <<alone, written, kept>>

Keep == kept' = {uses} /\ UNCHANGED <<alone, uses, written>>

Restore == uses' \in kept /\ UNCHANGED <<alone, written, kept>>

Next ==
    \/ \E n \in 1 .. Capacity : Write(n)
    \/ Sample \/ Clear \/ Keep \/ Restore

Spec == Init /\ [][Next]_<<alone, uses, written, kept>>
=============================================================================
