---------------------------- MODULE RecentWindow ----------------------------
(***************************************************************************)
(* What a bounded replay buffer promises its users: it keeps the most      *)
(* recent Capacity records in the order they were written, emptying it     *)
(* drops them all, and a checkpoint brings back the records kept when it   *)
(* was taken.                                                              *)
(***************************************************************************)
EXTENDS Naturals, Sequences

CONSTANTS Capacity, MaxBatch, MaxRecords

VARIABLES
    window,   \* the records kept, oldest first
    written,  \* records written so far; record k is the k-th one
    kept      \* the windows of the checkpoints

Newest(s, n) == IF Len(s) <= n THEN s ELSE SubSeq(s, Len(s) - n + 1, Len(s))

Init == window = <<>> /\ written = 0 /\ kept = {}

Write(n) ==
    /\ window' = Newest(window \o [k \in 1 .. n |-> written + k], Capacity)
    /\ written' = written + n
    /\ UNCHANGED kept

Clear == window' = <<>> /\ UNCHANGED <<written, kept>>

Keep == kept' = {window} /\ UNCHANGED <<window, written>>

Restore == window' \in kept /\ UNCHANGED <<written, kept>>

Next == (\E n \in 1 .. MaxBatch : Write(n)) \/ Clear \/ Keep \/ Restore

Spec == Init /\ [][Next]_<<window, written, kept>>
=============================================================================
