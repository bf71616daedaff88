--------------------------- MODULE MCEpochPrefetch ---------------------------
(* EpochPrefetch for TLC: the items are interchangeable. *)
EXTENDS EpochPrefetch, TLC

ItemSymmetry == Permutations(Items)
=============================================================================
