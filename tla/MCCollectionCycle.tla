-------------------------- MODULE MCCollectionCycle --------------------------
(* CollectionCycle for TLC. *)
EXTENDS CollectionCycle, TLC

OneSource == {1}
TwoSources == {1, 2}
WorkerSymmetry == Permutations(Workers)
=============================================================================
