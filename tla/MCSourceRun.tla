----------------------------- MODULE MCSourceRun -----------------------------
(* SourceRun for TLC: interchangeable workers. *)
EXTENDS SourceRun, TLC

WorkerSymmetry == Permutations(Workers)
=============================================================================
