---------------------------- MODULE MCBackfillRun ----------------------------
(* BackfillRun for TLC: two sources, the first with a window a page deeper. *)
EXTENDS BackfillRun, TLC

MCSources == {1, 2}
MCWindowEnd == <<3, 2>>
WorkerSymmetry == Permutations(Workers)

\* Both sources succeeded in every cycle.
AllEligible == {{1, 2}}
=============================================================================
