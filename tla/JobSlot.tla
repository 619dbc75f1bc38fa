------------------------------- MODULE JobSlot -------------------------------
(***************************************************************************)
(* What the run ledger and its advisory lock promise for one job at one    *)
(* collection slot: one execution owner at a time, a status that only the  *)
(* owner moves and only through "running", and a success that is final, so *)
(* that no later attempt runs the job again.                               *)
(*                                                                         *)
(* The promise is the one docs make ("only the slot's cross-process lock   *)
(* and persisted lifecycle determine execution ownership", CONCEPTS.md);   *)
(* SourceRun and BackfillRun are shown to implement it.                    *)
(***************************************************************************)
CONSTANTS Workers, Nobody

VARIABLES
    owner,      \* the worker that owns the execution, or Nobody
    status      \* the status of the slot's run

slotVars == <<owner, status>>

SlotInit == owner = Nobody /\ status = "none"

Acquire(w) == owner = Nobody /\ owner' = w /\ UNCHANGED status

Begin == owner # Nobody /\ status # "succeeded" /\ status' = "running" /\ UNCHANGED owner

Complete ==
    /\ owner # Nobody
    /\ status = "running"
    /\ status' \in {"succeeded", "partial", "failed"}
    /\ UNCHANGED owner

\* The owner leaves, having completed the run or not (it may have crashed).
Leave == owner # Nobody /\ owner' = Nobody /\ UNCHANGED status

SlotNext == (\E w \in Workers : Acquire(w)) \/ Begin \/ Complete \/ Leave

SlotSpec == SlotInit /\ [][SlotNext]_slotVars
=============================================================================
