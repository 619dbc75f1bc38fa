------------------------------ MODULE JobOutcome ------------------------------
(***************************************************************************)
(* What a collection cycle may rely on of a job at a slot, without its     *)
(* ledger row: one worker executes it at a time, an execution ends with    *)
(* the job done or not, and a job that is done is never executed again.    *)
(*                                                                         *)
(* SourceRun and BackfillRun implement it in several transactions each,    *)
(* and CollectionCycle, which takes a job in one step and ends it in       *)
(* another, implements it for every job and slot.                          *)
(***************************************************************************)
CONSTANTS Workers, Nobody

VARIABLES
    executor,   \* the worker whose execution is under way, or Nobody
    done        \* whether an execution has succeeded

outcomeVars == <<executor, done>>

OutcomeInit == executor = Nobody /\ ~ done

Execute(w) == executor = Nobody /\ ~ done /\ executor' = w /\ UNCHANGED done

\* The execution succeeds, or is given up, or dies.
Conclude == executor # Nobody /\ executor' = Nobody /\ done' \in BOOLEAN

OutcomeNext == (\E w \in Workers : Execute(w)) \/ Conclude

OutcomeSpec == OutcomeInit /\ [][OutcomeNext]_outcomeVars
=============================================================================
