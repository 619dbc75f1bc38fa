------------------------------ MODULE RunLedger ------------------------------
(***************************************************************************)
(* The durable ledger row of one collector run, that is, of one job type   *)
(* at one collection slot (tables collection_runs and run_slots), and the  *)
(* three statements ops/run_control.py executes on it.  Each statement is  *)
(* one transaction of its caller, so each is an operator from the row      *)
(* before to the row after; the modules of the jobs turn them into steps.  *)
(*                                                                         *)
(* Of a row's JSON diagnostics the model keeps the fields the code reads   *)
(* back: attempts, pages_consumed and failed_sources.                      *)
(***************************************************************************)
EXTENDS Naturals

\* collection_runs.status; "none" stands for a slot that has no row yet.
Statuses == {"none", "running", "succeeded", "partial", "failed"}

\* The statuses finish_run is called with.
Outcomes == {"succeeded", "partial", "failed"}

\* A ledger row over a set of source keys that may be recorded as failed.
Rows(sources) ==
    [status : Statuses, attempts : Nat, pages : Nat, failed : SUBSET sources]

NoRun == [status |-> "none", attempts |-> 0, pages |-> 0, failed |-> {}]

\* Mutants: only a first attempt's success counts; a partial run counts as well;
\* a success never counts.
SucceededFirstTime(row) == row.status = "succeeded" /\ row.attempts = 1
AlreadyFinished(row) == row.status \in {"succeeded", "partial"}
NeverSucceeded(row) == FALSE

\* claim_run_slot's disposition "already_succeeded": the row is not touched.
AlreadySucceeded(row) == row.status = "succeeded"

\* Mutant: attempts count down.
ClaimedRowCountsDown(row) == [row EXCEPT !.status = "running", !.attempts = @ - 1]

\* claim_run_slot, disposition "acquired": a new row starts at one attempt; an
\* older one is reopened with one more attempt and its other diagnostics kept.
ClaimedRow(row) == [row EXCEPT !.status = "running", !.attempts = @ + 1]

\* Mutants: one page too many; the allowance counts down.
CanReserveOneMore(row, budget) == row.status = "running" /\ row.pages <= budget
ReservedRowCountsDown(row) == [row EXCEPT !.pages = @ - 1]

\* reserve_run_page's WHERE clause, and its SET clause.
CanReservePage(row, budget) == row.status = "running" /\ row.pages < budget
ReservedRow(row) == [row EXCEPT !.pages = @ + 1]

\* Mutant: the attempts are not passed on.
FinishedRowAnew(outcome, attempts, pages, failed) ==
    [status |-> outcome, attempts |-> 0, pages |-> pages, failed |-> failed]

\* finish_run overwrites status and diagnostics as a whole, whatever the row's
\* status is: a field the caller does not pass reads back as zero or empty.
FinishedRow(outcome, attempts, pages, failed) ==
    [status |-> outcome, attempts |-> attempts, pages |-> pages, failed |-> failed]
=============================================================================
