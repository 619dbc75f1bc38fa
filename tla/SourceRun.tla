------------------------------ MODULE SourceRun ------------------------------
(***************************************************************************)
(* One collection source at one collection slot: _collect_source of        *)
(* ops/scheduler.py, run by several workers.  A worker is one call of      *)
(* _collect_source in some process: the scheduler's cycle, a retry of it,  *)
(* a restarted container or a manual collect-and-rank.                     *)
(*                                                                         *)
(* The code holds a PostgreSQL session-level advisory lock on a dedicated  *)
(* connection and does everything else in short transactions on other      *)
(* connections.  Besides the interleavings of workers the model has the    *)
(* faults that this arrangement meets:                                     *)
(*   - a worker's process dies (Crash): the lock goes with its connection; *)
(*   - the lock's connection dies and the worker does not notice           *)
(*     (LoseSession): it keeps writing through fresh pooled connections;   *)
(*   - a COMMIT is applied and its acknowledgement is lost: the worker     *)
(*     sees an SQLAlchemyError for a transaction that took effect.         *)
(***************************************************************************)
EXTENDS RunLedger

CONSTANTS
    Workers,
    Nobody,             \* the advisory lock is free
    MaxAttempts,        \* bound: attempts a slot is given before the model stops
    MaxSessionLosses,   \* bound on LoseSession
    MaxAckLosses        \* bound on commits whose acknowledgement is lost

ASSUME NobodyAssumption == Nobody \notin Workers
ASSUME BoundsAssumption ==
    MaxAttempts \in Nat /\ MaxSessionLosses \in Nat /\ MaxAckLosses \in Nat

VARIABLES
    lock,       \* holder of the slot's advisory lock
    row,        \* the slot's ledger row
    stored,     \* the slot's observations are committed (collect_board_slot)
    pc,         \* where each worker is in _collect_source
    attempts,   \* the local variable of each worker: claim.attempts
    result,     \* the status each worker returned last, or is about to return
    losses,     \* advisory-lock sessions lost so far
    ackLosses   \* acknowledgements lost so far

vars == <<lock, row, stored, pc, attempts, result, losses, ackLosses>>

Locations ==
    {"idle", "locked", "claimed", "scanned", "short", "failing", "releasing"}
Results ==
    {"none", "busy", "already_succeeded", "succeeded", "partial", "failed", "raised"}

Init ==
    /\ lock = Nobody
    /\ row = NoRun
    /\ stored = FALSE
    /\ pc = [w \in Workers |-> "idle"]
    /\ attempts = [w \in Workers |-> 0]
    /\ result = [w \in Workers |-> "none"]
    /\ losses = 0
    /\ ackLosses = 0

-----------------------------------------------------------------------------
(* Helpers *)

Goto(w, location) == pc' = [pc EXCEPT ![w] = location]
Return(w, status) == Goto(w, "releasing") /\ result' = [result EXCEPT ![w] = status]

\* Mutant: the lock is taken for granted.
LockNotChecked == TRUE

\* What pg_try_advisory_lock answers.
LockIsFree == lock = Nobody

\* The worker learns that its transaction committed, and goes on as it would.
Acknowledged == UNCHANGED ackLosses
\* It committed, and the worker gets an SQLAlchemyError instead.
AckLost == ackLosses < MaxAckLosses /\ ackLosses' = ackLosses + 1

-----------------------------------------------------------------------------
(* The steps of _collect_source *)

\* pg_try_advisory_lock succeeds.  The bound keeps the number of claims finite.
TryLock(w) ==
    /\ pc[w] = "idle"
    /\ row.attempts < MaxAttempts \/ AlreadySucceeded(row)
    /\ LockIsFree
    /\ lock' = w
    /\ Goto(w, "locked")
    /\ result' = [result EXCEPT ![w] = "none"]
    /\ UNCHANGED <<row, stored, attempts, losses, ackLosses>>

\* pg_try_advisory_lock returns false: another worker owns the slot.
Busy(w) ==
    /\ pc[w] = "idle"
    /\ ~ LockIsFree
    /\ result' = [result EXCEPT ![w] = "busy"]
    /\ UNCHANGED <<lock, row, stored, pc, attempts, losses, ackLosses>>

\* claim_run_slot finds a succeeded run: return without any upstream request.
ClaimSucceededRun(w) ==
    /\ pc[w] = "locked"
    /\ AlreadySucceeded(row)
    /\ Return(w, "already_succeeded")
    /\ UNCHANGED <<lock, row, stored, attempts, losses, ackLosses>>

\* claim_run_slot opens or reopens the run.  When the acknowledgement is lost
\* run_id is still None: the except clause leaves the row running.
ClaimRun(w) ==
    /\ pc[w] = "locked"
    /\ ~ AlreadySucceeded(row)
    /\ row' = ClaimedRow(row)
    /\ \/ /\ Acknowledged
          /\ Goto(w, "claimed")
          /\ attempts' = [attempts EXCEPT ![w] = row'.attempts]
          /\ UNCHANGED result
       \/ /\ AckLost
          /\ Return(w, "failed")
          /\ UNCHANGED attempts
    /\ UNCHANGED <<lock, stored, losses>>

\* highest_ordinary_post_id and scan_incremental_pages: the upstream requests.
Scan(w) ==
    /\ pc[w] = "claimed"
    /\ \E location \in {"scanned", "short"} : Goto(w, location)
    /\ UNCHANGED <<lock, row, stored, attempts, result, losses, ackLosses>>

\* The scan ran out of pages before its boundary: nothing of it is stored.
FinishPartial(w) ==
    /\ pc[w] = "short"
    /\ row' = FinishedRow("partial", attempts[w], 0, {})
    /\ \/ Acknowledged /\ Return(w, "partial")
       \/ AckLost /\ Goto(w, "failing") /\ UNCHANGED result
    /\ UNCHANGED <<lock, stored, attempts, losses>>

\* collect_board_slot and finish_run(succeeded) in one transaction.
StoreAndFinish(w) ==
    /\ pc[w] = "scanned"
    /\ stored' = TRUE
    /\ row' = FinishedRow("succeeded", attempts[w], 0, {})
    /\ \/ Acknowledged /\ Return(w, "succeeded")
       \/ AckLost /\ Goto(w, "failing") /\ UNCHANGED result
    /\ UNCHANGED <<lock, attempts, losses>>

\* One of _RETRYABLE_ERRORS, with nothing committed: a database error in any
\* transaction, a client or parser error in the scan, a snapshot conflict.
\* Before the claim returned there is no run to finish.
RetryableError(w) ==
    /\ \/ pc[w] = "locked" /\ Return(w, "failed")
       \/ pc[w] \in {"claimed", "scanned", "short"} /\ Goto(w, "failing") /\ UNCHANGED result
    /\ UNCHANGED <<lock, row, stored, attempts, losses, ackLosses>>

\* An exception outside _RETRYABLE_ERRORS (collect_board_slot's ValueError on
\* more observations than a slot may hold): only the finally clause runs.
OtherError(w) ==
    /\ pc[w] = "scanned"
    /\ Return(w, "raised")
    /\ UNCHANGED <<lock, row, stored, attempts, losses, ackLosses>>

\* _finish_failed_source: its own SQLAlchemyError is swallowed.
FinishFailedSource(w) ==
    /\ pc[w] = "failing"
    /\ row' \in {FinishedRow("failed", attempts[w], 0, {}), row}
    /\ Return(w, "failed")
    /\ UNCHANGED <<lock, stored, attempts, losses, ackLosses>>

\* The finally clause: unlock (a no-op on a session that is gone) and close.
Release(w) ==
    /\ pc[w] = "releasing"
    /\ lock' = IF lock = w THEN Nobody ELSE lock
    /\ Goto(w, "idle")
    /\ UNCHANGED <<row, stored, attempts, result, losses, ackLosses>>

-----------------------------------------------------------------------------
(* Faults *)

\* The process dies anywhere; PostgreSQL frees the lock of its dead session.
Crash(w) ==
    /\ pc[w] # "idle"
    /\ lock' = IF lock = w THEN Nobody ELSE lock
    /\ Goto(w, "idle")
    /\ result' = [result EXCEPT ![w] = "none"]
    /\ UNCHANGED <<row, stored, attempts, losses, ackLosses>>

\* PostgreSQL ends the lock's session while the worker goes on.
LoseSession(w) ==
    /\ losses < MaxSessionLosses
    /\ lock = w
    /\ lock' = Nobody
    /\ losses' = losses + 1
    /\ UNCHANGED <<row, stored, pc, attempts, result, ackLosses>>

-----------------------------------------------------------------------------

Step(w) ==
    \/ ClaimSucceededRun(w) \/ ClaimRun(w) \/ Scan(w) \/ FinishPartial(w)
    \/ StoreAndFinish(w) \/ RetryableError(w) \/ OtherError(w)
    \/ FinishFailedSource(w) \/ Release(w)

Next == \E w \in Workers :
    \/ TryLock(w) \/ Busy(w) \/ Step(w) \/ Crash(w) \/ LoseSession(w)

Spec == Init /\ [][Next]_vars

-----------------------------------------------------------------------------
(* Properties *)

\* Every variable has its type.
TypeOK ==
    /\ lock \in Workers \cup {Nobody}
    /\ row \in Rows({})
    /\ stored \in BOOLEAN
    /\ pc \in [Workers -> Locations]
    /\ attempts \in [Workers -> Nat]
    /\ result \in [Workers -> Results]
    /\ losses \in Nat
    /\ ackLosses \in Nat

\* As long as no lock session was lost, two workers are never inside
\* _collect_source for the same slot, whoever crashed or restarted.
SingleOwner ==
    losses = 0 => \A v, w \in Workers : pc[v] # "idle" /\ pc[w] # "idle" => v = w

\* No worker is about to send upstream requests for a slot whose observations
\* are already stored ("suppress another upstream fetch after success").
\* Needs an intact lock session and acknowledged commits.
NoFetchAfterSuccess ==
    losses = 0 /\ ackLosses = 0 => \A w \in Workers : pc[w] = "claimed" => ~ stored

\* A success that _collect_source reported to its cycle is the durable truth
\* from then on, even when commits lose their acknowledgement: the cycle may
\* base backfill eligibility and its own status on it.
ReportedSuccessIsDurable ==
    losses = 0 => \A w \in Workers : result[w] \in {"succeeded", "already_succeeded"} =>
        row.status = "succeeded" /\ stored

\* The number of attempts recorded for a slot never goes back.
AttemptsNeverDecrease == [][losses' = 0 => row'.attempts >= row.attempts]_vars

\* Until a lock session or an acknowledgement is lost a slot is a JobSlot.
Slot == INSTANCE JobSlot WITH owner <- lock, status <- row.status
ImplementsJobSlot ==
    Slot!SlotInit /\ [][losses' = 0 /\ ackLosses' = 0 => Slot!SlotNext]_(Slot!slotVars)

\* What a collection cycle sees of the slot: whoever owns it while its row is
\* "running" executes it, until a lock session or an acknowledgement is lost.
Outcome == INSTANCE JobOutcome WITH
    executor <- IF row.status = "running" THEN lock ELSE Nobody, done <- row.status = "succeeded"
ImplementsJobOutcome ==
    Outcome!OutcomeInit /\ [][losses' = 0 /\ ackLosses' = 0 => Outcome!OutcomeNext]_(Outcome!outcomeVars)

\* What the docs say without a condition: repeating a completed slot exits
\* without another upstream request, so no claim reopens a stored slot.
CompletedSlotStaysClosed ==
    [][\A w \in Workers : pc[w] = "locked" /\ pc'[w] = "claimed" => ~ stored]_vars
=============================================================================
