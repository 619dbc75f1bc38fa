----------------------------- MODULE BackfillRun -----------------------------
(***************************************************************************)
(* The historical backfill of one collection slot: _run_backfill_cycle of  *)
(* ops/scheduler.py around run_backfill_budget of collection/backfill.py,  *)
(* run by several workers (a cycle, its retries, a restarted container, a  *)
(* manual cycle).                                                          *)
(*                                                                         *)
(* A worker owns the slot's advisory lock, reserves each page of the       *)
(* slot's durable allowance before it sends the request, and commits each  *)
(* page with the source's cursor.  The faults are those of SourceRun: a    *)
(* process dies, the lock's session is lost unnoticed, a commit's          *)
(* acknowledgement is lost.                                                *)
(***************************************************************************)
EXTENDS RunLedger

CONSTANTS
    Workers,
    Nobody,             \* the advisory lock is free
    Sources,            \* the sources, numbered in the order of SOURCES
    WindowEnd,          \* per source, the first page older than the ranking window
    EligibleSets,       \* the sets of sources a cycle may call the backfill with
    Budget,             \* backfill_page_budget_per_cycle
    MaxAttempts,        \* bound: attempts a slot is given before the model stops
    MaxFaults           \* bound: lost sessions and acknowledgements together

ASSUME NobodyAssumption == Nobody \notin Workers
ASSUME SourcesAssumption == Sources \subseteq Nat
ASSUME EligibleAssumption == EligibleSets \subseteq SUBSET Sources
ASSUME WindowAssumption == WindowEnd \in [Sources -> Nat]
ASSUME BudgetAssumption == Budget \in Nat
ASSUME BoundsAssumption == MaxAttempts \in Nat /\ MaxFaults \in Nat

VARIABLES
    lock,       \* holder of the slot's advisory lock
    row,        \* the ledger row of job type metadata-backfill at this slot
    cursor,     \* source_backfill_state: next_page and complete, per source
    pc,         \* where each worker is
    run,        \* the local variables of each worker's attempt
    report,     \* the BackfillBudgetSummary each worker returned last
    losses,     \* advisory-lock sessions lost so far
    ackLosses   \* acknowledgements lost so far

VARIABLES       \* what an observer outside the code sees
    stored,     \* the pages of each source whose posts are committed
    requests,   \* backfill requests sent upstream for this slot
    unrepaired  \* sources with a failed page and none stored since

observed == <<stored, requests, unrepaired>>
faults == <<losses, ackLosses>>
vars == <<lock, row, cursor, pc, run, report, losses, ackLosses, stored, requests, unrepaired>>

-----------------------------------------------------------------------------
(* Types and helpers *)

Locations == {"idle", "locked", "claimed", "spending", "reserved", "fetched",
              "failing", "releasing"}

\* next_page of a source that has no row yet: pages 1 and 2 are the first two
\* of every incremental scan.
FirstNextPage == 3

Cursors == [next : Nat, complete : BOOLEAN]

\* The local variables of an attempt; live and page are the dict cursors, round
\* is what is left of the for loop's tuple(cursors).  served is not in the code:
\* it counts the attempt's requests per source.
Runs == [attempts : Nat, consumed : Nat, eligible : SUBSET Sources,
         live : SUBSET Sources, page : [Sources -> Nat], round : SUBSET Sources,
         fetched : Nat, failed : SUBSET Sources, served : [Sources -> Nat]]

NoAttempt == [attempts |-> 0, consumed |-> 0, eligible |-> {}, live |-> {},
              page |-> [s \in Sources |-> 0], round |-> {}, fetched |-> 0,
              failed |-> {}, served |-> [s \in Sources |-> 0]]

Reports == [kind : {"none", "busy", "replayed", "summary", "raised"}, failed : SUBSET Sources]
NoReport == [kind |-> "none", failed |-> {}]

Goto(w, location) == pc' = [pc EXCEPT ![w] = location]
SetRun(w, attempt) == run' = [run EXCEPT ![w] = attempt]

Return(w, kind, failed) ==
    /\ Goto(w, "releasing")
    /\ report' = [report EXCEPT ![w] = [kind |-> kind, failed |-> failed]]

\* What pg_try_advisory_lock answers.
LockIsFree == lock = Nobody

Acknowledged == UNCHANGED ackLosses
AckLost == losses + ackLosses < MaxFaults /\ ackLosses' = ackLosses + 1

\* Mutant: no overlap.
ResumeWithoutOverlap(s) == cursor[s].next

\* The page a source resumes at: one page before the one it would go on with.
ResumePage(s) == IF cursor[s].next > 1 THEN cursor[s].next - 1 ELSE 1

\* Mutant: an off-by-one in the loop's bound.
LoopDoneEarly(w) == run[w].live = {} \/ run[w].fetched + 1 >= Budget

\* The loop ends: no cursor is left or the attempt has fetched its budget.
LoopDone(w) == run[w].live = {} \/ run[w].fetched >= Budget

\* Mutant: each request starts a new round.
RoundAnew(w) == run[w].live

\* The sources the current round has yet to serve; an exhausted round is
\* followed by one over the sources that are still live.
Round(w) == IF run[w].round = {} THEN run[w].live ELSE run[w].round

\* Source s is the one the for loop is at: the first of the round.
Serves(w, s) == s \in Round(w) /\ \A t \in Round(w) : s <= t

\* del cursors[source_key]: the source leaves the attempt, having failed or not.
DropSource(w, s) ==
    SetRun(w, [run[w] EXCEPT !.live = @ \ {s}, !.round = Round(w) \ {s}])
FailSource(w, s) ==
    SetRun(w, [run[w] EXCEPT !.live = @ \ {s}, !.round = Round(w) \ {s},
                             !.failed = @ \cup {s}])

Init ==
    /\ lock = Nobody
    /\ row = NoRun
    /\ cursor = [s \in Sources |-> [next |-> FirstNextPage, complete |-> FALSE]]
    /\ pc = [w \in Workers |-> "idle"]
    /\ run = [w \in Workers |-> NoAttempt]
    /\ report = [w \in Workers |-> NoReport]
    /\ losses = 0
    /\ ackLosses = 0
    /\ stored = [s \in Sources |-> {}]
    /\ requests = 0
    /\ unrepaired = {}

-----------------------------------------------------------------------------
(* The steps of _run_backfill_cycle and run_backfill_budget *)

\* pg_try_advisory_lock succeeds.  The bound keeps the number of claims finite.
\* The eligible sources are chosen by the cycle that makes the call.
TryLock(w) ==
    /\ pc[w] = "idle"
    /\ row.attempts < MaxAttempts \/ AlreadySucceeded(row)
    /\ LockIsFree
    /\ lock' = w
    /\ Goto(w, "locked")
    /\ \E sources \in EligibleSets : SetRun(w, [NoAttempt EXCEPT !.eligible = sources])
    /\ report' = [report EXCEPT ![w] = NoReport]
    /\ UNCHANGED <<row, cursor, faults, observed>>

\* Another worker owns the slot's backfill.
Busy(w) ==
    /\ pc[w] = "idle"
    /\ ~ LockIsFree
    /\ report' = [report EXCEPT ![w] = [kind |-> "busy", failed |-> {}]]
    /\ UNCHANGED <<lock, row, cursor, pc, run, faults, observed>>

\* Mutant: the replayed summary has lost its failed sources.
ClaimSucceededRunForgets(w) ==
    /\ pc[w] = "locked"
    /\ AlreadySucceeded(row)
    /\ Return(w, "replayed", {})
    /\ UNCHANGED <<lock, row, cursor, run, faults, observed>>

\* claim_run_slot finds a succeeded run: its stored summary is replayed.
ClaimSucceededRun(w) ==
    /\ pc[w] = "locked"
    /\ AlreadySucceeded(row)
    /\ Return(w, "replayed", row.failed)
    /\ UNCHANGED <<lock, row, cursor, run, faults, observed>>

\* claim_run_slot opens or reopens the run; the claim carries the allowance
\* that earlier attempts consumed.  Its exceptions are raised to the cycle.
ClaimRun(w) ==
    /\ pc[w] = "locked"
    /\ ~ AlreadySucceeded(row)
    /\ row' = ClaimedRow(row)
    /\ \/ /\ Acknowledged
          /\ Goto(w, "claimed")
          /\ SetRun(w, [run[w] EXCEPT !.attempts = row'.attempts, !.consumed = row.pages])
          /\ UNCHANGED report
       \/ AckLost /\ Return(w, "raised", {}) /\ UNCHANGED run
    /\ UNCHANGED <<lock, cursor, losses, observed>>

\* _initial_cursors: the eligible sources that are not complete, each at the
\* page it overlaps.
OpenCursors(w) ==
    /\ pc[w] = "claimed"
    /\ Goto(w, "spending")
    /\ SetRun(w, [run[w] EXCEPT
                      !.live = {s \in run[w].eligible : ~ cursor[s].complete},
                      !.page = [s \in Sources |-> ResumePage(s)]])
    /\ UNCHANGED <<lock, row, cursor, report, faults, observed>>

\* reserve_page: one durable allowance before the request.  An error, also that
\* of a reservation that took effect, is not a page error: it ends the attempt.
ReservePage(w) ==
    /\ pc[w] = "spending"
    /\ ~ LoopDone(w)
    /\ CanReservePage(row, Budget)
    /\ row' = ReservedRow(row)
    /\ \/ /\ Acknowledged
          /\ Goto(w, "reserved")
          /\ SetRun(w, [run[w] EXCEPT !.consumed = row'.pages])
       \/ AckLost /\ Goto(w, "failing") /\ UNCHANGED run
    /\ UNCHANGED <<lock, cursor, report, losses, observed>>

\* The allowance is spent: cursors.clear().
AllowanceExhausted(w) ==
    /\ pc[w] = "spending"
    /\ ~ LoopDone(w)
    /\ ~ CanReservePage(row, Budget)
    /\ SetRun(w, [run[w] EXCEPT !.live = {}, !.round = {}])
    /\ UNCHANGED <<lock, row, cursor, pc, report, faults, observed>>

\* fetch_page: the request goes out.
Request(w, s) ==
    /\ pc[w] = "reserved"
    /\ Serves(w, s)
    /\ Goto(w, "fetched")
    /\ SetRun(w, [run[w] EXCEPT !.fetched = @ + 1, !.served = [@ EXCEPT ![s] = run[w].served[s] + 1]])
    /\ requests' = requests + 1
    /\ UNCHANGED <<lock, row, cursor, report, faults, stored, unrepaired>>

\* Mutant: the cursor is stored at the page just read.
StorePageStays(w, s) ==
    LET page == run[w].page[s]
        complete == page >= WindowEnd[s]
    IN  /\ pc[w] = "fetched"
        /\ Serves(w, s)
        /\ cursor' = [cursor EXCEPT ![s] = [next |-> page, complete |-> complete]]
        /\ stored' = [stored EXCEPT ![s] = @ \cup {page}]
        /\ unrepaired' = unrepaired \ {s}
        /\ Goto(w, "spending")
        /\ IF complete THEN DropSource(w, s)
           ELSE SetRun(w, [run[w] EXCEPT !.page = [@ EXCEPT ![s] = page + 1],
                                         !.round = Round(w) \ {s}])
        /\ UNCHANGED <<lock, row, report, faults, requests>>

\* The page's posts and the source's cursor are committed together.
StorePage(w, s) ==
    LET page == run[w].page[s]
        complete == page >= WindowEnd[s]
    IN  /\ pc[w] = "fetched"
        /\ Serves(w, s)
        /\ cursor' = [cursor EXCEPT ![s] = [next |-> page + 1, complete |-> complete]]
        /\ stored' = [stored EXCEPT ![s] = @ \cup {page}]
        /\ unrepaired' = unrepaired \ {s}
        /\ Goto(w, "spending")
        /\ \/ Acknowledged /\ complete /\ DropSource(w, s)
           \/ /\ Acknowledged /\ ~ complete
              /\ SetRun(w, [run[w] EXCEPT !.page = [@ EXCEPT ![s] = page + 1], !.round = Round(w) \ {s}])
           \/ AckLost /\ FailSource(w, s)
        /\ UNCHANGED <<lock, row, report, losses, requests>>

\* One of _SAFE_PAGE_ERRORS: the client's, the parser's, a conflict, or a
\* database error with nothing committed.  The source leaves the attempt.
PageError(w, s) ==
    /\ pc[w] = "fetched"
    /\ Serves(w, s)
    /\ FailSource(w, s)
    /\ unrepaired' = unrepaired \cup {s}
    /\ Goto(w, "spending")
    /\ UNCHANGED <<lock, row, cursor, report, faults, stored, requests>>

\* The summary is recorded and returned.  An error here is not caught: it is
\* raised to the cycle, also when the commit took effect.
FinishRun(w) ==
    /\ pc[w] = "spending"
    /\ LoopDone(w)
    /\ row' = FinishedRow("succeeded", run[w].attempts, run[w].consumed, run[w].failed)
    /\ \/ Acknowledged /\ Return(w, "summary", run[w].failed)
       \/ AckLost /\ Return(w, "raised", {})
    /\ UNCHANGED <<lock, cursor, run, losses, observed>>

\* An error of _RETRYABLE_ERRORS, nothing committed, outside the page's try:
\* within run_backfill_budget the run is finished as failed first, in the claim
\* and in finish_run it goes straight to the cycle.
RetryableError(w) ==
    /\ \/ pc[w] = "locked" /\ Return(w, "raised", {})
       \/ pc[w] = "claimed" /\ Goto(w, "failing") /\ UNCHANGED report
       \/ pc[w] = "spending" /\ ~ LoopDone(w) /\ Goto(w, "failing") /\ UNCHANGED report
       \/ pc[w] = "spending" /\ LoopDone(w) /\ Return(w, "raised", {})
    /\ UNCHANGED <<lock, row, cursor, run, faults, observed>>

\* finish_run(failed), which may itself fail, and the exception is raised again.
FinishFailed(w) ==
    /\ pc[w] = "failing"
    /\ row' \in {FinishedRow("failed", run[w].attempts, run[w].consumed, {}), row}
    /\ Return(w, "raised", {})
    /\ UNCHANGED <<lock, cursor, run, faults, observed>>

\* Mutant: the finally clause closes nothing and unlocks nothing.
ReleaseNothing(w) ==
    /\ pc[w] = "releasing"
    /\ Goto(w, "idle")
    /\ SetRun(w, NoAttempt)
    /\ UNCHANGED <<lock, row, cursor, report, faults, observed>>

\* The finally clause: unlock (a no-op on a session that is gone) and close.
Release(w) ==
    /\ pc[w] = "releasing"
    /\ lock' = IF lock = w THEN Nobody ELSE lock
    /\ Goto(w, "idle")
    /\ SetRun(w, NoAttempt)
    /\ UNCHANGED <<row, cursor, report, faults, observed>>

-----------------------------------------------------------------------------
(* Faults *)

\* The process dies anywhere; PostgreSQL frees the lock of its dead session.
Crash(w) ==
    /\ pc[w] # "idle"
    /\ lock' = IF lock = w THEN Nobody ELSE lock
    /\ Goto(w, "idle")
    /\ SetRun(w, NoAttempt)
    /\ report' = [report EXCEPT ![w] = NoReport]
    /\ UNCHANGED <<row, cursor, faults, observed>>

\* PostgreSQL ends the lock's session while the worker goes on.
LoseSession(w) ==
    /\ losses + ackLosses < MaxFaults
    /\ lock = w
    /\ lock' = Nobody
    /\ losses' = losses + 1
    /\ UNCHANGED <<row, cursor, pc, run, report, ackLosses, observed>>

-----------------------------------------------------------------------------

Step(w) ==
    \/ ClaimSucceededRun(w) \/ ClaimRun(w) \/ OpenCursors(w) \/ ReservePage(w)
    \/ AllowanceExhausted(w)
    \/ \E s \in Sources : Request(w, s) \/ StorePage(w, s) \/ PageError(w, s)
    \/ FinishRun(w) \/ RetryableError(w) \/ FinishFailed(w) \/ Release(w)

Next == \E w \in Workers :
    \/ TryLock(w) \/ Busy(w) \/ Step(w) \/ Crash(w) \/ LoseSession(w)

Spec == Init /\ [][Next]_vars

\* A worker that has the lock runs on: every request and every statement has a
\* timeout or an end.  Nothing makes a worker start.
FairSpec == Spec /\ \A w \in Workers : WF_vars(Step(w))

-----------------------------------------------------------------------------
(* Properties *)

\* Every variable has its type.
TypeOK ==
    /\ lock \in Workers \cup {Nobody}
    /\ row \in Rows(Sources)
    /\ cursor \in [Sources -> Cursors]
    /\ pc \in [Workers -> Locations]
    /\ run \in [Workers -> Runs]
    /\ report \in [Workers -> Reports]
    /\ losses \in Nat
    /\ ackLosses \in Nat
    /\ stored \in [Sources -> SUBSET Nat]
    /\ requests \in Nat
    /\ unrepaired \in SUBSET Sources

\* All attempts of a slot together, across crashes, retries, failed commits and
\* lost acknowledgements, send no more requests than were durably reserved, and
\* no more are reserved than the budget allows.
BudgetRespected == losses = 0 => requests <= row.pages /\ row.pages <= Budget

\* Backfill never skips a page, under every fault: whatever a source's cursor
\* has moved past was committed, and a cursor marked complete has moved past
\* the whole window.
NoSkippedPage ==
    \A s \in Sources :
        /\ cursor[s].next > FirstNextPage => 2..(cursor[s].next - 1) \subseteq stored[s]
        /\ cursor[s].complete => cursor[s].next > WindowEnd[s]

\* Within an attempt no source runs ahead of another one that is still live by
\* more than one request.
RoundRobin ==
    \A w \in Workers : \A s, t \in run[w].live : run[w].served[s] <= run[w].served[t] + 1

\* An attempt that returns a summary has used the slot's allowance up, or has
\* left no eligible source unfinished that did not fail.
AllowanceSpent ==
    losses = 0 => \A w \in Workers :
        pc[w] = "releasing" /\ report[w].kind = "summary" =>
            \/ row.pages = Budget
            \/ \A s \in run[w].eligible : cursor[s].complete \/ s \in report[w].failed

\* Every worker that reports on a finished slot reports the same failed sources.
ReplayAgrees ==
    losses = 0 => \A v, w \in Workers :
        report[v].kind \in {"summary", "replayed"} /\ report[w].kind \in {"summary", "replayed"}
            => report[v].failed = report[w].failed

\* A source that failed in the slot's backfill, with no page stored since, is
\* among the failed sources of the run once it has succeeded.
FailureIsRecorded == row.status = "succeeded" => unrepaired \subseteq row.failed

\* A source's cursor never goes back, and a complete source stays complete.
CursorNeverGoesBack ==
    [][losses' = 0 => \A s \in Sources :
          /\ cursor'[s].next >= cursor[s].next
          /\ cursor[s].complete => cursor'[s].complete]_vars

\* As long as no lock session was lost, a slot's backfill is a JobSlot: one owner
\* at a time, and a success no later attempt undoes.
Slot == INSTANCE JobSlot WITH owner <- lock, status <- row.status
ImplementsJobSlot == Slot!SlotInit /\ [][losses' = 0 => Slot!SlotNext]_(Slot!slotVars)

\* What a collection cycle sees of the slot's backfill: whoever owns it while its
\* row is "running" executes it, as long as no lock session was lost.
Outcome == INSTANCE JobOutcome WITH
    executor <- IF row.status = "running" THEN lock ELSE Nobody, done <- row.status = "succeeded"
ImplementsJobOutcome ==
    Outcome!OutcomeInit /\ [][losses' = 0 => Outcome!OutcomeNext]_(Outcome!outcomeVars)

\* A worker that holds the slot's lock gives it up: the loop ends.
LockIsReleased == \A w \in Workers : lock = w ~> lock # w
=============================================================================
