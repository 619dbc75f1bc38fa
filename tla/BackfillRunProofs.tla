-------------------------- MODULE BackfillRunProofs --------------------------
(***************************************************************************)
(* BackfillRun's invariants for every set of workers and sources, every    *)
(* budget and every bound.                                                 *)
(***************************************************************************)
EXTENDS BackfillRun, TLAPS

\* The places where a worker runs run_backfill_budget's loop.
Looping == {"spending", "reserved", "fetched"}

-----------------------------------------------------------------------------
(* Types *)

LEMMA ClaimedRowType ==
    ASSUME NEW r \in Rows(Sources) PROVE ClaimedRow(r) \in Rows(Sources)
<1>1. "running" \in Statuses
  BY DEF Statuses
<1>2. r.attempts + 1 \in Nat
  BY DEF Rows
<1> QED
  BY <1>1, <1>2 DEF ClaimedRow, Rows

LEMMA ReservedRowType ==
    ASSUME NEW r \in Rows(Sources) PROVE ReservedRow(r) \in Rows(Sources)
<1>1. r.pages + 1 \in Nat
  BY DEF Rows
<1> QED
  BY <1>1 DEF ReservedRow, Rows

LEMMA FinishedRowType ==
    ASSUME NEW outcome \in Outcomes, NEW n \in Nat, NEW p \in Nat, NEW f \in SUBSET Sources
    PROVE  FinishedRow(outcome, n, p, f) \in Rows(Sources)
BY DEF FinishedRow, Rows, Statuses, Outcomes

LEMMA NoRunType == NoRun \in Rows(Sources)
BY DEF NoRun, Rows, Statuses

LEMMA NoAttemptType == NoAttempt \in Runs
BY DEF NoAttempt, Runs

\* A new attempt record for one worker keeps the type of run.
LEMMA SetRunType ==
    ASSUME TypeOK, NEW w \in Workers, NEW attempt \in Runs, SetRun(w, attempt)
    PROVE  run' \in [Workers -> Runs]
BY DEF TypeOK, SetRun

LEMMA InitTypeOK == Init => TypeOK
<1> SUFFICES ASSUME Init PROVE TypeOK
  OBVIOUS
<1>1. row \in Rows(Sources)
  BY NoRunType DEF Init
<1>2. run \in [Workers -> Runs]
  BY NoAttemptType DEF Init
<1>3. report \in [Workers -> Reports]
  BY DEF Init, NoReport, Reports
<1>4. cursor \in [Sources -> Cursors]
  BY DEF Init, Cursors, FirstNextPage
<1> QED
  BY <1>1, <1>2, <1>3, <1>4 DEF Init, TypeOK, Locations

LEMMA StepTypeOK == TypeOK /\ [Next]_vars => TypeOK'
<1> SUFFICES ASSUME TypeOK, [Next]_vars PROVE TypeOK'
  OBVIOUS
<1> USE DEF Acknowledged, AckLost, observed, faults
<1>0. \A w \in Workers : run[w] \in Runs
  BY DEF TypeOK
<1>1. CASE UNCHANGED vars
  BY <1>1 DEF vars, TypeOK
<1>2. ASSUME NEW w \in Workers, TryLock(w) PROVE TypeOK'
  <2>1. \A e \in EligibleSets : [NoAttempt EXCEPT !.eligible = e] \in Runs
    BY NoAttemptType, EligibleAssumption DEF Runs
  <2>2. run' \in [Workers -> Runs]
    BY <1>2, <2>1, SetRunType DEF TryLock
  <2>3. report' \in [Workers -> Reports]
    BY <1>2 DEF TryLock, NoReport, Reports, TypeOK
  <2> QED
    BY <1>2, <2>2, <2>3 DEF TryLock, TypeOK, Goto, Locations
<1>3. ASSUME NEW w \in Workers, Busy(w) PROVE TypeOK'
  <2>1. report' \in [Workers -> Reports]
    BY <1>3 DEF Busy, Reports, TypeOK
  <2> QED
    BY <1>3, <2>1 DEF Busy, TypeOK
<1>4. ASSUME NEW w \in Workers, ClaimSucceededRun(w) PROVE TypeOK'
  <2>1. row.failed \in SUBSET Sources
    BY DEF TypeOK, Rows
  <2>2. report' \in [Workers -> Reports]
    BY <1>4, <2>1 DEF ClaimSucceededRun, Return, Reports, TypeOK
  <2> QED
    BY <1>4, <2>2 DEF ClaimSucceededRun, Return, TypeOK, Goto, Locations
<1>5. ASSUME NEW w \in Workers, ClaimRun(w) PROVE TypeOK'
  <2>1. row' \in Rows(Sources)
    BY <1>5, ClaimedRowType DEF ClaimRun, TypeOK
  <2>2. row'.attempts \in Nat /\ row.pages \in Nat
    BY <2>1 DEF Rows, TypeOK
  <2>3. [run[w] EXCEPT !.attempts = row'.attempts, !.consumed = row.pages] \in Runs
    BY <1>0, <2>2 DEF Runs
  <2>4. run' \in [Workers -> Runs]
    BY <1>5, <2>3, SetRunType DEF ClaimRun, TypeOK
  <2>5. report' \in [Workers -> Reports]
    BY <1>5 DEF ClaimRun, Return, Reports, TypeOK
  <2> QED
    BY <1>5, <2>1, <2>4, <2>5 DEF ClaimRun, Return, TypeOK, Goto, Locations
<1>6. ASSUME NEW w \in Workers, OpenCursors(w) PROVE TypeOK'
  <2>1. [s \in Sources |-> ResumePage(s)] \in [Sources -> Nat]
    BY DEF ResumePage, Cursors, TypeOK
  <2>2. {s \in run[w].eligible : ~ cursor[s].complete} \in SUBSET Sources
    BY <1>0 DEF Runs
  <2>3. [run[w] EXCEPT !.live = {s \in run[w].eligible : ~ cursor[s].complete},
                       !.page = [s \in Sources |-> ResumePage(s)]] \in Runs
    BY <1>0, <2>1, <2>2 DEF Runs
  <2>4. run' \in [Workers -> Runs]
    BY <1>6, <2>3, SetRunType DEF OpenCursors
  <2> QED
    BY <1>6, <2>4 DEF OpenCursors, TypeOK, Goto, Locations
<1>7. ASSUME NEW w \in Workers, ReservePage(w) PROVE TypeOK'
  <2>1. row' \in Rows(Sources)
    BY <1>7, ReservedRowType DEF ReservePage, TypeOK
  <2>2. row'.pages \in Nat
    BY <2>1 DEF Rows
  <2>3. [run[w] EXCEPT !.consumed = row'.pages] \in Runs
    BY <1>0, <2>2 DEF Runs
  <2>4. run' \in [Workers -> Runs]
    BY <1>7, <2>3, SetRunType DEF ReservePage, TypeOK
  <2> QED
    BY <1>7, <2>1, <2>4 DEF ReservePage, TypeOK, Goto, Locations
<1>8. ASSUME NEW w \in Workers, AllowanceExhausted(w) PROVE TypeOK'
  <2>1. [run[w] EXCEPT !.live = {}, !.round = {}] \in Runs
    BY <1>0 DEF Runs
  <2>2. run' \in [Workers -> Runs]
    BY <1>8, <2>1, SetRunType DEF AllowanceExhausted
  <2> QED
    BY <1>8, <2>2 DEF AllowanceExhausted, TypeOK
<1>9. ASSUME NEW w \in Workers, NEW s \in Sources, Request(w, s) PROVE TypeOK'
  <2> DEFINE served == [run[w].served EXCEPT ![s] = run[w].served[s] + 1]
             attempt == [run[w] EXCEPT !.fetched = run[w].fetched + 1, !.served = served]
  <2>1. run[w].fetched + 1 \in Nat /\ served \in [Sources -> Nat]
    BY <1>0 DEF Runs
  <2>2. attempt \in Runs
    <3> HIDE DEF served
    <3> QED
      BY <1>0, <2>1 DEF Runs
  <2>3. SetRun(w, attempt)
    BY <1>9 DEF Request
  <2>4. run' \in [Workers -> Runs]
    <3> HIDE DEF attempt
    <3> QED
      BY <2>2, <2>3, SetRunType
  <2>5. requests' \in Nat
    BY <1>9 DEF Request, TypeOK
  <2>6. pc' \in [Workers -> Locations]
    BY <1>9 DEF Request, TypeOK, Goto, Locations
  <2> QED
    BY <1>9, <2>4, <2>5, <2>6 DEF Request, TypeOK
<1>10. ASSUME NEW w \in Workers, NEW s \in Sources, StorePage(w, s) PROVE TypeOK'
  <2>1. run[w].page[s] \in Nat /\ WindowEnd[s] \in Nat
    BY <1>0, WindowAssumption DEF Runs
  <2>2. cursor' \in [Sources -> Cursors]
    BY <1>10, <2>1 DEF StorePage, Cursors, TypeOK
  <2>3. Round(w) \in SUBSET Sources
    BY <1>0 DEF Round, Runs
  <2>4. /\ [run[w] EXCEPT !.live = @ \ {s}, !.round = Round(w) \ {s}] \in Runs
        /\ [run[w] EXCEPT !.live = @ \ {s}, !.round = Round(w) \ {s},
                          !.failed = @ \cup {s}] \in Runs
        /\ [run[w] EXCEPT !.page = [@ EXCEPT ![s] = run[w].page[s] + 1],
                          !.round = Round(w) \ {s}] \in Runs
    <3>1. [run[w].page EXCEPT ![s] = run[w].page[s] + 1] \in [Sources -> Nat]
      BY <1>0, <2>1 DEF Runs
    <3> QED
      BY <1>0, <2>1, <2>3, <3>1 DEF Runs
  <2>5. run' \in [Workers -> Runs]
    BY <1>10, <2>4, SetRunType DEF StorePage, DropSource, FailSource
  <2>6. stored' \in [Sources -> SUBSET Nat]
    BY <1>10, <2>1 DEF StorePage, TypeOK
  <2>7. pc' \in [Workers -> Locations]
    BY <1>10 DEF StorePage, TypeOK, Goto, Locations
  <2>8. ackLosses' \in Nat /\ unrepaired' \in SUBSET Sources
    BY <1>10 DEF StorePage, TypeOK
  <2> QED
    BY <1>10, <2>2, <2>5, <2>6, <2>7, <2>8 DEF StorePage, TypeOK
<1>11. ASSUME NEW w \in Workers, NEW s \in Sources, PageError(w, s) PROVE TypeOK'
  <2>1. Round(w) \in SUBSET Sources
    BY <1>0 DEF Round, Runs
  <2>2. [run[w] EXCEPT !.live = @ \ {s}, !.round = Round(w) \ {s},
                       !.failed = @ \cup {s}] \in Runs
    BY <1>0, <2>1 DEF Runs
  <2>3. run' \in [Workers -> Runs]
    BY <1>11, <2>2, SetRunType DEF PageError, FailSource
  <2> QED
    BY <1>11, <2>3 DEF PageError, TypeOK, Goto, Locations
<1>12. ASSUME NEW w \in Workers, FinishRun(w) PROVE TypeOK'
  <2>1. run[w].attempts \in Nat /\ run[w].consumed \in Nat /\ run[w].failed \in SUBSET Sources
    BY <1>0 DEF Runs
  <2>2. row' \in Rows(Sources)
    BY <1>12, <2>1, FinishedRowType DEF FinishRun, Outcomes
  <2>3. report' \in [Workers -> Reports]
    BY <1>12, <2>1 DEF FinishRun, Return, Reports, TypeOK
  <2> QED
    BY <1>12, <2>2, <2>3 DEF FinishRun, Return, TypeOK, Goto, Locations
<1>13. ASSUME NEW w \in Workers, RetryableError(w) PROVE TypeOK'
  <2>1. report' \in [Workers -> Reports]
    BY <1>13 DEF RetryableError, Return, Reports, TypeOK
  <2> QED
    BY <1>13, <2>1 DEF RetryableError, Return, TypeOK, Goto, Locations
<1>14. ASSUME NEW w \in Workers, FinishFailed(w) PROVE TypeOK'
  <2>1. run[w].attempts \in Nat /\ run[w].consumed \in Nat
    BY <1>0 DEF Runs
  <2>2. row' \in Rows(Sources)
    BY <1>14, <2>1, FinishedRowType DEF FinishFailed, Outcomes, TypeOK
  <2>3. report' \in [Workers -> Reports]
    BY <1>14 DEF FinishFailed, Return, Reports, TypeOK
  <2> QED
    BY <1>14, <2>2, <2>3 DEF FinishFailed, Return, TypeOK, Goto, Locations
<1>15. ASSUME NEW w \in Workers, Release(w) PROVE TypeOK'
  <2>1. run' \in [Workers -> Runs]
    BY <1>15, NoAttemptType, SetRunType DEF Release
  <2> QED
    BY <1>15, <2>1 DEF Release, TypeOK, Goto, Locations
<1>16. ASSUME NEW w \in Workers, Crash(w) PROVE TypeOK'
  <2>1. run' \in [Workers -> Runs]
    BY <1>16, NoAttemptType, SetRunType DEF Crash
  <2>2. report' \in [Workers -> Reports]
    BY <1>16 DEF Crash, NoReport, Reports, TypeOK
  <2> QED
    BY <1>16, <2>1, <2>2 DEF Crash, TypeOK, Goto, Locations
<1>17. ASSUME NEW w \in Workers, LoseSession(w) PROVE TypeOK'
  BY <1>17 DEF LoseSession, TypeOK
<1> QED
  BY <1>1, <1>2, <1>3, <1>4, <1>5, <1>6, <1>7, <1>8, <1>9, <1>10, <1>11, <1>12, <1>13, <1>14,
     <1>15, <1>16, <1>17 DEF Next, Step

\* Every reachable state is well typed.
THEOREM TypeCorrect == Spec => []TypeOK
<1>1. Init => TypeOK
  BY InitTypeOK
<1>2. TypeOK /\ [Next]_vars => TypeOK'
  BY StepTypeOK
<1> QED
  BY <1>1, <1>2, PTL DEF Spec
=============================================================================
