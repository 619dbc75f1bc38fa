--------------------------- MODULE SourceRunProofs ---------------------------
(***************************************************************************)
(* SourceRun's invariants for every set of workers and every bound.        *)
(*                                                                         *)
(* The argument: as long as no lock session was lost, whoever is inside    *)
(* _collect_source holds the lock (Ownership), so the row it works on      *)
(* stays as it claimed it (OwnedRun), and a row is succeeded exactly when  *)
(* its observations are stored until an acknowledgement is lost            *)
(* (StoredOnce).                                                           *)
(***************************************************************************)
EXTENDS SourceRun, TLAPS

\* Whoever is inside _collect_source holds the lock.
Ownership == losses = 0 => \A w \in Workers : pc[w] # "idle" => lock = w

\* The run a worker works on is running, at the attempt the worker claimed; a
\* worker that is recording a failure still has that attempt.
OwnedRun ==
    losses = 0 => \A w \in Workers :
        /\ pc[w] \in {"claimed", "scanned", "short"} => row.status = "running"
        /\ pc[w] \in {"claimed", "scanned", "short", "failing"} => row.attempts = attempts[w]

\* With every commit acknowledged, a failure is recorded over a running row, and
\* observations are stored exactly when the row is succeeded.
StoredOnce ==
    losses = 0 /\ ackLosses = 0 =>
        /\ \A w \in Workers : pc[w] = "failing" => row.status = "running"
        /\ stored => row.status = "succeeded"

\* A succeeded row always has its observations.
SuccessIsStored == row.status = "succeeded" => stored

\* Nobody holds a reported success while a failure is about to be recorded.
ReportsHold ==
    losses = 0 => \A v \in Workers : result[v] \in {"succeeded", "already_succeeded"} =>
        /\ row.status = "succeeded"
        /\ \A w \in Workers : pc[w] # "failing"

Inv == TypeOK /\ Ownership /\ OwnedRun /\ StoredOnce /\ SuccessIsStored /\ ReportsHold

-----------------------------------------------------------------------------


\* The three statements on the ledger row keep its type.
LEMMA ClaimedRowType ==
    ASSUME NEW S, NEW r \in Rows(S)
    PROVE  ClaimedRow(r) \in Rows(S)
<1>1. "running" \in Statuses
  BY DEF Statuses
<1>2. r.attempts + 1 \in Nat
  BY DEF Rows
<1> QED
  BY <1>1, <1>2 DEF ClaimedRow, Rows

LEMMA FinishedRowType ==
    ASSUME NEW S, NEW outcome \in Outcomes, NEW n \in Nat, NEW p \in Nat, NEW f \in SUBSET S
    PROVE  FinishedRow(outcome, n, p, f) \in Rows(S)
BY DEF FinishedRow, Rows, Statuses, Outcomes

LEMMA NoRunType == ASSUME NEW S PROVE NoRun \in Rows(S)
BY DEF NoRun, Rows, Statuses

LEMMA InitTypeOK == Init => TypeOK
<1> SUFFICES ASSUME Init PROVE TypeOK
  OBVIOUS
<1>1. row \in Rows({})
  BY NoRunType DEF Init
<1> QED
  BY <1>1 DEF Init, TypeOK, Locations, Results

LEMMA StepTypeOK == TypeOK /\ [Next]_vars => TypeOK'
<1> SUFFICES ASSUME TypeOK, [Next]_vars PROVE TypeOK'
  OBVIOUS
<1> USE DEF TypeOK, Locations, Results, Goto, Return, Acknowledged, AckLost
<1>1. CASE UNCHANGED vars
  BY <1>1 DEF vars
<1>2. ASSUME NEW w \in Workers, TryLock(w) PROVE TypeOK'
  BY <1>2 DEF TryLock
<1>3. ASSUME NEW w \in Workers, Busy(w) PROVE TypeOK'
  BY <1>3 DEF Busy
<1>4. ASSUME NEW w \in Workers, ClaimSucceededRun(w) PROVE TypeOK'
  BY <1>4 DEF ClaimSucceededRun
<1>5. ASSUME NEW w \in Workers, ClaimRun(w) PROVE TypeOK'
  <2>1. row' \in Rows({})
    BY <1>5, ClaimedRowType DEF ClaimRun
  <2>2. row'.attempts \in Nat
    BY <2>1 DEF Rows
  <2> QED
    BY <1>5, <2>1, <2>2 DEF ClaimRun
<1>6. ASSUME NEW w \in Workers, Scan(w) PROVE TypeOK'
  BY <1>6 DEF Scan
<1>7. ASSUME NEW w \in Workers, FinishPartial(w) PROVE TypeOK'
  <2>1. row' \in Rows({})
    BY <1>7, FinishedRowType DEF FinishPartial, Outcomes
  <2> QED
    BY <1>7, <2>1 DEF FinishPartial
<1>8. ASSUME NEW w \in Workers, StoreAndFinish(w) PROVE TypeOK'
  <2>1. row' \in Rows({})
    BY <1>8, FinishedRowType DEF StoreAndFinish, Outcomes
  <2> QED
    BY <1>8, <2>1 DEF StoreAndFinish
<1>9. ASSUME NEW w \in Workers, RetryableError(w) PROVE TypeOK'
  BY <1>9 DEF RetryableError
<1>10. ASSUME NEW w \in Workers, OtherError(w) PROVE TypeOK'
  BY <1>10 DEF OtherError
<1>11. ASSUME NEW w \in Workers, FinishFailedSource(w) PROVE TypeOK'
  <2>1. row' \in Rows({})
    BY <1>11, FinishedRowType DEF FinishFailedSource, Outcomes
  <2> QED
    BY <1>11, <2>1 DEF FinishFailedSource
<1>12. ASSUME NEW w \in Workers, Release(w) PROVE TypeOK'
  BY <1>12 DEF Release
<1>13. ASSUME NEW w \in Workers, Crash(w) PROVE TypeOK'
  BY <1>13 DEF Crash
<1>14. ASSUME NEW w \in Workers, LoseSession(w) PROVE TypeOK'
  BY <1>14 DEF LoseSession
<1> QED
  BY <1>1, <1>2, <1>3, <1>4, <1>5, <1>6, <1>7, <1>8, <1>9, <1>10, <1>11, <1>12, <1>13, <1>14
     DEF Next, Step

\* Every reachable state is well typed.
THEOREM TypeCorrect == Spec => []TypeOK
<1>1. Init => TypeOK
  BY InitTypeOK
<1>2. TypeOK /\ [Next]_vars => TypeOK'
  BY StepTypeOK
<1> QED
  BY <1>1, <1>2, PTL DEF Spec

-----------------------------------------------------------------------------

LEMMA InitInv == Init => Inv
<1> SUFFICES ASSUME Init PROVE Inv
  OBVIOUS
<1>1. row.status = "none"
  BY DEF Init, NoRun
<1> QED
  BY <1>1, InitTypeOK
     DEF Init, Inv, Ownership, OwnedRun, StoredOnce, SuccessIsStored, ReportsHold

\* The invariant is inductive: one step per action, one conjunct after another.
LEMMA StepInv == Inv /\ [Next]_vars => Inv'
<1> SUFFICES ASSUME Inv, [Next]_vars PROVE Inv'
  OBVIOUS
<1>0. TypeOK'
  BY StepTypeOK DEF Inv
<1> USE DEF Inv
<1> DEFINE Rest == Ownership /\ OwnedRun /\ StoredOnce /\ SuccessIsStored /\ ReportsHold
<1>1. CASE UNCHANGED vars
  BY <1>0, <1>1 DEF vars, Ownership, OwnedRun, StoredOnce, SuccessIsStored, ReportsHold
<1>2. ASSUME NEW w \in Workers, TryLock(w) PROVE Rest'
  <2> USE <1>2 DEF TryLock, Goto, Return, TypeOK, LockIsFree
  <2>1. Ownership'
    BY NobodyAssumption DEF Ownership
  <2>2. OwnedRun'
    BY NobodyAssumption DEF Ownership, OwnedRun
  <2>3. StoredOnce'
    BY NobodyAssumption DEF Ownership, OwnedRun, StoredOnce, SuccessIsStored
  <2>4. SuccessIsStored'
    BY NobodyAssumption DEF SuccessIsStored
  <2>5. ReportsHold'
    BY NobodyAssumption DEF Ownership, OwnedRun, SuccessIsStored, ReportsHold
  <2> QED
    BY <2>1, <2>2, <2>3, <2>4, <2>5
<1>3. ASSUME NEW w \in Workers, Busy(w) PROVE Rest'
  <2> USE <1>3 DEF Busy, Goto, Return, TypeOK, LockIsFree
  <2>1. Ownership'
    BY NobodyAssumption DEF Ownership
  <2>2. OwnedRun'
    BY NobodyAssumption DEF Ownership, OwnedRun
  <2>3. StoredOnce'
    BY NobodyAssumption DEF Ownership, OwnedRun, StoredOnce, SuccessIsStored
  <2>4. SuccessIsStored'
    BY NobodyAssumption DEF SuccessIsStored
  <2>5. ReportsHold'
    BY NobodyAssumption DEF Ownership, OwnedRun, SuccessIsStored, ReportsHold
  <2> QED
    BY <2>1, <2>2, <2>3, <2>4, <2>5
<1>4. ASSUME NEW w \in Workers, ClaimSucceededRun(w) PROVE Rest'
  <2> USE <1>4 DEF ClaimSucceededRun, Goto, Return, TypeOK, AlreadySucceeded
  <2>1. Ownership'
    BY NobodyAssumption DEF Ownership
  <2>2. OwnedRun'
    BY NobodyAssumption DEF Ownership, OwnedRun
  <2>3. StoredOnce'
    BY NobodyAssumption DEF Ownership, OwnedRun, StoredOnce, SuccessIsStored
  <2>4. SuccessIsStored'
    BY NobodyAssumption DEF SuccessIsStored
  <2>5. ReportsHold'
    BY NobodyAssumption DEF Ownership, OwnedRun, SuccessIsStored, ReportsHold
  <2> QED
    BY <2>1, <2>2, <2>3, <2>4, <2>5
<1>5. ASSUME NEW w \in Workers, ClaimRun(w) PROVE Rest'
  <2> USE <1>5 DEF ClaimRun, Goto, Return, TypeOK, ClaimedRow, AlreadySucceeded, Acknowledged, AckLost
  <2>0. row'.status = "running" /\ row'.attempts = row.attempts + 1
    BY DEF Rows
  <2>1. Ownership'
    BY NobodyAssumption, <2>0 DEF Ownership
  <2>2. OwnedRun'
    BY NobodyAssumption, <2>0 DEF Ownership, OwnedRun
  <2>3. StoredOnce'
    BY NobodyAssumption, <2>0 DEF Ownership, OwnedRun, StoredOnce, SuccessIsStored
  <2>4. SuccessIsStored'
    BY NobodyAssumption, <2>0 DEF SuccessIsStored
  <2>5. ReportsHold'
    BY NobodyAssumption, <2>0 DEF Ownership, OwnedRun, SuccessIsStored, ReportsHold
  <2> QED
    BY <2>1, <2>2, <2>3, <2>4, <2>5
<1>6. ASSUME NEW w \in Workers, Scan(w) PROVE Rest'
  <2> USE <1>6 DEF Scan, Goto, Return, TypeOK
  <2>1. Ownership'
    BY NobodyAssumption DEF Ownership
  <2>2. OwnedRun'
    BY NobodyAssumption DEF Ownership, OwnedRun
  <2>3. StoredOnce'
    BY NobodyAssumption DEF Ownership, OwnedRun, StoredOnce, SuccessIsStored
  <2>4. SuccessIsStored'
    BY NobodyAssumption DEF SuccessIsStored
  <2>5. ReportsHold'
    BY NobodyAssumption DEF Ownership, OwnedRun, SuccessIsStored, ReportsHold
  <2> QED
    BY <2>1, <2>2, <2>3, <2>4, <2>5
<1>7. ASSUME NEW w \in Workers, FinishPartial(w) PROVE Rest'
  <2> USE <1>7 DEF FinishPartial, Goto, Return, TypeOK, FinishedRow, Acknowledged, AckLost
  <2>1. Ownership'
    BY NobodyAssumption DEF Ownership
  <2>2. OwnedRun'
    BY NobodyAssumption DEF Ownership, OwnedRun
  <2>3. StoredOnce'
    BY NobodyAssumption DEF Ownership, OwnedRun, StoredOnce, SuccessIsStored
  <2>4. SuccessIsStored'
    BY NobodyAssumption DEF SuccessIsStored
  <2>5. ReportsHold'
    BY NobodyAssumption DEF Ownership, OwnedRun, SuccessIsStored, ReportsHold
  <2> QED
    BY <2>1, <2>2, <2>3, <2>4, <2>5
<1>8. ASSUME NEW w \in Workers, StoreAndFinish(w) PROVE Rest'
  <2> USE <1>8 DEF StoreAndFinish, Goto, Return, TypeOK, FinishedRow, Acknowledged, AckLost
  <2>1. Ownership'
    BY NobodyAssumption DEF Ownership
  <2>2. OwnedRun'
    BY NobodyAssumption DEF Ownership, OwnedRun
  <2>3. StoredOnce'
    BY NobodyAssumption DEF Ownership, OwnedRun, StoredOnce, SuccessIsStored
  <2>4. SuccessIsStored'
    BY NobodyAssumption DEF SuccessIsStored
  <2>5. ReportsHold'
    BY NobodyAssumption DEF Ownership, OwnedRun, SuccessIsStored, ReportsHold
  <2> QED
    BY <2>1, <2>2, <2>3, <2>4, <2>5
<1>9. ASSUME NEW w \in Workers, RetryableError(w) PROVE Rest'
  <2> USE <1>9 DEF RetryableError, Goto, Return, TypeOK
  <2>1. Ownership'
    BY NobodyAssumption DEF Ownership
  <2>2. OwnedRun'
    BY NobodyAssumption DEF Ownership, OwnedRun
  <2>3. StoredOnce'
    BY NobodyAssumption DEF Ownership, OwnedRun, StoredOnce, SuccessIsStored
  <2>4. SuccessIsStored'
    BY NobodyAssumption DEF SuccessIsStored
  <2>5. ReportsHold'
    BY NobodyAssumption DEF Ownership, OwnedRun, SuccessIsStored, ReportsHold
  <2> QED
    BY <2>1, <2>2, <2>3, <2>4, <2>5
<1>10. ASSUME NEW w \in Workers, OtherError(w) PROVE Rest'
  <2> USE <1>10 DEF OtherError, Goto, Return, TypeOK
  <2>1. Ownership'
    BY NobodyAssumption DEF Ownership
  <2>2. OwnedRun'
    BY NobodyAssumption DEF Ownership, OwnedRun
  <2>3. StoredOnce'
    BY NobodyAssumption DEF Ownership, OwnedRun, StoredOnce, SuccessIsStored
  <2>4. SuccessIsStored'
    BY NobodyAssumption DEF SuccessIsStored
  <2>5. ReportsHold'
    BY NobodyAssumption DEF Ownership, OwnedRun, SuccessIsStored, ReportsHold
  <2> QED
    BY <2>1, <2>2, <2>3, <2>4, <2>5
<1>11. ASSUME NEW w \in Workers, FinishFailedSource(w) PROVE Rest'
  <2> USE <1>11 DEF FinishFailedSource, Goto, Return, TypeOK, FinishedRow
  <2>1. Ownership'
    BY NobodyAssumption DEF Ownership
  <2>2. OwnedRun'
    BY NobodyAssumption DEF Ownership, OwnedRun
  <2>3. StoredOnce'
    BY NobodyAssumption DEF Ownership, OwnedRun, StoredOnce, SuccessIsStored
  <2>4. SuccessIsStored'
    BY NobodyAssumption DEF SuccessIsStored
  <2>5. ReportsHold'
    BY NobodyAssumption DEF Ownership, OwnedRun, SuccessIsStored, ReportsHold
  <2> QED
    BY <2>1, <2>2, <2>3, <2>4, <2>5
<1>12. ASSUME NEW w \in Workers, Release(w) PROVE Rest'
  <2> USE <1>12 DEF Release, Goto, Return, TypeOK
  <2>1. Ownership'
    BY NobodyAssumption DEF Ownership
  <2>2. OwnedRun'
    BY NobodyAssumption DEF Ownership, OwnedRun
  <2>3. StoredOnce'
    BY NobodyAssumption DEF Ownership, OwnedRun, StoredOnce, SuccessIsStored
  <2>4. SuccessIsStored'
    BY NobodyAssumption DEF SuccessIsStored
  <2>5. ReportsHold'
    BY NobodyAssumption DEF Ownership, OwnedRun, SuccessIsStored, ReportsHold
  <2> QED
    BY <2>1, <2>2, <2>3, <2>4, <2>5
<1>13. ASSUME NEW w \in Workers, Crash(w) PROVE Rest'
  <2> USE <1>13 DEF Crash, Goto, Return, TypeOK
  <2>1. Ownership'
    BY NobodyAssumption DEF Ownership
  <2>2. OwnedRun'
    BY NobodyAssumption DEF Ownership, OwnedRun
  <2>3. StoredOnce'
    BY NobodyAssumption DEF Ownership, OwnedRun, StoredOnce, SuccessIsStored
  <2>4. SuccessIsStored'
    BY NobodyAssumption DEF SuccessIsStored
  <2>5. ReportsHold'
    BY NobodyAssumption DEF Ownership, OwnedRun, SuccessIsStored, ReportsHold
  <2> QED
    BY <2>1, <2>2, <2>3, <2>4, <2>5
<1>14. ASSUME NEW w \in Workers, LoseSession(w) PROVE Rest'
  <2> USE <1>14 DEF LoseSession, Goto, Return, TypeOK
  <2>1. Ownership'
    BY NobodyAssumption DEF Ownership
  <2>2. OwnedRun'
    BY NobodyAssumption DEF Ownership, OwnedRun
  <2>3. StoredOnce'
    BY NobodyAssumption DEF Ownership, OwnedRun, StoredOnce, SuccessIsStored
  <2>4. SuccessIsStored'
    BY NobodyAssumption DEF SuccessIsStored
  <2>5. ReportsHold'
    BY NobodyAssumption DEF Ownership, OwnedRun, SuccessIsStored, ReportsHold
  <2> QED
    BY <2>1, <2>2, <2>3, <2>4, <2>5
<1> QED
  BY <1>0, <1>1, <1>2, <1>3, <1>4, <1>5, <1>6, <1>7, <1>8, <1>9, <1>10, <1>11, <1>12, <1>13, <1>14
     DEF Next, Step

\* Inv holds in every reachable state.
LEMMA Invariance == Spec => []Inv
<1>1. Init => Inv
  BY InitInv
<1>2. Inv /\ [Next]_vars => Inv'
  BY StepInv
<1> QED
  BY <1>1, <1>2, PTL DEF Spec

-----------------------------------------------------------------------------

\* As long as no lock session was lost, two workers are never inside
\* _collect_source for the same slot.
THEOREM MutualExclusion == Spec => []SingleOwner
<1>1. Inv => SingleOwner
  BY DEF Inv, Ownership, SingleOwner
<1> QED
  BY <1>1, Invariance, PTL

\* With an intact lock session and acknowledged commits no worker is about to
\* send upstream requests for a slot whose observations are stored.
THEOREM NoRepeatedFetch == Spec => []NoFetchAfterSuccess
<1>1. Inv => NoFetchAfterSuccess
  BY DEF Inv, OwnedRun, StoredOnce, NoFetchAfterSuccess
<1> QED
  BY <1>1, Invariance, PTL

\* A success reported to the cycle is the durable truth from then on.
THEOREM ReportsAreDurable == Spec => []ReportedSuccessIsDurable
<1>1. Inv => ReportedSuccessIsDurable
  BY DEF Inv, ReportsHold, SuccessIsStored, ReportedSuccessIsDurable
<1> QED
  BY <1>1, Invariance, PTL

\* The number of attempts recorded for a slot never goes back.
THEOREM AttemptsMonotone == Spec => AttemptsNeverDecrease
<1>1. Inv /\ [Next]_vars => [losses' = 0 => row'.attempts >= row.attempts]_vars
  <2> SUFFICES ASSUME Inv, Next, losses' = 0 PROVE row'.attempts >= row.attempts
    BY DEF vars
  <2>1. row.attempts \in Nat
    BY DEF Inv, TypeOK, Rows
  <2>2. losses = 0
    <3>1. ASSUME NEW w \in Workers, LoseSession(w) PROVE losses = 0
      BY <3>1 DEF LoseSession, Inv, TypeOK
    <3> QED
      BY <3>1 DEF Next, Step, TryLock, Busy, ClaimSucceededRun, ClaimRun, Scan, FinishPartial,
                  StoreAndFinish, RetryableError, OtherError, FinishFailedSource, Release, Crash
  <2>3. ASSUME NEW w \in Workers, ClaimRun(w) PROVE row'.attempts >= row.attempts
    BY <2>1, <2>3 DEF ClaimRun, ClaimedRow, Inv, TypeOK, Rows
  <2>4. ASSUME NEW w \in Workers,
               FinishPartial(w) \/ StoreAndFinish(w) \/ FinishFailedSource(w)
        PROVE  row'.attempts >= row.attempts
    BY <2>1, <2>2, <2>4
       DEF FinishPartial, StoreAndFinish, FinishFailedSource, FinishedRow, Inv, OwnedRun
  <2>5. ASSUME UNCHANGED row PROVE row'.attempts >= row.attempts
    BY <2>1, <2>5
  <2> QED
    BY <2>3, <2>4, <2>5
       DEF Next, Step, TryLock, Busy, ClaimSucceededRun, Scan, RetryableError, OtherError,
           Release, Crash, LoseSession
<1> QED
  BY <1>1, Invariance, PTL DEF Spec, AttemptsNeverDecrease

\* Until a lock session or an acknowledgement is lost, every step of SourceRun
\* is a step of JobSlot or leaves its variables alone.
THEOREM RefinesJobSlot == Spec => ImplementsJobSlot
<1>1. Init => Slot!SlotInit
  BY DEF Init, Slot!SlotInit, NoRun
<1>2. Inv /\ [Next]_vars =>
        [losses' = 0 /\ ackLosses' = 0 => Slot!SlotNext]_(Slot!slotVars)
  <2> SUFFICES ASSUME Inv, Next, losses' = 0, ackLosses' = 0
               PROVE  Slot!SlotNext \/ UNCHANGED <<lock, row.status>>
    BY DEF vars, Slot!slotVars
  <2> USE DEF Slot!SlotNext, Slot!Acquire, Slot!Begin, Slot!Complete, Slot!Leave
  <2>1. losses = 0 /\ ackLosses = 0
    BY DEF Inv, TypeOK, Next, Step, TryLock, Busy, ClaimSucceededRun, ClaimRun, Scan,
           FinishPartial, StoreAndFinish, RetryableError, OtherError, FinishFailedSource,
           Release, Crash, LoseSession, Acknowledged, AckLost
  <2>2. ASSUME NEW w \in Workers, TryLock(w) PROVE Slot!Acquire(w)
    BY <2>2 DEF TryLock, LockIsFree
  <2>3. ASSUME NEW w \in Workers, ClaimRun(w) PROVE Slot!Begin
    BY <2>1, <2>3, NobodyAssumption
       DEF ClaimRun, ClaimedRow, AlreadySucceeded, Inv, Ownership, TypeOK, Rows
  <2>4. ASSUME NEW w \in Workers, FinishPartial(w) \/ StoreAndFinish(w) PROVE Slot!Complete
    BY <2>1, <2>4, NobodyAssumption
       DEF FinishPartial, StoreAndFinish, FinishedRow, Inv, Ownership, OwnedRun
  <2>5. ASSUME NEW w \in Workers, FinishFailedSource(w)
        PROVE  Slot!Complete \/ UNCHANGED <<lock, row.status>>
    BY <2>1, <2>5, NobodyAssumption
       DEF FinishFailedSource, FinishedRow, Inv, Ownership, StoredOnce
  <2>6. ASSUME NEW w \in Workers, Release(w) \/ Crash(w) PROVE Slot!Leave
    BY <2>1, <2>6, NobodyAssumption DEF Release, Crash, Inv, Ownership
  <2>7. ASSUME NEW w \in Workers, LoseSession(w) PROVE FALSE
    BY <2>1, <2>7 DEF LoseSession
  <2>8. ASSUME UNCHANGED <<lock, row>> PROVE UNCHANGED <<lock, row.status>>
    BY <2>8
  <2> QED
    BY <2>2, <2>3, <2>4, <2>5, <2>6, <2>7, <2>8
       DEF Next, Step, Busy, ClaimSucceededRun, Scan, RetryableError, OtherError
<1> QED
  BY <1>1, <1>2, Invariance, PTL DEF Spec, ImplementsJobSlot

\* The step of a JobSlot, as a collection cycle sees it.
LEMMA OutcomeOfSlot ==
    ASSUME lock \in Workers \cup {Nobody}, [Slot!SlotNext]_(Slot!slotVars)
    PROVE  [Outcome!OutcomeNext]_(Outcome!outcomeVars)
<1> USE DEF Outcome!OutcomeNext, Outcome!outcomeVars, Outcome!Execute, Outcome!Conclude
<1>1. ASSUME NEW w \in Workers, Slot!Acquire(w) PROVE [Outcome!OutcomeNext]_(Outcome!outcomeVars)
  BY <1>1 DEF Slot!Acquire
<1>2. CASE Slot!Begin
  BY <1>2 DEF Slot!Begin
<1>3. CASE Slot!Complete
  BY <1>3 DEF Slot!Complete
<1>4. CASE Slot!Leave
  BY <1>4 DEF Slot!Leave
<1>5. CASE UNCHANGED Slot!slotVars
  BY <1>5 DEF Slot!slotVars
<1> QED
  BY <1>1, <1>2, <1>3, <1>4, <1>5 DEF Slot!SlotNext

\* To a cycle, a source at a slot is a job that one worker executes at a time and
\* nobody once it has succeeded, until a session or an acknowledgement is lost.
THEOREM RefinesJobOutcome == Spec => ImplementsJobOutcome
<1> DEFINE SlotStep == losses' = 0 /\ ackLosses' = 0 => Slot!SlotNext
           OutcomeStep == losses' = 0 /\ ackLosses' = 0 => Outcome!OutcomeNext
<1>1. Init => Outcome!OutcomeInit
  BY DEF Init, Outcome!OutcomeInit, NoRun
<1>2. Inv /\ [SlotStep]_(Slot!slotVars) => [OutcomeStep]_(Outcome!outcomeVars)
  BY OutcomeOfSlot DEF Inv, TypeOK, Slot!slotVars
<1>3. ImplementsJobSlot => [][SlotStep]_(Slot!slotVars)
  BY DEF ImplementsJobSlot
<1>4. ImplementsJobOutcome <=> Outcome!OutcomeInit /\ [][OutcomeStep]_(Outcome!outcomeVars)
  BY DEF ImplementsJobOutcome
<1> HIDE DEF SlotStep, OutcomeStep
<1> QED
  BY <1>1, <1>2, <1>3, <1>4, RefinesJobSlot, Invariance, PTL DEF Spec
=============================================================================
