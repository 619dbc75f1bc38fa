-------------------------- MODULE BackfillRunSafety --------------------------
(***************************************************************************)
(* BackfillRun's safety properties for every set of workers and sources,   *)
(* every budget and every bound, from two inductive invariants.            *)
(*                                                                         *)
(* Coverage holds under every fault: behind a durable cursor, and behind   *)
(* the page an attempt is at, every page was committed.                    *)
(*                                                                         *)
(* Owned holds until a lock session is lost: whoever is inside             *)
(* _run_backfill_cycle holds the lock, so its local variables agree with   *)
(* the ledger row and the cursors it read.                                 *)
(***************************************************************************)
EXTENDS BackfillRunProofs

-----------------------------------------------------------------------------
(* Coverage *)

\* An attempt that has not opened its cursors has served nobody.
Unserved ==
    \A w \in Workers : pc[w] \in {"idle", "locked", "claimed"} =>
        run[w].round = {} /\ \A s \in Sources : run[w].served[s] = 0

CursorCovered ==
    \A s \in Sources :
        /\ cursor[s].next >= FirstNextPage
        /\ \A p \in Nat : 2 <= p /\ p < cursor[s].next /\ cursor[s].next > FirstNextPage
              => p \in stored[s]
        /\ cursor[s].complete => cursor[s].next > WindowEnd[s]

AttemptCovered ==
    \A w \in Workers : pc[w] \in Looping =>
        /\ run[w].round \subseteq run[w].live
        /\ \A s \in run[w].live :
              /\ run[w].page[s] >= 2
              /\ \A p \in Nat : 2 <= p /\ p < run[w].page[s] => p \in stored[s]

Coverage == TypeOK /\ Unserved /\ CursorCovered /\ AttemptCovered

-----------------------------------------------------------------------------
(* Turns *)

\* The sources of the round whose request is still to come; between request and
\* commit the source at its head has had its request.
Lagging(w) ==
    IF pc[w] = "fetched" THEN {t \in Round(w) : \E u \in Round(w) : u < t} ELSE Round(w)

\* Every live source has been served as often as every other, but for those the
\* round has yet to reach, which are one request behind.
Turns ==
    \A w \in Workers : pc[w] \in Looping =>
        \A s, t \in run[w].live :
            /\ (s \in Lagging(w) <=> t \in Lagging(w)) => run[w].served[s] = run[w].served[t]
            /\ s \notin Lagging(w) /\ t \in Lagging(w) =>
                  run[w].served[s] = run[w].served[t] + 1

-----------------------------------------------------------------------------
(* Owned *)

\* The row is running, and the worker's copy of its page count is right; one that
\* records a failure may have missed the acknowledgement of its last reservation.
OwnRow(w) ==
    /\ pc[w] \in Looping \cup {"claimed"} =>
          row.status = "running" /\ row.pages = run[w].consumed
    /\ pc[w] = "failing" => row.status = "running" /\ run[w].consumed <= row.pages

\* Requests are covered by reservations, in the worker's copy as in the row.
OwnRequests(w) ==
    /\ pc[w] \in {"claimed", "spending", "fetched", "failing"} => requests <= run[w].consumed
    /\ pc[w] = "reserved" => requests + 1 <= run[w].consumed
    /\ pc[w] # "idle" => run[w].fetched <= requests

\* A live source is not complete, and the attempt is not behind its cursor.
OwnCursors(w) ==
    pc[w] \in Looping =>
        \A s \in run[w].live : ~ cursor[s].complete /\ cursor[s].next <= run[w].page[s] + 1

\* An eligible source that left the loop is complete or failed, unless the
\* allowance is spent.
OwnSources(w) ==
    pc[w] \in Looping =>
        \/ row.pages = Budget
        \/ \A s \in run[w].eligible :
              s \in run[w].live \/ cursor[s].complete \/ s \in run[w].failed

\* The same of a summary that was just recorded.
OwnSummary(w) ==
    pc[w] = "releasing" /\ report[w].kind = "summary" =>
        \/ row.pages = Budget
        \/ \A s \in run[w].eligible : cursor[s].complete \/ s \in report[w].failed

Attempt(w) ==
    OwnRow(w) /\ OwnRequests(w) /\ OwnCursors(w) /\ OwnSources(w) /\ OwnSummary(w)

\* What a report says of a finished slot is what its row says.
Reported(w) ==
    report[w].kind \in {"summary", "replayed"} =>
        row.status = "succeeded" /\ report[w].failed = row.failed

WithinBudget == requests <= row.pages /\ row.pages <= Budget

Owned ==
    losses = 0 =>
        /\ \A w \in Workers : pc[w] # "idle" => lock = w
        /\ WithinBudget
        /\ \A w \in Workers : Attempt(w) /\ Reported(w)

-----------------------------------------------------------------------------
(* What the steps do to the attempts *)

\* The steps before, after and beside the loop, and the reservation of a page.
Quiet(w) ==
    \/ TryLock(w) \/ Busy(w) \/ ClaimSucceededRun(w) \/ ClaimRun(w) \/ ReservePage(w)
    \/ FinishRun(w) \/ RetryableError(w) \/ FinishFailed(w) \/ Release(w) \/ Crash(w)
    \/ LoseSession(w)

\* What the loop works with is the same after the step.
SameLoop(v) ==
    /\ run'[v].live = run[v].live
    /\ run'[v].round = run[v].round
    /\ run'[v].page = run[v].page
    /\ run'[v].served = run[v].served
    /\ run'[v].eligible = run[v].eligible
    /\ run'[v].failed = run[v].failed
    /\ run'[v].fetched = run[v].fetched

\* A quiet step leaves cursors and pages alone, brings nobody into the loop and
\* moves nobody in it.
LEMMA QuietSteps ==
    ASSUME TypeOK, NEW w \in Workers, Quiet(w)
    PROVE  /\ UNCHANGED <<cursor, stored>>
           /\ \A v \in Workers : pc'[v] \in Looping =>
                 /\ pc[v] \in Looping
                 /\ pc'[v] = "fetched" <=> pc[v] = "fetched"
                 /\ SameLoop(v)
<1> USE DEF Looping, Goto, Return, observed, faults
<1>0. \A v \in Workers : run[v] \in Runs
  BY DEF TypeOK
<1>1. CASE ReservePage(w)
  <2>1. UNCHANGED <<cursor, stored>>
    BY <1>1 DEF ReservePage
  <2>2. \/ run' = run
        \/ run' = [run EXCEPT ![w] = [run[w] EXCEPT !.consumed = row'.pages]]
    BY <1>1 DEF ReservePage, SetRun
  <2>3. ASSUME NEW v \in Workers PROVE SameLoop(v)
    <3>1. CASE run' = run
      BY <3>1 DEF SameLoop
    <3>2. CASE run' = [run EXCEPT ![w] = [run[w] EXCEPT !.consumed = row'.pages]] /\ v # w
      BY <3>2 DEF SameLoop, TypeOK
    <3>3. CASE run' = [run EXCEPT ![w] = [run[w] EXCEPT !.consumed = row'.pages]] /\ v = w
      <4>1. run'[w] = [run[w] EXCEPT !.consumed = row'.pages]
        BY <3>3 DEF TypeOK
      <4> QED
        BY <1>0, <3>3, <4>1 DEF SameLoop, Runs
    <3> QED
      BY <2>2, <3>1, <3>2, <3>3
  <2>4. pc[w] = "spending" /\ pc' \in {[pc EXCEPT ![w] = "reserved"], [pc EXCEPT ![w] = "failing"]}
    BY <1>1 DEF ReservePage
  <2> QED
    BY <2>1, <2>3, <2>4 DEF TypeOK
<1>2. CASE ~ ReservePage(w)
  <2>1. UNCHANGED <<cursor, stored>>
    BY <1>2 DEF Quiet, TryLock, Busy, ClaimSucceededRun, ClaimRun, FinishRun, RetryableError,
                FinishFailed, Release, Crash, LoseSession
  <2>2. ASSUME NEW v \in Workers, pc'[v] \in Looping
        PROVE  run'[v] = run[v] /\ pc'[v] = pc[v]
    BY <1>2, <2>2
       DEF Quiet, TryLock, Busy, ClaimSucceededRun, ClaimRun, FinishRun, RetryableError,
           FinishFailed, Release, Crash, LoseSession, SetRun, TypeOK
  <2> QED
    BY <2>1, <2>2 DEF SameLoop
<1> QED
  BY <1>1, <1>2

\* The step of one worker in the loop leaves the others' attempts alone.
LEMMA OthersKeep ==
    ASSUME TypeOK, NEW w \in Workers, NEW v \in Workers, v # w,
           \/ OpenCursors(w) \/ AllowanceExhausted(w)
           \/ \E s \in Sources : Request(w, s) \/ StorePage(w, s) \/ PageError(w, s)
    PROVE  run'[v] = run[v] /\ pc'[v] = pc[v]
BY DEF OpenCursors, AllowanceExhausted, Request, StorePage, PageError, Goto, SetRun,
       DropSource, FailSource, TypeOK

LEMMA QuietOthersKeep ==
    ASSUME TypeOK, NEW w \in Workers, NEW v \in Workers, v # w, Quiet(w)
    PROVE  run'[v] = run[v] /\ pc'[v] = pc[v]
BY DEF Quiet, TryLock, Busy, ClaimSucceededRun, ClaimRun, ReservePage, FinishRun,
       RetryableError, FinishFailed, Release, Crash, LoseSession, Goto, Return, SetRun, TypeOK

\* Every step is a quiet one or one of the loop.
LEMMA StepsOfNext ==
    ASSUME Next
    PROVE  \E w \in Workers :
              \/ Quiet(w) \/ OpenCursors(w) \/ AllowanceExhausted(w)
              \/ \E s \in Sources : Request(w, s) \/ StorePage(w, s) \/ PageError(w, s)
BY DEF Next, Step, Quiet

\* The attempt after its cursors are opened.
LEMMA OpenedAttempt ==
    ASSUME TypeOK, NEW w \in Workers, OpenCursors(w)
    PROVE  /\ pc[w] = "claimed" /\ pc'[w] = "spending"
           /\ UNCHANGED <<row, cursor, stored>>
           /\ run'[w].live = {s \in run[w].eligible : ~ cursor[s].complete}
           /\ \A s \in Sources : run'[w].page[s] = ResumePage(s)
           /\ run'[w].eligible = run[w].eligible
           /\ run'[w].round = run[w].round
           /\ run'[w].served = run[w].served
           /\ run'[w].consumed = run[w].consumed
           /\ run'[w].fetched = run[w].fetched
           /\ run'[w].failed = run[w].failed
<1> DEFINE opened == [s \in Sources |-> ResumePage(s)]
           live == {s \in run[w].eligible : ~ cursor[s].complete}
<1>1. run' = [run EXCEPT ![w] = [run[w] EXCEPT !.live = live, !.page = opened]]
  BY DEF OpenCursors, SetRun
<1>2. run[w] \in Runs /\ \A s \in Sources : opened[s] = ResumePage(s)
  BY DEF TypeOK
<1>3. run'[w].page = opened /\ run'[w].live = live
  <2> HIDE DEF opened, live
  <2> QED
    BY <1>1, <1>2 DEF TypeOK, Runs
<1>4. /\ run'[w].eligible = run[w].eligible /\ run'[w].round = run[w].round
      /\ run'[w].served = run[w].served /\ run'[w].consumed = run[w].consumed
      /\ run'[w].fetched = run[w].fetched /\ run'[w].failed = run[w].failed
  <2> HIDE DEF opened, live
  <2> QED
    BY <1>1, <1>2 DEF TypeOK, Runs
<1> QED
  BY <1>2, <1>3, <1>4 DEF OpenCursors, Goto, TypeOK, observed

\* The attempt after the allowance is found spent.
LEMMA ExhaustedAttempt ==
    ASSUME TypeOK, NEW w \in Workers, AllowanceExhausted(w)
    PROVE  /\ pc[w] = "spending" /\ UNCHANGED <<pc, row, cursor, stored>>
           /\ run'[w].live = {} /\ run'[w].round = {}
           /\ run'[w].eligible = run[w].eligible
           /\ run'[w].consumed = run[w].consumed
           /\ run'[w].fetched = run[w].fetched
           /\ run'[w].failed = run[w].failed
<1>1. run' = [run EXCEPT ![w] = [run[w] EXCEPT !.live = {}, !.round = {}]]
  BY DEF AllowanceExhausted, SetRun
<1> QED
  BY <1>1 DEF AllowanceExhausted, TypeOK, Runs, observed

\* The attempt after a request to source s.
LEMMA RequestedAttempt ==
    ASSUME TypeOK, NEW w \in Workers, NEW s \in Sources, Request(w, s)
    PROVE  /\ pc[w] = "reserved" /\ pc'[w] = "fetched"
           /\ UNCHANGED <<row, cursor, stored>>
           /\ run'[w].live = run[w].live /\ run'[w].round = run[w].round
           /\ run'[w].page = run[w].page
           /\ run'[w].served[s] = run[w].served[s] + 1
           /\ \A t \in Sources : t # s => run'[w].served[t] = run[w].served[t]
           /\ run'[w].eligible = run[w].eligible
           /\ run'[w].consumed = run[w].consumed
           /\ run'[w].fetched = run[w].fetched + 1
           /\ run'[w].failed = run[w].failed
<1> DEFINE served == [run[w].served EXCEPT ![s] = run[w].served[s] + 1]
<1>1. run' = [run EXCEPT ![w] = [run[w] EXCEPT !.fetched = run[w].fetched + 1, !.served = served]]
  BY DEF Request, SetRun
<1>2. run[w] \in Runs
  BY DEF TypeOK
<1>3. run'[w].served = served
  <2> HIDE DEF served
  <2> QED
    BY <1>1, <1>2 DEF TypeOK, Runs
<1>4. /\ run'[w].live = run[w].live /\ run'[w].round = run[w].round
      /\ run'[w].page = run[w].page /\ run'[w].eligible = run[w].eligible
      /\ run'[w].consumed = run[w].consumed /\ run'[w].fetched = run[w].fetched + 1
      /\ run'[w].failed = run[w].failed
  <2> HIDE DEF served
  <2> QED
    BY <1>1, <1>2 DEF TypeOK, Runs
<1>5. served[s] = run[w].served[s] + 1 /\ \A t \in Sources : t # s => served[t] = run[w].served[t]
  BY <1>2 DEF Runs
<1> QED
  BY <1>3, <1>4, <1>5 DEF Request, Goto, TypeOK, faults

\* The attempt after a page of source s was stored, or after it failed: s has had
\* its turn, and goes on with the next page unless it left the loop.
LEMMA ServedAttempt ==
    ASSUME TypeOK, NEW w \in Workers, NEW s \in Sources, StorePage(w, s) \/ PageError(w, s)
    PROVE  /\ pc[w] = "fetched" /\ pc'[w] = "spending" /\ Serves(w, s)
           /\ UNCHANGED row
           /\ run'[w].round = Round(w) \ {s}
           /\ run'[w].live \in {run[w].live, run[w].live \ {s}}
           /\ \A t \in Sources : t # s => run'[w].page[t] = run[w].page[t]
           /\ run'[w].live = run[w].live =>
                 \/ s \notin run[w].live
                 \/ /\ StorePage(w, s) /\ run[w].page[s] < WindowEnd[s]
                    /\ run'[w].page[s] = run[w].page[s] + 1
           /\ run'[w].served = run[w].served
           /\ run'[w].eligible = run[w].eligible
           /\ run'[w].consumed = run[w].consumed
           /\ run'[w].fetched = run[w].fetched
           /\ run[w].failed \subseteq run'[w].failed
           /\ s \notin run'[w].live =>
                 s \in run'[w].failed \/ (StorePage(w, s) /\ run[w].page[s] >= WindowEnd[s])
                 \/ s \notin run[w].live
<1> DEFINE page == [run[w].page EXCEPT ![s] = run[w].page[s] + 1]
           round == Round(w) \ {s}
<1>1. run[w] \in Runs
  BY DEF TypeOK
<1>2. run[w].page[s] \in Nat /\ WindowEnd[s] \in Nat
  BY <1>1, WindowAssumption DEF Runs
<1>3. page[s] = run[w].page[s] + 1 /\ \A t \in Sources : t # s => page[t] = run[w].page[t]
  BY <1>1 DEF Runs
<1>4. pc[w] = "fetched" /\ pc'[w] = "spending" /\ Serves(w, s) /\ UNCHANGED row
  BY DEF StorePage, PageError, Goto, TypeOK
<1>5. CASE StorePage(w, s) /\ run[w].page[s] >= WindowEnd[s] /\ DropSource(w, s)
  <2>1. run' = [run EXCEPT ![w] = [run[w] EXCEPT !.live = run[w].live \ {s}, !.round = round]]
    BY <1>5 DEF DropSource, SetRun
  <2>2. /\ run'[w].live = run[w].live \ {s} /\ run'[w].round = round
        /\ run'[w].page = run[w].page /\ run'[w].served = run[w].served
        /\ run'[w].eligible = run[w].eligible /\ run'[w].consumed = run[w].consumed
        /\ run'[w].fetched = run[w].fetched /\ run'[w].failed = run[w].failed
    <3> HIDE DEF round
    <3> QED
      BY <1>1, <2>1 DEF TypeOK, Runs
  <2> QED
    BY <1>4, <1>5, <2>2
<1>6. CASE FailSource(w, s)
  <2>1. run' = [run EXCEPT ![w] = [run[w] EXCEPT !.live = run[w].live \ {s}, !.round = round,
                                                 !.failed = run[w].failed \cup {s}]]
    BY <1>6 DEF FailSource, SetRun
  <2>2. /\ run'[w].live = run[w].live \ {s} /\ run'[w].round = round
        /\ run'[w].page = run[w].page /\ run'[w].served = run[w].served
        /\ run'[w].eligible = run[w].eligible /\ run'[w].consumed = run[w].consumed
        /\ run'[w].fetched = run[w].fetched /\ run'[w].failed = run[w].failed \cup {s}
    <3> HIDE DEF round
    <3> QED
      BY <1>1, <2>1 DEF TypeOK, Runs
  <2> QED
    BY <1>4, <2>2
<1>7. CASE /\ StorePage(w, s) /\ run[w].page[s] < WindowEnd[s]
           /\ SetRun(w, [run[w] EXCEPT !.page = page, !.round = round])
  <2>1. run' = [run EXCEPT ![w] = [run[w] EXCEPT !.page = page, !.round = round]]
    BY <1>7 DEF SetRun
  <2>2. /\ run'[w].live = run[w].live /\ run'[w].round = round
        /\ run'[w].page = page /\ run'[w].served = run[w].served
        /\ run'[w].eligible = run[w].eligible /\ run'[w].consumed = run[w].consumed
        /\ run'[w].fetched = run[w].fetched /\ run'[w].failed = run[w].failed
    <3> HIDE DEF round, page
    <3> QED
      BY <1>1, <2>1 DEF TypeOK, Runs
  <2> QED
    BY <1>3, <1>4, <1>7, <2>2
<1>8. \/ StorePage(w, s) /\ run[w].page[s] >= WindowEnd[s] /\ DropSource(w, s)
      \/ FailSource(w, s)
      \/ /\ StorePage(w, s) /\ ~ (run[w].page[s] >= WindowEnd[s])
         /\ SetRun(w, [run[w] EXCEPT !.page = page, !.round = round])
  BY DEF StorePage, PageError
<1>9. ~ (run[w].page[s] >= WindowEnd[s]) => run[w].page[s] < WindowEnd[s]
  BY <1>2
<1> QED
  BY <1>5, <1>6, <1>7, <1>8, <1>9

-----------------------------------------------------------------------------
(* Coverage is inductive *)

LEMMA InitUnserved == Init => Unserved
BY DEF Init, Unserved, NoAttempt

LEMMA StepUnserved == TypeOK /\ Unserved /\ [Next]_vars => Unserved'
<1> SUFFICES ASSUME TypeOK, Unserved, [Next]_vars,
                    NEW v \in Workers, pc'[v] \in {"idle", "locked", "claimed"}
             PROVE  run'[v].round = {} /\ \A s \in Sources : run'[v].served[s] = 0
  BY DEF Unserved
<1> USE DEF Goto, Return, SetRun
<1>0. \A w \in Workers : run[w] \in Runs
  BY DEF TypeOK
<1>1. NoAttempt.round = {} /\ \A s \in Sources : NoAttempt.served[s] = 0
  BY DEF NoAttempt
<1>2. CASE UNCHANGED vars
  BY <1>2 DEF vars, Unserved
<1>3. CASE run'[v] = run[v] /\ pc'[v] = pc[v]
  BY <1>3 DEF Unserved
<1>4. ASSUME NEW w \in Workers, Quiet(w) PROVE run'[v].round = {} /\ \A s \in Sources : run'[v].served[s] = 0
  <2>1. CASE v # w
    BY <1>3, <1>4, <2>1, QuietOthersKeep
  <2>2. CASE v = w /\ TryLock(w)
    <3>1. PICK e \in EligibleSets : run' = [run EXCEPT ![w] = [NoAttempt EXCEPT !.eligible = e]]
      BY <2>2 DEF TryLock
    <3>2. run'[w] = [NoAttempt EXCEPT !.eligible = e]
      BY <3>1 DEF TypeOK
    <3>3. run'[w].round = NoAttempt.round /\ run'[w].served = NoAttempt.served
      BY <3>2 DEF NoAttempt
    <3> QED
      BY <1>1, <2>2, <3>3
  <2>3. CASE v = w /\ ClaimRun(w)
    <3>1. pc[w] = "locked" /\ run' = [run EXCEPT ![w] = [run[w] EXCEPT !.attempts = row'.attempts,
                                                                      !.consumed = row.pages]]
      BY <2>3 DEF ClaimRun, TypeOK
    <3>2. run'[w] = [run[w] EXCEPT !.attempts = row'.attempts, !.consumed = row.pages]
      BY <3>1 DEF TypeOK
    <3>3. run'[w].round = run[w].round /\ run'[w].served = run[w].served
      BY <1>0, <3>2 DEF Runs
    <3> QED
      BY <2>3, <3>1, <3>3 DEF Unserved
  <2>4. CASE v = w /\ (Release(w) \/ Crash(w))
    <3>1. run'[w] = NoAttempt
      BY <2>4 DEF Release, Crash, TypeOK
    <3> QED
      BY <1>1, <2>4, <3>1
  <2>5. CASE v = w /\ (Busy(w) \/ LoseSession(w))
    BY <1>3, <2>5 DEF Busy, LoseSession
  <2>6. CASE /\ v = w
             /\ \/ ClaimSucceededRun(w) \/ ReservePage(w) \/ FinishRun(w)
                \/ RetryableError(w) \/ FinishFailed(w)
    BY <2>6 DEF ClaimSucceededRun, ReservePage, FinishRun, RetryableError, FinishFailed, TypeOK
  <2> QED
    BY <1>4, <2>1, <2>2, <2>3, <2>4, <2>5, <2>6 DEF Quiet
<1>5. ASSUME NEW w \in Workers,
             \/ OpenCursors(w) \/ AllowanceExhausted(w)
             \/ \E s \in Sources : Request(w, s) \/ StorePage(w, s) \/ PageError(w, s)
      PROVE  run'[v].round = {} /\ \A s \in Sources : run'[v].served[s] = 0
  <2>1. CASE v # w
    BY <1>3, <1>5, <2>1, OthersKeep
  <2>2. CASE v = w
    BY <1>5, <2>2 DEF OpenCursors, AllowanceExhausted, Request, StorePage, PageError, TypeOK
  <2> QED
    BY <2>1, <2>2
<1> QED
  BY <1>2, <1>4, <1>5, StepsOfNext

LEMMA InitCoverage == Init => Coverage
BY InitTypeOK, InitUnserved DEF Init, Coverage, CursorCovered, AttemptCovered, FirstNextPage, Looping

LEMMA StepCoverage == Coverage /\ [Next]_vars => Coverage'
<1> SUFFICES ASSUME Coverage, [Next]_vars PROVE Coverage'
  OBVIOUS
<1>0. TypeOK /\ TypeOK' /\ Unserved /\ Unserved' /\ CursorCovered /\ AttemptCovered
  BY StepTypeOK, StepUnserved DEF Coverage
<1>1. CASE UNCHANGED vars
  BY <1>0, <1>1 DEF vars, Coverage, CursorCovered, AttemptCovered
<1>2. ASSUME NEW w \in Workers, Quiet(w) PROVE CursorCovered' /\ AttemptCovered'
  <2>1. CursorCovered'
    BY <1>0, <1>2, QuietSteps DEF CursorCovered
  <2>2. AttemptCovered'
    BY <1>0, <1>2, QuietSteps DEF AttemptCovered, SameLoop
  <2> QED
    BY <2>1, <2>2
<1>3. ASSUME NEW w \in Workers, OpenCursors(w)
      PROVE  CursorCovered' /\ AttemptCovered'
  <2>1. CursorCovered'
    BY <1>0, <1>3, OpenedAttempt DEF CursorCovered
  <2>2. ASSUME NEW s \in run'[w].live
        PROVE  /\ run'[w].page[s] >= 2
               /\ \A p \in Nat : 2 <= p /\ p < run'[w].page[s] => p \in stored'[s]
    <3>1. s \in Sources /\ stored' = stored /\ run'[w].page[s] = ResumePage(s)
      BY <1>0, <1>3, <2>2, OpenedAttempt DEF TypeOK, Runs
    <3>2. cursor[s].next \in Nat /\ cursor[s].next >= 3
      BY <1>0, <3>1 DEF TypeOK, Cursors, CursorCovered, FirstNextPage
    <3>3. ResumePage(s) = cursor[s].next - 1
      BY <3>2 DEF ResumePage
    <3> QED
      BY <1>0, <3>1, <3>2, <3>3 DEF CursorCovered, FirstNextPage
  <2>3. AttemptCovered'
    BY <1>0, <1>3, <2>2, OpenedAttempt, OthersKeep DEF AttemptCovered, Looping, Unserved
  <2> QED
    BY <2>1, <2>3
<1>4. ASSUME NEW w \in Workers, AllowanceExhausted(w) PROVE CursorCovered' /\ AttemptCovered'
  <2>1. CursorCovered'
    BY <1>0, <1>4, ExhaustedAttempt DEF CursorCovered
  <2>2. AttemptCovered'
    BY <1>0, <1>4, ExhaustedAttempt, OthersKeep DEF AttemptCovered
  <2> QED
    BY <2>1, <2>2
<1>5. ASSUME NEW w \in Workers, NEW s \in Sources, Request(w, s)
      PROVE  CursorCovered' /\ AttemptCovered'
  <2>1. CursorCovered'
    BY <1>0, <1>5, RequestedAttempt DEF CursorCovered
  <2>2. AttemptCovered'
    BY <1>0, <1>5, RequestedAttempt, OthersKeep DEF AttemptCovered, Looping
  <2> QED
    BY <2>1, <2>2
<1>6. ASSUME NEW w \in Workers, NEW s \in Sources, StorePage(w, s) \/ PageError(w, s)
      PROVE  CursorCovered' /\ AttemptCovered'
  <2> DEFINE page == run[w].page[s]
  <2>1. pc[w] = "fetched" /\ pc'[w] = "spending" /\ Serves(w, s)
    BY <1>0, <1>6, ServedAttempt
  <2>2. /\ page \in Nat /\ page >= 2 /\ run[w].round \subseteq run[w].live
        /\ s \in run[w].live /\ run[w].live \subseteq Sources
        /\ \A p \in Nat : 2 <= p /\ p < page => p \in stored[s]
    BY <1>0, <2>1 DEF AttemptCovered, Looping, Serves, Round, TypeOK, Runs
  <2>3. \A t \in Sources : stored[t] \subseteq stored'[t]
    BY <1>0, <1>6 DEF StorePage, PageError, TypeOK
  <2>4. StorePage(w, s) => page \in stored'[s]
    BY <1>0 DEF StorePage, TypeOK
  <2>5. CursorCovered'
    <3>1. CASE StorePage(w, s)
      <4>1. \A t \in Sources : t # s => cursor'[t] = cursor[t]
        BY <1>0, <3>1 DEF StorePage, TypeOK
      <4>2. cursor'[s].next = page + 1 /\ (cursor'[s].complete <=> page >= WindowEnd[s])
        BY <1>0, <3>1 DEF StorePage, TypeOK
      <4>3. WindowEnd[s] \in Nat
        BY WindowAssumption
      <4>4. \A p \in Nat : 2 <= p /\ p < page + 1 => p \in stored'[s]
        <5> TAKE p \in Nat
        <5> HAVE 2 <= p /\ p < page + 1
        <5>1. p < page \/ p = page
          BY <2>2
        <5> QED
          BY <2>2, <2>3, <2>4, <3>1, <5>1
      <4>5. \A t \in Sources : t # s =>
              /\ cursor'[t].next >= FirstNextPage
              /\ \A p \in Nat : 2 <= p /\ p < cursor'[t].next /\ cursor'[t].next > FirstNextPage
                    => p \in stored'[t]
              /\ cursor'[t].complete => cursor'[t].next > WindowEnd[t]
        BY <1>0, <2>3, <4>1 DEF CursorCovered
      <4>6. /\ cursor'[s].next >= FirstNextPage
            /\ \A p \in Nat : 2 <= p /\ p < cursor'[s].next => p \in stored'[s]
            /\ cursor'[s].complete => cursor'[s].next > WindowEnd[s]
        BY <2>2, <4>2, <4>3, <4>4 DEF FirstNextPage
      <4> QED
        BY <4>5, <4>6 DEF CursorCovered
    <3>2. CASE PageError(w, s)
      <4>1. UNCHANGED <<cursor, stored>>
        BY <3>2 DEF PageError
      <4> QED
        BY <1>0, <4>1 DEF CursorCovered
    <3> QED
      BY <1>6, <3>1, <3>2
  <2>6. ASSUME NEW v \in Workers, pc'[v] \in Looping
        PROVE  /\ run'[v].round \subseteq run'[v].live
               /\ \A t \in run'[v].live :
                     /\ run'[v].page[t] >= 2
                     /\ \A p \in Nat : 2 <= p /\ p < run'[v].page[t] => p \in stored'[t]
    <3>1. CASE v # w
      <4>1. run'[v] = run[v] /\ pc'[v] = pc[v]
        BY <1>0, <1>6, <3>1, OthersKeep
      <4>2. run[v].live \subseteq Sources
        BY <1>0 DEF TypeOK, Runs
      <4> QED
        BY <1>0, <2>3, <2>6, <4>1, <4>2 DEF AttemptCovered
    <3>2. CASE v = w
      <4>1. /\ run'[w].round = Round(w) \ {s}
            /\ run'[w].live \in {run[w].live, run[w].live \ {s}}
            /\ \A t \in Sources : t # s => run'[w].page[t] = run[w].page[t]
            /\ run'[w].live = run[w].live => StorePage(w, s) /\ run'[w].page[s] = page + 1
        BY <1>0, <1>6, <2>2, ServedAttempt
      <4>2. run'[w].round \subseteq run'[w].live
        BY <2>2, <4>1 DEF Round
      <4>3. ASSUME NEW t \in run'[w].live, t # s
            PROVE  /\ run'[w].page[t] >= 2
                   /\ \A p \in Nat : 2 <= p /\ p < run'[w].page[t] => p \in stored'[t]
        <5>1. t \in run[w].live /\ t \in Sources /\ run'[w].page[t] = run[w].page[t]
          BY <2>2, <4>1, <4>3
        <5> QED
          BY <1>0, <2>1, <2>3, <5>1 DEF AttemptCovered, Looping
      <4>4. ASSUME s \in run'[w].live
            PROVE  /\ run'[w].page[s] >= 2
                   /\ \A p \in Nat : 2 <= p /\ p < run'[w].page[s] => p \in stored'[s]
        <5>1. StorePage(w, s) /\ run'[w].page[s] = page + 1
          BY <4>1, <4>4
        <5>2. ASSUME NEW p \in Nat, 2 <= p, p < page + 1 PROVE p \in stored'[s]
          <6>1. p < page \/ p = page
            BY <2>2, <5>2
          <6> QED
            BY <2>2, <2>3, <2>4, <5>1, <5>2, <6>1
        <5> QED
          BY <2>2, <5>1, <5>2
      <4> QED
        BY <3>2, <4>2, <4>3, <4>4
    <3> QED
      BY <3>1, <3>2
  <2>7. AttemptCovered'
    BY <2>6 DEF AttemptCovered
  <2> QED
    BY <2>5, <2>7
<1> QED
  BY <1>0, <1>1, <1>2, <1>3, <1>4, <1>5, <1>6, StepsOfNext DEF Coverage

LEMMA CoverageInvariant == Spec => []Coverage
BY InitCoverage, StepCoverage, PTL DEF Spec

\* Backfill never skips a page, under every fault: StorePage commits the page and
\* the cursor behind it together, and an attempt resumes behind a durable cursor.
THEOREM NoPageIsSkipped == Spec => []NoSkippedPage
<1>1. Coverage => NoSkippedPage
  <2> SUFFICES ASSUME Coverage, NEW s \in Sources
               PROVE  /\ cursor[s].next > FirstNextPage => 2..(cursor[s].next - 1) \subseteq stored[s]
                      /\ cursor[s].complete => cursor[s].next > WindowEnd[s]
    BY DEF NoSkippedPage
  <2>1. cursor[s].next \in Nat
    BY DEF Coverage, TypeOK, Cursors
  <2>2. ASSUME cursor[s].next > FirstNextPage, NEW p \in 2..(cursor[s].next - 1)
        PROVE  p \in stored[s]
    <3>1. p \in Nat /\ 2 <= p /\ p < cursor[s].next
      BY <2>1, <2>2
    <3> QED
      BY <2>2, <3>1 DEF Coverage, CursorCovered
  <2> QED
    BY <2>2 DEF Coverage, CursorCovered
<1> QED
  BY <1>1, CoverageInvariant, PTL

-----------------------------------------------------------------------------
(* Turns are inductive, given Coverage *)

\* The source that is served is the only one that stops lagging.
LEMMA HeadOfRound ==
    ASSUME NEW w \in Workers, NEW s \in Sources, Round(w) \subseteq Sources, Serves(w, s)
    PROVE  {t \in Round(w) : \E u \in Round(w) : u < t} = Round(w) \ {s}
<1>1. Round(w) \subseteq Nat /\ s \in Round(w) /\ \A t \in Round(w) : s <= t
  BY SourcesAssumption DEF Serves
<1>2. ASSUME NEW t \in Round(w), t # s PROVE s < t
  BY <1>1, <1>2
<1>3. ASSUME NEW u \in Round(w) PROVE ~ (u < s)
  BY <1>1, <1>3
<1> QED
  BY <1>1, <1>2, <1>3

\* A quiet step leaves an attempt's turns as they are, or starts it anew.
LEMMA QuietTurns ==
    ASSUME TypeOK, NEW w \in Workers, Quiet(w), NEW v \in Workers
    PROVE  \/ run'[v].live = {}
           \/ run'[v].live = run[v].live /\ run'[v].served = run[v].served
<1>0. run[v] \in Runs /\ NoAttempt.live = {}
  BY DEF TypeOK, NoAttempt
<1>1. CASE v # w
  BY <1>1, QuietOthersKeep
<1>2. CASE v = w /\ TryLock(w)
  <2>1. PICK e \in EligibleSets : run' = [run EXCEPT ![w] = [NoAttempt EXCEPT !.eligible = e]]
    BY <1>2 DEF TryLock, SetRun
  <2>2. run'[w] = [NoAttempt EXCEPT !.eligible = e]
    BY <2>1 DEF TypeOK
  <2> QED
    BY <1>2, <2>2 DEF NoAttempt
<1>3. CASE v = w /\ ClaimRun(w) /\ run' # run
  <2>1. run' = [run EXCEPT ![w] = [run[w] EXCEPT !.attempts = row'.attempts, !.consumed = row.pages]]
    BY <1>3 DEF ClaimRun, SetRun
  <2>2. run'[w] = [run[w] EXCEPT !.attempts = row'.attempts, !.consumed = row.pages]
    BY <2>1 DEF TypeOK
  <2> QED
    BY <1>0, <1>3, <2>2 DEF Runs
<1>4. CASE v = w /\ ReservePage(w) /\ run' # run
  <2>1. run' = [run EXCEPT ![w] = [run[w] EXCEPT !.consumed = row'.pages]]
    BY <1>4 DEF ReservePage, SetRun
  <2>2. run'[w] = [run[w] EXCEPT !.consumed = row'.pages]
    BY <2>1 DEF TypeOK
  <2> QED
    BY <1>0, <1>4, <2>2 DEF Runs
<1>5. CASE v = w /\ (Release(w) \/ Crash(w))
  BY <1>0, <1>5 DEF Release, Crash, SetRun, TypeOK
<1>6. CASE run' = run
  BY <1>6
<1>7. CASE v = w /\ \/ Busy(w) \/ ClaimSucceededRun(w) \/ FinishRun(w) \/ RetryableError(w)
                    \/ FinishFailed(w) \/ LoseSession(w)
  BY <1>6, <1>7 DEF Busy, ClaimSucceededRun, FinishRun, RetryableError, FinishFailed, LoseSession
<1> QED
  BY <1>1, <1>2, <1>3, <1>4, <1>5, <1>6, <1>7 DEF Quiet

LEMMA InitTurns == Init => Turns /\ RoundRobin
BY DEF Init, Turns, RoundRobin, NoAttempt, Looping

LEMMA StepTurns == Coverage /\ Turns /\ RoundRobin /\ [Next]_vars => Turns' /\ RoundRobin'
<1> SUFFICES ASSUME Coverage, Turns, RoundRobin, [Next]_vars PROVE Turns' /\ RoundRobin'
  OBVIOUS
<1>0. /\ TypeOK /\ TypeOK' /\ Unserved /\ AttemptCovered
      /\ \A v \in Workers : run[v] \in Runs /\ run'[v] \in Runs
  BY StepTypeOK DEF Coverage, TypeOK
<1>1. CASE UNCHANGED vars
  BY <1>1 DEF vars, Turns, RoundRobin, Lagging, Round
<1>2. ASSUME Turns', NEW v \in Workers, pc'[v] \in Looping, NEW s \in run'[v].live, NEW t \in run'[v].live
      PROVE  run'[v].served[s] <= run'[v].served[t] + 1
  <2>1. run'[v].served[s] \in Nat /\ run'[v].served[t] \in Nat
    BY <1>0, <1>2 DEF Runs
  <2> QED
    BY <1>2, <2>1 DEF Turns
<1>3. ASSUME NEW w \in Workers, Quiet(w) PROVE Turns' /\ RoundRobin'
  <2>1. ASSUME NEW v \in Workers, pc'[v] \in Looping
        PROVE  pc[v] \in Looping /\ SameLoop(v) /\ Lagging(v)' = Lagging(v)
    BY <1>0, <1>3, <2>1, QuietSteps DEF SameLoop, Lagging, Round
  <2>2. Turns'
    BY <2>1 DEF Turns, SameLoop
  <2>3. RoundRobin'
    BY <1>0, <1>3, QuietTurns DEF RoundRobin
  <2> QED
    BY <2>2, <2>3
<1>4. ASSUME NEW w \in Workers,
             \/ OpenCursors(w) \/ AllowanceExhausted(w)
             \/ \E s \in Sources : Request(w, s) \/ StorePage(w, s) \/ PageError(w, s)
      PROVE  Turns' /\ RoundRobin'
  <2>1. ASSUME NEW v \in Workers, v # w
        PROVE  run'[v] = run[v] /\ pc'[v] = pc[v] /\ Lagging(v)' = Lagging(v)
    BY <1>0, <1>4, <2>1, OthersKeep DEF Lagging, Round
  <2> DEFINE Rotates ==
               /\ pc'[w] \in Looping
               /\ \A s, t \in run'[w].live :
                     /\ (s \in Lagging(w)' <=> t \in Lagging(w)') =>
                           run'[w].served[s] = run'[w].served[t]
                     /\ s \notin Lagging(w)' /\ t \in Lagging(w)' =>
                           run'[w].served[s] = run'[w].served[t] + 1
  <2>2. Rotates
    <3>1. CASE OpenCursors(w)
      <4>1. pc'[w] = "spending" /\ run'[w].round = {} /\ run'[w].live \subseteq Sources
        BY <1>0, <3>1, OpenedAttempt DEF Unserved, Runs
      <4>2. \A s \in Sources : run'[w].served[s] = 0
        BY <1>0, <3>1, OpenedAttempt DEF Unserved
      <4>3. Lagging(w)' = run'[w].live
        BY <4>1 DEF Lagging, Round
      <4> QED
        BY <4>1, <4>2, <4>3 DEF Looping
    <3>2. CASE AllowanceExhausted(w)
      BY <1>0, <3>2, ExhaustedAttempt DEF Looping
    <3>3. ASSUME NEW s \in Sources, Request(w, s) PROVE Rotates
      <4>1. /\ pc[w] = "reserved" /\ pc'[w] = "fetched"
            /\ run'[w].live = run[w].live /\ run'[w].round = run[w].round
            /\ run'[w].served[s] = run[w].served[s] + 1
            /\ \A t \in Sources : t # s => run'[w].served[t] = run[w].served[t]
        BY <1>0, <3>3, RequestedAttempt
      <4>2. /\ Serves(w, s) /\ Round(w) \subseteq run[w].live /\ run[w].live \subseteq Sources
        BY <1>0, <3>3, <4>1 DEF Request, Round, AttemptCovered, Looping, Runs
      <4>3. Lagging(w) = Round(w) /\ Lagging(w)' = Round(w) \ {s} /\ s \in Round(w)
        <5>1. Round(w)' = Round(w)
          BY <4>1 DEF Round
        <5> QED
          BY <4>1, <4>2, <5>1, HeadOfRound DEF Lagging, Serves
      <4>4. \A t \in Sources : run[w].served[t] \in Nat
        BY <1>0 DEF Runs
      <4> QED
        BY <4>1, <4>2, <4>3, <4>4 DEF Turns, Looping
    <3>4. ASSUME NEW s \in Sources, StorePage(w, s) \/ PageError(w, s) PROVE Rotates
      <4>1. /\ pc[w] = "fetched" /\ pc'[w] = "spending" /\ Serves(w, s)
            /\ run'[w].round = Round(w) \ {s}
            /\ run'[w].live \subseteq run[w].live
            /\ run'[w].served = run[w].served
        BY <1>0, <3>4, ServedAttempt
      <4>2. Round(w) \subseteq run[w].live /\ run[w].live \subseteq Sources
        BY <1>0, <4>1 DEF Round, AttemptCovered, Looping, Runs
      <4>3. Lagging(w) = Round(w) \ {s}
        BY <4>1, <4>2, HeadOfRound DEF Lagging
      <4>4. Lagging(w)' = IF Lagging(w) = {} THEN run'[w].live ELSE Lagging(w)
        BY <4>1, <4>3 DEF Lagging, Round
      <4> QED
        BY <4>1, <4>4 DEF Turns, Looping
    <3> QED
      BY <1>4, <3>1, <3>2, <3>3, <3>4
  <2>3. Turns'
    BY <2>1, <2>2 DEF Turns
  <2>4. RoundRobin'
    BY <1>2, <2>1, <2>2, <2>3 DEF RoundRobin
  <2> QED
    BY <2>3, <2>4
<1> QED
  BY <1>1, <1>3, <1>4, StepsOfNext

\* Within an attempt no source runs ahead of another live one by more than one
\* request.
THEOREM SourcesTakeTurns == Spec => []RoundRobin
<1>1. Init => Coverage /\ Turns /\ RoundRobin
  BY InitCoverage, InitTurns
<1>2. (Coverage /\ Turns /\ RoundRobin) /\ [Next]_vars => (Coverage /\ Turns /\ RoundRobin)'
  BY StepCoverage, StepTurns
<1> QED
  BY <1>1, <1>2, PTL DEF Spec

-----------------------------------------------------------------------------
(* Owned is inductive, given Coverage *)

\* No step undoes the loss of a session.
LEMMA LossesStay == TypeOK /\ [Next]_vars /\ losses' = 0 => losses = 0
<1> SUFFICES ASSUME TypeOK, [Next]_vars, losses' = 0, losses # 0 PROVE FALSE
  OBVIOUS
<1>1. ASSUME NEW w \in Workers, LoseSession(w) PROVE FALSE
  BY <1>1 DEF LoseSession, TypeOK
<1>2. CASE UNCHANGED vars
  BY <1>2 DEF vars
<1>3. ASSUME NEW w \in Workers, Quiet(w), ~ LoseSession(w) PROVE losses' = losses
  BY <1>3 DEF Quiet, TryLock, Busy, ClaimSucceededRun, ClaimRun, ReservePage, FinishRun,
              RetryableError, FinishFailed, Release, Crash, faults
<1>4. ASSUME NEW w \in Workers,
             \/ OpenCursors(w) \/ AllowanceExhausted(w)
             \/ \E s \in Sources : Request(w, s) \/ StorePage(w, s) \/ PageError(w, s)
      PROVE  losses' = losses
  BY <1>4 DEF OpenCursors, AllowanceExhausted, Request, StorePage, PageError, faults
<1> QED
  BY <1>1, <1>2, <1>3, <1>4, StepsOfNext

\* An idle worker has nothing to keep.
LEMMA IdleAttempt == ASSUME NEW v \in Workers, pc[v] = "idle" PROVE Attempt(v)
BY DEF Attempt, OwnRow, OwnRequests, OwnCursors, OwnSources, OwnSummary, Looping

LEMMA InitOwned == Init => Owned
<1> SUFFICES ASSUME Init PROVE Owned
  OBVIOUS
<1>1. WithinBudget
  BY BudgetAssumption DEF Init, NoRun, WithinBudget
<1>2. \A w \in Workers : pc[w] = "idle" /\ Reported(w)
  BY DEF Init, Reported, NoReport
<1> QED
  BY <1>1, <1>2, IdleAttempt DEF Owned

\* What a worker's step has to establish for itself, given that it owns the slot
\* before and after.
Establishes(w) == WithinBudget' /\ Attempt(w)' /\ Reported(w)'

\* Everybody else is idle while w works, and their reports stand as long as no
\* succeeded row is touched.
LEMMA OwnerStep ==
    ASSUME TypeOK, TypeOK', Owned, losses = 0, losses' = 0, NEW w \in Workers,
           pc[w] # "idle" \/ lock = Nobody,
           pc'[w] # "idle" => lock' = w,
           \A v \in Workers \ {w} : pc'[v] = pc[v] /\ report'[v] = report[v],
           row.status = "succeeded" => UNCHANGED row,
           Establishes(w)
    PROVE  Owned'
<1>1. ASSUME NEW v \in Workers, v # w PROVE pc'[v] = "idle"
  BY <1>1, NobodyAssumption DEF Owned
<1>2. ASSUME NEW v \in Workers, v # w PROVE Attempt(v)'
  BY <1>1, <1>2 DEF Attempt, OwnRow, OwnRequests, OwnCursors, OwnSources, OwnSummary, Looping
<1>3. ASSUME NEW v \in Workers, v # w PROVE Reported(v)'
  BY <1>3 DEF Owned, Reported
<1> QED
  BY <1>1, <1>2, <1>3 DEF Owned, Establishes

\* The steps that are no part of the loop.
LEMMA QuietOwned ==
    ASSUME TypeOK, TypeOK', Coverage, Owned, losses = 0, losses' = 0,
           NEW w \in Workers, Quiet(w)
    PROVE  Owned'
<1> USE DEF Looping, Goto, Return, observed, faults
<1>0. /\ run[w] \in Runs /\ row.pages \in Nat /\ requests \in Nat /\ Budget \in Nat
      /\ run[w].consumed \in Nat /\ run[w].fetched \in Nat
      /\ \A s \in Sources : cursor[s].next \in Nat
  BY BudgetAssumption DEF TypeOK, Runs, Rows, Cursors
<1>1. WithinBudget /\ Attempt(w) /\ Reported(w) /\ (pc[w] # "idle" => lock = w)
  BY DEF Owned
<1>2. CASE TryLock(w)
  <2>1. PICK e \in EligibleSets : run' = [run EXCEPT ![w] = [NoAttempt EXCEPT !.eligible = e]]
    BY <1>2 DEF TryLock, SetRun
  <2>2. run'[w] = [NoAttempt EXCEPT !.eligible = e]
    BY <2>1 DEF TypeOK
  <2>3. run'[w].fetched = 0
    BY <2>2 DEF NoAttempt
  <2>4. pc'[w] = "locked" /\ report'[w] = NoReport /\ UNCHANGED <<row, requests>>
    BY <1>2 DEF TryLock, TypeOK
  <2>5. Establishes(w)
    BY <1>0, <1>1, <2>3, <2>4
       DEF Establishes, WithinBudget, Attempt, OwnRow, OwnRequests, OwnCursors, OwnSources,
           OwnSummary, Reported, NoReport
  <2> QED
    BY <1>2, <2>5, OwnerStep DEF TryLock, LockIsFree, TypeOK
<1>3. CASE Busy(w)
  <2>1. /\ UNCHANGED <<lock, row, cursor, pc, run, losses, requests>>
        /\ pc[w] = "idle" /\ report'[w].kind = "busy"
        /\ \A v \in Workers \ {w} : report'[v] = report[v]
    BY <1>3 DEF Busy, TypeOK
  <2>2. ASSUME NEW v \in Workers PROVE Attempt(v)' /\ Reported(v)'
    BY <2>1, <2>2 DEF Owned, Attempt, OwnRow, OwnRequests, OwnCursors, OwnSources, OwnSummary,
                      Reported
  <2> QED
    BY <2>1, <2>2 DEF Owned, WithinBudget
<1>4. CASE ClaimSucceededRun(w)
  <2>1. /\ pc[w] = "locked" /\ pc'[w] = "releasing" /\ row.status = "succeeded"
        /\ report'[w] = [kind |-> "replayed", failed |-> row.failed]
        /\ UNCHANGED <<lock, row, cursor, run, requests>>
    BY <1>4 DEF ClaimSucceededRun, AlreadySucceeded, TypeOK
  <2>2. Establishes(w)
    BY <1>1, <2>1
       DEF Establishes, WithinBudget, Attempt, OwnRow, OwnRequests, OwnCursors, OwnSources,
           OwnSummary, Reported
  <2> QED
    BY <1>1, <1>4, <2>1, <2>2, OwnerStep DEF ClaimSucceededRun, TypeOK
<1>5. CASE ClaimRun(w)
  <2>1. /\ pc[w] = "locked" /\ row.status # "succeeded" /\ row' = ClaimedRow(row)
        /\ UNCHANGED <<lock, cursor, requests>>
    BY <1>5 DEF ClaimRun, AlreadySucceeded
  <2>2. row'.status = "running" /\ row'.pages = row.pages
    BY <2>1 DEF ClaimedRow, TypeOK, Rows
  <2>3. \/ /\ pc'[w] = "claimed" /\ report' = report
           /\ run' = [run EXCEPT ![w] = [run[w] EXCEPT !.attempts = row'.attempts,
                                                     !.consumed = row.pages]]
        \/ pc'[w] = "releasing" /\ report'[w] = [kind |-> "raised", failed |-> {}] /\ run' = run
    BY <1>5 DEF ClaimRun, SetRun, TypeOK
  <2>4. /\ run'[w].fetched = run[w].fetched
        /\ pc'[w] = "claimed" => run'[w].consumed = row.pages
    <3>1. CASE run' = run /\ pc'[w] # "claimed"
      BY <3>1
    <3>2. CASE run' = [run EXCEPT ![w] = [run[w] EXCEPT !.attempts = row'.attempts,
                                                        !.consumed = row.pages]]
      <4>1. run'[w] = [run[w] EXCEPT !.attempts = row'.attempts, !.consumed = row.pages]
        BY <3>2 DEF TypeOK
      <4> QED
        BY <1>0, <4>1 DEF Runs
    <3> QED
      BY <2>3, <3>1, <3>2
  <2>5. report'[w].kind # "summary" /\ report'[w].kind # "replayed"
    BY <1>1, <2>1, <2>3 DEF Reported
  <2>6. Establishes(w)
    BY <1>0, <1>1, <2>1, <2>2, <2>3, <2>4, <2>5
       DEF Establishes, WithinBudget, Attempt, OwnRow, OwnRequests, OwnCursors, OwnSources,
           OwnSummary, Reported
  <2> QED
    BY <1>1, <1>5, <2>1, <2>6, OwnerStep DEF ClaimRun, TypeOK
<1>6. CASE ReservePage(w)
  <2>1. /\ pc[w] = "spending" /\ row.status = "running" /\ row.pages < Budget
        /\ row' = ReservedRow(row) /\ UNCHANGED <<lock, cursor, report, requests>>
    BY <1>6 DEF ReservePage, CanReservePage
  <2>2. row'.status = "running" /\ row'.pages = row.pages + 1
    BY <2>1 DEF ReservedRow, TypeOK, Rows
  <2>3. /\ \A v \in Workers \ {w} : pc'[v] = pc[v]
        /\ \/ /\ pc'[w] = "reserved"
              /\ run' = [run EXCEPT ![w] = [run[w] EXCEPT !.consumed = row'.pages]]
           \/ pc'[w] = "failing" /\ run' = run
    BY <1>6 DEF ReservePage, SetRun, TypeOK
  <2>4. CASE pc'[w] = "failing" /\ run' = run
    <3>1. Establishes(w)
      BY <1>0, <1>1, <2>1, <2>2, <2>4
         DEF Establishes, WithinBudget, Attempt, OwnRow, OwnRequests, OwnCursors, OwnSources,
             OwnSummary, Reported
    <3> QED
      BY <1>1, <2>1, <2>3, <3>1, OwnerStep DEF TypeOK
  <2>5. CASE /\ pc'[w] = "reserved"
             /\ run' = [run EXCEPT ![w] = [run[w] EXCEPT !.consumed = row'.pages]]
    <3>1. run'[w] = [run[w] EXCEPT !.consumed = row'.pages]
      BY <2>5 DEF TypeOK
    <3>2. /\ run'[w].consumed = row'.pages /\ run'[w].fetched = run[w].fetched
          /\ run'[w].live = run[w].live /\ run'[w].page = run[w].page
          /\ run'[w].eligible = run[w].eligible /\ run'[w].failed = run[w].failed
      BY <1>0, <3>1 DEF Runs
    <3>3. WithinBudget' /\ OwnRow(w)' /\ OwnRequests(w)'
      BY <1>0, <1>1, <2>1, <2>2, <2>5, <3>2
         DEF WithinBudget, Attempt, OwnRow, OwnRequests
    <3>4. OwnCursors(w)' /\ OwnSources(w)' /\ OwnSummary(w)' /\ Reported(w)'
      BY <1>0, <1>1, <2>1, <2>2, <2>5, <3>2
         DEF Attempt, OwnCursors, OwnSources, OwnSummary, Reported
    <3> QED
      BY <1>1, <2>1, <2>3, <3>3, <3>4, OwnerStep DEF Establishes, Attempt, TypeOK
  <2> QED
    BY <2>3, <2>4, <2>5
<1>7. CASE FinishRun(w)
  <2>1. /\ pc[w] = "spending" /\ pc'[w] = "releasing" /\ LoopDone(w)
        /\ row' = FinishedRow("succeeded", run[w].attempts, run[w].consumed, run[w].failed)
        /\ UNCHANGED <<lock, cursor, run, requests>>
        /\ \/ report'[w] = [kind |-> "summary", failed |-> run[w].failed]
           \/ report'[w] = [kind |-> "raised", failed |-> {}]
    BY <1>7 DEF FinishRun, TypeOK
  <2>2. row'.status = "succeeded" /\ row'.pages = row.pages /\ row'.failed = run[w].failed
    BY <1>1, <2>1 DEF FinishedRow, Attempt, OwnRow
  <2>3. \/ row.pages = Budget
        \/ \A s \in run[w].eligible : cursor[s].complete \/ s \in run[w].failed
    BY <1>0, <1>1, <2>1 DEF LoopDone, Attempt, OwnSources, OwnRequests, WithinBudget
  <2>4. Establishes(w)
    BY <1>0, <1>1, <2>1, <2>2, <2>3
       DEF Establishes, WithinBudget, Attempt, OwnRow, OwnRequests, OwnCursors, OwnSources,
           OwnSummary, Reported
  <2>5. row.status # "succeeded"
    BY <1>1, <2>1 DEF Attempt, OwnRow
  <2> QED
    BY <1>1, <1>7, <2>1, <2>4, <2>5, OwnerStep DEF FinishRun, TypeOK
<1>8. CASE RetryableError(w)
  <2>1. /\ pc[w] # "idle" /\ UNCHANGED <<lock, row, cursor, run, requests>>
        /\ \A v \in Workers \ {w} : pc'[v] = pc[v] /\ report'[v] = report[v]
        /\ \/ pc'[w] = "failing" /\ pc[w] \in {"claimed", "spending"} /\ report' = report
           \/ pc'[w] = "releasing" /\ report'[w] = [kind |-> "raised", failed |-> {}]
    BY <1>8 DEF RetryableError, TypeOK
  <2>2. Establishes(w)
    BY <1>0, <1>1, <2>1
       DEF Establishes, WithinBudget, Attempt, OwnRow, OwnRequests, OwnCursors, OwnSources,
           OwnSummary, Reported
  <2> QED
    BY <1>1, <2>1, <2>2, OwnerStep
<1>9. CASE FinishFailed(w)
  <2>1. /\ pc[w] = "failing" /\ pc'[w] = "releasing"
        /\ report'[w] = [kind |-> "raised", failed |-> {}]
        /\ UNCHANGED <<lock, cursor, run, requests>>
        /\ \/ row' = FinishedRow("failed", run[w].attempts, run[w].consumed, {})
           \/ row' = row
    BY <1>9 DEF FinishFailed, TypeOK
  <2>2. requests <= row'.pages /\ row'.pages <= Budget
    BY <1>0, <1>1, <2>1 DEF FinishedRow, Attempt, OwnRow, OwnRequests, WithinBudget
  <2>3. Establishes(w)
    BY <1>0, <1>1, <2>1, <2>2
       DEF Establishes, WithinBudget, Attempt, OwnRow, OwnRequests, OwnCursors, OwnSources,
           OwnSummary, Reported
  <2>4. row.status # "succeeded"
    BY <1>1, <2>1 DEF Attempt, OwnRow
  <2> QED
    BY <1>1, <1>9, <2>1, <2>3, <2>4, OwnerStep DEF FinishFailed, TypeOK
<1>10. CASE Release(w) \/ Crash(w)
  <2>1. /\ pc[w] # "idle" /\ pc'[w] = "idle" /\ UNCHANGED <<row, requests>>
        /\ \A v \in Workers \ {w} : pc'[v] = pc[v] /\ report'[v] = report[v]
        /\ report'[w] = report[w] \/ report'[w] = NoReport
    BY <1>10 DEF Release, Crash, TypeOK
  <2>2. Establishes(w)
    BY <1>0, <1>1, <2>1
       DEF Establishes, WithinBudget, Attempt, OwnRow, OwnRequests, OwnCursors, OwnSources,
           OwnSummary, Reported, NoReport
  <2> QED
    BY <1>1, <2>1, <2>2, OwnerStep
<1>11. CASE LoseSession(w)
  BY <1>11 DEF LoseSession, TypeOK
<1> QED
  BY <1>2, <1>3, <1>4, <1>5, <1>6, <1>7, <1>8, <1>9, <1>10, <1>11 DEF Quiet

\* The steps of the loop.
LEMMA LoopOwned ==
    ASSUME TypeOK, TypeOK', Coverage, Owned, losses = 0, losses' = 0, NEW w \in Workers,
           \/ OpenCursors(w) \/ AllowanceExhausted(w)
           \/ \E s \in Sources : Request(w, s) \/ StorePage(w, s) \/ PageError(w, s)
    PROVE  Owned'
<1>0. /\ run[w] \in Runs /\ row.pages \in Nat /\ requests \in Nat /\ Budget \in Nat
      /\ run[w].consumed \in Nat /\ run[w].fetched \in Nat /\ run[w].live \subseteq Sources
      /\ \A s \in Sources : cursor[s].next \in Nat /\ run[w].page[s] \in Nat
  BY BudgetAssumption DEF TypeOK, Runs, Rows, Cursors
<1>1. WithinBudget /\ Attempt(w) /\ Reported(w) /\ (pc[w] # "idle" => lock = w)
  BY DEF Owned
<1>2. /\ UNCHANGED <<lock, report, row>> /\ pc[w] # "idle"
      /\ \A v \in Workers \ {w} : pc'[v] = pc[v]
  BY DEF OpenCursors, AllowanceExhausted, Request, StorePage, PageError, Goto, TypeOK
<1>3. SUFFICES Establishes(w)
  BY <1>1, <1>2, OwnerStep
<1>4. Reported(w)'
  BY <1>1, <1>2 DEF Reported
<1>5. CASE OpenCursors(w)
  <2>1. /\ pc[w] = "claimed" /\ pc'[w] = "spending" /\ UNCHANGED <<cursor, requests>>
        /\ run'[w].live = {s \in run[w].eligible : ~ cursor[s].complete}
        /\ \A s \in Sources : run'[w].page[s] = ResumePage(s)
        /\ run'[w].eligible = run[w].eligible
        /\ run'[w].consumed = run[w].consumed
        /\ run'[w].fetched = run[w].fetched
    BY <1>5, OpenedAttempt DEF OpenCursors, observed
  <2>2. WithinBudget' /\ OwnRow(w)' /\ OwnRequests(w)'
    BY <1>1, <1>2, <2>1 DEF WithinBudget, Attempt, OwnRow, OwnRequests, Looping
  <2>3. \A s \in run'[w].live : s \in Sources /\ ~ cursor[s].complete
    BY <1>0, <2>1 DEF Runs
  <2>4. \A s \in Sources : cursor[s].next <= ResumePage(s) + 1
    BY <1>0 DEF ResumePage
  <2>5. OwnCursors(w)' /\ OwnSources(w)' /\ OwnSummary(w)'
    BY <2>1, <2>3, <2>4 DEF OwnCursors, OwnSources, OwnSummary
  <2> QED
    BY <1>4, <2>2, <2>5 DEF Establishes, Attempt
<1>6. CASE AllowanceExhausted(w)
  <2>1. /\ pc[w] = "spending" /\ pc'[w] = "spending" /\ UNCHANGED <<cursor, requests>>
        /\ ~ CanReservePage(row, Budget)
        /\ run'[w].live = {}
        /\ run'[w].consumed = run[w].consumed
        /\ run'[w].fetched = run[w].fetched
    BY <1>6, ExhaustedAttempt DEF AllowanceExhausted, observed
  <2>2. WithinBudget' /\ OwnRow(w)' /\ OwnRequests(w)'
    BY <1>1, <1>2, <2>1 DEF WithinBudget, Attempt, OwnRow, OwnRequests, Looping
  <2>3. row'.pages = Budget
    BY <1>0, <1>1, <1>2, <2>1 DEF CanReservePage, WithinBudget, Attempt, OwnRow, Looping
  <2>4. OwnCursors(w)' /\ OwnSources(w)' /\ OwnSummary(w)'
    BY <2>1, <2>3 DEF OwnCursors, OwnSources, OwnSummary
  <2> QED
    BY <1>4, <2>2, <2>4 DEF Establishes, Attempt
<1>7. ASSUME NEW s \in Sources, Request(w, s) PROVE Establishes(w)
  <2>1. /\ pc[w] = "reserved" /\ pc'[w] = "fetched" /\ UNCHANGED cursor
        /\ requests' = requests + 1
        /\ run'[w].live = run[w].live /\ run'[w].page = run[w].page
        /\ run'[w].eligible = run[w].eligible /\ run'[w].failed = run[w].failed
        /\ run'[w].consumed = run[w].consumed
        /\ run'[w].fetched = run[w].fetched + 1
    BY <1>7, RequestedAttempt DEF Request
  <2>2. WithinBudget' /\ OwnRow(w)' /\ OwnRequests(w)'
    BY <1>0, <1>1, <1>2, <2>1 DEF WithinBudget, Attempt, OwnRow, OwnRequests, Looping
  <2>3. OwnCursors(w)' /\ OwnSources(w)' /\ OwnSummary(w)'
    BY <1>1, <1>2, <2>1 DEF Attempt, OwnCursors, OwnSources, OwnSummary, Looping
  <2> QED
    BY <1>4, <2>2, <2>3 DEF Establishes, Attempt
<1>8. ASSUME NEW s \in Sources, StorePage(w, s) \/ PageError(w, s) PROVE Establishes(w)
  <2>1. /\ pc[w] = "fetched" /\ pc'[w] = "spending" /\ Serves(w, s) /\ UNCHANGED requests
        /\ run'[w].live \in {run[w].live, run[w].live \ {s}}
        /\ \A t \in Sources : t # s => run'[w].page[t] = run[w].page[t]
        /\ run'[w].live = run[w].live =>
              \/ s \notin run[w].live
              \/ /\ StorePage(w, s) /\ run[w].page[s] < WindowEnd[s]
                 /\ run'[w].page[s] = run[w].page[s] + 1
        /\ run'[w].eligible = run[w].eligible
        /\ run'[w].consumed = run[w].consumed
        /\ run'[w].fetched = run[w].fetched
        /\ run[w].failed \subseteq run'[w].failed
        /\ s \notin run'[w].live =>
              s \in run'[w].failed \/ (StorePage(w, s) /\ run[w].page[s] >= WindowEnd[s])
              \/ s \notin run[w].live
    BY <1>8, ServedAttempt DEF StorePage, PageError
  <2>2. s \in run[w].live
    BY <2>1 DEF Coverage, AttemptCovered, Looping, Serves, Round
  <2>3. WithinBudget' /\ OwnRow(w)' /\ OwnRequests(w)'
    BY <1>1, <1>2, <2>1 DEF WithinBudget, Attempt, OwnRow, OwnRequests, Looping
  <2>4. \A t \in Sources : t # s => cursor'[t] = cursor[t]
    BY <1>8 DEF StorePage, PageError, TypeOK
  <2>5. ASSUME StorePage(w, s)
        PROVE  /\ cursor'[s].next = run[w].page[s] + 1
               /\ cursor'[s].complete <=> run[w].page[s] >= WindowEnd[s]
    BY <2>5 DEF StorePage, TypeOK
  <2>6. /\ run[w].page[s] \in Nat /\ WindowEnd[s] \in Nat
        /\ run[w].page[s] < WindowEnd[s] <=> ~ (run[w].page[s] >= WindowEnd[s])
    BY <1>0, WindowAssumption
  <2>7. ASSUME NEW t \in run'[w].live
        PROVE  ~ cursor'[t].complete /\ cursor'[t].next <= run'[w].page[t] + 1
    <3>1. CASE t = s
      <4>1. StorePage(w, s) /\ run[w].page[s] < WindowEnd[s]
            /\ run'[w].page[s] = run[w].page[s] + 1
        BY <2>1, <2>2, <2>7, <3>1
      <4>2. run'[w].page[s] \in Nat /\ cursor'[s].next = run'[w].page[s]
        BY <2>5, <2>6, <4>1
      <4>3. ~ cursor'[s].complete
        BY <2>5, <2>6, <4>1
      <4> QED
        BY <3>1, <4>2, <4>3
    <3>2. CASE t # s
      BY <1>0, <1>1, <2>1, <2>4, <2>7, <3>2 DEF Attempt, OwnCursors, Looping
    <3> QED
      BY <3>1, <3>2
  <2>8. ASSUME row.pages # Budget, NEW t \in run[w].eligible
        PROVE  t \in run'[w].live \/ cursor'[t].complete \/ t \in run'[w].failed
    <3>1. t \in Sources
      BY <1>0 DEF Runs
    <3>2. CASE t = s
      BY <2>1, <2>2, <2>5, <3>2
    <3>3. CASE t # s
      BY <1>1, <2>1, <2>4, <2>8, <3>1, <3>3 DEF Attempt, OwnSources, Looping
    <3> QED
      BY <3>2, <3>3
  <2>9. OwnCursors(w)' /\ OwnSources(w)' /\ OwnSummary(w)'
    BY <1>2, <2>1, <2>7, <2>8 DEF OwnCursors, OwnSources, OwnSummary
  <2> QED
    BY <1>4, <2>3, <2>9 DEF Establishes, Attempt
<1> QED
  BY <1>5, <1>6, <1>7, <1>8

LEMMA StepOwned == Coverage /\ Owned /\ [Next]_vars => Owned'
<1> SUFFICES ASSUME Coverage, Owned, [Next]_vars, losses' = 0 PROVE Owned'
  BY DEF Owned
<1>1. TypeOK /\ TypeOK' /\ losses = 0
  BY StepTypeOK, LossesStay DEF Coverage
<1>2. CASE UNCHANGED vars
  BY <1>2 DEF vars, Owned, WithinBudget, Attempt, OwnRow, OwnRequests, OwnCursors, OwnSources,
              OwnSummary, Reported
<1>3. ASSUME NEW w \in Workers, Quiet(w) PROVE Owned'
  BY <1>1, <1>3, QuietOwned
<1>4. ASSUME NEW w \in Workers,
             \/ OpenCursors(w) \/ AllowanceExhausted(w)
             \/ \E s \in Sources : Request(w, s) \/ StorePage(w, s) \/ PageError(w, s)
      PROVE  Owned'
  BY <1>1, <1>4, LoopOwned
<1> QED
  BY <1>2, <1>3, <1>4, StepsOfNext

LEMMA OwnedInvariant == Spec => [](Coverage /\ Owned)
<1>1. Init => Coverage /\ Owned
  BY InitCoverage, InitOwned
<1>2. (Coverage /\ Owned) /\ [Next]_vars => (Coverage /\ Owned)'
  BY StepCoverage, StepOwned
<1> QED
  BY <1>1, <1>2, PTL DEF Spec

\* Until a lock session is lost, all attempts of a slot together send no more
\* requests than were reserved, and reserve no more than the budget.
THEOREM BudgetIsRespected == Spec => []BudgetRespected
<1>1. Coverage /\ Owned => BudgetRespected
  BY DEF Owned, WithinBudget, BudgetRespected
<1> QED
  BY <1>1, OwnedInvariant, PTL

\* Until a lock session is lost, an attempt that returns a summary has spent the
\* allowance or left every eligible source complete or failed.
THEOREM AllowanceIsSpent == Spec => []AllowanceSpent
<1>1. Coverage /\ Owned => AllowanceSpent
  BY DEF Owned, Attempt, OwnSummary, AllowanceSpent
<1> QED
  BY <1>1, OwnedInvariant, PTL

\* Until a lock session is lost, whoever reports on the finished slot, also by
\* replaying its summary, reports the failed sources of its row.
THEOREM ReplaysAgree == Spec => []ReplayAgrees
<1>1. Coverage /\ Owned => ReplayAgrees
  BY DEF Owned, Reported, ReplayAgrees
<1> QED
  BY <1>1, OwnedInvariant, PTL

-----------------------------------------------------------------------------
(* Action properties and refinement *)

\* Until a lock session is lost a cursor never goes back and a complete source
\* stays complete: only the slot's owner writes a cursor, and the page it stores
\* is at most one behind it.
THEOREM CursorsAdvance == Spec => CursorNeverGoesBack
<1> DEFINE Advance == losses' = 0 => \A s \in Sources :
                          /\ cursor'[s].next >= cursor[s].next
                          /\ cursor[s].complete => cursor'[s].complete
<1>1. ASSUME Coverage, Owned, [Next]_vars, losses' = 0, NEW s \in Sources
      PROVE  cursor'[s].next >= cursor[s].next /\ (cursor[s].complete => cursor'[s].complete)
  <2>0. TypeOK /\ losses = 0 /\ cursor[s].next \in Nat
    BY <1>1, LossesStay DEF Coverage, TypeOK, Cursors
  <2>1. CASE cursor' = cursor
    BY <2>0, <2>1
  <2>2. ASSUME NEW w \in Workers, NEW t \in Sources, StorePage(w, t)
        PROVE  cursor'[s].next >= cursor[s].next /\ (cursor[s].complete => cursor'[s].complete)
    <3>1. CASE s # t
      BY <2>0, <2>2, <3>1 DEF StorePage, TypeOK
    <3>2. CASE s = t
      <4>1. pc[w] = "fetched" /\ s \in Round(w) /\ cursor'[s].next = run[w].page[s] + 1
        BY <2>0, <2>2, <3>2 DEF StorePage, Serves, TypeOK
      <4>2. s \in run[w].live
        BY <1>1, <4>1 DEF Coverage, AttemptCovered, Looping, Round
      <4>3. ~ cursor[s].complete /\ cursor[s].next <= run[w].page[s] + 1
        BY <1>1, <2>0, <4>1, <4>2 DEF Owned, Attempt, OwnCursors, Looping
      <4>4. run[w].page[s] \in Nat
        BY <2>0 DEF TypeOK, Runs
      <4> QED
        BY <2>0, <4>1, <4>3, <4>4
    <3> QED
      BY <3>1, <3>2
  <2>3. ASSUME NEW w \in Workers, Quiet(w) PROVE cursor' = cursor
    BY <2>0, <2>3, QuietSteps
  <2>4. ASSUME NEW w \in Workers, NEW t \in Sources, ~ StorePage(w, t),
               OpenCursors(w) \/ AllowanceExhausted(w) \/ Request(w, t) \/ PageError(w, t)
        PROVE  cursor' = cursor
    BY <2>4 DEF OpenCursors, AllowanceExhausted, Request, PageError
  <2>5. CASE UNCHANGED vars
    BY <2>1, <2>5 DEF vars
  <2> QED
    BY <1>1, <2>1, <2>2, <2>3, <2>4, <2>5, StepsOfNext
<1>2. (Coverage /\ Owned) /\ [Next]_vars => [Advance]_vars
  BY <1>1
<1>3. CursorNeverGoesBack <=> [][Advance]_vars
  BY DEF CursorNeverGoesBack
<1> HIDE DEF Advance
<1> QED
  BY <1>2, <1>3, OwnedInvariant, PTL DEF Spec

\* A step of a slot's backfill is a step of its JobSlot, as long as no session
\* was lost.
LEMMA StepRefines ==
    Coverage /\ Owned /\ [Next]_vars /\ losses' = 0 => [Slot!SlotNext]_(Slot!slotVars)
<1> SUFFICES ASSUME Coverage, Owned, [Next]_vars, losses' = 0
             PROVE  [Slot!SlotNext]_(Slot!slotVars)
  OBVIOUS
<1> USE DEF Slot!SlotNext, Slot!slotVars, faults, observed
<1>0. TypeOK /\ losses = 0
  BY LossesStay DEF Coverage
<1>1. \A w \in Workers : OwnRow(w) /\ (pc[w] # "idle" => lock = w)
  BY <1>0 DEF Owned, Attempt
<1>2. ASSUME NEW w \in Workers, Quiet(w) PROVE [Slot!SlotNext]_(Slot!slotVars)
  <2>1. CASE TryLock(w)
    BY <1>0, <2>1 DEF TryLock, LockIsFree, Slot!Acquire, TypeOK
  <2>2. CASE ClaimRun(w)
    <3>1. lock # Nobody /\ row.status # "succeeded" /\ row' = ClaimedRow(row) /\ UNCHANGED lock
      BY <1>1, <2>2, NobodyAssumption DEF ClaimRun, AlreadySucceeded
    <3>2. row'.status = "running"
      BY <1>0, <3>1 DEF ClaimedRow, TypeOK, Rows
    <3> QED
      BY <3>1, <3>2 DEF Slot!Begin
  <2>3. CASE ReservePage(w)
    <3>1. row'.status = row.status
      BY <1>0, <2>3 DEF ReservePage, ReservedRow, TypeOK, Rows
    <3> QED
      BY <2>3, <3>1 DEF ReservePage
  <2>4. CASE FinishRun(w)
    <3>1. lock # Nobody /\ row.status = "running" /\ UNCHANGED lock
      BY <1>1, <2>4, NobodyAssumption DEF FinishRun, OwnRow, Looping
    <3>2. row'.status = "succeeded"
      BY <2>4 DEF FinishRun, FinishedRow
    <3> QED
      BY <3>1, <3>2 DEF Slot!Complete
  <2>5. CASE FinishFailed(w)
    <3>1. lock # Nobody /\ row.status = "running" /\ UNCHANGED lock
      BY <1>1, <2>5, NobodyAssumption DEF FinishFailed, OwnRow
    <3>2. row'.status = "failed" \/ row' = row
      BY <2>5 DEF FinishFailed, FinishedRow
    <3> QED
      BY <3>1, <3>2 DEF Slot!Complete
  <2>6. CASE Release(w) \/ Crash(w)
    <3>1. lock = w /\ lock # Nobody /\ lock' = Nobody /\ row' = row
      BY <1>1, <2>6, NobodyAssumption DEF Release, Crash
    <3> QED
      BY <3>1 DEF Slot!Leave
  <2>7. CASE LoseSession(w)
    BY <1>0, <2>7 DEF LoseSession, TypeOK
  <2>8. CASE Busy(w) \/ ClaimSucceededRun(w) \/ RetryableError(w)
    BY <2>8 DEF Busy, ClaimSucceededRun, RetryableError
  <2> QED
    BY <1>2, <2>1, <2>2, <2>3, <2>4, <2>5, <2>6, <2>7, <2>8 DEF Quiet
<1>3. ASSUME NEW w \in Workers,
             \/ OpenCursors(w) \/ AllowanceExhausted(w)
             \/ \E s \in Sources : Request(w, s) \/ StorePage(w, s) \/ PageError(w, s)
      PROVE  UNCHANGED <<lock, row>>
  BY <1>3 DEF OpenCursors, AllowanceExhausted, Request, StorePage, PageError
<1>4. CASE UNCHANGED vars
  BY <1>4 DEF vars
<1> QED
  BY <1>2, <1>3, <1>4, StepsOfNext

\* As long as no session was lost a slot's backfill implements JobSlot.
THEOREM RefinesJobSlot == Spec => ImplementsJobSlot
<1> DEFINE SlotStep == losses' = 0 => Slot!SlotNext
<1>1. Init => Slot!SlotInit
  BY DEF Init, NoRun, Slot!SlotInit
<1>2. (Coverage /\ Owned) /\ [Next]_vars => [SlotStep]_(Slot!slotVars)
  BY StepRefines
<1>3. ImplementsJobSlot <=> Slot!SlotInit /\ [][SlotStep]_(Slot!slotVars)
  BY DEF ImplementsJobSlot
<1> HIDE DEF SlotStep
<1> QED
  BY <1>1, <1>2, <1>3, OwnedInvariant, PTL DEF Spec

\* The step of a JobSlot, as a collection cycle sees it.
LEMMA OutcomeOfSlot ==
    ASSUME lock \in Workers \cup {Nobody}, [Slot!SlotNext]_(Slot!slotVars)
    PROVE  [Outcome!OutcomeNext]_(Outcome!outcomeVars)
<1> USE DEF Outcome!OutcomeNext, Outcome!outcomeVars, Outcome!Execute, Outcome!Conclude
<1>1. ASSUME NEW w \in Workers, Slot!Acquire(w) PROVE [Outcome!OutcomeNext]_(Outcome!outcomeVars)
  BY <1>1 DEF Slot!Acquire
<1>2. CASE Slot!Begin
  BY <1>2 DEF Slot!Begin
<1>3. CASE Slot!Complete
  BY <1>3 DEF Slot!Complete
<1>4. CASE Slot!Leave
  BY <1>4 DEF Slot!Leave
<1>5. CASE UNCHANGED Slot!slotVars
  BY <1>5 DEF Slot!slotVars
<1> QED
  BY <1>1, <1>2, <1>3, <1>4, <1>5 DEF Slot!SlotNext

\* To a cycle, a slot's backfill is a job that one worker executes at a time and
\* nobody once it has succeeded, as long as no session was lost.
THEOREM RefinesJobOutcome == Spec => ImplementsJobOutcome
<1> DEFINE SlotStep == losses' = 0 => Slot!SlotNext
           OutcomeStep == losses' = 0 => Outcome!OutcomeNext
<1>1. Init => Outcome!OutcomeInit
  BY DEF Init, Outcome!OutcomeInit, NoRun
<1>2. (Coverage /\ Owned) /\ [SlotStep]_(Slot!slotVars) => [OutcomeStep]_(Outcome!outcomeVars)
  BY OutcomeOfSlot DEF Coverage, TypeOK, Slot!slotVars
<1>3. ImplementsJobSlot => [][SlotStep]_(Slot!slotVars)
  BY DEF ImplementsJobSlot
<1>4. ImplementsJobOutcome <=> Outcome!OutcomeInit /\ [][OutcomeStep]_(Outcome!outcomeVars)
  BY DEF ImplementsJobOutcome
<1> HIDE DEF SlotStep, OutcomeStep
<1> QED
  BY <1>1, <1>2, <1>3, <1>4, RefinesJobSlot, OwnedInvariant, PTL DEF Spec
=============================================================================
