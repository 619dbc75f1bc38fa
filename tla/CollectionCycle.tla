--------------------------- MODULE CollectionCycle ---------------------------
(***************************************************************************)
(* A collection cycle: collect_and_rank_once of ops/scheduler.py, inside   *)
(* the retry loop of collect_and_rank_with_retries.  It collects the       *)
(* sources one after another, spends the slot's backfill allowance on      *)
(* those that succeeded, and replaces the slot's cumulative ranking.       *)
(*                                                                         *)
(* Several workers run cycles at the same time: the scheduler's, that of a *)
(* restarted container, a manual collect-and-rank.  Time moves from slot   *)
(* to slot under them.  What one source or one backfill does inside its    *)
(* advisory lock is the subject of SourceRun and BackfillRun; here it is   *)
(* two steps, taking the job and ending it, with the lock held between.    *)
(***************************************************************************)
EXTENDS Naturals

CONSTANTS
    Workers,
    Nobody,         \* a lock is free
    Sources,        \* the sources, numbered in the order of SOURCES, from 1
    LastSlot,       \* bound: the slots are 1..LastSlot
    MaxRetries,     \* collection.max_retries
    MaxFaults       \* bound: raised errors and crashes together

ASSUME NobodyAssumption == Nobody \notin Workers
ASSUME SourcesAssumption == Sources \subseteq Nat \ {0}
ASSUME BoundsAssumption == LastSlot \in Nat \ {0} /\ MaxRetries \in Nat /\ MaxFaults \in Nat

VARIABLES
    now,        \* the slot that align_kst_slot gives for the current time
    ledger,     \* per slot, the jobs whose run has succeeded
    recorded,   \* per slot, whether the backfill's ledger row names failed_sources
    holder,     \* per slot and job, the holder of its advisory lock
    ranking,    \* per slot, the source slots that the published ranking covers
    rankLock,   \* the transaction lock of refresh_cumulative
    pc,         \* where each worker is
    cycle,      \* the local variables of each worker's attempt
    report,     \* what each worker's last cycle ended with
    faults      \* raised errors and crashes so far

vars == <<now, ledger, recorded, holder, ranking, rankLock, pc, cycle, report, faults>>
locks == <<holder, rankLock>>
durable == <<ledger, recorded, ranking>>

Slots == 1..LastSlot
BackfillJob == 0
Jobs == Sources \cup {BackfillJob}

Locations == {"idle", "collecting", "fetching", "backfilling", "ranking", "replacing",
              "committing", "waiting"}
CycleStatuses == {"none", "succeeded", "partial", "failed", "raised"}

\* todo holds the sources not visited yet, ok those of the visited ones whose
\* result is succeeded or already_succeeded (partial, failed and busy make no
\* difference to the cycle), covered the rows the ranking's INSERT has read.
Cycles == [slot : Slots, attempt : 1..(MaxRetries + 1), todo : SUBSET Sources,
           ok : SUBSET Sources, eligible : SUBSET Sources, failed : BOOLEAN,
           covered : SUBSET (Slots \X Sources)]

Fresh(slot, attempt) ==
    [slot |-> slot, attempt |-> attempt, todo |-> Sources, ok |-> {}, eligible |-> {},
     failed |-> FALSE, covered |-> {}]
NoCycle == Fresh(1, 1)

Reports == [slot : Slots, status : CycleStatuses, unvisited : SUBSET Sources]
NoReport == [slot |-> 1, status |-> "none", unvisited |-> {}]

Init ==
    /\ now = 1
    /\ ledger = [t \in Slots |-> {}]
    /\ recorded = [t \in Slots |-> FALSE]
    /\ holder = [t \in Slots |-> [j \in Jobs |-> Nobody]]
    /\ ranking = [t \in Slots |-> {}]
    /\ rankLock = Nobody
    /\ pc = [w \in Workers |-> "idle"]
    /\ cycle = [w \in Workers |-> NoCycle]
    /\ report = [w \in Workers |-> NoReport]
    /\ faults = 0

-----------------------------------------------------------------------------
(* Helpers *)

Goto(w, location) == pc' = [pc EXCEPT ![w] = location]
Set(w, attempt) == cycle' = [cycle EXCEPT ![w] = attempt]

Free(w, job) == holder[cycle[w].slot][job] = Nobody
Succeeded(w, job) == job \in ledger[cycle[w].slot]
Take(w, job) == holder' = [holder EXCEPT ![cycle[w].slot][job] = w]
GiveUp(w, job) == holder' = [holder EXCEPT ![cycle[w].slot][job] = Nobody]

\* Source s is the one whose turn it is.
Visits(w, s) == s \in cycle[w].todo /\ \A t \in cycle[w].todo : s <= t

\* The SourceCycleResult of s is appended to the results.
Visited(w, s) == Set(w, [cycle[w] EXCEPT !.todo = @ \ {s}])
VisitedOk(w, s) == Set(w, [cycle[w] EXCEPT !.todo = @ \ {s}, !.ok = @ \cup {s}])

\* Mutant: no source qualifies, so every one does.
EligibleOrAll(w) == IF cycle[w].ok = {} THEN Sources ELSE cycle[w].ok

\* eligible_backfill_sources.
Eligible(w) == cycle[w].ok

\* Mutant: the backfill does not count.
StatusOfSources(w) ==
    IF cycle[w].ok = Sources THEN "succeeded" ELSE IF cycle[w].ok # {} THEN "partial" ELSE "failed"

\* _cycle_status.
CycleStatus(w) ==
    IF cycle[w].ok = Sources /\ ~ cycle[w].failed THEN "succeeded"
    ELSE IF cycle[w].ok # {} THEN "partial" ELSE "failed"

\* Mutant: only the slot's own observations are ranked.
CoveredAlone(t) == {p \in Slots \X Sources : p[1] = t /\ p[2] \in ledger[p[1]]}

\* What the ranking's SELECT sees: the committed observations of every slot up
\* to the ranking's own.
Covered(t) == {p \in Slots \X Sources : p[1] <= t /\ p[2] \in ledger[p[1]]}

Fault == faults < MaxFaults /\ faults' = faults + 1

\* The cycle ends and returns or raises.
End(w, status, unvisited) ==
    /\ Goto(w, "idle")
    /\ Set(w, NoCycle)
    /\ report' = [report EXCEPT ![w] = [slot |-> cycle[w].slot, status |-> status,
                                        unvisited |-> unvisited]]

\* Mutant: one retry too many.
RetryOrRaiseLate(w) ==
    IF cycle[w].attempt <= MaxRetries + 1
    THEN /\ Goto(w, "waiting")
         /\ Set(w, [cycle[w] EXCEPT !.attempt = @ + 1])
         /\ UNCHANGED report
    ELSE End(w, "raised", cycle[w].todo)

\* An error of _RETRYABLE_ERRORS reached the retry loop.
RetryOrRaise(w) ==
    IF cycle[w].attempt <= MaxRetries
    THEN /\ Goto(w, "waiting")
         /\ Set(w, [cycle[w] EXCEPT !.attempt = @ + 1])
         /\ UNCHANGED report
    ELSE End(w, "raised", cycle[w].todo)

-----------------------------------------------------------------------------
(* The cycle *)

\* A trigger of the scheduler, its recovery cycle or a manual command.
Start(w) ==
    /\ pc[w] = "idle"
    /\ Goto(w, "collecting")
    /\ Set(w, Fresh(now, 1))
    /\ report' = [report EXCEPT ![w] = NoReport]
    /\ UNCHANGED <<now, durable, locks, faults>>

\* The delay of a retry is over: collect_and_rank_once aligns the slot anew.
Retry(w) ==
    /\ pc[w] = "waiting"
    /\ Goto(w, "collecting")
    /\ Set(w, Fresh(now, cycle[w].attempt))
    /\ UNCHANGED <<now, durable, locks, report, faults>>

\* _collect_source does not get as far as to own the source's slot: the lock is
\* taken (perhaps by one that only finds the slot succeeded), the database
\* raises, or the slot's run has succeeded.
SkipSource(w, s) ==
    /\ pc[w] = "collecting"
    /\ Visits(w, s)
    /\ \/ Visited(w, s)
       \/ Free(w, s) /\ Succeeded(w, s) /\ VisitedOk(w, s)
    /\ UNCHANGED <<now, durable, locks, pc, report, faults>>

\* _collect_source owns the source's slot and goes on to fetch.
TakeSource(w, s) ==
    /\ pc[w] = "collecting"
    /\ Visits(w, s)
    /\ Free(w, s)
    /\ ~ Succeeded(w, s)
    /\ Take(w, s)
    /\ Goto(w, "fetching")
    /\ UNCHANGED <<now, durable, rankLock, cycle, report, faults>>

\* _collect_source returns: with the observations stored, or with none of them.
FinishSource(w, s) ==
    /\ pc[w] = "fetching"
    /\ Visits(w, s)
    /\ \/ VisitedOk(w, s) /\ ledger' = [ledger EXCEPT ![cycle[w].slot] = @ \cup {s}]
       \/ Visited(w, s) /\ UNCHANGED ledger
    /\ GiveUp(w, s)
    /\ Goto(w, "collecting")
    /\ UNCHANGED <<now, recorded, ranking, rankLock, report, faults>>

\* _collect_source raises what its except clause does not name (the ValueError
\* of an oversized batch): neither the cycle nor the retry loop catches it.
SourceRaises(w, s) ==
    /\ pc[w] = "fetching"
    /\ Visits(w, s)
    /\ Fault
    /\ GiveUp(w, s)
    /\ End(w, "raised", cycle[w].todo \ {s})
    /\ UNCHANGED <<now, durable, rankLock>>

\* A worker about to look at the backfill's row, for which it takes the lock.
LooksAtBackfill(w, slot) == pc[w] = "collecting" /\ cycle[w].todo = {} /\ cycle[w].slot = slot

\* _run_backfill_cycle finds its lock taken, or replays the slot's summary.
SkipBackfill(w) ==
    /\ pc[w] = "collecting"
    /\ cycle[w].todo = {}
    /\ \/ /\ ~ Free(w, BackfillJob) \/ \E v \in Workers \ {w} : LooksAtBackfill(v, cycle[w].slot)
          /\ Set(w, [cycle[w] EXCEPT !.failed = TRUE])
       \/ /\ Free(w, BackfillJob)
          /\ Succeeded(w, BackfillJob)
          /\ Set(w, [cycle[w] EXCEPT !.failed = recorded[cycle[w].slot]])
    /\ Goto(w, "ranking")
    /\ UNCHANGED <<now, durable, locks, report, faults>>

\* A source or the backfill gets no connection for its lock, or the backfill
\* cannot look at its row: that is outside every try and ends the attempt.
NoConnection(w) ==
    /\ pc[w] = "collecting"
    /\ Fault
    /\ RetryOrRaise(w)
    /\ UNCHANGED <<now, durable, locks>>

\* _run_backfill_cycle owns the slot's allowance.
TakeBackfill(w) ==
    /\ pc[w] = "collecting"
    /\ cycle[w].todo = {}
    /\ Free(w, BackfillJob)
    /\ ~ Succeeded(w, BackfillJob)
    /\ Take(w, BackfillJob)
    /\ Set(w, [cycle[w] EXCEPT !.eligible = Eligible(w)])
    /\ Goto(w, "backfilling")
    /\ UNCHANGED <<now, durable, rankLock, report, faults>>

\* The backfill's run is finished as succeeded, whichever sources failed in it.
FinishBackfill(w) ==
    /\ pc[w] = "backfilling"
    /\ \E failed \in {cycle[w].eligible # {}, FALSE} :
          /\ Set(w, [cycle[w] EXCEPT !.failed = failed])
          /\ recorded' = [recorded EXCEPT ![cycle[w].slot] = failed]
    /\ ledger' = [ledger EXCEPT ![cycle[w].slot] = @ \cup {BackfillJob}]
    /\ GiveUp(w, BackfillJob)
    /\ Goto(w, "ranking")
    /\ UNCHANGED <<now, ranking, rankLock, report, faults>>

\* The backfill raises: the cycle is left before its ranking.
BackfillRaises(w) ==
    /\ pc[w] = "backfilling"
    /\ Fault
    /\ GiveUp(w, BackfillJob)
    /\ RetryOrRaise(w)
    /\ UNCHANGED <<now, durable, rankLock>>

\* Mutant: the rankings of two cycles overlap.
NoRankLock == TRUE

RankLockIsFree == rankLock = Nobody

\* pg_advisory_xact_lock and the DELETE.
LockRanking(w) ==
    /\ pc[w] = "ranking"
    /\ RankLockIsFree
    /\ rankLock' = w
    /\ Goto(w, "replacing")
    /\ UNCHANGED <<now, durable, holder, cycle, report, faults>>

\* The INSERT ... SELECT: it reads what is committed when it runs.
ComputeRanking(w) ==
    /\ pc[w] = "replacing"
    /\ Set(w, [cycle[w] EXCEPT !.covered = Covered(cycle[w].slot)])
    /\ Goto(w, "committing")
    /\ UNCHANGED <<now, durable, locks, report, faults>>

\* Mutant: the lock outlives its transaction.
CommitRankingLocked(w) ==
    /\ pc[w] = "committing"
    /\ ranking' = [ranking EXCEPT ![cycle[w].slot] = cycle[w].covered]
    /\ End(w, CycleStatus(w), {})
    /\ UNCHANGED <<now, ledger, recorded, locks, faults>>

\* The commit publishes the ranking and ends the lock; the cycle returns.
CommitRanking(w) ==
    /\ pc[w] = "committing"
    /\ ranking' = [ranking EXCEPT ![cycle[w].slot] = cycle[w].covered]
    /\ rankLock' = Nobody
    /\ End(w, CycleStatus(w), {})
    /\ UNCHANGED <<now, ledger, recorded, holder, faults>>

\* A database error while ranking rolls the transaction back.
RankingFails(w) ==
    /\ pc[w] \in {"ranking", "replacing", "committing"}
    /\ Fault
    /\ rankLock' = IF rankLock = w THEN Nobody ELSE rankLock
    /\ RetryOrRaise(w)
    /\ UNCHANGED <<now, durable, holder>>

-----------------------------------------------------------------------------
(* The environment *)

\* The process dies: its sessions end and free every lock it holds.
Crash(w) ==
    /\ pc[w] # "idle"
    /\ Fault
    /\ holder' = [t \in Slots |-> [j \in Jobs |->
                     IF holder[t][j] = w THEN Nobody ELSE holder[t][j]]]
    /\ rankLock' = IF rankLock = w THEN Nobody ELSE rankLock
    /\ Goto(w, "idle")
    /\ Set(w, NoCycle)
    /\ UNCHANGED <<now, durable, report>>

\* The next aligned slot begins.
Tick ==
    /\ now < LastSlot
    /\ now' = now + 1
    /\ UNCHANGED <<durable, locks, pc, cycle, report, faults>>

-----------------------------------------------------------------------------

Step(w) ==
    \/ Retry(w)
    \/ \E s \in Sources :
          SkipSource(w, s) \/ TakeSource(w, s) \/ FinishSource(w, s) \/ SourceRaises(w, s)
    \/ NoConnection(w)
    \/ SkipBackfill(w) \/ TakeBackfill(w) \/ FinishBackfill(w) \/ BackfillRaises(w)
    \/ LockRanking(w) \/ ComputeRanking(w) \/ CommitRanking(w) \/ RankingFails(w)

Next == Tick \/ \E w \in Workers : Start(w) \/ Step(w) \/ Crash(w)

Spec == Init /\ [][Next]_vars

\* A worker whose cycle has begun goes on; a waiter for the ranking's lock is
\* served in PostgreSQL's queue order, hence strong fairness; slots follow one
\* another, and the scheduler starts a cycle again and again.
FairSpec ==
    /\ Spec
    /\ WF_vars(Tick)
    /\ \A w \in Workers : WF_vars(Start(w)) /\ WF_vars(Step(w)) /\ SF_vars(LockRanking(w))

-----------------------------------------------------------------------------
(* Properties *)

\* Every variable has its type; an attempt's number stays within max_retries.
TypeOK ==
    /\ now \in Slots
    /\ ledger \in [Slots -> SUBSET Jobs]
    /\ recorded \in [Slots -> BOOLEAN]
    /\ holder \in [Slots -> [Jobs -> Workers \cup {Nobody}]]
    /\ ranking \in [Slots -> SUBSET (Slots \X Sources)]
    /\ rankLock \in Workers \cup {Nobody}
    /\ pc \in [Workers -> Locations]
    /\ cycle \in [Workers -> Cycles]
    /\ report \in [Workers -> Reports]
    /\ faults \in 0..MaxFaults

\* A cycle that reports "succeeded" tells the truth about its slot, whatever the
\* other workers did meanwhile: every source is stored, the backfill ended
\* without a failed source, and the published ranking covers all of it.
SucceededCycleIsComplete ==
    \A w \in Workers : report[w].status = "succeeded" =>
        LET t == report[w].slot
        IN  ledger[t] = Jobs /\ ~ recorded[t] /\ {t} \X Sources \subseteq ranking[t]

\* Historical pages of a source are only read for a slot whose current range is
\* stored ("historical progress cannot overtake an incomplete current-range scan").
BackfillFollowsCollection ==
    \A w \in Workers : pc[w] = "backfilling" => cycle[w].eligible \subseteq ledger[cycle[w].slot]

\* Replacing a slot's ranking never drops observations an earlier ranking of the
\* slot covered, although cycles of several workers replace it.
RankingNeverLoses == [][\A t \in Slots : ranking[t] \subseteq ranking'[t]]_vars

\* Each job at each slot is executed by one worker at a time and never again once
\* it has succeeded, whichever cycles visit the slot: to a cycle its sources and
\* its backfill are what SourceRun and BackfillRun are shown to be.
Outcome(t, j) == INSTANCE JobOutcome WITH executor <- holder[t][j], done <- j \in ledger[t]
ImplementsJobOutcomes ==
    /\ \A t \in Slots, j \in Jobs : Outcome(t, j)!OutcomeInit
    /\ [][\A t \in Slots, j \in Jobs : [Outcome(t, j)!OutcomeNext]_(Outcome(t, j)!outcomeVars)]_vars

\* Every cycle ends: no lock, retry or slot change keeps it going for ever.
CycleEnds == \A w \in Workers : pc[w] # "idle" ~> pc[w] = "idle"

\* What a source stored in a slot is eventually covered by a ranking, even when
\* the cycle that stored it never ranked.
EventuallyRanked ==
    \A t \in Slots, s \in Sources :
        s \in ledger[t] ~> \E u \in Slots : <<t, s>> \in ranking[u]

\* What the operations guide says: a failed source does not keep the cycle from
\* visiting the later ones.
NoSourceIsBlocked == \A w \in Workers : report[w].unvisited = {}
=============================================================================
