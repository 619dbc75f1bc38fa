------------------------ MODULE CollectionCycleProofs ------------------------
(***************************************************************************)
(* CollectionCycle for every set of workers and sources, and every number  *)
(* of slots, retries and faults.                                           *)
(*                                                                         *)
(* The argument: what a cycle knows of its slot stays true, because the    *)
(* ledger only grows (Known); only the owner of the backfill's lock writes *)
(* its record, and does so once (Backfills); and only the owner of the     *)
(* ranking's lock replaces rankings, with rows that it has read after the  *)
(* ones it replaces were published (Rankings).                             *)
(*                                                                         *)
(* That a source has one executor is the same argument for each source:    *)
(* whoever fetches holds its lock (Fetches), so a step ends no job but the *)
(* worker's own (Moves).                                                   *)
(***************************************************************************)
EXTENDS CollectionCycle, TLAPS

Known == \A w \in Workers :
    cycle[w].ok \subseteq ledger[cycle[w].slot] /\ cycle[w].eligible \subseteq ledger[cycle[w].slot]

Backfills == \A w \in Workers :
    /\ pc[w] = "backfilling" =>
        BackfillJob \notin ledger[cycle[w].slot] /\ holder[cycle[w].slot][BackfillJob] = w
    /\ pc[w] \in {"ranking", "replacing", "committing"} /\ ~cycle[w].failed =>
        BackfillJob \in ledger[cycle[w].slot] /\ ~recorded[cycle[w].slot]

Rankings ==
    /\ \A t \in Slots : ranking[t] \subseteq Covered(t)
    /\ \A w \in Workers : pc[w] \in {"replacing", "committing"} => rankLock = w
    /\ \A w \in Workers : pc[w] = "committing" =>
        /\ ranking[cycle[w].slot] \subseteq cycle[w].covered /\ cycle[w].covered \subseteq Covered(cycle[w].slot)
        /\ {cycle[w].slot} \X cycle[w].ok \subseteq cycle[w].covered

Inv == TypeOK /\ Known /\ Backfills /\ Rankings

-----------------------------------------------------------------------------
(* Types *)

LEMMA InitInv == Init => Inv
<1> SUFFICES ASSUME Init PROVE Inv
  OBVIOUS
<1>1. TypeOK
  BY BoundsAssumption DEF Init, TypeOK, Slots, Jobs, Locations, NoCycle, Fresh, Cycles, NoReport, Reports, CycleStatuses
<1>2. Known /\ Backfills /\ Rankings
  BY DEF Init, Known, Backfills, Rankings, NoCycle, Fresh
<1> QED
  BY <1>1, <1>2 DEF Inv

\* The records that the actions make.
LEMMA Records ==
    ASSUME TypeOK
    PROVE  /\ NoCycle \in Cycles /\ NoReport \in Reports /\ Fresh(now, 1) \in Cycles
           /\ \A w \in Workers :
                /\ cycle[w] \in Cycles /\ cycle[w].slot \in Slots /\ Fresh(now, cycle[w].attempt) \in Cycles
                /\ \A s \in Sources : [cycle[w] EXCEPT !.todo = @ \ {s}] \in Cycles
                                      /\ [cycle[w] EXCEPT !.todo = @ \ {s}, !.ok = @ \cup {s}] \in Cycles
                /\ \A b \in BOOLEAN : [cycle[w] EXCEPT !.failed = b] \in Cycles
                /\ [cycle[w] EXCEPT !.eligible = Eligible(w)] \in Cycles
                /\ [cycle[w] EXCEPT !.covered = Covered(cycle[w].slot)] \in Cycles
                /\ cycle[w].attempt <= MaxRetries => [cycle[w] EXCEPT !.attempt = @ + 1] \in Cycles
                /\ CycleStatus(w) \in CycleStatuses
                /\ \A status \in CycleStatuses, left \in SUBSET Sources :
                    [slot |-> cycle[w].slot, status |-> status, unvisited |-> left] \in Reports
<1> USE DEF TypeOK, Slots
<1>1. NoCycle \in Cycles /\ NoReport \in Reports /\ Fresh(now, 1) \in Cycles
  BY BoundsAssumption DEF NoCycle, Fresh, Cycles, NoReport, Reports, CycleStatuses
<1> SUFFICES ASSUME NEW w \in Workers
             PROVE  /\ cycle[w] \in Cycles /\ cycle[w].slot \in Slots /\ Fresh(now, cycle[w].attempt) \in Cycles
                    /\ \A s \in Sources : [cycle[w] EXCEPT !.todo = @ \ {s}] \in Cycles
                                          /\ [cycle[w] EXCEPT !.todo = @ \ {s}, !.ok = @ \cup {s}] \in Cycles
                    /\ \A b \in BOOLEAN : [cycle[w] EXCEPT !.failed = b] \in Cycles
                    /\ [cycle[w] EXCEPT !.eligible = Eligible(w)] \in Cycles
                    /\ [cycle[w] EXCEPT !.covered = Covered(cycle[w].slot)] \in Cycles
                    /\ cycle[w].attempt <= MaxRetries => [cycle[w] EXCEPT !.attempt = @ + 1] \in Cycles
                    /\ CycleStatus(w) \in CycleStatuses
                    /\ \A status \in CycleStatuses, left \in SUBSET Sources :
                        [slot |-> cycle[w].slot, status |-> status, unvisited |-> left] \in Reports
  BY <1>1
<1>2. cycle[w] \in Cycles
  OBVIOUS
<1>3. cycle[w].slot \in Slots /\ Fresh(now, cycle[w].attempt) \in Cycles
  BY <1>2 DEF Cycles, Fresh
<1>4. \A s \in Sources : [cycle[w] EXCEPT !.todo = @ \ {s}] \in Cycles
                         /\ [cycle[w] EXCEPT !.todo = @ \ {s}, !.ok = @ \cup {s}] \in Cycles
  BY <1>2 DEF Cycles
<1>5. \A b \in BOOLEAN : [cycle[w] EXCEPT !.failed = b] \in Cycles
  BY <1>2 DEF Cycles
<1>6. [cycle[w] EXCEPT !.eligible = Eligible(w)] \in Cycles
  BY <1>2 DEF Cycles, Eligible
<1>7. [cycle[w] EXCEPT !.covered = Covered(cycle[w].slot)] \in Cycles
  <2>1. Covered(cycle[w].slot) \in SUBSET (Slots \X Sources)
    BY DEF Covered
  <2> QED
    BY <1>2, <2>1 DEF Cycles
<1>8. cycle[w].attempt <= MaxRetries => [cycle[w] EXCEPT !.attempt = @ + 1] \in Cycles
  <2> SUFFICES ASSUME cycle[w].attempt <= MaxRetries PROVE cycle[w].attempt + 1 \in 1..(MaxRetries + 1)
    BY <1>2 DEF Cycles
  <2> QED
    BY <1>2, BoundsAssumption DEF Cycles
<1>9. CycleStatus(w) \in CycleStatuses
  BY DEF CycleStatus, CycleStatuses
<1>10. \A status \in CycleStatuses, left \in SUBSET Sources :
          [slot |-> cycle[w].slot, status |-> status, unvisited |-> left] \in Reports
  BY <1>3 DEF Reports
<1> QED
  BY <1>2, <1>3, <1>4, <1>5, <1>6, <1>7, <1>8, <1>9, <1>10

-----------------------------------------------------------------------------
(* The steps *)

\* One worker's variables change, to a cycle that its ledger supports.
LEMMA KnownStays ==
    ASSUME TypeOK, Known, NEW w \in Workers, NEW c \in Cycles, Set(w, c),
           \A t \in Slots : ledger[t] \subseteq ledger'[t],
           c.ok \subseteq ledger'[c.slot], c.eligible \subseteq ledger'[c.slot]
    PROVE  Known' /\ cycle' \in [Workers -> Cycles]
<1>1. cycle' \in [Workers -> Cycles] /\ cycle'[w] = c /\ \A v \in Workers \ {w} : cycle'[v] = cycle[v]
  BY DEF TypeOK, Set
<1>2. \A v \in Workers : cycle[v].slot \in Slots
  BY Records
<1> QED
  BY <1>1, <1>2 DEF Known

\* A worker that leaves its cycle, to return, to raise or to wait for a retry.
LEMMA Leaving ==
    ASSUME TypeOK, NEW w \in Workers,
           \/ RetryOrRaise(w)
           \/ \E status \in CycleStatuses, left \in SUBSET Sources : End(w, status, left)
    PROVE  /\ pc' \in [Workers -> Locations] /\ report' \in [Workers -> Reports]
           /\ pc'[w] \in {"idle", "waiting"} /\ \A v \in Workers \ {w} : pc'[v] = pc[v]
           /\ \E c \in Cycles :
                /\ Set(w, c)
                /\ \/ c = NoCycle
                   \/ c.slot = cycle[w].slot /\ c.ok = cycle[w].ok /\ c.eligible = cycle[w].eligible
           /\ cycle' \in [Workers -> Cycles] /\ \A v \in Workers \ {w} : cycle'[v] = cycle[v]
<1>1. cycle[w] \in Cycles /\ cycle[w].todo \subseteq Sources /\ "raised" \in CycleStatuses
  BY DEF TypeOK, Cycles, CycleStatuses
<1>2. CASE \E status \in CycleStatuses, left \in SUBSET Sources : End(w, status, left)
  <2>1. PICK status \in CycleStatuses, left \in SUBSET Sources : End(w, status, left)
    BY <1>2
  <2>2. Set(w, NoCycle) /\ NoCycle \in Cycles
    BY <2>1, Records DEF End
  <2>3. [slot |-> cycle[w].slot, status |-> status, unvisited |-> left] \in Reports
    BY Records
  <2>4. pc' \in [Workers -> Locations] /\ report' \in [Workers -> Reports]
    BY <2>1, <2>3 DEF End, Goto, TypeOK, Locations
  <2>5. pc'[w] = "idle" /\ \A v \in Workers \ {w} : pc'[v] = pc[v]
    BY <2>1 DEF End, Goto, TypeOK
  <2> QED
    BY <2>2, <2>4, <2>5 DEF Set, TypeOK
<1>3. CASE RetryOrRaise(w) /\ cycle[w].attempt <= MaxRetries
  <2> DEFINE c == [cycle[w] EXCEPT !.attempt = @ + 1]
  <2>1. c \in Cycles
    BY <1>3, Records
  <2>2. c.slot = cycle[w].slot /\ c.ok = cycle[w].ok /\ c.eligible = cycle[w].eligible
    BY <1>1 DEF Cycles
  <2>3. Set(w, c)
    BY <1>3 DEF RetryOrRaise
  <2>4. pc' \in [Workers -> Locations] /\ report' \in [Workers -> Reports]
    BY <1>3 DEF RetryOrRaise, Goto, TypeOK, Locations
  <2>5. pc'[w] = "waiting" /\ \A v \in Workers \ {w} : pc'[v] = pc[v]
    BY <1>3 DEF RetryOrRaise, Goto, TypeOK
  <2> HIDE DEF c
  <2> QED
    BY <2>1, <2>2, <2>3, <2>4, <2>5 DEF Set, TypeOK
<1>4. CASE RetryOrRaise(w) /\ ~(cycle[w].attempt <= MaxRetries)
  BY <1>1, <1>2, <1>4 DEF RetryOrRaise
<1> QED
  BY <1>2, <1>3, <1>4

\* A worker that visits source s, or takes or gives up a lock.
LEMMA Visiting ==
    ASSUME TypeOK, NEW w \in Workers, NEW s \in Sources
    PROVE  /\ Visited(w, s) => \E c \in Cycles :
                Set(w, c) /\ c.slot = cycle[w].slot /\ c.eligible = cycle[w].eligible /\ c.ok = cycle[w].ok
           /\ VisitedOk(w, s) => \E c \in Cycles :
                Set(w, c) /\ c.slot = cycle[w].slot /\ c.eligible = cycle[w].eligible /\ c.ok = cycle[w].ok \cup {s}
           /\ Visited(w, s) \/ VisitedOk(w, s) => cycle' \in [Workers -> Cycles]
<1>1. cycle[w] \in Cycles
  BY DEF TypeOK
<1> DEFINE c1 == [cycle[w] EXCEPT !.todo = @ \ {s}]
           c2 == [cycle[w] EXCEPT !.todo = @ \ {s}, !.ok = @ \cup {s}]
<1>2. c1 \in Cycles /\ c2 \in Cycles
  BY Records
<1>3. c1.slot = cycle[w].slot /\ c1.eligible = cycle[w].eligible /\ c1.ok = cycle[w].ok
  BY <1>1 DEF Cycles
<1>4. c2.slot = cycle[w].slot /\ c2.eligible = cycle[w].eligible /\ c2.ok = cycle[w].ok \cup {s}
  BY <1>1 DEF Cycles
<1>5. (Visited(w, s) => Set(w, c1)) /\ (VisitedOk(w, s) => Set(w, c2))
  BY DEF Visited, VisitedOk
<1> HIDE DEF c1, c2
<1>6. Visited(w, s) \/ VisitedOk(w, s) => cycle' \in [Workers -> Cycles]
  BY <1>2, <1>5 DEF Set, TypeOK
<1> QED
  BY <1>2, <1>3, <1>4, <1>5, <1>6

LEMMA Locking ==
    ASSUME TypeOK, NEW w \in Workers, NEW job \in Jobs
    PROVE  Take(w, job) \/ GiveUp(w, job) => holder' \in [Slots -> [Jobs -> Workers \cup {Nobody}]]
<1>1. ASSUME NEW x \in Workers \cup {Nobody}
      PROVE  [holder EXCEPT ![cycle[w].slot][job] = x] \in [Slots -> [Jobs -> Workers \cup {Nobody}]]
  <2>1. [holder[cycle[w].slot] EXCEPT ![job] = x] \in [Jobs -> Workers \cup {Nobody}]
    BY Records DEF TypeOK
  <2> QED
    BY <2>1, Records DEF TypeOK
<1> QED
  BY <1>1 DEF Take, GiveUp

\* What an action adds to a slot's ledger.
LEMMA Recording ==
    ASSUME TypeOK, NEW w \in Workers, NEW job \in Jobs,
           ledger' = [ledger EXCEPT ![cycle[w].slot] = @ \cup {job}]
    PROVE  /\ ledger' \in [Slots -> SUBSET Jobs]
           /\ \A t \in Slots : ledger[t] \subseteq ledger'[t] /\ ledger'[t] \subseteq ledger[t] \cup {job}
           /\ job \in ledger'[cycle[w].slot]
           /\ \A t \in Slots \ {cycle[w].slot} : ledger'[t] = ledger[t]
<1>1. cycle[w].slot \in Slots
  BY Records
<1> QED
  BY <1>1 DEF TypeOK

LEMMA StartInv == ASSUME Inv, NEW w \in Workers, Start(w) PROVE Inv'
<1> USE DEF Inv
<1> USE DEF Start, Goto, Set, durable, locks
<1>1. TypeOK'
  BY Records, BoundsAssumption, SourcesAssumption DEF TypeOK, Locations, Jobs, CycleStatuses, Fresh, BackfillJob
<1>2. Known'
  BY DEF Known, TypeOK, Fresh, NoCycle, Cycles, Eligible
<1>3. Backfills'
  BY SourcesAssumption, NobodyAssumption DEF Backfills, TypeOK, Fresh, NoCycle, BackfillJob, Jobs, Locations
<1>4. Rankings'
  BY NobodyAssumption DEF Rankings, Known, TypeOK, Fresh, NoCycle, Covered, Slots, Locations
<1> QED
  BY <1>1, <1>2, <1>3, <1>4

LEMMA RetryInv == ASSUME Inv, NEW w \in Workers, Retry(w) PROVE Inv'
<1> USE DEF Inv
<1> USE DEF Retry, Goto, Set, durable, locks
<1>1. TypeOK'
  BY Records, BoundsAssumption, SourcesAssumption DEF TypeOK, Locations, Jobs, CycleStatuses, Fresh, BackfillJob
<1>2. Known'
  BY DEF Known, TypeOK, Fresh, NoCycle, Cycles, Eligible
<1>3. Backfills'
  BY SourcesAssumption, NobodyAssumption DEF Backfills, TypeOK, Fresh, NoCycle, BackfillJob, Jobs, Locations
<1>4. Rankings'
  BY NobodyAssumption DEF Rankings, Known, TypeOK, Fresh, NoCycle, Covered, Slots, Locations
<1> QED
  BY <1>1, <1>2, <1>3, <1>4

LEMMA SkipSourceInv == ASSUME Inv, NEW w \in Workers, NEW s \in Sources, SkipSource(w, s) PROVE Inv'
<1> USE DEF Inv
<1> USE DEF SkipSource, durable, locks
<1>1. TypeOK'
  <2>1. cycle' \in [Workers -> Cycles]
    BY Visiting
  <2> QED
    BY <2>1 DEF TypeOK
<1>2. Known'
  <2>1. PICK c \in Cycles : Set(w, c) /\ c.slot = cycle[w].slot /\ c.eligible = cycle[w].eligible
                            /\ c.ok \subseteq ledger[c.slot]
    <3>1. CASE Visited(w, s)
      BY <3>1, Visiting DEF Known
    <3>2. CASE VisitedOk(w, s) /\ Succeeded(w, s)
      BY <3>2, Visiting DEF Known, Succeeded
    <3> QED
      BY <3>1, <3>2
  <2> QED
    BY <2>1, KnownStays DEF Known
<1>3. Backfills'
  BY DEF Backfills, TypeOK, Set, Visited, VisitedOk
<1>4. Rankings'
  BY DEF Rankings, TypeOK, Covered, Set, Visited, VisitedOk
<1> QED
  BY <1>1, <1>2, <1>3, <1>4

LEMMA TakeSourceInv == ASSUME Inv, NEW w \in Workers, NEW s \in Sources, TakeSource(w, s) PROVE Inv'
<1> USE DEF Inv
<1> USE DEF TakeSource, Goto, Take, Free, durable, locks
<1>1. TypeOK'
  BY Records, BoundsAssumption, SourcesAssumption DEF TypeOK, Locations, Jobs, CycleStatuses, Fresh, BackfillJob
<1>2. Known'
  BY DEF Known, TypeOK, Fresh, NoCycle, Cycles, Eligible
<1>3. Backfills'
  BY SourcesAssumption, NobodyAssumption DEF Backfills, TypeOK, Fresh, NoCycle, BackfillJob, Jobs, Locations
<1>4. Rankings'
  BY NobodyAssumption DEF Rankings, Known, TypeOK, Fresh, NoCycle, Covered, Slots, Locations
<1> QED
  BY <1>1, <1>2, <1>3, <1>4

LEMMA FinishSourceInv == ASSUME Inv, NEW w \in Workers, NEW s \in Sources, FinishSource(w, s) PROVE Inv'
<1> USE DEF Inv
<1> USE DEF FinishSource
<1>0. s \in Jobs /\ BackfillJob # s /\ BackfillJob \in Jobs
  BY SourcesAssumption DEF BackfillJob, Jobs
<1>a. ledger' \in [Slots -> SUBSET Jobs] /\ \A t \in Slots : ledger[t] \subseteq ledger'[t]
      /\ ledger'[t] \subseteq ledger[t] \cup {s}
  BY <1>0, Recording DEF TypeOK
<1>1. TypeOK'
  <2>1. cycle' \in [Workers -> Cycles] /\ holder' \in [Slots -> [Jobs -> Workers \cup {Nobody}]]
    BY <1>0, Visiting, Locking
  <2>2. pc' \in [Workers -> Locations]
    BY DEF TypeOK, Locations, Goto
  <2> QED
    BY <1>a, <2>1, <2>2 DEF TypeOK
<1>2. Known'
  <2>1. PICK c \in Cycles : Set(w, c) /\ c.slot = cycle[w].slot /\ c.eligible = cycle[w].eligible
                            /\ c.ok \subseteq ledger'[c.slot]
    <3> cycle[w].ok \subseteq ledger'[cycle[w].slot]
      BY <1>a, Records DEF Known
    <3>1. CASE Visited(w, s)
      BY <3>1, Visiting
    <3>2. CASE VisitedOk(w, s) /\ ledger' = [ledger EXCEPT ![cycle[w].slot] = @ \cup {s}]
      <4>1. s \in ledger'[cycle[w].slot]
        BY <1>0, <3>2, Recording
      <4> QED
        BY <3>2, <4>1, Visiting
    <3> QED
      BY <3>1, <3>2
  <2> QED
    BY <1>a, <2>1, KnownStays, Records DEF Known
<1>3. Backfills'
  <2>1. \A v \in Workers \ {w} : cycle'[v] = cycle[v] /\ pc'[v] = pc[v]
    BY DEF TypeOK, Set, Visited, VisitedOk, Goto
  <2>2. pc'[w] = "collecting"
    BY DEF TypeOK, Goto
  <2>3. \A t \in Slots : holder'[t][BackfillJob] = holder[t][BackfillJob]
    BY <1>0, Records DEF TypeOK, GiveUp
  <2>4. \A t \in Slots : BackfillJob \in ledger'[t] <=> BackfillJob \in ledger[t]
    BY <1>0, <1>a
  <2>5. \A v \in Workers : cycle[v].slot \in Slots
    BY Records
  <2> QED
    BY <2>1, <2>2, <2>3, <2>4, <2>5 DEF Backfills
<1>4. Rankings'
  <2>1. \A v \in Workers \ {w} : cycle'[v] = cycle[v] /\ pc'[v] = pc[v]
    BY DEF TypeOK, Set, Visited, VisitedOk, Goto
  <2>2. pc'[w] = "collecting"
    BY DEF TypeOK, Goto
  <2>3. \A t \in Slots : Covered(t) \subseteq Covered(t)'
    BY <1>a DEF Covered
  <2> QED
    BY <2>1, <2>2, <2>3, Records DEF Rankings
<1> QED
  BY <1>1, <1>2, <1>3, <1>4

LEMMA SourceRaisesInv == ASSUME Inv, NEW w \in Workers, NEW s \in Sources, SourceRaises(w, s) PROVE Inv'
<1> USE DEF Inv
<1>1. TypeOK'
  <2>1. End(w, "raised", cycle[w].todo \ {s}) /\ cycle[w].todo \ {s} \in SUBSET Sources /\ "raised" \in CycleStatuses
    BY Records DEF SourceRaises, Cycles, CycleStatuses
  <2>2. pc' \in [Workers -> Locations] /\ report' \in [Workers -> Reports] /\ cycle' \in [Workers -> Cycles]
    BY <2>1, Leaving
  <2>3. holder' \in [Slots -> [Jobs -> Workers \cup {Nobody}]]
    BY Locking DEF SourceRaises, Jobs
  <2>4. faults' \in 0..MaxFaults
    BY BoundsAssumption DEF SourceRaises, Fault, TypeOK
  <2> QED
    BY <2>2, <2>3, <2>4 DEF TypeOK, SourceRaises, durable
<1> USE DEF SourceRaises, Goto, Set, GiveUp, Fault, End, durable, locks
<1>2. Known'
  BY DEF Known, TypeOK, Fresh, NoCycle, Cycles, Eligible
<1>3. Backfills'
  BY SourcesAssumption, NobodyAssumption DEF Backfills, TypeOK, Fresh, NoCycle, BackfillJob, Jobs, Locations
<1>4. Rankings'
  BY NobodyAssumption DEF Rankings, Known, TypeOK, Fresh, NoCycle, Covered, Slots, Locations
<1> QED
  BY <1>1, <1>2, <1>3, <1>4

LEMMA SkipBackfillInv == ASSUME Inv, NEW w \in Workers, SkipBackfill(w) PROVE Inv'
<1> USE DEF Inv
<1> USE DEF SkipBackfill, Goto, Set, Succeeded, durable, locks
<1>0. PICK b \in BOOLEAN : Set(w, [cycle[w] EXCEPT !.failed = b]) /\ (~b => BackfillJob \in ledger[cycle[w].slot]
                                                                 /\ ~recorded[cycle[w].slot])
  BY Records DEF TypeOK
<1>1. TypeOK'
  <2>1. cycle' \in [Workers -> Cycles]
    BY <1>0, Records DEF TypeOK
  <2> QED
    BY <2>1 DEF TypeOK, Locations
<1>2. Known'
  <2> DEFINE c == [cycle[w] EXCEPT !.failed = b]
  <2>1. c \in Cycles /\ cycle[w] \in Cycles
    BY Records
  <2>2. c.slot = cycle[w].slot /\ c.ok = cycle[w].ok /\ c.eligible = cycle[w].eligible
    BY <2>1 DEF Cycles
  <2>3. Set(w, c)
    BY <1>0
  <2> HIDE DEF c
  <2> QED
    BY <2>1, <2>2, <2>3, KnownStays DEF Known
<1>3. Backfills'
  <2>1. \A v \in Workers \ {w} : cycle'[v] = cycle[v] /\ pc'[v] = pc[v]
    BY DEF TypeOK
  <2>2. pc'[w] = "ranking" /\ cycle'[w].slot = cycle[w].slot /\ cycle'[w].failed = b
    BY <1>0 DEF TypeOK, Cycles
  <2> QED
    BY <1>0, <2>1, <2>2 DEF Backfills
<1>4. Rankings'
  BY NobodyAssumption DEF Rankings, Known, TypeOK, Fresh, NoCycle, Covered, Slots, Locations
<1> QED
  BY <1>1, <1>2, <1>3, <1>4

LEMMA NoConnectionInv == ASSUME Inv, NEW w \in Workers, NoConnection(w) PROVE Inv'
<1> USE DEF Inv
<1>1. TypeOK'
  <2>1. pc' \in [Workers -> Locations] /\ report' \in [Workers -> Reports] /\ cycle' \in [Workers -> Cycles]
    BY Leaving DEF NoConnection
  <2>2. faults' \in 0..MaxFaults
    BY BoundsAssumption DEF NoConnection, Fault, TypeOK
  <2> QED
    BY <2>1, <2>2 DEF TypeOK, NoConnection, durable, locks
<1>2. Known'
  <2>1. PICK c \in Cycles : Set(w, c) /\ (c = NoCycle \/ (c.slot = cycle[w].slot /\ c.ok = cycle[w].ok
                                                         /\ c.eligible = cycle[w].eligible))
    BY Leaving DEF NoConnection
  <2>2. c.ok \subseteq ledger[c.slot] /\ c.eligible \subseteq ledger[c.slot]
    BY <2>1 DEF Known, NoCycle, Fresh
  <2> QED
    BY <2>1, <2>2, KnownStays DEF NoConnection, durable
<1> USE DEF NoConnection, Goto, Set, Fault, RetryOrRaise, End, durable, locks
<1>3. Backfills'
  BY SourcesAssumption, NobodyAssumption DEF Backfills, TypeOK, Fresh, NoCycle, BackfillJob, Jobs, Locations
<1>4. Rankings'
  BY NobodyAssumption DEF Rankings, Known, TypeOK, Fresh, NoCycle, Covered, Slots, Locations
<1> QED
  BY <1>1, <1>2, <1>3, <1>4

LEMMA TakeBackfillInv == ASSUME Inv, NEW w \in Workers, TakeBackfill(w) PROVE Inv'
<1> USE DEF Inv
<1> USE DEF TakeBackfill, Goto, Set, Take, Free, Succeeded, durable, locks
<1>1. TypeOK'
  BY Records, BoundsAssumption, SourcesAssumption DEF TypeOK, Locations, Jobs, CycleStatuses, Fresh, BackfillJob
<1>2. Known'
  BY DEF Known, TypeOK, Fresh, NoCycle, Cycles, Eligible
<1>3. Backfills'
  <2>1. \A v \in Workers \ {w} : cycle'[v] = cycle[v] /\ pc'[v] = pc[v]
    BY DEF TypeOK
  <2>2. pc'[w] = "backfilling" /\ cycle'[w].slot = cycle[w].slot
    BY DEF TypeOK, Cycles
  <2>3. BackfillJob \in Jobs /\ cycle[w].slot \in Slots
    BY Records DEF Jobs
  <2>4. holder'[cycle[w].slot][BackfillJob] = w
    BY <2>3 DEF TypeOK
  <2>5. \A v \in Workers : holder[cycle[v].slot][BackfillJob] = v => holder'[cycle[v].slot][BackfillJob] = v
    BY <2>3, NobodyAssumption, Records DEF TypeOK
  <2> QED
    BY <2>1, <2>2, <2>4, <2>5 DEF Backfills
<1>4. Rankings'
  BY NobodyAssumption DEF Rankings, Known, TypeOK, Fresh, NoCycle, Covered, Slots, Locations
<1> QED
  BY <1>1, <1>2, <1>3, <1>4

LEMMA FinishBackfillInv == ASSUME Inv, NEW w \in Workers, FinishBackfill(w) PROVE Inv'
<1> USE DEF Inv
<1> USE DEF FinishBackfill, Goto, Set, GiveUp, durable, locks
<1>0. PICK b \in BOOLEAN : Set(w, [cycle[w] EXCEPT !.failed = b])
                           /\ recorded' = [recorded EXCEPT ![cycle[w].slot] = b]
  OBVIOUS
<1>1. TypeOK'
  <2>1. cycle' \in [Workers -> Cycles]
    BY <1>0, Records DEF TypeOK
  <2>2. cycle[w].slot \in Slots /\ BackfillJob \in Jobs
    BY Records DEF Jobs
  <2>3. ledger' \in [Slots -> SUBSET Jobs] /\ holder' \in [Slots -> [Jobs -> Workers \cup {Nobody}]]
    BY <2>2 DEF TypeOK
  <2> QED
    BY <1>0, <2>1, <2>3 DEF TypeOK, Locations
<1>2. Known'
  BY DEF Known, TypeOK, Fresh, NoCycle, Cycles, Eligible
<1>3. Backfills'
  <2>1. \A v \in Workers \ {w} : cycle'[v] = cycle[v] /\ pc'[v] = pc[v]
    BY DEF TypeOK
  <2>2. pc'[w] = "ranking" /\ cycle'[w].slot = cycle[w].slot /\ cycle'[w].failed = b
    BY <1>0 DEF TypeOK, Cycles
  <2>3. BackfillJob \in Jobs /\ \A v \in Workers : cycle[v].slot \in Slots
    BY Records DEF Jobs
  <2>4. BackfillJob \notin ledger[cycle[w].slot] /\ holder[cycle[w].slot][BackfillJob] = w
    BY DEF Backfills
  <2>5. BackfillJob \in ledger'[cycle[w].slot] /\ recorded'[cycle[w].slot] = b
    BY <1>0, <2>3 DEF TypeOK
  <2>6. \A t \in Slots \ {cycle[w].slot} :
            ledger'[t] = ledger[t] /\ recorded'[t] = recorded[t] /\ holder'[t] = holder[t]
    BY <1>0, <2>3 DEF TypeOK
  <2>7. ASSUME NEW v \in Workers \ {w}
        PROVE  /\ pc[v] = "backfilling" => cycle[v].slot # cycle[w].slot
               /\ pc[v] \in {"ranking", "replacing", "committing"} /\ ~cycle[v].failed => cycle[v].slot # cycle[w].slot
    BY <2>4 DEF Backfills
  <2>8. ASSUME NEW v \in Workers \ {w}
        PROVE  /\ pc'[v] = "backfilling" =>
                    BackfillJob \notin ledger'[cycle'[v].slot] /\ holder'[cycle'[v].slot][BackfillJob] = v
               /\ pc'[v] \in {"ranking", "replacing", "committing"} /\ ~cycle'[v].failed =>
                    BackfillJob \in ledger'[cycle'[v].slot] /\ ~recorded'[cycle'[v].slot]
    BY <2>1, <2>3, <2>6, <2>7 DEF Backfills
  <2> QED
    BY <2>2, <2>5, <2>8 DEF Backfills
<1>4. Rankings'
  BY NobodyAssumption DEF Rankings, Known, TypeOK, Fresh, NoCycle, Covered, Slots, Locations
<1> QED
  BY <1>1, <1>2, <1>3, <1>4

LEMMA BackfillRaisesInv == ASSUME Inv, NEW w \in Workers, BackfillRaises(w) PROVE Inv'
<1> USE DEF Inv
<1>1. TypeOK'
  <2>1. pc' \in [Workers -> Locations] /\ report' \in [Workers -> Reports] /\ cycle' \in [Workers -> Cycles]
    BY Leaving DEF BackfillRaises
  <2>2. holder' \in [Slots -> [Jobs -> Workers \cup {Nobody}]]
    BY Locking DEF BackfillRaises, Jobs, TypeOK
  <2>3. faults' \in 0..MaxFaults /\ rankLock' \in Workers \cup {Nobody}
    BY BoundsAssumption DEF BackfillRaises, Fault, TypeOK
  <2> QED
    BY <2>1, <2>2, <2>3 DEF TypeOK, BackfillRaises, durable
<1>2. Known'
  <2>1. PICK c \in Cycles : Set(w, c) /\ (c = NoCycle \/ (c.slot = cycle[w].slot /\ c.ok = cycle[w].ok
                                                         /\ c.eligible = cycle[w].eligible))
    BY Leaving DEF BackfillRaises
  <2>2. c.ok \subseteq ledger[c.slot] /\ c.eligible \subseteq ledger[c.slot]
    BY <2>1 DEF Known, NoCycle, Fresh
  <2> QED
    BY <2>1, <2>2, KnownStays DEF BackfillRaises, durable
<1> USE DEF BackfillRaises, Goto, Set, GiveUp, Fault, RetryOrRaise, End, durable, locks
<1>3. Backfills'
  BY SourcesAssumption, NobodyAssumption DEF Backfills, TypeOK, Fresh, NoCycle, BackfillJob, Jobs, Locations
<1>4. Rankings'
  BY NobodyAssumption DEF Rankings, Known, TypeOK, Fresh, NoCycle, Covered, Slots, Locations
<1> QED
  BY <1>1, <1>2, <1>3, <1>4

LEMMA LockRankingInv == ASSUME Inv, NEW w \in Workers, LockRanking(w) PROVE Inv'
<1> USE DEF Inv
<1> USE DEF LockRanking, Goto, RankLockIsFree, durable, locks
<1>1. TypeOK'
  BY Records, BoundsAssumption, SourcesAssumption DEF TypeOK, Locations, Jobs, CycleStatuses, Fresh, BackfillJob
<1>2. Known'
  BY DEF Known, TypeOK, Fresh, NoCycle, Cycles, Eligible
<1>3. Backfills'
  BY SourcesAssumption, NobodyAssumption DEF Backfills, TypeOK, Fresh, NoCycle, BackfillJob, Jobs, Locations
<1>4. Rankings'
  BY NobodyAssumption DEF Rankings, Known, TypeOK, Fresh, NoCycle, Covered, Slots, Locations
<1> QED
  BY <1>1, <1>2, <1>3, <1>4

LEMMA ComputeRankingInv == ASSUME Inv, NEW w \in Workers, ComputeRanking(w) PROVE Inv'
<1> USE DEF Inv
<1> USE DEF ComputeRanking, Goto, Set, durable, locks
<1>1. TypeOK'
  BY Records, BoundsAssumption, SourcesAssumption DEF TypeOK, Locations, Jobs, CycleStatuses, Fresh, BackfillJob
<1>2. Known'
  BY DEF Known, TypeOK, Fresh, NoCycle, Cycles, Eligible
<1>3. Backfills'
  BY SourcesAssumption, NobodyAssumption DEF Backfills, TypeOK, Fresh, NoCycle, BackfillJob, Jobs, Locations
<1>4. Rankings'
  <2>1. \A v \in Workers \ {w} : cycle'[v] = cycle[v] /\ pc'[v] = pc[v]
    BY DEF TypeOK
  <2>2. pc'[w] = "committing" /\ rankLock = w
    BY DEF TypeOK, Rankings
  <2>3. cycle'[w].slot = cycle[w].slot /\ cycle'[w].ok = cycle[w].ok /\ cycle'[w].covered = Covered(cycle[w].slot)
    BY DEF TypeOK, Cycles
  <2>0. cycle[w] \in Cycles /\ cycle[w].slot \in Slots
    BY Records
  <2>4. cycle[w].slot \in Nat /\ cycle[w].slot \in Slots /\ cycle[w].ok \subseteq Sources
    BY <2>0 DEF Cycles, Slots
  <2>5. {cycle[w].slot} \X cycle[w].ok \subseteq Covered(cycle[w].slot)
    BY <2>4 DEF Known, Covered
  <2>6. \A t \in Slots : Covered(t)' = Covered(t) /\ ranking'[t] = ranking[t]
    BY DEF Covered
  <2>7. \A v \in Workers : cycle[v].slot \in Slots
    BY Records
  <2>8. \A v \in Workers : pc'[v] \in {"replacing", "committing"} => rankLock' = v
    BY <2>1, <2>2 DEF Rankings
  <2>9. ranking[cycle[w].slot] \subseteq Covered(cycle[w].slot)
    BY <2>0 DEF Rankings
  <2>10. ASSUME NEW v \in Workers, pc'[v] = "committing" PROVE v = w
    BY <2>1, <2>2, <2>10 DEF Rankings
  <2>11. \A t \in Slots : ranking'[t] \subseteq Covered(t)'
    BY <2>6 DEF Rankings
  <2>12. ranking'[cycle'[w].slot] \subseteq cycle'[w].covered
         /\ cycle'[w].covered \subseteq {p \in Slots \X Sources : p[1] <= cycle'[w].slot /\ p[2] \in ledger'[p[1]]}
         /\ {cycle'[w].slot} \X cycle'[w].ok \subseteq cycle'[w].covered
    BY <2>0, <2>3, <2>5, <2>6, <2>9 DEF Covered
  <2> QED
    BY <2>8, <2>10, <2>11, <2>12 DEF Rankings, Covered
<1> QED
  BY <1>1, <1>2, <1>3, <1>4

LEMMA CommitRankingInv == ASSUME Inv, NEW w \in Workers, CommitRanking(w) PROVE Inv'
<1> USE DEF Inv
<1>1. TypeOK'
  <2>1. End(w, CycleStatus(w), {}) /\ CycleStatus(w) \in CycleStatuses /\ {} \in SUBSET Sources
    BY Records DEF CommitRanking
  <2>2. pc' \in [Workers -> Locations] /\ report' \in [Workers -> Reports] /\ cycle' \in [Workers -> Cycles]
    BY <2>1, Leaving
  <2>3. cycle[w].covered \in SUBSET (Slots \X Sources)
    BY Records DEF Cycles
  <2>4. ranking' \in [Slots -> SUBSET (Slots \X Sources)]
    BY <2>3 DEF CommitRanking, TypeOK
  <2> QED
    BY <2>2, <2>4 DEF TypeOK, CommitRanking
<1> USE DEF CommitRanking, Goto, Set, End, durable, locks
<1>2. Known'
  BY DEF Known, TypeOK, Fresh, NoCycle, Cycles, Eligible
<1>3. Backfills'
  BY SourcesAssumption, NobodyAssumption DEF Backfills, TypeOK, Fresh, NoCycle, BackfillJob, Jobs, Locations
<1>4. Rankings'
  BY NobodyAssumption DEF Rankings, Known, TypeOK, Fresh, NoCycle, Covered, Slots, Locations
<1> QED
  BY <1>1, <1>2, <1>3, <1>4

LEMMA RankingFailsInv == ASSUME Inv, NEW w \in Workers, RankingFails(w) PROVE Inv'
<1> USE DEF Inv
<1>1. TypeOK'
  <2>1. pc' \in [Workers -> Locations] /\ report' \in [Workers -> Reports] /\ cycle' \in [Workers -> Cycles]
    BY Leaving DEF RankingFails
  <2>2. holder' \in [Slots -> [Jobs -> Workers \cup {Nobody}]]
    BY Locking DEF RankingFails, Jobs, TypeOK
  <2>3. faults' \in 0..MaxFaults /\ rankLock' \in Workers \cup {Nobody}
    BY BoundsAssumption DEF RankingFails, Fault, TypeOK
  <2> QED
    BY <2>1, <2>2, <2>3 DEF TypeOK, RankingFails, durable
<1>2. Known'
  <2>1. PICK c \in Cycles : Set(w, c) /\ (c = NoCycle \/ (c.slot = cycle[w].slot /\ c.ok = cycle[w].ok
                                                         /\ c.eligible = cycle[w].eligible))
    BY Leaving DEF RankingFails
  <2>2. c.ok \subseteq ledger[c.slot] /\ c.eligible \subseteq ledger[c.slot]
    BY <2>1 DEF Known, NoCycle, Fresh
  <2> QED
    BY <2>1, <2>2, KnownStays DEF RankingFails, durable
<1> USE DEF RankingFails, Goto, Set, Fault, RetryOrRaise, End, durable, locks
<1>3. Backfills'
  BY SourcesAssumption, NobodyAssumption DEF Backfills, TypeOK, Fresh, NoCycle, BackfillJob, Jobs, Locations
<1>4. Rankings'
  BY NobodyAssumption DEF Rankings, Known, TypeOK, Fresh, NoCycle, Covered, Slots, Locations
<1> QED
  BY <1>1, <1>2, <1>3, <1>4

LEMMA CrashInv == ASSUME Inv, NEW w \in Workers, Crash(w) PROVE Inv'
<1> USE DEF Inv
<1> USE DEF Crash, Goto, Set, Fault, durable, locks
<1>1. TypeOK'
  <2>1. cycle' \in [Workers -> Cycles]
    BY Records DEF TypeOK
  <2>2. holder' \in [Slots -> [Jobs -> Workers \cup {Nobody}]]
    BY DEF TypeOK
  <2> QED
    BY <2>1, <2>2, BoundsAssumption DEF TypeOK, Locations
<1>2. Known'
  BY DEF Known, TypeOK, Fresh, NoCycle, Cycles, Eligible
<1>3. Backfills'
  <2>1. \A v \in Workers \ {w} : cycle'[v] = cycle[v] /\ pc'[v] = pc[v]
    BY DEF TypeOK
  <2>2. pc'[w] = "idle"
    BY DEF TypeOK
  <2>3. BackfillJob \in Jobs /\ \A v \in Workers : cycle[v].slot \in Slots
    BY Records DEF Jobs
  <2>4. \A v \in Workers \ {w} : holder[cycle[v].slot][BackfillJob] = v => holder'[cycle[v].slot][BackfillJob] = v
    BY <2>3
  <2>5. ledger' = ledger /\ recorded' = recorded
    OBVIOUS
  <2>6. ASSUME NEW v \in Workers \ {w}
        PROVE  /\ pc'[v] = "backfilling" =>
                    BackfillJob \notin ledger'[cycle'[v].slot] /\ holder'[cycle'[v].slot][BackfillJob] = v
               /\ pc'[v] \in {"ranking", "replacing", "committing"} /\ ~cycle'[v].failed =>
                    BackfillJob \in ledger'[cycle'[v].slot] /\ ~recorded'[cycle'[v].slot]
    BY <2>1, <2>4, <2>5 DEF Backfills
  <2> QED
    BY <2>2, <2>6 DEF Backfills
<1>4. Rankings'
  BY NobodyAssumption DEF Rankings, Known, TypeOK, Fresh, NoCycle, Covered, Slots, Locations
<1> QED
  BY <1>1, <1>2, <1>3, <1>4

LEMMA TickInv == ASSUME Inv, Tick PROVE Inv'
<1> USE DEF Inv, Tick, durable, locks
<1>1. TypeOK'
  BY BoundsAssumption DEF TypeOK, Slots
<1>2. Known' /\ Backfills' /\ Rankings'
  BY DEF Known, Backfills, Rankings, Covered
<1> QED
  BY <1>1, <1>2

LEMMA StutterInv == ASSUME Inv, UNCHANGED vars PROVE Inv'
  BY DEF Inv, vars, TypeOK, Known, Backfills, Rankings, Covered

LEMMA NextInv == Inv /\ [Next]_vars => Inv'
<1> SUFFICES ASSUME Inv, [Next]_vars PROVE Inv'
  OBVIOUS
<1>1. CASE Tick
  BY <1>1, TickInv
<1>2. CASE UNCHANGED vars
  BY <1>2, StutterInv
<1>3. ASSUME NEW w \in Workers, Start(w) \/ Crash(w) PROVE Inv'
  BY <1>3, StartInv, CrashInv
<1>4. ASSUME NEW w \in Workers, Step(w) PROVE Inv'
  <2>1. CASE \/ Retry(w) \/ NoConnection(w)
             \/ SkipBackfill(w) \/ TakeBackfill(w) \/ FinishBackfill(w) \/ BackfillRaises(w)
    BY <2>1, RetryInv, NoConnectionInv, SkipBackfillInv, TakeBackfillInv, FinishBackfillInv, BackfillRaisesInv
  <2>2. CASE LockRanking(w) \/ ComputeRanking(w) \/ CommitRanking(w) \/ RankingFails(w)
    BY <2>2, LockRankingInv, ComputeRankingInv, CommitRankingInv, RankingFailsInv
  <2>3. ASSUME NEW s \in Sources,
               SkipSource(w, s) \/ TakeSource(w, s) \/ FinishSource(w, s) \/ SourceRaises(w, s)
        PROVE  Inv'
    BY <2>3, SkipSourceInv, TakeSourceInv, FinishSourceInv, SourceRaisesInv
  <2> QED
    BY <1>4, <2>1, <2>2, <2>3 DEF Step
<1> QED
  BY <1>1, <1>2, <1>3, <1>4 DEF Next

-----------------------------------------------------------------------------
(* The theorems *)

\* Every variable keeps its type, and no attempt's number passes max_retries,
\* whatever the workers, slots, retries and faults.
THEOREM TypeCorrect == Spec => []TypeOK
<1>1. Inv => TypeOK
  BY DEF Inv
<1> QED
  BY <1>1, InitInv, NextInv, PTL DEF Spec

\* A backfill reads historical pages only of sources whose current range is in
\* the slot's ledger, whatever other workers do to the slot meanwhile.
THEOREM BackfillAfterCollection == Spec => []BackfillFollowsCollection
<1>1. Inv => BackfillFollowsCollection
  BY DEF Inv, Known, BackfillFollowsCollection
<1> QED
  BY <1>1, InitInv, NextInv, PTL DEF Spec

\* The rows that a commit publishes include those of the ranking it replaces.
LEMMA Grows == Inv /\ [Next]_vars => \A t \in Slots : ranking[t] \subseteq ranking'[t]
<1> SUFFICES ASSUME Inv, [Next]_vars, NEW t \in Slots PROVE ranking[t] \subseteq ranking'[t]
  OBVIOUS
<1>1. CASE \E w \in Workers : CommitRanking(w)
  <2>1. PICK w \in Workers : CommitRanking(w)
    BY <1>1
  <2>2. ranking[cycle[w].slot] \subseteq cycle[w].covered
    BY <2>1 DEF Inv, Rankings, CommitRanking
  <2>3. ranking' = [ranking EXCEPT ![cycle[w].slot] = cycle[w].covered]
    BY <2>1 DEF CommitRanking
  <2> QED
    BY <2>2, <2>3 DEF Inv, TypeOK
<1>2. CASE ~ \E w \in Workers : CommitRanking(w)
  <2>1. ranking' = ranking
    BY <1>2 DEF Next, Step, Tick, Start, Crash, Retry, SkipSource, TakeSource, FinishSource, SourceRaises,
                NoConnection, SkipBackfill, TakeBackfill, FinishBackfill, BackfillRaises, LockRanking,
                ComputeRanking, RankingFails, vars, durable
  <2> QED
    BY <2>1
<1> QED
  BY <1>1, <1>2

\* Whichever cycles replace a slot's ranking, and in whatever order, none of
\* them drops an observation that the slot's ranking covered before.
THEOREM RankingsGrow == Spec => RankingNeverLoses
<1>1. Inv /\ [Next]_vars => [\A t \in Slots : ranking[t] \subseteq ranking'[t]]_vars
  BY Grows
<1> QED
  BY <1>1, InitInv, NextInv, PTL DEF Spec, RankingNeverLoses

\* A slot's ledger never loses a job, and the backfill's record stays as its
\* one writer left it.
LEMMA LedgerGrows ==
    Inv /\ [Next]_vars => \A t \in Slots :
        ledger[t] \subseteq ledger'[t] /\ (BackfillJob \in ledger[t] => recorded'[t] = recorded[t])
<1> SUFFICES ASSUME Inv, [Next]_vars, NEW t \in Slots
             PROVE  ledger[t] \subseteq ledger'[t] /\ (BackfillJob \in ledger[t] => recorded'[t] = recorded[t])
  OBVIOUS
<1> TypeOK
  BY DEF Inv
<1>1. CASE \E w \in Workers : FinishBackfill(w)
  <2>1. PICK w \in Workers : FinishBackfill(w)
    BY <1>1
  <2>2. BackfillJob \notin ledger[cycle[w].slot]
    BY <2>1 DEF Inv, Backfills, FinishBackfill
  <2>3. ledger[t] \subseteq ledger'[t]
    BY <2>1, Recording DEF FinishBackfill, Jobs
  <2>4. t # cycle[w].slot => recorded'[t] = recorded[t]
    BY <2>1 DEF FinishBackfill, TypeOK
  <2> QED
    BY <2>2, <2>3, <2>4
<1>2. CASE \E w \in Workers, s \in Sources : FinishSource(w, s)
  <2>1. PICK w \in Workers, s \in Sources : FinishSource(w, s)
    BY <1>2
  <2> QED
    BY <2>1, Recording DEF FinishSource, Jobs
<1>3. CASE ~ (\E w \in Workers : FinishBackfill(w)) /\ ~ \E w \in Workers, s \in Sources : FinishSource(w, s)
  <2>1. ledger' = ledger /\ recorded' = recorded
    BY <1>3 DEF Next, Step, Tick, Start, Crash, Retry, SkipSource, TakeSource, SourceRaises,
                NoConnection, SkipBackfill, TakeBackfill, BackfillRaises, LockRanking, ComputeRanking,
                CommitRanking, RankingFails, vars, durable
  <2> QED
    BY <2>1
<1> QED
  BY <1>1, <1>2, <1>3

\* What a worker can come to report.
LEMMA Reporting ==
    ASSUME Inv, [Next]_vars, NEW w \in Workers, report'[w].status = "succeeded"
    PROVE  report'[w] = report[w] \/ CommitRanking(w)
<1> USE DEF Inv
<1> DEFINE Raises(v) == \E left \in SUBSET Sources : End(v, "raised", left)
<1>1. ASSUME NEW v \in Workers, RetryOrRaise(v) \/ Raises(v) PROVE report'[w] = report[w]
  <2>1. UNCHANGED report \/ \E left : End(v, "raised", left)
    BY <1>1 DEF RetryOrRaise
  <2>2. ASSUME NEW left, End(v, "raised", left) PROVE report'[w] = report[w]
    BY <2>2 DEF End, TypeOK
  <2> QED
    BY <2>1, <2>2
<1>2. ASSUME NEW v \in Workers, Start(v) PROVE report'[w] = report[w]
  BY <1>2 DEF Start, TypeOK, NoReport
<1>3. ASSUME NEW v \in Workers, CommitRanking(v) PROVE report'[w] = report[w] \/ CommitRanking(w)
  BY <1>3 DEF CommitRanking, End, TypeOK
<1>4. ASSUME NEW v \in Workers, NEW s \in Sources,
             SkipSource(v, s) \/ TakeSource(v, s) \/ FinishSource(v, s) \/ SourceRaises(v, s)
      PROVE  report'[w] = report[w]
  <2>1. CASE SourceRaises(v, s)
    <3>1. End(v, "raised", cycle[v].todo \ {s}) /\ cycle[v].todo \ {s} \in SUBSET Sources
      BY <2>1, Records DEF SourceRaises, Cycles
    <3> QED
      BY <1>1, <3>1
  <2> QED
    BY <1>4, <2>1 DEF SkipSource, TakeSource, FinishSource
<1>5. ASSUME NEW v \in Workers, NoConnection(v) \/ BackfillRaises(v) \/ RankingFails(v)
      PROVE  report'[w] = report[w]
  BY <1>1, <1>5 DEF NoConnection, BackfillRaises, RankingFails
<1>6. ASSUME NEW v \in Workers,
             \/ Retry(v) \/ Crash(v) \/ SkipBackfill(v) \/ TakeBackfill(v) \/ FinishBackfill(v)
             \/ LockRanking(v) \/ ComputeRanking(v)
      PROVE  report'[w] = report[w]
  BY <1>6 DEF Retry, Crash, SkipBackfill, TakeBackfill, FinishBackfill, LockRanking, ComputeRanking
<1>7. ASSUME Tick \/ UNCHANGED vars PROVE report'[w] = report[w]
  BY <1>7 DEF Tick, vars
<1> QED
  BY <1>2, <1>3, <1>4, <1>5, <1>6, <1>7 DEF Next, Step

\* A cycle that reports success leaves a slot whose sources are all stored,
\* whose backfill named no failed source, and whose published ranking covers
\* it; and no later cycle of the slot undoes any of that.
THEOREM SucceededIsComplete == Spec => []SucceededCycleIsComplete
<1> DEFINE Succ == SucceededCycleIsComplete
<1>1. Init => Succ
  BY DEF Init, SucceededCycleIsComplete, NoReport
<1>2. Inv /\ Succ /\ [Next]_vars => Succ'
  <2> SUFFICES ASSUME Inv, Succ, [Next]_vars, NEW w \in Workers, report'[w].status = "succeeded"
               PROVE  /\ ledger'[report'[w].slot] = Jobs /\ ~ recorded'[report'[w].slot]
                      /\ {report'[w].slot} \X Sources \subseteq ranking'[report'[w].slot]
    BY DEF SucceededCycleIsComplete
  <2> USE DEF Inv
  <2>1. Inv' /\ report'[w].slot \in Slots /\ ledger'[report'[w].slot] \subseteq Jobs
    <3>1. Inv'
      BY NextInv
    <3> QED
      BY <3>1 DEF TypeOK, Reports
  <2>2. BackfillJob \in Jobs
    BY DEF Jobs
  <2>3. CASE report'[w] = report[w]
    <3>1. ledger[report[w].slot] = Jobs /\ ~ recorded[report[w].slot]
          /\ {report[w].slot} \X Sources \subseteq ranking[report[w].slot]
      BY <2>3 DEF SucceededCycleIsComplete
    <3> QED
      BY <2>1, <2>2, <2>3, <3>1, LedgerGrows, Grows
  <2>4. CASE CommitRanking(w)
    <3>1. report'[w].slot = cycle[w].slot /\ CycleStatus(w) = "succeeded"
      BY <2>4 DEF CommitRanking, End, TypeOK
    <3>2. cycle[w].ok = Sources /\ ~ cycle[w].failed
      BY <3>1 DEF CycleStatus
    <3>3. pc[w] = "committing" /\ cycle[w].slot \in Slots
      BY <2>4, Records DEF CommitRanking
    <3>4. BackfillJob \in ledger[cycle[w].slot] /\ ~ recorded[cycle[w].slot] /\ Sources \subseteq ledger[cycle[w].slot]
      BY <3>2, <3>3 DEF Backfills, Known
    <3>5. {cycle[w].slot} \X Sources \subseteq cycle[w].covered
      BY <3>2, <3>3 DEF Rankings
    <3>6. ranking'[cycle[w].slot] = cycle[w].covered /\ ledger' = ledger /\ recorded' = recorded
      BY <2>4, <3>3 DEF CommitRanking, TypeOK
    <3> QED
      BY <2>1, <3>1, <3>4, <3>5, <3>6 DEF Jobs
  <2> QED
    BY <2>3, <2>4, Reporting
<1>3. Inv /\ Succ => SucceededCycleIsComplete
  OBVIOUS
<1> QED
  BY <1>1, <1>2, <1>3, InitInv, NextInv, PTL DEF Spec
-----------------------------------------------------------------------------
(* Jobs *)

\* A worker that fetches holds the source's lock, and the source has not
\* succeeded at the slot.
Fetches == \A w \in Workers, s \in Sources :
    pc[w] = "fetching" /\ Visits(w, s) =>
        holder[cycle[w].slot][s] = w /\ s \notin ledger[cycle[w].slot]

\* What a step of w may do to a job at a slot: nothing, take it, or end it.
Moves(w) == \A t \in Slots, j \in Jobs :
    \/ holder'[t][j] = holder[t][j] /\ (j \in ledger'[t] <=> j \in ledger[t])
    \/ holder[t][j] = Nobody /\ holder'[t][j] = w /\ j \notin ledger[t] /\ j \notin ledger'[t]
    \/ holder[t][j] = w /\ holder'[t][j] = Nobody

LEMMA TakingMoves ==
    ASSUME TypeOK, NEW w \in Workers, NEW job \in Jobs, Take(w, job), Free(w, job), ~ Succeeded(w, job), ledger' = ledger
    PROVE  Moves(w) /\ holder'[cycle[w].slot][job] = w
<1>1. cycle[w].slot \in Slots
  BY Records
<1> QED
  BY <1>1 DEF Moves, Take, Free, Succeeded, TypeOK

LEMMA EndingMoves ==
    ASSUME TypeOK, NEW w \in Workers, NEW job \in Jobs, GiveUp(w, job), holder[cycle[w].slot][job] = w,
           \/ ledger' = ledger
           \/ ledger' = [ledger EXCEPT ![cycle[w].slot] = @ \cup {job}]
    PROVE  Moves(w)
<1>1. cycle[w].slot \in Slots
  BY Records
<1>2. \A t \in Slots, j \in Jobs : t # cycle[w].slot \/ j # job =>
        holder'[t][j] = holder[t][j] /\ (j \in ledger'[t] <=> j \in ledger[t])
  BY <1>1 DEF GiveUp, TypeOK
<1>3. holder'[cycle[w].slot][job] = Nobody
  BY <1>1 DEF GiveUp, TypeOK
<1> QED
  BY <1>2, <1>3 DEF Moves

LEMMA SourceMoves ==
    ASSUME Inv, Fetches, NEW w \in Workers, NEW s \in Sources,
           SkipSource(w, s) \/ TakeSource(w, s) \/ FinishSource(w, s) \/ SourceRaises(w, s)
    PROVE  Moves(w)
<1>1. TypeOK /\ s \in Jobs
  BY DEF Inv, Jobs
<1>2. CASE SkipSource(w, s)
  BY <1>2 DEF SkipSource, Moves, durable, locks
<1>3. CASE TakeSource(w, s)
  BY <1>1, <1>3, TakingMoves DEF TakeSource, durable
<1>4. CASE FinishSource(w, s)
  BY <1>1, <1>4, EndingMoves DEF FinishSource, Fetches
<1>5. CASE SourceRaises(w, s)
  BY <1>1, <1>5, EndingMoves DEF SourceRaises, Fetches, durable
<1> QED
  BY <1>2, <1>3, <1>4, <1>5

LEMMA WorkerMoves ==
    ASSUME Inv, Fetches, NEW w \in Workers, Start(w) \/ Step(w) \/ Crash(w)
    PROVE  Moves(w)
<1>1. TypeOK /\ BackfillJob \in Jobs
  BY DEF Inv, Jobs
<1>2. CASE Crash(w)
  BY <1>2 DEF Crash, Moves, durable
<1>3. CASE TakeBackfill(w)
  BY <1>1, <1>3, TakingMoves DEF TakeBackfill, durable
<1>4. CASE FinishBackfill(w)
  BY <1>1, <1>4, EndingMoves DEF FinishBackfill, Inv, Backfills
<1>5. CASE BackfillRaises(w)
  BY <1>1, <1>5, EndingMoves DEF BackfillRaises, Inv, Backfills, durable
<1>6. CASE \/ Start(w) \/ Retry(w) \/ NoConnection(w) \/ SkipBackfill(w)
           \/ LockRanking(w) \/ ComputeRanking(w) \/ CommitRanking(w) \/ RankingFails(w)
  <2>1. holder' = holder /\ ledger' = ledger
    BY <1>6 DEF Start, Retry, NoConnection, SkipBackfill, LockRanking, ComputeRanking, CommitRanking,
                RankingFails, durable, locks
  <2> QED
    BY <2>1 DEF Moves
<1>7. CASE \E s \in Sources : SkipSource(w, s) \/ TakeSource(w, s) \/ FinishSource(w, s) \/ SourceRaises(w, s)
  BY <1>7, SourceMoves
<1> QED
  BY <1>2, <1>3, <1>4, <1>5, <1>6, <1>7 DEF Step

\* Only its own steps change where a worker is, and only TakeSource begins a fetch.
LEMMA WorkerGoes ==
    ASSUME Inv, NEW w \in Workers, Start(w) \/ Step(w) \/ Crash(w)
    PROVE  /\ \A v \in Workers \ {w} : pc'[v] = pc[v] /\ cycle'[v] = cycle[v]
           /\ pc'[w] = "fetching" => \E s \in Sources : TakeSource(w, s)
<1> USE DEF Inv, TypeOK, Goto, Set, End, RetryOrRaise
<1>1. CASE Start(w) \/ Retry(w) \/ Crash(w)
  BY <1>1 DEF Start, Retry, Crash
<1>2. CASE NoConnection(w) \/ BackfillRaises(w) \/ RankingFails(w)
  BY <1>2 DEF NoConnection, BackfillRaises, RankingFails
<1>3. CASE SkipBackfill(w) \/ TakeBackfill(w) \/ FinishBackfill(w)
  BY <1>3 DEF SkipBackfill, TakeBackfill, FinishBackfill
<1>4. CASE LockRanking(w) \/ ComputeRanking(w) \/ CommitRanking(w)
  BY <1>4 DEF LockRanking, ComputeRanking, CommitRanking
<1>5. ASSUME NEW s \in Sources, SkipSource(w, s) \/ TakeSource(w, s) \/ FinishSource(w, s) \/ SourceRaises(w, s)
      PROVE  /\ \A v \in Workers \ {w} : pc'[v] = pc[v] /\ cycle'[v] = cycle[v]
             /\ pc'[w] = "fetching" => TakeSource(w, s)
  BY <1>5 DEF SkipSource, TakeSource, FinishSource, SourceRaises, Visited, VisitedOk
<1> QED
  BY <1>1, <1>2, <1>3, <1>4, <1>5 DEF Step

LEMMA FetchesStep == Inv /\ Fetches /\ [Next]_vars => Fetches'
<1> SUFFICES ASSUME Inv, Fetches, [Next]_vars PROVE Fetches'
  OBVIOUS
<1>1. CASE Tick \/ UNCHANGED vars
  BY <1>1 DEF Tick, vars, durable, locks, Fetches, Visits
<1>2. ASSUME NEW w \in Workers, Start(w) \/ Step(w) \/ Crash(w) PROVE Fetches'
  <2> SUFFICES ASSUME NEW v \in Workers, NEW s \in Sources, pc'[v] = "fetching", Visits(v, s)'
               PROVE  holder'[cycle'[v].slot][s] = v /\ s \notin ledger'[cycle'[v].slot]
    BY DEF Fetches
  <2>1. CASE v # w
    <3>1. pc[v] = "fetching" /\ cycle'[v] = cycle[v] /\ Visits(v, s)
      BY <1>2, <2>1, WorkerGoes DEF Visits
    <3>2. holder[cycle[v].slot][s] = v /\ s \notin ledger[cycle[v].slot]
      BY <3>1 DEF Fetches
    <3>3. cycle[v].slot \in Slots /\ s \in Jobs
      BY Records DEF Inv, Jobs
    <3> QED
      BY <1>2, <2>1, <3>1, <3>2, <3>3, WorkerMoves, NobodyAssumption DEF Moves
  <2>2. CASE v = w
    <3>1. PICK q \in Sources : TakeSource(w, q)
      BY <1>2, <2>2, WorkerGoes
    <3>2. cycle' = cycle /\ ledger' = ledger
      BY <3>1 DEF TakeSource, durable
    <3>3. q = s
      BY <2>2, <3>1, <3>2, SourcesAssumption DEF TakeSource, Visits
    <3>4. holder'[cycle[w].slot][q] = w
      BY <3>1, <3>2, TakingMoves DEF TakeSource, Inv, Jobs
    <3>5. q \notin ledger[cycle[w].slot]
      BY <3>1 DEF TakeSource, Succeeded
    <3> QED
      BY <2>2, <3>2, <3>3, <3>4, <3>5
  <2> QED
    BY <2>1, <2>2
<1> QED
  BY <1>1, <1>2 DEF Next

LEMMA JobStep ==
    ASSUME Inv, Fetches, [Next]_vars, NEW t \in Slots, NEW j \in Jobs
    PROVE  [Outcome(t, j)!OutcomeNext]_(Outcome(t, j)!outcomeVars)
<1> USE DEF Outcome!OutcomeNext, Outcome!outcomeVars, Outcome!Execute, Outcome!Conclude
<1>1. CASE Tick \/ UNCHANGED vars
  BY <1>1 DEF Tick, vars, durable, locks
<1>2. ASSUME NEW w \in Workers, Start(w) \/ Step(w) \/ Crash(w)
      PROVE  [Outcome(t, j)!OutcomeNext]_(Outcome(t, j)!outcomeVars)
  <2>1. Moves(w)
    BY <1>2, WorkerMoves
  <2> QED
    BY <2>1, NobodyAssumption DEF Moves
<1> QED
  BY <1>1, <1>2 DEF Next

\* Whichever cycles visit a slot, each of its jobs is executed by one worker at a
\* time and never again once it has succeeded.
THEOREM RefinesJobOutcome == Spec => ImplementsJobOutcomes
<1> DEFINE JobSteps == \A t \in Slots, j \in Jobs : [Outcome(t, j)!OutcomeNext]_(Outcome(t, j)!outcomeVars)
           Begun == \A t \in Slots, j \in Jobs : Outcome(t, j)!OutcomeInit
<1>1. Init => Fetches /\ Begun
  BY DEF Init, Fetches, Outcome!OutcomeInit
<1>2. Inv /\ Fetches /\ [Next]_vars => [JobSteps]_vars
  BY JobStep
<1>3. ImplementsJobOutcomes <=> Begun /\ [][JobSteps]_vars
  BY DEF ImplementsJobOutcomes
<1> HIDE DEF JobSteps, Begun
<1> QED
  BY <1>1, <1>2, <1>3, InitInv, NextInv, FetchesStep, PTL DEF Spec
=============================================================================
