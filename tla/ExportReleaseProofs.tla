-------------------------- MODULE ExportReleaseProofs --------------------------
(***************************************************************************)
(* ExportRelease for every set of runs, every number of releases to keep   *)
(* and every age of leases.                                                *)
(*                                                                         *)
(* The argument: a run's second call follows the end of its first, and its *)
(* copy (Calls); one helper at a time works on the shared files, so what a *)
(* prune has chosen neither gets a lease nor becomes the latest before it  *)
(* is removed, and the latest release stays whole (Lockstep).              *)
(*                                                                         *)
(* OnlySpareReleasesGo needs more.  A prune counts directories, and those  *)
(* of an earlier prune that was killed may be torn.  But each torn or      *)
(* chosen release has as many newer ones as have to be kept that are       *)
(* neither torn nor chosen (Spared): the newest of the torn and chosen has *)
(* only such releases among its newer ones, and those are newer than all   *)
(* the others too.  The set of runs may have no end.                       *)
(***************************************************************************)
EXTENDS ExportRelease, FiniteSetTheorems, TLAPS

\* The order of what one run does.
Calls == \A r \in Runs :
    /\ client[r] = "none" => exporting[r] = "none" /\ pruning[r] = "none" /\ copy[r] = "none"
    /\ client[r] \in {"check", "prune", "unsure", "done"} => exporting[r] = "ended"
    /\ pruning[r] # "none" => exporting[r] = "ended"
    /\ client[r] = "export" => pruning[r] = "none"
    /\ client[r] = "check" => pruning[r] = "none"
    /\ client[r] \in {"prune", "unsure", "done"} => copy[r] = "whole"
    /\ pruning[r] = "ended" => lease[r] = None
    /\ client[r] = "done" => lease[r] = None

Holds(r) == exporting[r] \in {"moved", "leased"} \/ pruning[r] = "removing"

LatestIsWhole == latest # None => release[latest] = "whole"

\* What the lock protects.
Lockstep ==
    /\ \A q, r \in Runs : Holds(q) /\ Holds(r) => q = r
    /\ \A q, r \in Runs : q \in victims[r] => pruning[r] = "removing" /\ lease[q] = None /\ latest # q
    /\ \A r \in Runs : exporting[r] \in {"moved", "leased"} => release[r] = "whole"
    /\ \A r \in Runs : exporting[r] = "ended" => latest # None
    /\ LatestIsWhole

Inv == TypeOK /\ Calls /\ Lockstep

-----------------------------------------------------------------------------

LEMMA InitInv == Init => Inv
BY ExportAssumption DEF Init, Inv, TypeOK, Times, Calls, Lockstep, Holds, LatestIsWhole

\* Every action keeps the types, and a prune begins only when nobody holds the lock.
LEMMA StepTypeOK == TypeOK /\ Calls /\ [Next]_vars => TypeOK'
<1> SUFFICES ASSUME TypeOK, Calls, [Next]_vars PROVE TypeOK'
  OBVIOUS
<1> USE DEF TypeOK, Times
<1>1. CASE UNCHANGED vars
  BY <1>1 DEF vars, server
<1>2. ASSUME NEW r \in Runs, Start(r) PROVE TypeOK'
  BY <1>2 DEF Start, server
<1>3. ASSUME NEW r \in Runs, Move(r) PROVE TypeOK'
  BY <1>3 DEF Move, server
<1>4. ASSUME NEW r \in Runs, Lease(r) PROVE TypeOK'
  BY <1>4 DEF Lease, server
<1>5. ASSUME NEW r \in Runs, Link(r) PROVE TypeOK'
  BY <1>5 DEF Link, server
<1>6. ASSUME NEW r \in Runs, BeginPrune(r) PROVE TypeOK'
  <2>1. PICK target \in Directories : latest' = target /\ victims' = [victims EXCEPT ![r] = Spare(r, target)]
    BY <1>6 DEF BeginPrune
  <2>2. latest' \in Runs /\ victims' \in [Runs -> SUBSET Runs]
    BY <2>1 DEF Directories, Spare
  <2>3. lease' \in [Runs -> Times \cup {None}]
    BY <1>6 DEF BeginPrune
  <2>4. \A q \in Runs : pruning[q] # "removing"
    BY <1>6 DEF BeginPrune, Locked
  <2>5. pruning' = [pruning EXCEPT ![r] = "removing"]
    BY <1>6 DEF BeginPrune
  <2> QED
    BY <1>6, <2>1, <2>2, <2>3, <2>4, <2>5 DEF BeginPrune, server
<1>7. ASSUME NEW r \in Runs, RefusePrune(r) PROVE TypeOK'
  BY <1>7 DEF RefusePrune, server
<1>8. ASSUME NEW r \in Runs, Remove(r) PROVE TypeOK'
  BY <1>8 DEF Remove, server
<1>9. ASSUME NEW r \in Runs, EndPrune(r) PROVE TypeOK'
  BY <1>9 DEF EndPrune, server
<1>10. ASSUME NEW r \in Runs, HelperDies(r) PROVE TypeOK'
  BY <1>10 DEF HelperDies, server
<1>11. ASSUME NEW r \in Runs, Copy(r) PROVE TypeOK'
  BY <1>11 DEF Copy, server, Goes
<1>12. ASSUME NEW r \in Runs, EndCopy(r) PROVE TypeOK'
  BY <1>12 DEF EndCopy, server
<1>13. ASSUME NEW r \in Runs, CallPrune(r) PROVE TypeOK'
  BY <1>13 DEF CallPrune, server, Goes, Checked, Calls
<1>14. ASSUME NEW r \in Runs, TimeOut(r) PROVE TypeOK'
  BY <1>14 DEF TimeOut, server, Goes
<1>15. ASSUME NEW r \in Runs, Finish(r) PROVE TypeOK'
  BY <1>15 DEF Finish, server, Goes
<1>16. ASSUME NEW r \in Runs, ClientEnds(r) PROVE TypeOK'
  BY <1>16 DEF ClientEnds, server
<1>17. CASE Tick
  BY <1>17, ExportAssumption DEF Tick, server
<1> QED
  BY <1>1, <1>2, <1>3, <1>4, <1>5, <1>6, <1>7, <1>8, <1>9, <1>10, <1>11, <1>12, <1>13, <1>14, <1>15, <1>16, <1>17 DEF Next

\* No action disturbs the order of the two calls of a run.
LEMMA StepCalls == TypeOK /\ Calls /\ [Next]_vars => Calls'
<1> SUFFICES ASSUME TypeOK, Calls, [Next]_vars PROVE Calls'
  OBVIOUS
<1> USE DEF TypeOK, Calls
<1>1. CASE UNCHANGED vars
  BY <1>1 DEF vars, server
<1>2. ASSUME NEW r \in Runs, Start(r) PROVE Calls'
  BY <1>2 DEF Start, server
<1>3. ASSUME NEW r \in Runs, Move(r) PROVE Calls'
  BY <1>3 DEF Move, server
<1>4. ASSUME NEW r \in Runs, Lease(r) PROVE Calls'
  BY <1>4 DEF Lease, server
<1>5. ASSUME NEW r \in Runs, Link(r) PROVE Calls'
  BY <1>5 DEF Link, server
<1>6. ASSUME NEW r \in Runs, BeginPrune(r) PROVE Calls'
  BY <1>6 DEF BeginPrune, server, Locked, Directories, Fresh, Spare
<1>7. ASSUME NEW r \in Runs, RefusePrune(r) PROVE Calls'
  BY <1>7 DEF RefusePrune, server
<1>8. ASSUME NEW r \in Runs, Remove(r) PROVE Calls'
  BY <1>8 DEF Remove, server
<1>9. ASSUME NEW r \in Runs, EndPrune(r) PROVE Calls'
  BY <1>9 DEF EndPrune, server
<1>10. ASSUME NEW r \in Runs, HelperDies(r) PROVE Calls'
  BY <1>10 DEF HelperDies, server
<1>11. ASSUME NEW r \in Runs, Copy(r) PROVE Calls'
  BY <1>11 DEF Copy, server, Goes
<1>12. ASSUME NEW r \in Runs, EndCopy(r) PROVE Calls'
  BY <1>12 DEF EndCopy, server
<1>13. ASSUME NEW r \in Runs, CallPrune(r) PROVE Calls'
  BY <1>13 DEF CallPrune, server, Goes, Checked
<1>14. ASSUME NEW r \in Runs, TimeOut(r) PROVE Calls'
  BY <1>14 DEF TimeOut, server, Goes
<1>15. ASSUME NEW r \in Runs, Finish(r) PROVE Calls'
  BY <1>15 DEF Finish, server, Goes, CompletedState
<1>16. ASSUME NEW r \in Runs, ClientEnds(r) PROVE Calls'
  BY <1>16 DEF ClientEnds, server
<1>17. CASE Tick
  BY <1>17 DEF Tick, server
<1> QED
  BY <1>1, <1>2, <1>3, <1>4, <1>5, <1>6, <1>7, <1>8, <1>9, <1>10, <1>11, <1>12, <1>13, <1>14, <1>15, <1>16, <1>17 DEF Next

\* A helper takes the lock only when it is free, and holds it while it works on the shared files.
LEMMA StepLockstep == TypeOK /\ Calls /\ Lockstep /\ [Next]_vars => Lockstep'
<1> SUFFICES ASSUME TypeOK, Calls, Lockstep, [Next]_vars PROVE Lockstep'
  OBVIOUS
<1> USE DEF TypeOK, Calls, Lockstep, Holds, LatestIsWhole
<1>1. CASE UNCHANGED vars
  BY <1>1 DEF vars, server
<1>2. ASSUME NEW r \in Runs, Start(r) PROVE Lockstep'
  BY <1>2 DEF Start, server
<1>3. ASSUME NEW r \in Runs, Move(r) PROVE Lockstep'
  BY <1>3 DEF Move, server, Locked
<1>4. ASSUME NEW r \in Runs, Lease(r) PROVE Lockstep'
  BY <1>4 DEF Lease, server
<1>5. ASSUME NEW r \in Runs, Link(r) PROVE Lockstep'
  <2>1. r # None
    BY ExportAssumption
  <2>2. \A q \in Runs : r \notin victims[q]
    BY <1>5 DEF Link
  <2> QED
    BY <1>5, <2>1, <2>2 DEF Link, server
<1>6. ASSUME NEW r \in Runs, BeginPrune(r) PROVE Lockstep'
  <2>1. PICK target \in Directories :
            (latest \in Directories => target = latest) /\ latest' = target /\ victims' = [victims EXCEPT ![r] = Spare(r, target)]
    BY <1>6 DEF BeginPrune
  <2>2. latest # None /\ latest \in Directories
    BY <1>6 DEF BeginPrune, Directories
  <2>3. latest' = latest
    BY <2>1, <2>2
  <2>4. \A q \in Runs : ~Holds(q)
    BY <1>6 DEF BeginPrune, Locked
  <2>5. \A q \in Runs : victims[q] = {}
    BY <2>4
  <2>6. \A q \in victims'[r] : lease'[q] = None /\ latest # q
    BY <1>6, <2>1, <2>2 DEF BeginPrune, Spare, Directories
  <2>7. /\ \A q \in Runs : q # r => victims'[q] = {} /\ pruning'[q] = pruning[q]
        /\ pruning'[r] = "removing" /\ release' = release /\ exporting' = exporting
    BY <1>6, <2>1, <2>5 DEF BeginPrune
  <2>8. \A q, p \in Runs : q \in victims'[p] => pruning'[p] = "removing" /\ lease'[q] = None /\ latest' # q
    BY <2>3, <2>6, <2>7
  <2>9. \A q, p \in Runs : Holds(q)' /\ Holds(p)' => q = p
    BY <2>4, <2>7
  <2> QED
    BY <2>2, <2>3, <2>7, <2>8, <2>9
<1>7. ASSUME NEW r \in Runs, RefusePrune(r) PROVE Lockstep'
  BY <1>7 DEF RefusePrune, server
<1>8. ASSUME NEW r \in Runs, Remove(r) PROVE Lockstep'
  BY <1>8 DEF Remove, server
<1>9. ASSUME NEW r \in Runs, EndPrune(r) PROVE Lockstep'
  BY <1>9 DEF EndPrune, server
<1>10. ASSUME NEW r \in Runs, HelperDies(r) PROVE Lockstep'
  BY <1>10 DEF HelperDies, server
<1>11. ASSUME NEW r \in Runs, Copy(r) PROVE Lockstep'
  BY <1>11 DEF Copy, server, Goes
<1>12. ASSUME NEW r \in Runs, EndCopy(r) PROVE Lockstep'
  BY <1>12 DEF EndCopy, server
<1>13. ASSUME NEW r \in Runs, CallPrune(r) PROVE Lockstep'
  BY <1>13 DEF CallPrune, server, Goes, Checked
<1>14. ASSUME NEW r \in Runs, TimeOut(r) PROVE Lockstep'
  BY <1>14 DEF TimeOut, server, Goes
<1>15. ASSUME NEW r \in Runs, Finish(r) PROVE Lockstep'
  BY <1>15 DEF Finish, server, Goes
<1>16. ASSUME NEW r \in Runs, ClientEnds(r) PROVE Lockstep'
  BY <1>16 DEF ClientEnds, server
<1>17. CASE Tick
  BY <1>17 DEF Tick, server
<1> QED
  BY <1>1, <1>2, <1>3, <1>4, <1>5, <1>6, <1>7, <1>8, <1>9, <1>10, <1>11, <1>12, <1>13, <1>14, <1>15, <1>16, <1>17 DEF Next

LEMMA StepInv == Inv /\ [Next]_vars => Inv'
BY StepTypeOK, StepCalls, StepLockstep DEF Inv

LEMMA Invariance == Spec => []Inv
BY InitInv, StepInv, PTL DEF Spec

-----------------------------------------------------------------------------
(* Theorems *)

\* The helpers exclude each other, and only the one that holds the lock removes.
THEOREM TypeCorrect == Spec => []TypeOK
<1>1. Inv => TypeOK
  BY DEF Inv
<1> QED
  BY <1>1, Invariance, PTL

\* An archive is a whole copy, and its run has no lease left.
THEOREM FinishedWhole == Spec => []FinishedRunIsWhole
<1>1. Inv => FinishedRunIsWhole
  BY DEF Inv, Calls, FinishedRunIsWhole
<1> QED
  BY <1>1, Invariance, PTL

\* latest-download names a whole release, whichever helpers were killed.
THEOREM LatestWhole == Spec => []LatestIsWhole
<1>1. Inv => LatestIsWhole
  BY DEF Inv, Lockstep
<1> QED
  BY <1>1, Invariance, PTL

-----------------------------------------------------------------------------
(* Releases that nobody misses *)

Kept == {p \in Runs : release[p] = "whole" /\ \A r \in Runs : p \notin victims[r]}
Doomed == {q \in Runs : release[q] = "torn" \/ \E r \in Runs : q \in victims[r]}
NewerThan(S, q) == {p \in S : Newer(p, q)}

Spared == \A q \in Doomed : Cardinality(NewerThan(Kept, q)) >= RELEASE_KEEP_COUNT

\* Every release has its name, and there are finitely many.
Named ==
    /\ IsFiniteSet(Directories)
    /\ \A r \in Runs : exporting[r] = "staging" \/ release[r] # "none" => named[r] \in Times
    /\ \A r \in Runs : exporting[r] \in {"none", "staging"} => release[r] = "none"
    /\ \A r \in Runs : victims[r] \subseteq Directories

SafeInv == Inv /\ Named /\ Spared

-----------------------------------------------------------------------------
(* The newest release of a set *)

LEMMA NewerIsTotal ==
    ASSUME NEW p \in Runs, NEW q \in Runs, named[p] \in Times, named[q] \in Times, p # q
    PROVE  Newer(p, q) \/ Newer(q, p)
BY ExportAssumption DEF Newer, Times

LEMMA NewerIsTransitive ==
    ASSUME NEW p \in Runs, NEW q \in Runs, NEW r \in Runs,
           named[p] \in Times, named[q] \in Times, named[r] \in Times, Newer(p, q), Newer(q, r)
    PROVE  Newer(p, r) /\ p # q
BY ExportAssumption DEF Newer, Times

\* A finite set of named releases has a newest one.
LEMMA Newest ==
    ASSUME NEW S \in SUBSET Runs, IsFiniteSet(S), S # {}, \A q \in S : named[q] \in Times
    PROVE  \E x \in S : \A y \in S : ~Newer(y, x)
<1> DEFINE above(q) == NewerThan(S, q)
           sizes == {Cardinality(above(q)) : q \in S}
<1>1. \A q \in S : IsFiniteSet(above(q)) /\ Cardinality(above(q)) \in Nat
  <2> TAKE q \in S
  <2>1. above(q) \in SUBSET S
    BY DEF NewerThan
  <2> QED
    BY <2>1, FS_Subset, FS_CardinalityType
<1>2. PICK least \in sizes : \A n \in sizes : ~(n < least)
  <2>1. sizes \subseteq Nat /\ sizes # {}
    BY <1>1
  <2>2. PICK least \in sizes : \A n \in sizes : <<n, least>> \notin OpToRel(<, Nat)
    <3> HIDE DEF sizes
    <3> QED
      BY <2>1, NatLessThanWellFounded, WFMin
  <2> HIDE DEF sizes
  <2> QED
    BY <2>1, <2>2 DEF OpToRel
<1>3. PICK x \in S : least = Cardinality(above(x))
  OBVIOUS
<1>4. ASSUME NEW y \in S, Newer(y, x) PROVE FALSE
  <2>1. above(y) \in SUBSET above(x)
    BY <1>4, NewerIsTransitive DEF NewerThan
  <2>2. y \in above(x) /\ y \notin above(y)
    BY <1>4, ExportAssumption DEF NewerThan, Newer, Times
  <2>3. Cardinality(above(y)) < Cardinality(above(x))
    <3> HIDE DEF above
    <3> QED
      BY <1>1, <2>1, <2>2, FS_Subset
  <2> QED
    BY <1>2, <1>3, <2>3
<1> QED
  BY <1>4

-----------------------------------------------------------------------------
(* Steps *)

LEMMA InitSafe == Init => SafeInv
<1> SUFFICES ASSUME Init PROVE SafeInv
  OBVIOUS
<1>1. Directories = {} /\ Doomed = {}
  BY DEF Init, Directories, Doomed
<1>2. IsFiniteSet(Directories)
  BY <1>1, FS_EmptySet
<1>3. Named
  BY <1>2 DEF Init, Named
<1> QED
  BY <1>1, <1>3, InitInv DEF SafeInv, Spared

\* Every release that is there is kept or doomed.
LEMMA KeptOrDoomed ==
    ASSUME TypeOK, Named
    PROVE  /\ Kept \subseteq Directories /\ Doomed \subseteq Directories
           /\ Directories \ Doomed \subseteq Kept
           /\ IsFiniteSet(Kept) /\ IsFiniteSet(Doomed)
           /\ \A q \in Runs : Cardinality(NewerThan(Kept, q)) \in Nat
<1>1. Kept \subseteq Directories /\ Doomed \subseteq Directories /\ Directories \ Doomed \subseteq Kept
  BY DEF Kept, Doomed, Directories, Named
<1>2. IsFiniteSet(Kept) /\ IsFiniteSet(Doomed)
  BY <1>1, FS_Subset DEF Named
<1>3. ASSUME NEW q \in Runs PROVE Cardinality(NewerThan(Kept, q)) \in Nat
  <2>1. NewerThan(Kept, q) \in SUBSET Kept
    BY DEF NewerThan
  <2> QED
    BY <1>2, <2>1, FS_Subset, FS_CardinalityType
<1> QED
  BY <1>1, <1>2, <1>3

\* More newer releases are no fewer.
LEMMA NewerGrow ==
    ASSUME NEW S, NEW T, IsFiniteSet(T), NEW n \in Nat, S \subseteq T, Cardinality(S) >= n
    PROVE  Cardinality(T) >= n
<1>1. Cardinality(S) <= Cardinality(T) /\ IsFiniteSet(S)
  BY FS_Subset
<1>2. Cardinality(S) \in Nat /\ Cardinality(T) \in Nat
  BY <1>1, FS_CardinalityType
<1> QED
  BY <1>1, <1>2

\* A step that dooms nothing more and keeps what was kept preserves Spared.
LEMMA SparedStays ==
    ASSUME TypeOK, Named, Spared, TypeOK', Named',
           Kept \subseteq Kept', Doomed' \subseteq Doomed,
           \A p, q \in Directories : Newer(p, q)' = Newer(p, q)
    PROVE  Spared'
<1> SUFFICES ASSUME NEW q \in Doomed' PROVE Cardinality(NewerThan(Kept, q)') >= RELEASE_KEEP_COUNT
  BY DEF Spared
<1>1. q \in Doomed /\ q \in Directories /\ Kept \subseteq Directories
  BY KeptOrDoomed
<1>2. NewerThan(Kept, q) \subseteq NewerThan(Kept, q)'
  BY <1>1 DEF NewerThan
<1>3. Cardinality(NewerThan(Kept, q)) >= RELEASE_KEEP_COUNT
  BY <1>1 DEF Spared
<1>4. IsFiniteSet(NewerThan(Kept, q)')
  <2>1. NewerThan(Kept, q)' \subseteq Directories'
    BY DEF NewerThan, Kept, Directories
  <2>2. IsFiniteSet(Directories')
    BY DEF Named
  <2> QED
    BY <2>1, <2>2, FS_Subset
<1> QED
  BY <1>2, <1>3, <1>4, NewerGrow, ExportAssumption

\* A release appears under the name it has been given, one at a time.
LEMMA StepNamed == Inv /\ Named /\ [Next]_vars => Named'
<1> SUFFICES ASSUME Inv, Named, [Next]_vars PROVE Named'
  OBVIOUS
<1> USE DEF Inv, TypeOK, Calls, Times
<1> DEFINE Names == \A r \in Runs : exporting[r] = "staging" \/ release[r] # "none" => named[r] \in Times
           Absent == \A r \in Runs : exporting[r] \in {"none", "staging"} => release[r] = "none"
           Chosen == \A r \in Runs : victims[r] \subseteq Directories
<1>1. CASE UNCHANGED <<named, release, exporting, victims>>
  BY <1>1 DEF Named, Directories
<1>2. ASSUME NEW r \in Runs, Start(r) PROVE Named'
  <2>1. Names' /\ Absent'
    BY <1>2, ExportAssumption DEF Start, server, Named
  <2>2. Directories' = Directories /\ Chosen'
    BY <1>2 DEF Start, server, Directories, Named
  <2> QED
    BY <2>1, <2>2 DEF Named
<1>3. ASSUME NEW r \in Runs, Move(r) PROVE Named'
  <2>1. Names' /\ Absent'
    BY <1>3 DEF Move, Named
  <2>2. Directories' = Directories \cup {r} /\ Chosen'
    BY <1>3 DEF Move, Directories, Named
  <2>3. IsFiniteSet(Directories')
    BY <2>2, FS_AddElement DEF Named
  <2> QED
    BY <2>1, <2>2, <2>3 DEF Named
<1>4. ASSUME NEW r \in Runs, Lease(r) \/ Link(r) PROVE Named'
  <2>1. Names' /\ Absent'
    BY <1>4 DEF Lease, Link, Named
  <2>2. Directories' = Directories /\ Chosen'
    BY <1>4 DEF Lease, Link, Directories, Named
  <2> QED
    BY <2>1, <2>2 DEF Named
<1>5. ASSUME NEW r \in Runs, BeginPrune(r) PROVE Named'
  <2>1. Names' /\ Absent'
    BY <1>5 DEF BeginPrune, Named
  <2>2. Directories' = Directories
    BY <1>5 DEF BeginPrune, Directories
  <2>3. PICK target \in Directories : victims' = [victims EXCEPT ![r] = Spare(r, target)]
    BY <1>5 DEF BeginPrune
  <2>4. Spare(r, target) \subseteq Directories
    BY DEF Spare
  <2>5. Chosen'
    BY <2>2, <2>3, <2>4 DEF Named
  <2> QED
    BY <2>1, <2>2, <2>5 DEF Named
<1>6. ASSUME NEW r \in Runs, Remove(r) PROVE Named'
  <2>1. Names' /\ Absent'
    BY <1>6 DEF Remove, Named
  <2>2. PICK q \in victims[r] :
          \/ release[q] = "whole" /\ release' = [release EXCEPT ![q] = "torn"] /\ UNCHANGED victims
          \/ release[q] = "torn" /\ release' = [release EXCEPT ![q] = "none"] /\ victims' = [victims EXCEPT ![r] = @ \ {q}]
    BY <1>6 DEF Remove
  <2>3. \A p \in Runs : q \in victims[p] => p = r
    BY <2>2, <1>6 DEF Remove, Lockstep, Holds
  <2>4. Directories' \in SUBSET Directories /\ Directories \ {q} \subseteq Directories'
    BY <2>2 DEF Directories
  <2>5. Chosen'
    <3>1. CASE release[q] = "whole"
      BY <2>2, <3>1 DEF Directories, Named
    <3>2. CASE release[q] = "torn"
      BY <2>2, <2>3, <2>4, <3>2 DEF Named
    <3> QED
      BY <2>2, <3>1, <3>2
  <2>6. IsFiniteSet(Directories')
    BY <2>4, FS_Subset DEF Named
  <2> QED
    BY <2>1, <2>5, <2>6 DEF Named
<1>7. ASSUME NEW r \in Runs, HelperDies(r) PROVE Named'
  <2>1. Names' /\ Absent'
    BY <1>7 DEF HelperDies, server, Named
  <2>2. Directories' = Directories /\ Chosen'
    BY <1>7 DEF HelperDies, server, Directories, Named
  <2> QED
    BY <2>1, <2>2 DEF Named
<1>8. ASSUME NEW r \in Runs, RefusePrune(r) \/ EndPrune(r) \/ Copy(r) \/ EndCopy(r) \/ CallPrune(r) \/ TimeOut(r) \/ Finish(r) \/ ClientEnds(r)
      PROVE  UNCHANGED <<named, release, exporting, victims>>
  BY <1>8 DEF RefusePrune, EndPrune, Copy, EndCopy, CallPrune, TimeOut, Finish, ClientEnds, server
<1>9. CASE Tick \/ UNCHANGED vars
  BY <1>1, <1>9 DEF Tick, vars, server
<1> QED
  BY <1>1, <1>2, <1>3, <1>4, <1>5, <1>6, <1>7, <1>8, <1>9 DEF Next

\* What a prune chooses has enough newer releases that are whole and not chosen.
LEMMA PruneSpares ==
    ASSUME Inv, Named, Spared, Inv', Named', NEW r \in Runs, BeginPrune(r)
    PROVE  Spared'
<1> USE DEF Inv
<1>1. PICK target \in Directories : victims' = [victims EXCEPT ![r] = Spare(r, target)]
  BY DEF BeginPrune
<1>2. UNCHANGED <<named, release>> /\ Directories' = Directories /\ \A p, q \in Runs : Newer(p, q)' = Newer(p, q)
  BY DEF BeginPrune, Directories, Newer
<1>3. \A q \in Runs : victims[q] = {}
  BY DEF BeginPrune, Locked, TypeOK
<1>4. Doomed = {q \in Runs : release[q] = "torn"} /\ Kept = {q \in Runs : release[q] = "whole"}
  BY <1>3 DEF Doomed, Kept
<1>5. Doomed' = Doomed \cup Spare(r, target) /\ Kept' = Kept \ Spare(r, target)
  <2>1. victims'[r] = Spare(r, target) /\ \A q \in Runs \ {r} : victims'[q] = {}
    BY <1>1, <1>3 DEF TypeOK
  <2> QED
    BY <1>2, <1>4, <2>1 DEF Doomed, Kept, Spare, Directories
<1>6. IsFiniteSet(Directories) /\ \A q \in Directories : q \in Runs /\ named[q] \in Times
  BY DEF Named, Directories
<1>7. \A q \in Runs : /\ IsFiniteSet(NewerThan(Directories, q))
                      /\ NewerThan(Kept, q) \subseteq NewerThan(Directories, q)
  <2> TAKE q \in Runs
  <2>1. NewerThan(Directories, q) \subseteq Directories /\ Kept \subseteq Directories
    BY KeptOrDoomed DEF NewerThan
  <2> QED
    BY <1>6, <2>1, FS_Subset DEF NewerThan
<1>8. \A q \in Doomed' : Cardinality(NewerThan(Directories, q)) >= RELEASE_KEEP_COUNT
  <2> TAKE q \in Doomed'
  <2>1. CASE q \in Doomed
    BY <2>1, <1>4, <1>7, NewerGrow, ExportAssumption DEF Spared
  <2>2. CASE q \in Spare(r, target)
    BY <2>2 DEF Spare, NewerThan
  <2> QED
    BY <1>5, <2>1, <2>2
<1> SUFFICES ASSUME NEW q \in Doomed' PROVE Cardinality(NewerThan(Kept, q)') >= RELEASE_KEEP_COUNT
  BY DEF Spared
<1>9. Doomed' \subseteq Directories /\ IsFiniteSet(Doomed') /\ Directories \ Doomed' \subseteq Kept' /\ IsFiniteSet(Kept')
  BY <1>2, KeptOrDoomed, FS_Subset, <1>4, <1>5, <1>6 DEF Doomed, Directories, Spare
<1>10. PICK x \in Doomed' : \A y \in Doomed' : ~Newer(y, x)
  BY <1>6, <1>9, Newest
<1>11. NewerThan(Directories, x) \subseteq NewerThan(Kept, q)'
  <2> SUFFICES ASSUME NEW p \in Directories, Newer(p, x) PROVE p \in Kept' /\ Newer(p, q)'
    BY DEF NewerThan
  <2>1. p \in Kept'
    BY <1>9, <1>10
  <2>2. x = q \/ Newer(x, q)
    BY <1>6, <1>9, <1>10, NewerIsTotal
  <2>3. Newer(p, q)
    BY <1>6, <1>9, <2>2, NewerIsTransitive
  <2> QED
    BY <1>2, <1>6, <1>9, <2>1, <2>3
<1>12. IsFiniteSet(NewerThan(Kept, q)')
  <2>1. NewerThan(Kept, q)' \subseteq Kept'
    BY DEF NewerThan
  <2> QED
    BY <1>9, <2>1, FS_Subset
<1> QED
  BY <1>8, <1>11, <1>12, NewerGrow, ExportAssumption

\* Only a prune that begins dooms releases; removing one keeps the others.
LEMMA StepSpared == SafeInv /\ [Next]_vars => Spared'
<1> SUFFICES ASSUME SafeInv, [Next]_vars PROVE Spared'
  OBVIOUS
<1> USE DEF SafeInv
<1>1. Inv' /\ Named'
  BY StepInv, StepNamed
<1> USE <1>1 DEF Inv
<1> DEFINE Same == \A p, q \in Directories : Newer(p, q)' = Newer(p, q)
<1>2. CASE UNCHANGED <<named, release, victims>>
  BY <1>2, SparedStays DEF Kept, Doomed, Newer
<1>3. ASSUME NEW r \in Runs, Start(r) PROVE Spared'
  <2>1. r \notin Directories
    BY <1>3 DEF Start, Calls, Named, Directories
  <2>2. Same
    BY <1>3, <2>1 DEF Start, Newer, TypeOK, Directories
  <2> QED
    BY <1>3, <2>2, SparedStays DEF Start, server, Kept, Doomed
<1>4. ASSUME NEW r \in Runs, Move(r) PROVE Spared'
  <2>1. release[r] = "none"
    BY <1>4 DEF Move, Named
  <2>2. Kept \subseteq Kept' /\ Doomed' \subseteq Doomed
    BY <1>4, <2>1 DEF Move, Kept, Doomed, TypeOK
  <2>3. Same
    BY <1>4 DEF Move, Newer
  <2> QED
    BY <2>2, <2>3, SparedStays
<1>5. ASSUME NEW r \in Runs, BeginPrune(r) PROVE Spared'
  BY <1>5, PruneSpares
<1>6. ASSUME NEW r \in Runs, Remove(r) PROVE Spared'
  <2>1. PICK q \in victims[r] :
          \/ release[q] = "whole" /\ release' = [release EXCEPT ![q] = "torn"] /\ UNCHANGED victims
          \/ release[q] = "torn" /\ release' = [release EXCEPT ![q] = "none"] /\ victims' = [victims EXCEPT ![r] = @ \ {q}]
    BY <1>6 DEF Remove
  <2>2. Kept \subseteq Kept' /\ Doomed' \subseteq Doomed
    BY <2>1 DEF Kept, Doomed, TypeOK
  <2>3. Same
    BY <1>6 DEF Remove, Newer
  <2> QED
    BY <2>2, <2>3, SparedStays
<1>7. ASSUME NEW r \in Runs, HelperDies(r) PROVE Spared'
  <2>1. Kept \subseteq Kept' /\ Doomed' \subseteq Doomed
    BY <1>7 DEF HelperDies, server, Kept, Doomed, TypeOK
  <2>2. Same
    BY <1>7 DEF HelperDies, Newer
  <2> QED
    BY <2>1, <2>2, SparedStays
<1>8. ASSUME NEW r \in Runs,
             \/ Lease(r) \/ Link(r) \/ RefusePrune(r) \/ EndPrune(r) \/ Copy(r)
             \/ EndCopy(r) \/ CallPrune(r) \/ TimeOut(r) \/ Finish(r) \/ ClientEnds(r)
      PROVE  UNCHANGED <<named, release, victims>>
  BY <1>8 DEF Lease, Link, RefusePrune, EndPrune, Copy, EndCopy, CallPrune, TimeOut, Finish, ClientEnds, server
<1>9. CASE Tick \/ UNCHANGED vars
  BY <1>2, <1>9 DEF Tick, vars, server
<1> QED
  BY <1>2, <1>3, <1>4, <1>5, <1>6, <1>7, <1>8, <1>9 DEF Next

LEMMA SafeInvariance == Spec => []SafeInv
<1>1. SafeInv /\ [Next]_vars => SafeInv'
  BY StepInv, StepNamed, StepSpared DEF SafeInv
<1> QED
  BY InitSafe, <1>1, PTL DEF Spec

-----------------------------------------------------------------------------
(* Theorems *)

\* Of a step that removes the first file of q.
BeginsToGo(q) == release[q] = "whole" /\ release'[q] # "whole"

LEMMA RemovalIsSpare ==
    ASSUME SafeInv, SafeInv', [Next]_vars, NEW q \in Runs, BeginsToGo(q)
    PROVE  /\ latest # q /\ latest \in Runs /\ release'[latest] = "whole"
           /\ Cardinality({p \in Runs : release'[p] = "whole" /\ Newer(p, q)}) >= RELEASE_KEEP_COUNT
           /\ lease[q] = None
<1> USE DEF SafeInv, Inv
<1>1. PICK r \in Runs : Remove(r)
  BY DEF Next, vars, server, Start, Move, Lease, Link, BeginPrune, RefusePrune, EndPrune, HelperDies,
         Copy, EndCopy, CallPrune, TimeOut, Finish, ClientEnds, Tick, TypeOK, BeginsToGo
<1>2. q \in victims[r] /\ release' = [release EXCEPT ![q] = "torn"]
  BY <1>1 DEF Remove, TypeOK, BeginsToGo
<1>3. lease[q] = None /\ latest # q
  BY <1>2 DEF Lockstep
<1>4. latest \in Runs /\ release[latest] = "whole"
  BY <1>1 DEF Remove, Lockstep, LatestIsWhole, Calls, TypeOK
<1>5. release'[latest] = "whole"
  BY <1>2, <1>3, <1>4 DEF TypeOK
<1> DEFINE whole == {p \in Runs : release'[p] = "whole" /\ Newer(p, q)}
<1>6. NewerThan(Kept, q) \subseteq whole
  BY <1>2 DEF NewerThan, Kept, TypeOK
<1>7. IsFiniteSet(whole)
  <2>1. whole \subseteq Directories'
    BY DEF Directories
  <2> QED
    BY <2>1, FS_Subset DEF Named
<1>8. Cardinality(whole) >= RELEASE_KEEP_COUNT
  <2>1. Cardinality(NewerThan(Kept, q)) >= RELEASE_KEEP_COUNT
    BY <1>2 DEF Spared, Doomed
  <2> HIDE DEF whole
  <2> QED
    BY <1>6, <1>7, <2>1, NewerGrow, ExportAssumption
<1> QED
  BY <1>3, <1>4, <1>5, <1>8

\* What prunes begin to remove is spare, whatever earlier prunes left behind.
THEOREM OnlySpareRemoved == Spec => OnlySpareReleasesGo
<1>1. SafeInv /\ SafeInv' /\ [Next]_vars => [\A q \in Runs : release[q] = "whole" /\ release'[q] # "whole" =>
        /\ latest # q /\ latest \in Runs /\ release'[latest] = "whole"
        /\ Cardinality({p \in Runs : release'[p] = "whole" /\ Newer(p, q)}) >= RELEASE_KEEP_COUNT
        /\ copy[q] = "begun" /\ client[q] = "check" => lease[q] = None]_vars
  BY RemovalIsSpare DEF BeginsToGo
<1> QED
  BY <1>1, SafeInvariance, PTL DEF Spec, OnlySpareReleasesGo
=============================================================================
