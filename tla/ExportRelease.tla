----------------------------- MODULE ExportRelease -----------------------------
(***************************************************************************)
(* The export of the database to the developers' machines.  A run of       *)
(* download-production-data.ps1 calls export-production-csv.sh on the      *)
(* server, copies the release that it has published, checks it, calls the  *)
(* helper again to prune the releases, and only then shows the archive.    *)
(*                                                                         *)
(* The helpers exclude each other by a file lock, which they take late;    *)
(* between the two calls a lease keeps the release.  Client and helpers    *)
(* may be killed at any step, and a helper outlives a client that has      *)
(* timed out.  A run and the release it asks for have one identity.        *)
(***************************************************************************)
EXTENDS Integers, FiniteSetsExt

CONSTANTS
    Runs,
    RELEASE_KEEP_COUNT,
    StaleAge,   \* the age in ticks above which a lease is stale, a day in the code
    MaxClock,   \* bounds the clock
    None

ASSUME ExportAssumption ==
    /\ Runs \subseteq Nat /\ RELEASE_KEEP_COUNT \in Nat /\ StaleAge \in Nat /\ MaxClock \in Nat
    /\ None \notin Runs \cup 0..MaxClock

VARIABLES
    clock,
    named,      \* per run, the time its release is named after
    release,    \* the directories below releases/
    lease,      \* the files below inflight/: when they were created
    latest,     \* the target of latest-download
    exporting,  \* per run, the first call of the helper
    pruning,    \* per run, the second call
    victims,    \* what a prune has left to remove
    client,     \* per run, the script
    copy        \* per run, its copy of the release

server == <<release, lease, latest>>
vars == <<clock, named, server, exporting, pruning, victims, client, copy>>

Init ==
    /\ clock = 0 /\ latest = None
    /\ named = [r \in Runs |-> None]
    /\ release = [r \in Runs |-> "none"]
    /\ lease = [r \in Runs |-> None]
    /\ exporting = [r \in Runs |-> "none"]
    /\ pruning = [r \in Runs |-> "none"]
    /\ victims = [r \in Runs |-> {}]
    /\ client = [r \in Runs |-> "none"]
    /\ copy = [r \in Runs |-> "none"]

-----------------------------------------------------------------------------
(* The helper's export_snapshot *)

\* Mutant: a prune does not take the lock.
LockedByExport == \E r \in Runs : exporting[r] \in {"moved", "leased"}

\* The lock of a helper that has died is free.
Locked == \E r \in Runs : exporting[r] \in {"moved", "leased"} \/ pruning[r] = "removing"

Directories == {r \in Runs : release[r] \in {"whole", "torn"}}

\* The order of the names: the time, then the random suffix.
Newer(q, r) == named[q] > named[r] \/ (named[q] = named[r] /\ q > r)

\* The name is taken first, then the database is read into the staging directory.
Start(r) ==
    /\ client[r] = "none"
    /\ named' = [named EXCEPT ![r] = clock]
    /\ client' = [client EXCEPT ![r] = "export"]
    /\ exporting' = [exporting EXCEPT ![r] = "staging"]
    /\ UNCHANGED <<clock, server, pruning, victims, copy>>

Move(r) ==
    /\ exporting[r] = "staging" /\ ~Locked
    /\ release' = [release EXCEPT ![r] = "whole"]
    /\ exporting' = [exporting EXCEPT ![r] = "moved"]
    /\ UNCHANGED <<clock, named, lease, latest, pruning, victims, client, copy>>

Lease(r) ==
    /\ exporting[r] = "moved"
    /\ lease' = [lease EXCEPT ![r] = clock]
    /\ exporting' = [exporting EXCEPT ![r] = "leased"]
    /\ UNCHANGED <<clock, named, release, latest, pruning, victims, client, copy>>

\* update_latest_download replaces the link at once; then the path is printed.
Link(r) ==
    /\ exporting[r] = "leased"
    /\ latest' = r
    /\ exporting' = [exporting EXCEPT ![r] = "ended"]
    /\ UNCHANGED <<clock, named, release, lease, pruning, victims, client, copy>>

-----------------------------------------------------------------------------
(* The helper's prune_releases *)

Fresh(r) == lease[r] # None /\ clock - lease[r] <= StaleAge

\* Mutant: a lease does not keep its release.
SpareOrLeased(r, target) ==
    {q \in Directories \ {r, target} : Cardinality({p \in Directories : Newer(p, q)}) >= RELEASE_KEEP_COUNT}

\* The newest ones stay, and those that are current, latest or leased.
Spare(r, target) ==
    {q \in Directories \ {r, target} :
        ~Fresh(q) /\ Cardinality({p \in Directories : Newer(p, q)}) >= RELEASE_KEEP_COUNT}

\* cleanup_stale_leases, the repair of latest-download, and the choice of what to remove.
BeginPrune(r) ==
    /\ pruning[r] = "called" /\ ~Locked /\ r \in Directories
    /\ \E target \in Directories :
        /\ latest \in Directories => target = latest
        /\ latest \notin Directories => \A q \in Directories \ {target} : Newer(target, q)
        /\ latest' = target
        /\ victims' = [victims EXCEPT ![r] = Spare(r, target)]
    /\ lease' = [q \in Runs |-> IF Fresh(q) THEN lease[q] ELSE None]
    /\ pruning' = [pruning EXCEPT ![r] = "removing"]
    /\ UNCHANGED <<clock, named, release, exporting, client, copy>>

\* The release has been removed since: exit 2.
RefusePrune(r) ==
    /\ pruning[r] = "called" /\ ~Locked /\ r \notin Directories
    /\ pruning' = [pruning EXCEPT ![r] = "dead"]
    /\ UNCHANGED <<clock, named, server, exporting, victims, client, copy>>

\* rm -rf takes the files of a release one after another, the newest release first.
Remove(r) ==
    /\ pruning[r] = "removing"
    /\ \E q \in victims[r] :
        /\ \A p \in victims[r] \ {q} : Newer(q, p)
        /\ \/ /\ release[q] = "whole"
              /\ release' = [release EXCEPT ![q] = "torn"]
              /\ UNCHANGED victims
           \/ /\ release[q] = "torn"
              /\ release' = [release EXCEPT ![q] = "none"]
              /\ victims' = [victims EXCEPT ![r] = @ \ {q}]
    /\ UNCHANGED <<clock, named, lease, latest, exporting, pruning, client, copy>>

EndPrune(r) ==
    /\ pruning[r] = "removing" /\ victims[r] = {}
    /\ lease' = [lease EXCEPT ![r] = None]
    /\ pruning' = [pruning EXCEPT ![r] = "ended"]
    /\ UNCHANGED <<clock, named, release, latest, exporting, victims, client, copy>>

\* A helper fails or is killed.
HelperDies(r) ==
    /\ \/ /\ exporting[r] \in {"staging", "moved", "leased"}
          /\ exporting' = [exporting EXCEPT ![r] = "dead"]
          /\ UNCHANGED pruning
       \/ /\ pruning[r] \in {"called", "removing"}
          /\ pruning' = [pruning EXCEPT ![r] = "dead"]
          /\ UNCHANGED exporting
    /\ victims' = [victims EXCEPT ![r] = {}]
    /\ UNCHANGED <<clock, named, server, client, copy>>

-----------------------------------------------------------------------------
(* The client *)

Goes(r, from, to) == client[r] = from /\ client' = [client EXCEPT ![r] = to]

\* scp -r of a release that is removed meanwhile has files missing, unless it has been faster.
Copy(r) ==
    /\ exporting[r] = "ended"
    /\ Goes(r, "export", "check")
    /\ copy' = [copy EXCEPT ![r] = "begun"]
    /\ UNCHANGED <<clock, named, server, exporting, pruning, victims>>

EndCopy(r) ==
    /\ client[r] = "check" /\ copy[r] = "begun"
    /\ \E result \in {"whole", "partial"} :
        /\ release[r] = "whole" => result = "whole"
        /\ copy' = [copy EXCEPT ![r] = result]
    /\ UNCHANGED <<clock, named, server, exporting, pruning, victims, client>>

\* Mutant: the checksums are not compared.
Copied(r) == copy[r] # "begun"

\* The files are those that are required, and have their checksums.
Checked(r) == copy[r] = "whole"

CallPrune(r) ==
    /\ Checked(r)
    /\ Goes(r, "check", "prune")
    /\ pruning' = [pruning EXCEPT ![r] = "called"]
    /\ UNCHANGED <<clock, named, server, exporting, victims, copy>>

\* Mutant: the verification does not look at the lease.
LinkedState(r) == r \in Directories /\ latest = r

\* What the client verifies on the server when the prune has not answered in time.
CompletedState(r) == r \in Directories /\ lease[r] = None /\ latest = r

TimeOut(r) ==
    /\ Goes(r, "prune", "unsure")
    /\ UNCHANGED <<clock, named, server, exporting, pruning, victims, copy>>

\* The folder and the archive get their names.
Finish(r) ==
    /\ \/ Goes(r, "prune", "done") /\ pruning[r] = "ended"
       \/ Goes(r, "unsure", "done") /\ CompletedState(r)
    /\ UNCHANGED <<clock, named, server, exporting, pruning, victims, copy>>

\* An error removes what the run has made; a kill leaves partial files, which nobody reads.
ClientEnds(r) ==
    /\ client[r] \in {"export", "check", "prune", "unsure"}
    /\ client' = [client EXCEPT ![r] = "failed"]
    /\ UNCHANGED <<clock, named, server, exporting, pruning, victims, copy>>

Tick ==
    /\ clock < MaxClock
    /\ clock' = clock + 1
    /\ UNCHANGED <<named, server, exporting, pruning, victims, client, copy>>

Next ==
    \/ \E r \in Runs : Start(r) \/ Move(r) \/ Lease(r) \/ Link(r)
    \/ \E r \in Runs : BeginPrune(r) \/ RefusePrune(r) \/ Remove(r) \/ EndPrune(r) \/ HelperDies(r)
    \/ \E r \in Runs : Copy(r) \/ EndCopy(r) \/ CallPrune(r) \/ TimeOut(r) \/ Finish(r) \/ ClientEnds(r)
    \/ Tick

Spec == Init /\ [][Next]_vars

-----------------------------------------------------------------------------
(* Properties *)

Times == 0..MaxClock

\* Besides the types: two helpers never hold the lock, and a release that is
\* being removed belongs to the one that holds it.
TypeOK ==
    /\ clock \in Times /\ latest \in Runs \cup {None}
    /\ named \in [Runs -> Times \cup {None}] /\ lease \in [Runs -> Times \cup {None}]
    /\ release \in [Runs -> {"none", "whole", "torn"}]
    /\ exporting \in [Runs -> {"none", "staging", "moved", "leased", "ended", "dead"}]
    /\ pruning \in [Runs -> {"none", "called", "removing", "ended", "dead"}]
    /\ victims \in [Runs -> SUBSET Runs]
    /\ client \in [Runs -> {"none", "export", "check", "prune", "unsure", "done", "failed"}]
    /\ copy \in [Runs -> {"none", "begun", "whole", "partial"}]
    /\ \A r \in Runs : victims[r] # {} => pruning[r] = "removing"
    /\ \A q, r \in Runs : pruning[q] = "removing" /\ pruning[r] = "removing" => q = r

\* A release that a prune begins to remove is one that nobody misses: another
\* one is the latest, as many newer ones as have to be kept stay whole, although
\* earlier prunes may have been killed half-way, and no client copies it under
\* a lease that has not outlived its day when the prune began.
OnlySpareReleasesGo ==
    [][\A q \in Runs : release[q] = "whole" /\ release'[q] # "whole" =>
        /\ latest # q /\ latest \in Runs /\ release'[latest] = "whole"
        /\ Cardinality({p \in Runs : release'[p] = "whole" /\ Newer(p, q)}) >= RELEASE_KEEP_COUNT
        /\ copy[q] = "begun" /\ client[q] = "check" => lease[q] = None]_vars

\* An archive appears only for a whole copy, whatever the prunes of other runs
\* removed meanwhile, and its run leaves no lease behind, also when the answer of
\* its prune was lost.
FinishedRunIsWhole ==
    \A r \in Runs : client[r] = "done" => copy[r] = "whole" /\ lease[r] = None
=============================================================================
