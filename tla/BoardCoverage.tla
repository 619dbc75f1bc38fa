---------------------------- MODULE BoardCoverage ----------------------------
(***************************************************************************)
(* What the collector's two page readers cover of one live board:          *)
(* scan_incremental_pages (collection/pagination.py), which reads from the *)
(* newest page down to the high-water mark, and run_backfill_budget        *)
(* (collection/backfill.py), which reads on towards the window's end and   *)
(* keeps a page number as its cursor.                                      *)
(*                                                                         *)
(* A list page is not a stable thing: posts arrive and are deleted between *)
(* two requests, and everything below moves by one.  The model keeps the   *)
(* board as the set of its ordinary posts and derives the pages from it.   *)
(* Post identifiers grow with publication time.                            *)
(*                                                                         *)
(* One cycle of the collector is one scan and, if it succeeded, a share of *)
(* the slot's backfill allowance.  collect-metadata of cli.py stores a     *)
(* single first page beside it, without a ledger row or a lock.            *)
(***************************************************************************)
EXTENDS Naturals, FiniteSets

CONSTANTS
    FirstBoards,    \* what the board may hold, of ordinary posts, when collection begins
    Pinned,         \* notices: the board shows them on top of every page
    Cutoff,         \* the oldest post inside the ranking window
    PageSize,       \* ordinary posts the board shows on a page
    MinPages,       \* incremental_min_pages
    Overlap,        \* incremental_overlap_pages
    MaxPages,       \* incremental_max_pages
    Share,          \* requests of one cycle's backfill allowance spent on this board
    Batches,        \* how many posts may arrive at once
    LastPost,       \* bound: posts arrive until this identifier
    Deletable,      \* bound: the posts that may be deleted
    MaxMishaps      \* bound on failures, deleted posts and collect-metadata commands

ASSUME PostsAssumption ==
    /\ FirstBoards \subseteq SUBSET (1..LastPost)
    /\ Pinned \subseteq 1..LastPost
    /\ \A posts \in FirstBoards : posts \cap Pinned = {}
ASSUME SettingsAssumption ==
    /\ PageSize \in Nat \ {0} /\ MinPages \in Nat \ {0} /\ MaxPages \in Nat
    /\ MinPages <= MaxPages /\ Overlap \in Nat /\ Share \in Nat
ASSUME BoundsAssumption ==
    /\ Batches \subseteq Nat \ {0}
    /\ LastPost \in Nat /\ Cutoff \in Nat
    /\ Deletable \subseteq 1..LastPost
    /\ MaxMishaps \in Nat

VARIABLES
    board,      \* the ordinary posts on the live board
    newest,     \* the last identifier given to a post
    stored,     \* the posts in the database
    next,       \* source_backfill_states.next_page
    complete,   \* source_backfill_states.complete
    pc,         \* what the collector is doing
    scan,       \* the local variables of scan_incremental_pages
    page,       \* the page the backfill reads next
    share       \* backfill requests left to this board in the cycle

VARIABLES       \* history, for the properties
    mishaps,    \* failures, deletions and single pages so far
    slips,      \* posts deleted since the backfill's cursor was last stored
    slid,       \* the board has moved under the current scan by more than it absorbs
    torn,       \* that happened to some scan, or to the backfill
    single,     \* collect-metadata has been used
    scanned     \* high_water_post_id of the last successful scan

readers == <<pc, scan, page, share>>
database == <<stored, next, complete>>
history == <<mishaps, slips, slid, torn, single, scanned>>
vars == <<board, newest, database, readers, history>>

Posts == 1..LastPost

-----------------------------------------------------------------------------
(* The board and its pages *)

\* The page a post is shown on: newest first.
PageOf(b) == (Cardinality({c \in board : c > b}) \div PageSize) + 1

\* A page beyond the last one has no row at all: the parser refuses it.
Listing(p) ==
    LET shown == {b \in board : PageOf(b) = p} IN IF shown = {} THEN {} ELSE shown \cup Pinned

\* The items that are neither notice nor advertisement.
Ordinary(items) == items \ Pinned

\* The greatest of a set of posts, 0 standing for None.
Greatest(posts) == IF posts = {} THEN 0 ELSE CHOOSE b \in posts : \A c \in posts : c <= b

\* highest_ordinary_post_id.
HighWater == Greatest(stored \ Pinned)

-----------------------------------------------------------------------------
(* scan_incremental_pages *)

\* high is prior_high_water, read pages_fetched, boundary the boundary page.
NoScan == [high |-> 0, read |-> 0, boundary |-> 0, items |-> {}]

\* Mutant: the page guard is missing.
ScanOverUnguarded ==
    \/ scan.read >= MinPages /\ scan.high = 0
    \/ scan.read >= MinPages /\ scan.boundary # 0 /\ scan.read >= scan.boundary + Overlap

\* The for loop is left.
ScanOver ==
    \/ scan.read = MaxPages
    \/ scan.read >= MinPages /\ scan.high = 0
    \/ scan.read >= MinPages /\ scan.boundary # 0 /\ scan.read >= scan.boundary + Overlap

\* Mutant: whatever was read will do.
AnyScanWillDo == TRUE

\* boundary_reached: the mark was found and the overlap after it read.
BoundaryReached ==
    scan.high = 0 \/ (scan.boundary # 0 /\ scan.read >= scan.boundary + Overlap)

\* Mutant: the cursor is taken at its word.
ResumeWithoutOverlap == next

\* The page a backfill attempt starts with: one before the cursor.
ResumePage == IF next > 1 THEN next - 1 ELSE 1

Mishap == mishaps < MaxMishaps /\ mishaps' = mishaps + 1

Init ==
    /\ board \in FirstBoards
    /\ newest = Greatest(board \cup Pinned)
    /\ stored = {}
    /\ next = 3
    /\ complete = FALSE
    /\ pc = "idle"
    /\ scan = NoScan
    /\ page = 0
    /\ share = 0
    /\ mishaps = 0
    /\ slips = 0
    /\ slid = FALSE
    /\ torn = FALSE
    /\ single = FALSE
    /\ scanned = 0

\* A cycle reaches this source and reads the high-water mark.
StartScan ==
    /\ pc = "idle"
    /\ pc' = "scanning"
    /\ scan' = [NoScan EXCEPT !.high = HighWater]
    /\ UNCHANGED <<board, newest, database, page, share, history>>

\* One page of the scan; the first ordinary post at or below the mark is the
\* boundary.
ReadPage ==
    LET p == scan.read + 1
        items == Listing(p)
    IN  /\ pc = "scanning"
        /\ ~ ScanOver
        /\ items # {}
        /\ scan' = [scan EXCEPT
              !.read = p,
              !.items = @ \cup items,
              !.boundary = IF @ = 0 /\ \E b \in Ordinary(items) : b <= scan.high THEN p ELSE @]
        /\ UNCHANGED <<board, newest, database, pc, page, share, history>>

\* collect_board_slot stores a complete scan at once; a source that succeeded is
\* eligible for backfill, which opens its cursor unless it is complete.
StoreScan ==
    /\ pc = "scanning"
    /\ ScanOver
    /\ BoundaryReached
    /\ stored' = stored \cup scan.items
    /\ scanned' = Greatest(Ordinary(scan.items))
    /\ IF complete THEN pc' = "idle" /\ UNCHANGED <<page, share>>
       ELSE pc' = "backfilling" /\ page' = ResumePage /\ share' = Share
    /\ scan' = NoScan
    /\ slid' = FALSE
    /\ UNCHANGED <<board, newest, next, complete, mishaps, slips, torn, single>>

\* A scan that ran out of pages stores nothing.
EndPartial ==
    /\ pc = "scanning"
    /\ ScanOver
    /\ ~ BoundaryReached
    /\ pc' = "idle"
    /\ scan' = NoScan
    /\ slid' = FALSE
    /\ UNCHANGED <<board, newest, database, page, share, mishaps, slips, torn, single, scanned>>

\* A page beyond the board's end ends the scan as failed.
ReadBeyondEnd ==
    /\ pc = "scanning"
    /\ ~ ScanOver
    /\ Listing(scan.read + 1) = {}
    /\ pc' = "idle"
    /\ scan' = NoScan
    /\ slid' = FALSE
    /\ UNCHANGED <<board, newest, database, page, share, mishaps, slips, torn, single, scanned>>

-----------------------------------------------------------------------------
(* run_backfill_budget, for this source *)

\* _window_items: the items before the first ordinary one outside the window.
Accepted(items) == {b \in items : b \in Pinned \/ b >= Cutoff}

\* Mutant: the cursor is stored at the page just read.
BackfillPageStays ==
    LET items == Listing(page)
        done == \E b \in Ordinary(items) : b < Cutoff
    IN  /\ pc = "backfilling"
        /\ share > 0
        /\ items # {}
        /\ stored' = stored \cup Accepted(items)
        /\ next' = page
        /\ complete' = done
        /\ IF done \/ share = 1
           THEN pc' = "idle" /\ page' = 0 /\ share' = 0
           ELSE page' = page + 1 /\ share' = share - 1 /\ UNCHANGED pc
        /\ slips' = 0
        /\ UNCHANGED <<board, newest, scan, mishaps, slid, torn, single, scanned>>

\* One page and the cursor, in one transaction.
BackfillPage ==
    LET items == Listing(page)
        done == \E b \in Ordinary(items) : b < Cutoff
    IN  /\ pc = "backfilling"
        /\ share > 0
        /\ items # {}
        /\ stored' = stored \cup Accepted(items)
        /\ next' = page + 1
        /\ complete' = done
        /\ IF done \/ share = 1
           THEN pc' = "idle" /\ page' = 0 /\ share' = 0
           ELSE page' = page + 1 /\ share' = share - 1 /\ UNCHANGED pc
        /\ slips' = 0
        /\ UNCHANGED <<board, newest, scan, mishaps, slid, torn, single, scanned>>

\* The cycle has no allowance for this board, or the page is beyond the board's
\* end and the source leaves the attempt as failed.
EndBackfill ==
    /\ pc = "backfilling"
    /\ share = 0 \/ Listing(page) = {}
    /\ pc' = "idle"
    /\ page' = 0
    /\ share' = 0
    /\ UNCHANGED <<board, newest, database, scan, history>>

\* A request, a parse or a commit fails, or the process dies: what was not
\* committed is gone.
Fail ==
    /\ pc # "idle"
    /\ Mishap
    /\ pc' = "idle"
    /\ scan' = NoScan
    /\ page' = 0
    /\ share' = 0
    /\ slid' = FALSE
    /\ UNCHANGED <<board, newest, database, slips, torn, single, scanned>>

-----------------------------------------------------------------------------
(* Around the collector *)

\* collect-metadata: the first page is stored, whatever is below it.
CollectMetadata ==
    /\ Mishap
    /\ single' = TRUE
    /\ stored' = stored \cup Listing(1)
    /\ UNCHANGED <<board, newest, next, complete, readers, slips, slid, torn, scanned>>

\* Posts arrive one by one, or many between two of the collector's steps (the
\* collector was down, or the board is busy).  When a scan has found its boundary
\* and more posts arrive than the pages it has read can hold, the next page
\* shows posts newer than any it has seen: it stores them, and ends above the rest.
Arrive ==
    /\ \E n \in Batches :
          /\ newest + n <= LastPost
          /\ newest' = newest + n
          /\ board' = board \cup ((newest + 1)..(newest + n))
    /\ slid' = \/ slid
               \/ /\ scan.boundary # 0
                  /\ Cardinality({c \in board' : c > Greatest(Ordinary(scan.items))})
                        > PageSize * scan.read
    /\ torn' = (torn \/ slid')
    /\ UNCHANGED <<database, readers, mishaps, slips, single, scanned>>

\* Deleting b moves the posts after it up.  A reader that has passed b's page
\* misses one; between two attempts the backfill's overlap makes up for a page.
Delete(b) ==
    /\ Mishap
    /\ board' = board \ {b}
    /\ slips' = slips + 1
    /\ slid' = (slid \/ (pc = "scanning" /\ PageOf(b) <= scan.read))
    /\ torn' = \/ torn \/ slid'
               \/ pc = "backfilling" /\ PageOf(b) < page
               \/ ~ complete /\ slips' > PageSize
    /\ UNCHANGED <<newest, database, readers, single, scanned>>

-----------------------------------------------------------------------------

Collect ==
    \/ StartScan \/ ReadPage \/ StoreScan \/ EndPartial \/ ReadBeyondEnd
    \/ BackfillPage \/ EndBackfill

Next ==
    \/ Collect \/ Fail \/ CollectMetadata \/ Arrive
    \/ \E b \in board \cap Deletable : Delete(b)

Spec == Init /\ [][Next]_vars

\* The scheduler starts cycle after cycle and each of its steps ends.
FairSpec == Spec /\ WF_vars(Collect)

-----------------------------------------------------------------------------
(* Properties *)

\* Every variable has its type; no scan reads more pages than it may.
TypeOK ==
    /\ board \subseteq Posts
    /\ newest \in 0..LastPost
    /\ stored \subseteq Posts
    /\ next \in Nat \ {0}
    /\ complete \in BOOLEAN
    /\ pc \in {"idle", "scanning", "backfilling"}
    /\ scan \in [high : 0..LastPost, read : 0..MaxPages, boundary : 0..MaxPages,
                 items : SUBSET Posts]
    /\ page \in Nat
    /\ share \in 0..Share
    /\ mishaps \in 0..MaxMishaps /\ slips \in Nat
    /\ slid \in BOOLEAN /\ torn \in BOOLEAN /\ single \in BOOLEAN
    /\ scanned \in 0..LastPost

\* Every post of the window that is on the board at or below the high-water mark
\* is stored, or lies where the backfill has yet to go: no arrival, error, crash,
\* partial scan or interrupted backfill leaves a hole that no reader returns to.
\* Excluded are boards that moved under a reader by more than it absorbs (torn;
\* between the backfill's attempts its overlap absorbs a page of deletions) and
\* marks that collect-metadata may have moved (single).
NoHole ==
    ~ torn /\ ~ single =>
        \A b \in board : Cutoff <= b /\ b <= HighWater =>
            b \in stored \/ (~ complete /\ PageOf(b) >= ResumePage)

\* A scan that ends successfully has stored every post on the board between the
\* previous mark and the newest it has seen, unless, while it read, a post of a
\* page it had passed was deleted or, once it had found its boundary, more posts
\* arrived than the pages it had passed can hold.  Earlier scans, failures,
\* holes and single pages make no difference.
ScanClosesTheGap ==
    [][scanned' # scanned /\ ~ slid /\ scan.high # 0 =>
          \A b \in board : scan.high < b /\ b <= scanned' => b \in stored']_vars

\* What the design says without that exception: "notices, deletions, and page
\* movement cannot create a successful false boundary".
NoFalseBoundary ==
    [][scanned' # scanned /\ scan.high # 0 =>
          \A b \in board : scan.high < b /\ b <= scanned' => b \in stored']_vars

\* With failures bounded and arrivals and deletions over, the whole window gets
\* stored, unless the board moved under a reader by more than it absorbs (torn),
\* collect-metadata moved the mark (single), the board has fewer pages than
\* a scan reads, or so many posts arrived at once that the scan cannot reach the
\* mark and its overlap.
Scannable ==
    /\ \A p \in 1..MaxPages : Listing(p) # {}
    /\ Cardinality({b \in board : b > HighWater}) < PageSize * (MaxPages - Overlap)
WindowGetsStored ==
    <>[](\/ torn \/ single \/ ~ Scannable
         \/ \A b \in board : b >= Cutoff => b \in stored)
=============================================================================
