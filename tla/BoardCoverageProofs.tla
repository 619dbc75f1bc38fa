-------------------------- MODULE BoardCoverageProofs --------------------------
(***************************************************************************)
(* NoHole and ScanClosesTheGap of BoardCoverage, for every board, every    *)
(* size of pages and of batches, and every number of mishaps.              *)
(*                                                                         *)
(* The argument.  A page number is a division, so everything is said of    *)
(* ranks, the number of newer posts: an arrival only raises the rank of an *)
(* older post, a deletion lowers it by at most one (Counting), and a post  *)
(* is behind page p exactly when its rank is at least p pages (Pages).     *)
(* ScanReaches says what a scan under way has covered, BackfillReaches     *)
(* what is left to the backfill, in ranks for the cursor that is stored    *)
(* and in pages for the attempt that is running.  A scan that is stored    *)
(* hands the one over to the other.                                        *)
(***************************************************************************)
EXTENDS BoardCoverage, FiniteSetTheorems, TLAPS

Above(S, b) == {c \in S : c > b}

\* PageOf and the number of newer posts it counts, on any board.
RankIn(S, b) == Cardinality(Above(S, b))
PageIn(S, b) == (RankIn(S, b) \div PageSize) + 1

Top == Greatest(Ordinary(scan.items))

\* Posts have been published, and none of them is both ordinary and a notice.
Published ==
    /\ \A b \in board \cup Pinned \cup stored \cup scan.items : b <= newest
    /\ board \cap Pinned = {}

\* What holds between the two readers and the database.
Phases ==
    /\ pc # "scanning" => scan = NoScan
    /\ scan.read > 0 => Ordinary(scan.items) # {}
    /\ scan.boundary # 0 => scan.read > 0
    /\ pc = "scanning" /\ ~single => scan.high = HighWater
    /\ pc = "backfilling" => ~complete /\ page > 0
    /\ stored \ Pinned = {} => next = 3 /\ ~complete /\ pc # "backfilling"
    /\ ~complete /\ ~torn => slips <= PageSize
    /\ slid => torn

\* Up to the newest post that a scan has seen, all that it has not seen is on
\* pages it has yet to read; behind its boundary nothing is left above the mark,
\* and no page still shows posts newer than those it has seen.
ScanReaches == ~slid =>
    /\ \A b \in board \ scan.items : b <= Top => PageOf(b) > scan.read
    /\ scan.boundary # 0 =>
        /\ \A b \in board : scan.high < b /\ b <= Top => b \in scan.items
        /\ RankIn(board, Top) <= PageSize * scan.read

\* The posts that NoHole asks for and that are not stored are where the backfill
\* goes: not before the stored cursor, but for the posts deleted since, and not
\* before the page that the current attempt has reached.
Missing == {b \in board \ stored : Cutoff <= b /\ b <= HighWater}
BackfillReaches == ~torn /\ ~single =>
    /\ complete => Missing = {}
    /\ \A b \in Missing : RankIn(board, b) + slips >= PageSize * (next - 1)
    /\ pc = "backfilling" => \A b \in Missing : PageOf(b) >= page

-----------------------------------------------------------------------------
(* Posts and pages *)

\* A set of posts has a greatest one.
LEMMA GreatestOf ==
    ASSUME NEW S \in SUBSET Posts
    PROVE  /\ Greatest(S) \in 0..LastPost
           /\ S = {} => Greatest(S) = 0
           /\ S # {} => Greatest(S) \in S
           /\ \A c \in S : c <= Greatest(S)
<1>1. CASE S = {}
  BY <1>1, BoundsAssumption DEF Greatest
<1>2. CASE S # {}
  <2> DEFINE depths == {LastPost - c : c \in S}
  <2>0. LastPost \in Nat /\ \A c \in S : c \in Nat /\ 1 <= c /\ c <= LastPost
    BY BoundsAssumption DEF Posts
  <2>1. depths \subseteq Nat /\ depths # {}
    <3>1. \A c \in S : LastPost - c \in Nat
      BY <2>0
    <3> QED
      BY <1>2, <3>1
  <2>2. PICK least \in depths : \A n \in depths : ~(n < least)
    <3>1. PICK least \in depths : \A n \in depths : <<n, least>> \notin OpToRel(<, Nat)
      <4> HIDE DEF depths
      <4> QED
        BY <2>1, NatLessThanWellFounded, WFMin
    <3> HIDE DEF depths
    <3> QED
      BY <2>1, <3>1 DEF OpToRel
  <2>3. PICK b \in S : least = LastPost - b
    OBVIOUS
  <2>4. \A c \in S : c <= b
    BY <2>0, <2>2, <2>3
  <2>5. Greatest(S) \in S /\ \A c \in S : c <= Greatest(S)
    BY <1>2, <2>4 DEF Greatest
  <2> QED
    BY <1>2, <2>0, <2>5
<1> QED
  BY <1>1, <1>2

\* A number of pages, without division.
LEMMA Pages ==
    ASSUME NEW r \in Nat, NEW p \in Nat
    PROVE  /\ r \div PageSize \in Nat
           /\ (r \div PageSize) + 1 > p <=> r >= PageSize * p
<1> PageSize \in Nat /\ PageSize > 0
  BY SettingsAssumption
<1> DEFINE q == r \div PageSize
<1>1. q \in Nat /\ PageSize * q <= r /\ r < PageSize * (q + 1)
  BY SMT
<1> HIDE DEF q
<1>2. q >= p => PageSize * q >= PageSize * p
  BY <1>1, SMT
<1>3. q < p => PageSize * (q + 1) <= PageSize * p
  BY <1>1, SMT
<1> QED
  BY <1>1, <1>2, <1>3, SMT DEF q

\* How many of a set of posts are newer than b.
LEMMA Counting ==
    ASSUME NEW S \in SUBSET Posts, NEW b \in Posts
    PROVE  /\ IsFiniteSet(Above(S, b)) /\ RankIn(S, b) \in Nat
           /\ \A T \in SUBSET S : RankIn(T, b) <= RankIn(S, b)
           /\ \A c \in Posts : b <= c => RankIn(S, c) <= RankIn(S, b)
           /\ \A c \in S : b < c => RankIn(S, c) < RankIn(S, b)
           /\ \A d \in S : RankIn(S \ {d}, b) =
                IF d > b THEN RankIn(S, b) - 1 ELSE RankIn(S, b)
<1> LastPost \in Nat /\ Posts \subseteq Nat /\ S \subseteq Nat /\ IsFiniteSet(Posts)
  BY BoundsAssumption, FS_Interval DEF Posts
<1>1. IsFiniteSet(Above(S, b))
  BY FS_Subset DEF Above
<1>2. ASSUME NEW T \in SUBSET Above(S, b)
      PROVE  Cardinality(T) \in Nat /\ Cardinality(T) <= RankIn(S, b)
             /\ (T # Above(S, b) => Cardinality(T) < RankIn(S, b))
  BY <1>1, FS_Subset, FS_CardinalityType DEF RankIn
<1>3. \A T \in SUBSET S : Above(T, b) \subseteq Above(S, b)
  BY DEF Above
<1>4. \A c \in Posts : b <= c => Above(S, c) \subseteq Above(S, b)
  <2> SUFFICES ASSUME NEW c \in Posts, b <= c, NEW x \in S, x > c PROVE x > b
    BY DEF Above
  <2> b \in Nat /\ c \in Nat /\ x \in Nat
    OBVIOUS
  <2> QED
    OBVIOUS
<1>5. \A c \in S : b < c => Above(S, c) \subseteq Above(S, b) /\ c \in Above(S, b) /\ c \notin Above(S, c)
  <2> SUFFICES ASSUME NEW c \in S, b < c
               PROVE  Above(S, c) \subseteq Above(S, b) /\ c \in Above(S, b) /\ c \notin Above(S, c)
    OBVIOUS
  <2> b \in Nat /\ c \in Nat /\ c \in Posts
    OBVIOUS
  <2> QED
    BY <1>4 DEF Above
<1>6. \A d \in S : Above(S \ {d}, b) = Above(S, b) \ {d} /\ (d \in Above(S, b) <=> d > b)
  BY DEF Above
<1>7. \A d \in S : RankIn(S \ {d}, b) =
                IF d > b THEN RankIn(S, b) - 1 ELSE RankIn(S, b)
  BY <1>1, <1>6, FS_RemoveElement DEF RankIn
<1>8. \A c \in S : b < c => RankIn(S, c) < RankIn(S, b)
  BY <1>2, <1>5 DEF RankIn
<1>9. \A T \in SUBSET S : RankIn(T, b) <= RankIn(S, b)
  BY <1>2, <1>3 DEF RankIn
<1>10. \A c \in Posts : b <= c => RankIn(S, c) <= RankIn(S, b)
  BY <1>2, <1>4 DEF RankIn
<1> QED
  BY <1>1, <1>2, <1>7, <1>8, <1>9, <1>10 DEF RankIn

\* The page of a post, by its rank; newer posts are on earlier pages.
LEMMA PageByRank ==
    ASSUME NEW S \in SUBSET Posts, NEW b \in Posts
    PROVE  /\ PageIn(S, b) \in Nat /\ PageIn(S, b) > 0
           /\ \A p \in Nat : PageIn(S, b) > p <=> RankIn(S, b) >= PageSize * p
<1>1. RankIn(S, b) \in Nat
  BY Counting
<1> QED
  BY <1>1, Pages DEF PageIn

LEMMA PageOrder ==
    ASSUME NEW S \in SUBSET Posts, NEW b \in Posts, NEW c \in Posts, b <= c
    PROVE  PageIn(S, c) <= PageIn(S, b)
<1>1. RankIn(S, c) <= RankIn(S, b)
  BY Counting
<1> DEFINE p == PageIn(S, c) - 1
<1>2. p \in Nat /\ PageIn(S, c) > p
  BY PageByRank
<1>3. RankIn(S, c) >= PageSize * p /\ RankIn(S, c) \in Nat /\ RankIn(S, b) \in Nat
  BY <1>2, PageByRank, Counting
<1>4. PageSize * p \in Nat
  BY <1>2, SettingsAssumption
<1>5. RankIn(S, b) >= PageSize * p
  BY <1>1, <1>3, <1>4
<1>6. PageIn(S, b) > p
  BY <1>2, <1>5, PageByRank
<1> QED
  BY <1>2, <1>6, PageByRank

\* Arrivals push a post down, and a deletion on page p or after it does not move
\* a post that is there to an earlier page.
LEMMA PageAfterArrival ==
    ASSUME NEW S \in SUBSET Posts, NEW T \in SUBSET S, NEW b \in Posts, NEW p \in Nat, PageIn(T, b) > p
    PROVE  PageIn(S, b) > p
<1>1. T \in SUBSET Posts /\ PageSize * p \in Nat
  BY SettingsAssumption
<1>2. RankIn(T, b) \in Nat /\ RankIn(S, b) \in Nat /\ RankIn(T, b) <= RankIn(S, b)
  BY <1>1, Counting
<1>3. RankIn(T, b) >= PageSize * p
  BY <1>1, PageByRank
<1> QED
  BY <1>1, <1>2, <1>3, PageByRank

LEMMA PageAfterDeletion ==
    ASSUME NEW S \in SUBSET Posts, NEW d \in S, NEW b \in Posts, NEW p \in Nat,
           PageIn(S, b) > p, PageIn(S, d) > p
    PROVE  PageIn(S \ {d}, b) > p
<1>1. S \ {d} \in SUBSET Posts /\ d \in Posts /\ PageSize * p \in Nat
  BY SettingsAssumption
<1>2. RankIn(S, b) >= PageSize * p /\ RankIn(S, d) >= PageSize * p
  BY <1>1, PageByRank
<1>3. RankIn(S \ {d}, b) \in Nat /\ RankIn(S, b) \in Nat /\ RankIn(S, d) \in Nat
  BY <1>1, Counting
<1>4. b < d => RankIn(S, d) < RankIn(S, b)
  BY Counting
<1>5. RankIn(S \ {d}, b) = IF d > b THEN RankIn(S, b) - 1 ELSE RankIn(S, b)
  BY Counting
<1>6. RankIn(S \ {d}, b) >= PageSize * p
  BY <1>1, <1>2, <1>3, <1>4, <1>5 DEF Posts
<1> QED
  BY <1>1, <1>6, PageByRank

\* What a page shows.
LEMMA Shown ==
    ASSUME board \subseteq Posts
    PROVE  /\ \A b : PageOf(b) = PageIn(board, b)
           /\ \A p : Listing(p) \subseteq Posts
           /\ Published => \A p :
                /\ Ordinary(Listing(p)) = {b \in board : PageOf(b) = p}
                /\ Listing(p) # {} => Ordinary(Listing(p)) # {}
<1>1. \A b : PageOf(b) = PageIn(board, b)
  BY DEF PageOf, PageIn, RankIn, Above
<1>2. \A p : Listing(p) \subseteq Posts
  BY PostsAssumption DEF Listing, Posts
<1>3. ASSUME Published, NEW p
      PROVE  /\ Ordinary(Listing(p)) = {b \in board : PageOf(b) = p}
             /\ Listing(p) # {} => Ordinary(Listing(p)) # {}
  BY <1>3 DEF Listing, Ordinary, Published
<1> QED
  BY <1>1, <1>2, <1>3

-----------------------------------------------------------------------------
(* Types, and the phases of the collector *)

LEMMA InitTypes == Init => TypeOK /\ Published /\ Phases
<1> SUFFICES ASSUME Init PROVE TypeOK /\ Published /\ Phases
  OBVIOUS
<1> USE DEF Init
<1>1. board \in SUBSET Posts /\ Pinned \in SUBSET Posts /\ board \cap Pinned = {}
  BY PostsAssumption DEF Posts
<1>2. board \cup Pinned \in SUBSET Posts
  BY <1>1
<1>3. newest \in 0..LastPost /\ \A b \in board \cup Pinned : b <= newest
  BY <1>2, GreatestOf
<1>4. TypeOK
  <2>1. MaxPages \in Nat /\ LastPost \in Nat /\ Share \in Nat /\ MaxMishaps \in Nat
    BY SettingsAssumption, BoundsAssumption
  <2>2. NoScan \in [high : 0..LastPost, read : 0..MaxPages, boundary : 0..MaxPages, items : SUBSET Posts]
    BY <2>1 DEF NoScan
  <2>3. board \subseteq Posts /\ stored \subseteq Posts /\ scan = NoScan
    BY <1>1
  <2>4. 0 \in 0..LastPost /\ 0 \in 0..Share /\ 0 \in 0..MaxMishaps
    BY <2>1
  <2>5. next \in Nat \ {0} /\ page \in Nat /\ slips \in Nat /\ pc \in {"idle", "scanning", "backfilling"}
    OBVIOUS
  <2>6. share \in 0..Share /\ mishaps \in 0..MaxMishaps /\ scanned \in 0..LastPost
    BY <2>4
  <2>7. complete \in BOOLEAN /\ slid \in BOOLEAN /\ torn \in BOOLEAN /\ single \in BOOLEAN
    OBVIOUS
  <2>8. scan \in [high : 0..LastPost, read : 0..MaxPages, boundary : 0..MaxPages, items : SUBSET Posts]
    BY <2>2, <2>3
  <2> HIDE DEF Init
  <2> QED
    BY <1>3, <2>3, <2>5, <2>6, <2>7, <2>8 DEF TypeOK
<1>5. Published
  BY <1>1, <1>3 DEF Published, NoScan
<1>6. Phases
  BY SettingsAssumption DEF Phases, NoScan
<1> QED
  BY <1>4, <1>5, <1>6

LEMMA TypeStep == TypeOK /\ [Next]_vars => TypeOK'
<1> SUFFICES ASSUME TypeOK, [Next]_vars PROVE TypeOK'
  OBVIOUS
<1> USE DEF TypeOK, history, database, readers
<1>1. HighWater \in 0..LastPost /\ \A p : Listing(p) \subseteq Posts
  BY GreatestOf, Shown DEF HighWater
<1>2. NoScan \in [high : 0..LastPost, read : 0..MaxPages, boundary : 0..MaxPages, items : SUBSET Posts]
  BY SettingsAssumption, BoundsAssumption DEF NoScan
<1>3. CASE StartScan
  BY <1>1, <1>2, <1>3 DEF StartScan, NoScan
<1>4. CASE ReadPage
  <2>1. scan.read \in 0..MaxPages /\ scan.read # MaxPages
    BY <1>4 DEF ReadPage, ScanOver
  <2>2. scan.read + 1 \in 0..MaxPages
    BY <2>1, SettingsAssumption
  <2>3. scan.items \cup Listing(scan.read + 1) \in SUBSET Posts
    BY <1>1
  <2>4. scan' \in [high : 0..LastPost, read : 0..MaxPages, boundary : 0..MaxPages, items : SUBSET Posts]
    BY <1>4, <2>2, <2>3 DEF ReadPage
  <2> QED
    BY <1>4, <2>4 DEF ReadPage
<1>5. CASE StoreScan
  <2>1. Ordinary(scan.items) \in SUBSET Posts /\ scan.items \in SUBSET Posts
    BY DEF Ordinary
  <2>2. scanned' \in 0..LastPost
    BY <1>5, <2>1, GreatestOf DEF StoreScan
  <2>3. pc' \in {"idle", "scanning", "backfilling"} /\ page' \in Nat /\ share' \in 0..Share
    BY <1>5, SettingsAssumption DEF StoreScan, ResumePage
  <2> QED
    BY <1>2, <1>5, <2>1, <2>2, <2>3 DEF StoreScan
<1>6. CASE EndPartial \/ ReadBeyondEnd
  BY <1>2, <1>6 DEF EndPartial, ReadBeyondEnd
<1>7. CASE BackfillPage
  <2>1. Accepted(Listing(page)) \subseteq Posts
    BY <1>1 DEF Accepted
  <2>2. page' \in Nat /\ share' \in 0..Share /\ pc' \in {"idle", "scanning", "backfilling"}
    BY <1>7, SettingsAssumption DEF BackfillPage
  <2>3. complete' \in BOOLEAN
    BY <1>7 DEF BackfillPage
  <2>4. next' \in Nat \ {0}
    BY <1>7 DEF BackfillPage
  <2> QED
    BY <1>7, <2>1, <2>2, <2>3, <2>4 DEF BackfillPage
<1>8. CASE EndBackfill
  BY <1>8, SettingsAssumption DEF EndBackfill
<1>9. CASE Fail
  <2>1. mishaps' \in 0..MaxMishaps /\ pc' = "idle" /\ page' \in Nat /\ share' \in 0..Share
    BY <1>9, SettingsAssumption, BoundsAssumption DEF Fail, Mishap
  <2>2. slid' \in BOOLEAN /\ scan' = NoScan
    BY <1>9 DEF Fail
  <2> QED
    BY <1>2, <1>9, <2>1, <2>2 DEF Fail
<1>10. CASE CollectMetadata
  BY <1>1, <1>10, BoundsAssumption DEF CollectMetadata, Mishap
<1>11. CASE Arrive
  <2>1. PICK n \in Batches : newest + n <= LastPost /\ newest' = newest + n
                             /\ board' = board \cup ((newest + 1)..(newest + n))
    BY <1>11 DEF Arrive
  <2>2. n \in Nat /\ newest \in Nat /\ LastPost \in Nat
    BY BoundsAssumption
  <2>3. newest' \in 0..LastPost /\ board' \subseteq Posts
    BY <2>1, <2>2 DEF Posts
  <2>4. slid' \in BOOLEAN /\ torn' \in BOOLEAN
    BY <1>11 DEF Arrive
  <2> QED
    BY <1>11, <2>3, <2>4 DEF Arrive
<1>12. ASSUME NEW b \in board \cap Deletable, Delete(b) PROVE TypeOK'
  <2>1. slid' \in BOOLEAN /\ torn' \in BOOLEAN
    BY <1>12 DEF Delete
  <2> QED
    BY <1>12, <2>1, BoundsAssumption DEF Delete, Mishap
<1>13. CASE UNCHANGED vars
  BY <1>13 DEF vars
<1> QED
  BY <1>3, <1>4, <1>5, <1>6, <1>7, <1>8, <1>9, <1>10, <1>11, <1>12, <1>13 DEF Next, Collect

\* Every variable keeps its type, and no scan reads beyond its page limit, for
\* every board and all settings.
THEOREM TypeCorrect == Spec => []TypeOK
<1>1. Init => TypeOK
  BY InitTypes
<1> QED
  BY <1>1, TypeStep, PTL DEF Spec

LEMMA PublishedStep == TypeOK /\ Published /\ [Next]_vars => Published'
<1> SUFFICES ASSUME TypeOK, Published, [Next]_vars PROVE Published'
  OBVIOUS
<1> USE DEF history, database, readers
<1>1. \A p : Listing(p) \subseteq board \cup Pinned
  BY DEF Listing
<1>2. NoScan.items = {}
  BY DEF NoScan
<1>3. CASE Arrive
  <2>1. PICK n \in Batches : newest + n <= LastPost /\ newest' = newest + n
                             /\ board' = board \cup ((newest + 1)..(newest + n))
    BY <1>3 DEF Arrive
  <2>2. n \in Nat /\ newest \in Nat
    BY BoundsAssumption DEF TypeOK
  <2>3. stored' = stored /\ scan' = scan
    BY <1>3 DEF Arrive
  <2>4. \A b \in board \cup Pinned \cup stored \cup scan.items : b \in Nat /\ b <= newest
    BY PostsAssumption DEF TypeOK, Published, Posts
  <2>5. \A b \in (newest + 1)..(newest + n) : b \notin Pinned /\ b <= newest'
    BY <2>1, <2>2, <2>4
  <2>6. \A b \in board \cup Pinned \cup stored \cup scan.items : b <= newest'
    BY <2>1, <2>2, <2>4
  <2> QED
    BY <2>1, <2>3, <2>5, <2>6 DEF Published
<1>4. CASE ReadPage
  <2>1. scan'.items = scan.items \cup Listing(scan.read + 1)
    BY <1>4 DEF ReadPage, TypeOK
  <2> QED
    BY <1>1, <1>4, <2>1 DEF ReadPage, Published
<1>5. CASE StoreScan
  BY <1>2, <1>5 DEF StoreScan, Published
<1>6. CASE BackfillPage
  BY <1>1, <1>6 DEF BackfillPage, Accepted, Published
<1>7. CASE CollectMetadata
  BY <1>1, <1>7 DEF CollectMetadata, Published
<1>8. CASE StartScan
  <2>1. scan'.items = {}
    BY <1>8 DEF StartScan, NoScan
  <2> QED
    BY <1>8, <2>1 DEF StartScan, Published
<1>9. CASE EndPartial \/ ReadBeyondEnd \/ Fail
  BY <1>2, <1>9 DEF EndPartial, ReadBeyondEnd, Fail, Published
<1>10. ASSUME NEW b \in board \cap Deletable, Delete(b) PROVE Published'
  BY <1>10 DEF Delete, Published
<1>11. CASE EndBackfill \/ UNCHANGED vars
  BY <1>11 DEF EndBackfill, vars, Published
<1> QED
  BY <1>3, <1>4, <1>5, <1>6, <1>7, <1>8, <1>9, <1>10, <1>11 DEF Next, Collect

\* A scan that is over has read a page, and so an ordinary post.
LEMMA OverHasItems ==
    ASSUME TypeOK, Phases, ScanOver
    PROVE  scan.read >= MinPages /\ Ordinary(scan.items) # {}
<1>1. scan.read >= MinPages
  BY SettingsAssumption DEF ScanOver, TypeOK
<1> QED
  BY <1>1, SettingsAssumption DEF Phases, TypeOK

LEMMA PhasesStep == TypeOK /\ Published /\ Phases /\ [Next]_vars => Phases'
<1> SUFFICES ASSUME TypeOK, Published, Phases, [Next]_vars PROVE Phases'
  OBVIOUS
<1> USE DEF history, database, readers
<1>1. NoScan.read = 0 /\ NoScan.boundary = 0
  BY DEF NoScan
<1>3. CASE StartScan
  <2>1. scan'.read = 0 /\ scan'.boundary = 0 /\ scan'.high = HighWater
    BY <1>3 DEF StartScan, NoScan
  <2>2. HighWater' = HighWater
    BY <1>3 DEF StartScan, HighWater
  <2> QED
    BY <1>3, <2>1, <2>2 DEF StartScan, Phases
<1>4. CASE ReadPage
  <2>1. Listing(scan.read + 1) # {} /\ scan'.items = scan.items \cup Listing(scan.read + 1)
    BY <1>4 DEF ReadPage, TypeOK
  <2>2. Ordinary(scan'.items) # {}
    BY <2>1, Shown DEF Ordinary, TypeOK
  <2>3. scan'.high = scan.high /\ scan'.read = scan.read + 1 /\ scan.read \in Nat
    BY <1>4 DEF ReadPage, TypeOK
  <2>4. HighWater' = HighWater /\ UNCHANGED <<stored, next, complete, pc, page, slips, slid, torn, single>>
    BY <1>4 DEF ReadPage, HighWater
  <2>5. pc = "scanning"
    BY <1>4 DEF ReadPage
  <2>6. Ordinary(scan.items)' # {} /\ scan'.read > 0
    BY <2>2, <2>3 DEF Ordinary
  <2> QED
    BY <2>3, <2>4, <2>5, <2>6 DEF Phases
<1>5. CASE StoreScan
  <2>1. stored' \ Pinned # {}
    BY <1>5, OverHasItems DEF StoreScan, Ordinary
  <2>2. ResumePage > 0
    BY DEF ResumePage, TypeOK
  <2>3. scan' = NoScan /\ pc' # "scanning"
        /\ slid' = FALSE /\ UNCHANGED <<complete, slips, torn>> /\ (pc' = "backfilling" => ~complete /\ page' = ResumePage)
    BY <1>5 DEF StoreScan
  <2> QED
    BY <1>1, <2>1, <2>2, <2>3 DEF Phases
<1>6. CASE EndPartial \/ ReadBeyondEnd
  BY <1>1, <1>6 DEF EndPartial, ReadBeyondEnd, Phases
<1>7. CASE BackfillPage
  <2>1. stored \subseteq stored' /\ pc = "backfilling" /\ scan' = scan /\ slips' = 0 /\ UNCHANGED <<slid, torn>>
    BY <1>7 DEF BackfillPage
  <2>2. stored' \ Pinned # {}
    BY <2>1 DEF Phases
  <2>3. pc' = "idle" \/ (pc' = pc /\ page' = page + 1 /\ ~complete')
    BY <1>7 DEF BackfillPage
  <2>4. PageSize >= 0 /\ page \in Nat
    BY SettingsAssumption DEF TypeOK
  <2>5. scan = NoScan
    BY <2>1 DEF Phases
  <2> QED
    BY <1>1, <2>1, <2>2, <2>3, <2>4, <2>5 DEF Phases
<1>8. CASE EndBackfill \/ Fail
  BY <1>1, <1>8 DEF EndBackfill, Fail, Phases
<1>9. CASE CollectMetadata
  <2>1. stored' \ Pinned = {} => stored \ Pinned = {}
    BY <1>9 DEF CollectMetadata
  <2> QED
    BY <1>9, <2>1 DEF CollectMetadata, Phases, Ordinary
<1>10. CASE Arrive
  <2>1. (~torn' => ~torn) /\ (slid' => torn')
    BY <1>10 DEF Arrive
  <2> QED
    BY <1>10, <2>1 DEF Arrive, Phases, Ordinary, HighWater
<1>11. ASSUME NEW b \in board \cap Deletable, Delete(b) PROVE Phases'
  <2>1. (~torn' => ~torn /\ (complete \/ slips' <= PageSize)) /\ (slid' => torn')
    BY <1>11, SettingsAssumption DEF Delete, TypeOK
  <2>2. UNCHANGED <<stored, next, complete, pc, scan, page, single>>
    BY <1>11 DEF Delete
  <2> QED
    BY <2>1, <2>2 DEF Phases, Ordinary, HighWater
<1>12. CASE UNCHANGED vars
  BY <1>12 DEF vars, Phases, Ordinary, HighWater
<1> QED
  BY <1>3, <1>4, <1>5, <1>6, <1>7, <1>8, <1>9, <1>10, <1>11, <1>12 DEF Next, Collect
-----------------------------------------------------------------------------
(* The scan *)

\* A page that is read takes all it shows, and moves the newest post seen only to
\* one of its own.
LEMMA ScanReads == TypeOK /\ Published /\ Phases /\ ScanReaches /\ ReadPage => ScanReaches'
<1> SUFFICES ASSUME TypeOK, Published, Phases, ScanReaches, ReadPage, ~slid
             PROVE  ScanReaches'
  BY DEF ReadPage, history, ScanReaches
<1> DEFINE p == scan.read + 1
           shown == Ordinary(Listing(p))
           seen == Ordinary(scan.items)
<1>1. /\ board' = board /\ scan'.read = p /\ scan'.high = scan.high
      /\ scan'.items = scan.items \cup Listing(p)
      /\ scan'.boundary = IF scan.boundary = 0 /\ \E b \in shown : b <= scan.high
                          THEN p ELSE scan.boundary
  BY DEF ReadPage, TypeOK
<1>2. board \in SUBSET Posts /\ Posts \subseteq Nat /\ seen \in SUBSET Posts
      /\ shown \in SUBSET Posts /\ scan.read \in Nat /\ scan.high \in Nat
  BY Shown DEF TypeOK, Posts, Ordinary
<1>3. shown = {b \in board : PageIn(board, b) = p} /\ shown \subseteq Listing(p) /\ shown # {}
  BY <1>2, Shown DEF ReadPage, Ordinary
<1>4. Top' = Greatest(seen \cup shown) /\ seen \cup shown \in SUBSET Posts
  BY <1>1, <1>2 DEF Top, Ordinary
<1>5. Top' \in seen \cup shown /\ \A c \in seen \cup shown : c <= Top'
  BY <1>3, <1>4, GreatestOf
<1>6. Top = Greatest(seen) /\ Top \in Nat /\ (seen # {} => Top \in seen) /\ \A c \in seen : c <= Top
  <2>1. Top = Greatest(seen) /\ 0..LastPost \subseteq Nat
    BY DEF Top
  <2> HIDE DEF seen
  <2> QED
    BY <1>2, <2>1, GreatestOf
<1> HIDE DEF p, shown, seen
<1>7. Top' \in Posts /\ (Top' \in shown \/ (Top' = Top /\ Top \in seen))
  <2>1. Top' \in Posts /\ Top' \in Nat
    BY <1>2, <1>5
  <2>2. CASE Top' \in seen
    <3>1. Top \in seen /\ Top' <= Top /\ Top <= Top'
      BY <1>5, <1>6, <2>2
    <3> QED
      BY <1>6, <2>1, <3>1
  <2> QED
    BY <1>5, <2>1, <2>2
<1>8. /\ \A b \in board \ scan.items : b <= Top => PageIn(board, b) > scan.read
      /\ scan.boundary # 0 =>
          /\ \A b \in board : scan.high < b /\ b <= Top => b \in scan.items
          /\ RankIn(board, Top) <= PageSize * scan.read
  BY <1>2, Shown DEF ScanReaches
<1>9. \A b \in board \ scan'.items : b <= Top' => PageIn(board, b) > p
  <2> SUFFICES ASSUME NEW b \in board \ scan'.items, b <= Top' PROVE PageIn(board, b) > p
    OBVIOUS
  <2>1. b \in board \ scan.items /\ b \in Posts /\ PageIn(board, b) # p
    BY <1>1, <1>2, <1>3
  <2>2. PageIn(board, b) \in Nat
    BY <1>2, <2>1, PageByRank
  <2>3. CASE Top' = Top
    <3>1. PageIn(board, b) > scan.read
      BY <1>8, <2>1, <2>3
    <3> QED
      BY <1>2, <2>1, <2>2, <3>1 DEF p
  <2>4. CASE Top' \in shown
    <3>1. PageIn(board, Top') = p /\ PageIn(board, Top') <= PageIn(board, b)
      BY <1>2, <1>3, <1>7, <2>1, <2>4, PageOrder
    <3> QED
      BY <1>2, <2>1, <2>2, <3>1 DEF p
  <2> QED
    BY <1>7, <2>3, <2>4
<1>10. ASSUME scan.boundary # 0
       PROVE  /\ \A b \in board : scan.high < b /\ b <= Top' => b \in scan'.items
              /\ RankIn(board, Top') <= PageSize * p
  <2>1. Top \in seen /\ Top \in Posts
    BY <1>2, <1>6, <1>10 DEF Phases, TypeOK, seen
  <2>2. PageSize * scan.read \in Nat /\ PageSize * p \in Nat /\ PageSize * scan.read <= PageSize * p
    <3>1. PageSize \in Nat
      BY SettingsAssumption
    <3>2. PageSize * p = PageSize * scan.read + PageSize
      BY <1>2, <3>1 DEF p
    <3>3. PageSize * scan.read \in Nat
      BY <1>2, <3>1
    <3> QED
      BY <3>1, <3>2, <3>3
  <2>3. ASSUME NEW s \in shown PROVE s <= Top
    <3>1. s \in board /\ s \in Posts /\ PageIn(board, s) > scan.read
      BY <1>2, <1>3 DEF p
    <3>2. RankIn(board, s) >= PageSize * scan.read /\ RankIn(board, s) \in Nat
      BY <1>2, <3>1, PageByRank, Counting
    <3>3. Top < s => RankIn(board, s) < RankIn(board, Top)
      BY <1>2, <2>1, <3>1, Counting
    <3>4. RankIn(board, Top) \in Nat
      BY <1>2, <2>1, Counting
    <3>5. ~(Top < s)
      BY <1>8, <1>10, <2>2, <3>2, <3>3, <3>4
    <3> QED
      BY <1>2, <1>6, <3>1, <3>5
  <2>4. Top' = Top
    <3>1. Top' \in shown => Top' <= Top /\ Top <= Top' /\ Top' \in Nat
      BY <1>2, <1>5, <2>1, <2>3
    <3> QED
      BY <1>6, <1>7, <3>1
  <2>5. RankIn(board, Top) \in Nat
    BY <1>2, <2>1, Counting
  <2>6. RankIn(board, Top) <= PageSize * p
    BY <1>8, <1>10, <2>2, <2>5
  <2> QED
    BY <1>1, <1>8, <1>10, <2>4, <2>6
<1>11. ASSUME NEW x \in shown, x <= scan.high
       PROVE  /\ \A b \in board : scan.high < b /\ b <= Top' => b \in scan'.items
              /\ RankIn(board, Top') <= PageSize * p
  <2>1. x \in board /\ x \in Posts /\ x \in Nat /\ PageIn(board, x) = p /\ p \in Nat
    BY <1>2, <1>3 DEF p
  <2>2. ASSUME NEW b \in board, scan.high < b, b <= Top', b \notin scan'.items PROVE FALSE
    <3>1. b \in Posts /\ b \in Nat /\ x <= b
      BY <1>2, <1>11, <2>1, <2>2
    <3>2. PageIn(board, b) > p
      BY <1>9, <2>2
    <3>3. PageIn(board, b) <= p /\ PageIn(board, b) \in Nat
      BY <1>2, <2>1, <3>1, PageOrder, PageByRank
    <3> QED
      BY <2>1, <3>2, <3>3
  <2>3. x <= Top'
    BY <1>5
  <2>4. RankIn(board, Top') <= RankIn(board, x)
    BY <1>2, <1>7, <2>1, <2>3, Counting
  <2>5. ~(RankIn(board, x) >= PageSize * p)
    BY <1>2, <2>1, PageByRank
  <2>6. RankIn(board, x) \in Nat /\ RankIn(board, Top') \in Nat
    BY <1>2, <1>7, <2>1, Counting
  <2>7. PageSize * p \in Nat
    BY <2>1, SettingsAssumption
  <2> QED
    BY <2>2, <2>4, <2>5, <2>6, <2>7
<1>12. scan'.boundary # 0 =>
         /\ \A b \in board : scan.high < b /\ b <= Top' => b \in scan'.items
         /\ RankIn(board, Top') <= PageSize * p
  BY <1>1, <1>10, <1>11
<1>13. \A b : PageOf(b)' = PageIn(board, b)
  BY <1>1 DEF PageOf, PageIn, RankIn, Above
<1>14. RankIn(board, Top)' = RankIn(board, Top')
  BY <1>1 DEF RankIn, Above
<1> QED
  BY <1>1, <1>9, <1>12, <1>13, <1>14 DEF ScanReaches

\* Arrivals push what has not been seen further down; the history variable slid
\* tells when they fill more pages than the scan has read.
LEMMA ScanMeetsArrivals == TypeOK /\ Published /\ Phases /\ ScanReaches /\ Arrive => ScanReaches'
<1> SUFFICES ASSUME TypeOK, Published, Phases, ScanReaches, Arrive, ~slid'
             PROVE  ScanReaches'
  BY DEF ScanReaches
<1>1. PICK n \in Batches : newest + n <= LastPost /\ newest' = newest + n
                           /\ board' = board \cup ((newest + 1)..(newest + n))
  BY DEF Arrive
<1>2. scan' = scan /\ Top' = Top
  BY DEF Arrive, readers, Top, Ordinary
<1>3. ~slid /\ (scan.boundary # 0 => ~(RankIn(board', Top) > PageSize * scan.read))
  BY DEF Arrive, RankIn, Above, Top
<1>4. board \in SUBSET Posts /\ board' \in SUBSET Posts /\ Posts \subseteq Nat /\ newest \in Nat
      /\ scan.read \in Nat /\ Ordinary(scan.items) \in SUBSET Posts
  <2>1. n \in Nat /\ newest \in Nat /\ LastPost \in Nat
    BY BoundsAssumption DEF TypeOK
  <2> QED
    BY <1>1, <2>1 DEF TypeOK, Posts, Ordinary
<1>5. Top \in Nat /\ Top <= newest /\ (Ordinary(scan.items) # {} => Top \in Posts)
  <2>1. Top \in 0..LastPost
    BY <1>4, GreatestOf DEF Top
  <2>2. Ordinary(scan.items) = {} => Top = 0
    BY <1>4, GreatestOf DEF Top
  <2>3. Ordinary(scan.items) # {} => Top \in Ordinary(scan.items)
    BY <1>4, GreatestOf DEF Top
  <2> QED
    BY <1>4, <2>1, <2>2, <2>3, BoundsAssumption DEF Published, Ordinary
<1>6. \A b \in board' : b <= Top => b \in board
  <2> SUFFICES ASSUME NEW b \in (newest + 1)..(newest + n), b <= Top PROVE FALSE
    BY <1>1
  <2>1. n \in Nat
    BY BoundsAssumption
  <2> QED
    BY <1>4, <1>5, <2>1
<1>7. \A b : PageOf(b) = PageIn(board, b) /\ PageOf(b)' = PageIn(board', b)
  BY DEF PageOf, PageIn, RankIn, Above
<1>8. \A b \in board' \ scan.items : b <= Top => PageIn(board', b) > scan.read
  <2> SUFFICES ASSUME NEW b \in board \ scan.items, b <= Top PROVE PageIn(board', b) > scan.read
    BY <1>6
  <2>1. b \in Posts /\ PageIn(board, b) > scan.read /\ board \in SUBSET board'
    BY <1>1, <1>3, <1>4, <1>7 DEF ScanReaches
  <2> QED
    BY <1>4, <2>1, PageAfterArrival
<1>9. ASSUME scan.boundary # 0
      PROVE  /\ \A b \in board' : scan.high < b /\ b <= Top => b \in scan.items
             /\ RankIn(board', Top) <= PageSize * scan.read
  <2>1. Top \in Posts
    BY <1>5, <1>9 DEF Phases, TypeOK
  <2>2. RankIn(board', Top) \in Nat /\ PageSize * scan.read \in Nat
    BY <1>4, <2>1, Counting, SettingsAssumption
  <2>3. RankIn(board', Top) <= PageSize * scan.read
    BY <1>3, <1>9, <2>2
  <2> QED
    BY <1>3, <1>6, <1>9, <2>3 DEF ScanReaches
<1>10. RankIn(board, Top)' = RankIn(board', Top)
  BY <1>2 DEF RankIn, Above
<1> QED
  BY <1>2, <1>7, <1>8, <1>9, <1>10 DEF ScanReaches

\* A post that is deleted where the scan has yet to read moves nothing past it.
LEMMA ScanMeetsDeletion ==
    ASSUME NEW d \in board, TypeOK, Published, Phases, ScanReaches, Delete(d)
    PROVE  ScanReaches'
<1> SUFFICES ASSUME ~slid' PROVE ScanReaches'
  BY DEF ScanReaches
<1>1. ~slid /\ (pc = "scanning" => ~(PageOf(d) <= scan.read))
  BY DEF Delete
<1>2. scan' = scan /\ Top' = Top /\ board' = board \ {d}
  BY DEF Delete, readers, Top, Ordinary
<1>3. board \in SUBSET Posts /\ board' \in SUBSET Posts /\ scan.read \in Nat /\ d \in Posts
      /\ Ordinary(scan.items) \in SUBSET Posts
  BY <1>2 DEF TypeOK, Ordinary
<1>4. \A b : PageOf(b) = PageIn(board, b) /\ PageOf(b)' = PageIn(board', b)
  BY DEF PageOf, PageIn, RankIn, Above
<1>5. scan.read # 0 => pc = "scanning" /\ Top \in Posts
  <2>1. scan.read # 0 => pc = "scanning" /\ Ordinary(scan.items) # {}
    BY <1>3 DEF Phases, NoScan
  <2> QED
    BY <1>3, <2>1, GreatestOf DEF Top
<1>6. PageIn(board, d) > scan.read
  <2>1. PageIn(board, d) \in Nat /\ PageIn(board, d) > 0
    BY <1>3, PageByRank
  <2> QED
    BY <1>1, <1>3, <1>4, <1>5, <2>1
<1>7. \A b \in board' \ scan.items : b <= Top => PageIn(board', b) > scan.read
  <2> SUFFICES ASSUME NEW b \in board', b \notin scan.items, b <= Top
               PROVE  PageIn(board', b) > scan.read
    OBVIOUS
  <2>1. b \in Posts /\ PageIn(board, b) > scan.read
    BY <1>1, <1>2, <1>3, <1>4 DEF ScanReaches
  <2> QED
    BY <1>2, <1>3, <1>6, <2>1, PageAfterDeletion
<1>8. ASSUME scan.boundary # 0
      PROVE  /\ \A b \in board' : scan.high < b /\ b <= Top => b \in scan.items
             /\ RankIn(board', Top) <= PageSize * scan.read
  <2>1. Top \in Posts
    BY <1>3, <1>5, <1>8 DEF Phases
  <2>2. RankIn(board', Top) \in Nat /\ RankIn(board, Top) \in Nat
    BY <1>3, <2>1, Counting
  <2>3. RankIn(board', Top) <= RankIn(board, Top)
    <3>1. board' \in SUBSET board
      BY <1>2
    <3> QED
      BY <1>3, <2>1, <3>1, Counting
  <2>4. RankIn(board, Top) <= PageSize * scan.read /\ PageSize * scan.read \in Nat
    BY <1>1, <1>3, <1>8, SettingsAssumption DEF ScanReaches
  <2>5. RankIn(board', Top) <= PageSize * scan.read
    BY <2>2, <2>3, <2>4
  <2> QED
    BY <1>1, <1>2, <1>8, <2>5 DEF ScanReaches
<1>9. RankIn(board, Top)' = RankIn(board', Top)
  BY <1>2 DEF RankIn, Above
<1> QED
  BY <1>2, <1>4, <1>7, <1>8, <1>9 DEF ScanReaches

\* Before a scan has read anything there is nothing to say of it.
LEMMA NothingRead ==
    board \subseteq Posts /\ scan.boundary = 0 /\ scan.items = {} => ScanReaches
<1> SUFFICES ASSUME board \subseteq Posts, scan.boundary = 0, scan.items = {} PROVE ScanReaches
  OBVIOUS
<1>1. Top = 0
  BY GreatestOf DEF Top, Ordinary
<1>2. \A b \in board : ~(b <= Top)
  BY <1>1, BoundsAssumption DEF Posts
<1> QED
  BY <1>2 DEF ScanReaches

LEMMA ScanStep == TypeOK /\ Published /\ Phases /\ ScanReaches /\ [Next]_vars => ScanReaches'
<1> SUFFICES ASSUME TypeOK, Published, Phases, ScanReaches, [Next]_vars PROVE ScanReaches'
  OBVIOUS
<1> USE DEF history, database, readers
<1>1. board' \subseteq Posts
  BY TypeStep DEF TypeOK
<1>2. CASE StartScan \/ StoreScan \/ EndPartial \/ ReadBeyondEnd \/ Fail
  <2>1. scan'.boundary = 0 /\ scan'.items = {}
    BY <1>2 DEF StartScan, StoreScan, EndPartial, ReadBeyondEnd, Fail, NoScan
  <2>2. (board \subseteq Posts /\ scan.boundary = 0 /\ scan.items = {} => ScanReaches)'
    BY NothingRead, PTL
  <2> QED
    BY <1>1, <2>1, <2>2
<1>3. CASE BackfillPage \/ EndBackfill \/ CollectMetadata \/ UNCHANGED vars
  <2>1. UNCHANGED <<board, scan, slid>>
    BY <1>3 DEF BackfillPage, EndBackfill, CollectMetadata, vars
  <2> QED
    BY <2>1 DEF ScanReaches, PageOf, RankIn, Above, Top, Ordinary
<1>4. CASE \E b \in board \cap Deletable : Delete(b)
  BY <1>4, ScanMeetsDeletion
<1> QED
  BY <1>2, <1>3, <1>4, ScanReads, ScanMeetsArrivals DEF Next, Collect
-----------------------------------------------------------------------------
(* The backfill and its cursor *)

\* The high-water mark is a stored post, or 0.
LEMMA Mark ==
    ASSUME TypeOK
    PROVE  /\ HighWater \in 0..LastPost
           /\ stored \ Pinned = {} => HighWater = 0
           /\ stored \ Pinned # {} => HighWater \in stored \ Pinned
           /\ \A c \in stored \ Pinned : c <= HighWater
<1>1. stored \ Pinned \in SUBSET Posts
  BY DEF TypeOK
<1> QED
  BY <1>1, GreatestOf DEF HighWater

\* The same of the next state.
LEMMA MarkNext ==
    ASSUME TypeOK'
    PROVE  /\ HighWater' \in Nat
           /\ stored' \ Pinned # {} => HighWater' \in stored' \ Pinned
<1>1. stored' \ Pinned \in SUBSET Posts /\ HighWater' = Greatest(stored' \ Pinned)
  BY DEF TypeOK, HighWater
<1>2. HighWater' \in 0..LastPost /\ (stored' \ Pinned # {} => HighWater' \in stored' \ Pinned)
  BY <1>1, GreatestOf
<1> QED
  BY <1>2

\* A post as many ranks down as the cursor asks for, less a page of deletions, is
\* not before the page the backfill resumes with.
LEMMA Resumes ==
    ASSUME TypeOK, slips <= PageSize,
           NEW b \in Posts, RankIn(board, b) + slips >= PageSize * (next - 1)
    PROVE  PageIn(board, b) >= ResumePage
<1>1. board \in SUBSET Posts /\ PageSize \in Nat /\ next \in Nat /\ next > 0 /\ slips \in Nat
  BY SettingsAssumption DEF TypeOK
<1>2. RankIn(board, b) \in Nat /\ PageIn(board, b) \in Nat /\ PageIn(board, b) > 0
  BY <1>1, Counting, PageByRank
<1>3. CASE next > 1
  <2> DEFINE p == next - 2
  <2>1. p \in Nat /\ next - 1 = p + 1
    BY <1>1, <1>3
  <2>2. PageSize * p \in Nat /\ PageSize * (p + 1) = PageSize * p + PageSize
    BY <1>1, <2>1
  <2> HIDE DEF p
  <2>3. RankIn(board, b) >= PageSize * p
    BY <1>1, <1>2, <2>1, <2>2
  <2>4. PageIn(board, b) > p
    BY <1>1, <2>1, <2>3, PageByRank
  <2> QED
    BY <1>1, <1>2, <1>3, <2>1, <2>4 DEF ResumePage
<1>4. CASE ~(next > 1)
  BY <1>2, <1>4 DEF ResumePage
<1> QED
  BY <1>3, <1>4

\* A step that moves neither the board nor the database, and does not open a
\* backfill attempt, leaves what the backfill has to reach as it was.
LEMMA Unmoved ==
    ASSUME BackfillReaches, UNCHANGED <<board, stored, next, complete, slips, torn, single>>,
           pc' = "backfilling" => pc = "backfilling" /\ page' = page
    PROVE  BackfillReaches'
  BY DEF BackfillReaches, Missing, HighWater, RankIn, Above, PageOf

\* A first scan reads at least the pages before the cursor's first one; a later
\* one leaves nothing above the mark behind.
LEMMA BackfillAfterScan ==
    ASSUME MinPages >= 2,
           TypeOK, TypeOK', Published, Phases, ScanReaches, BackfillReaches, StoreScan
    PROVE  BackfillReaches'
<1> SUFFICES ASSUME ~torn, ~slid, ~single PROVE BackfillReaches'
  BY DEF StoreScan, BackfillReaches, Phases
<1>1. /\ stored' = stored \cup scan.items
      /\ UNCHANGED <<board, next, complete, slips, torn, single>>
      /\ pc' = "backfilling" => ~complete /\ page' = ResumePage
      /\ pc = "scanning" /\ scan.high = HighWater
  BY DEF StoreScan, Phases
<1>2. board \in SUBSET Posts /\ stored \in SUBSET Posts /\ Posts \subseteq Nat \ {0}
      /\ Ordinary(scan.items) \in SUBSET Posts /\ HighWater \in Nat /\ HighWater' \in Nat
      /\ next \in Nat /\ slips \in Nat /\ PageSize \in Nat /\ scan.read \in Nat
  <2>1. HighWater \in Nat /\ HighWater' \in Nat
    BY Mark, MarkNext
  <2>2. next \in Nat /\ slips \in Nat /\ scan.read \in Nat /\ PageSize \in Nat
    BY SettingsAssumption DEF TypeOK
  <2> QED
    BY <2>1, <2>2 DEF TypeOK, Posts, Ordinary
<1>3. HighWater' <= HighWater \/ HighWater' <= Top
  <2>1. Top \in 0..LastPost /\ \A c \in Ordinary(scan.items) : c <= Top
    BY <1>2, GreatestOf DEF Top
  <2>2. stored' \ Pinned = (stored \ Pinned) \cup Ordinary(scan.items)
    BY <1>1 DEF Ordinary
  <2>3. stored' \ Pinned # {}
    BY <2>2, OverHasItems DEF StoreScan
  <2>4. HighWater' \in stored' \ Pinned
    BY <2>3, MarkNext
  <2> QED
    BY <2>1, <2>2, <2>4, Mark
<1>4. \A b \in Missing' :
         \/ b \in Missing
         \/ b \in board \ scan.items /\ b \notin stored /\ scan.high < b /\ b <= Top
  <2> SUFFICES ASSUME NEW b \in Missing', ~(b <= HighWater)
               PROVE  b \in board \ scan.items /\ b \notin stored /\ scan.high < b /\ b <= Top
    BY <1>1 DEF Missing
  <2>1. b \in board \ scan.items /\ b \notin stored /\ b <= HighWater' /\ b \in Nat
    BY <1>1, <1>2 DEF Missing
  <2>2. Top \in Nat
    BY <1>2, GreatestOf DEF Top
  <2> QED
    BY <1>1, <1>2, <1>3, <2>1, <2>2
<1>5. /\ complete => Missing' = {}
      /\ \A b \in Missing' : RankIn(board, b) + slips >= PageSize * (next - 1)
  <2>1. CASE scan.high # 0
    <3>1. scan.boundary # 0
      BY <2>1 DEF StoreScan, BoundaryReached
    <3>2. \A b \in Missing' : b \in Missing
      BY <1>4, <3>1 DEF ScanReaches
    <3> QED
      BY <3>2 DEF BackfillReaches
  <2>2. CASE scan.high = 0
    <3>1. stored \ Pinned = {}
      BY <1>1, <1>2, <2>2, Mark
    <3>2. next = 3 /\ ~complete
      BY <3>1 DEF Phases
    <3>3. Missing = {}
      <4>1. \A b \in board : ~(b <= HighWater)
        BY <1>1, <1>2, <2>2
      <4> QED
        BY <4>1 DEF Missing
    <3>4. scan.read >= 2
      BY <1>2, OverHasItems, SettingsAssumption DEF StoreScan
    <3>5. ASSUME NEW b \in Missing' PROVE RankIn(board, b) >= PageSize * 2
      <4>1. b \in Posts /\ PageOf(b) > scan.read
        BY <1>2, <1>4, <3>3 DEF ScanReaches
      <4>2. PageIn(board, b) > 2
        BY <1>2, <3>4, <4>1, Shown, PageByRank
      <4> QED
        BY <1>2, <4>1, <4>2, PageByRank
    <3>6. ASSUME NEW b \in Missing' PROVE RankIn(board, b) + slips >= PageSize * 2
      <4>1. b \in Posts
        BY <1>2, <1>4, <3>3
      <4>2. RankIn(board, b) \in Nat
        BY <1>2, <4>1, Counting
      <4> QED
        BY <1>2, <3>5, <4>2
    <3> QED
      BY <3>2, <3>6
  <2> QED
    BY <2>1, <2>2
<1>6. pc' = "backfilling" => \A b \in Missing' : PageIn(board, b) >= page'
  <2> SUFFICES ASSUME pc' = "backfilling", NEW b \in Missing' PROVE PageIn(board, b) >= ResumePage
    BY <1>1
  <2>1. b \in Posts /\ slips <= PageSize
    BY <1>1, <1>2 DEF Missing, Phases
  <2> QED
    BY <1>5, <2>1, Resumes
<1>7. \A b : PageOf(b)' = PageIn(board, b) /\ RankIn(board, b)' = RankIn(board, b)
  BY <1>1 DEF PageOf, PageIn, RankIn, Above
<1> QED
  BY <1>1, <1>5, <1>6, <1>7 DEF BackfillReaches, RankIn, Above

\* A page of the backfill takes what it shows of the window, so that nothing
\* remains up to the next page; at the window's end nothing remains at all.
LEMMA BackfillReads ==
    ASSUME TypeOK, TypeOK', Published, Phases, BackfillReaches, BackfillPage
    PROVE  BackfillReaches'
<1> SUFFICES ASSUME ~torn, ~single PROVE BackfillReaches'
  BY DEF BackfillPage, BackfillReaches
<1> DEFINE shown == Ordinary(Listing(page))
<1>1. /\ pc = "backfilling" /\ stored' = stored \cup Accepted(Listing(page))
      /\ board' = board /\ next' = page + 1 /\ slips' = 0
      /\ complete' = (\E b \in shown : b < Cutoff)
      /\ pc' = "backfilling" => page' = page + 1
  BY DEF BackfillPage
<1>2. board \in SUBSET Posts /\ stored \in SUBSET Posts /\ Posts \subseteq Nat /\ Cutoff \in Nat
      /\ HighWater \in Nat /\ HighWater' \in Nat /\ PageSize \in Nat /\ page \in Nat /\ page > 0
  <2>1. HighWater \in Nat /\ HighWater' \in Nat
    BY Mark, MarkNext
  <2>2. page \in Nat /\ page > 0 /\ PageSize \in Nat /\ Cutoff \in Nat
    BY <1>1, SettingsAssumption, BoundsAssumption DEF TypeOK, Phases
  <2> QED
    BY <2>1, <2>2 DEF TypeOK, Posts
<1>3. shown = {b \in board : PageIn(board, b) = page} /\ shown \subseteq Listing(page)
  BY <1>2, Shown DEF Ordinary
<1>4. HighWater' <= HighWater \/ HighWater' \in shown
  <2>1. stored \ Pinned # {} /\ stored' \ Pinned \subseteq (stored \ Pinned) \cup shown
    BY <1>1 DEF Phases, Accepted, Ordinary
  <2>2. HighWater' \in stored' \ Pinned
    BY <1>1, <2>1, MarkNext
  <2> QED
    BY <2>1, <2>2, Mark
<1> HIDE DEF shown
<1>5. ASSUME NEW b \in Missing' PROVE b \in Posts /\ Cutoff <= b /\ PageIn(board, b) > page
  <2>1. b \in board /\ b \in Posts /\ b \notin stored /\ b \notin Accepted(Listing(page))
        /\ Cutoff <= b /\ b <= HighWater'
    BY <1>1, <1>2 DEF Missing
  <2>2. b \notin shown
    BY <1>3, <2>1 DEF Accepted
  <2>3. PageIn(board, b) # page /\ PageIn(board, b) \in Nat
    BY <1>2, <1>3, <2>1, <2>2, PageByRank
  <2>4. CASE b <= HighWater
    <3>1. PageIn(board, b) >= page
      BY <1>1, <2>1, <2>4, <1>2, Shown DEF Missing, BackfillReaches
    <3> QED
      BY <1>2, <2>1, <2>3, <3>1
  <2>5. CASE ~(b <= HighWater)
    <3>1. HighWater' \in shown
      BY <1>2, <1>4, <2>1, <2>5
    <3>2. PageIn(board, HighWater') = page /\ PageIn(board, HighWater') <= PageIn(board, b)
      BY <1>2, <1>3, <2>1, <3>1, PageOrder
    <3> QED
      BY <1>2, <2>1, <2>3, <3>2
  <2> QED
    BY <2>4, <2>5
<1>6. complete' => Missing' = {}
  <2> SUFFICES ASSUME NEW x \in shown, x < Cutoff, NEW b \in Missing' PROVE FALSE
    BY <1>1
  <2>1. x \in Posts /\ x \in board /\ PageIn(board, x) = page
    BY <1>2, <1>3
  <2>2. x <= b
    <3>1. x \in Nat /\ b \in Nat /\ Cutoff <= b
      BY <1>2, <1>5, <2>1
    <3> QED
      BY <1>2, <3>1
  <2>3. PageIn(board, b) <= page
    BY <1>2, <1>5, <2>1, <2>2, PageOrder
  <2>4. PageIn(board, b) \in Nat
    BY <1>2, <1>5, PageByRank
  <2> QED
    BY <1>2, <1>5, <2>3, <2>4
<1>7. ASSUME NEW b \in Missing'
      PROVE  /\ RankIn(board, b) + slips' >= PageSize * (next' - 1)
             /\ PageIn(board, b) >= page + 1
  <2>1. RankIn(board, b) >= PageSize * page /\ RankIn(board, b) \in Nat /\ PageIn(board, b) \in Nat
    BY <1>2, <1>5, PageByRank, Counting
  <2>2. next' - 1 = page
    BY <1>1, <1>2
  <2>3. PageIn(board, b) > page
    BY <1>5
  <2>4. RankIn(board, b) + slips' = RankIn(board, b)
    BY <1>1, <2>1
  <2> QED
    BY <1>2, <2>1, <2>2, <2>3, <2>4
<1>8. \A b : PageOf(b)' = PageIn(board, b) /\ RankIn(board, b)' = RankIn(board, b)
  BY <1>1 DEF PageOf, PageIn, RankIn, Above
<1> QED
  BY <1>1, <1>6, <1>7, <1>8 DEF BackfillReaches, RankIn, Above

\* Arrivals are above the mark, and push what is missing further down.
LEMMA BackfillMeetsArrivals ==
    ASSUME TypeOK, TypeOK', Published, Phases, BackfillReaches, Arrive
    PROVE  BackfillReaches'
<1> SUFFICES ASSUME ~torn', ~single' PROVE BackfillReaches'
  BY DEF BackfillReaches
<1>1. PICK n \in Batches : newest + n <= LastPost /\ newest' = newest + n
                           /\ board' = board \cup ((newest + 1)..(newest + n))
  BY DEF Arrive
<1>2. ~torn /\ ~single /\ UNCHANGED <<stored, next, complete, pc, page, slips>>
  BY DEF Arrive, database, readers
<1>3. board \in SUBSET board' /\ board \in SUBSET Posts /\ board' \in SUBSET Posts /\ Posts \subseteq Nat
      /\ newest \in Nat /\ HighWater \in Nat /\ PageSize \in Nat /\ page \in Nat /\ next \in Nat /\ next > 0
      /\ slips \in Nat
  BY <1>1, Mark, SettingsAssumption DEF TypeOK, Posts
<1>4. HighWater <= newest
  BY <1>3, Mark DEF Published
<1>5. Missing' \subseteq Missing
  <2> SUFFICES ASSUME NEW b \in Missing' PROVE b \in board
    BY <1>2 DEF Missing, HighWater
  <2>1. b \in board' /\ b <= HighWater
    BY <1>2 DEF Missing, HighWater
  <2>2. n \in Nat
    BY BoundsAssumption
  <2>3. b \notin (newest + 1)..(newest + n)
    BY <1>3, <1>4, <2>1, <2>2
  <2> QED
    BY <1>1, <2>1, <2>3
<1>6. ASSUME NEW b \in Missing'
      PROVE  /\ RankIn(board', b) + slips >= PageSize * (next - 1)
             /\ pc = "backfilling" => PageIn(board', b) >= page
  <2>1. b \in Missing /\ b \in Posts
    BY <1>3, <1>5 DEF Missing
  <2>2. RankIn(board, b) <= RankIn(board', b) /\ RankIn(board, b) \in Nat /\ RankIn(board', b) \in Nat
    BY <1>3, <2>1, Counting
  <2>3. RankIn(board, b) + slips >= PageSize * (next - 1) /\ PageSize * (next - 1) \in Nat
    BY <1>2, <1>3, <2>1 DEF BackfillReaches
  <2>4. RankIn(board', b) + slips >= PageSize * (next - 1)
    BY <1>3, <2>2, <2>3
  <2>5. ASSUME pc = "backfilling" PROVE PageIn(board', b) >= page
    <3>1. PageIn(board, b) >= page /\ page > 0
      BY <1>2, <1>3, <2>1, <2>5, Shown DEF BackfillReaches, Phases
    <3>2. page - 1 \in Nat /\ PageIn(board, b) > page - 1
      BY <1>3, <2>1, <3>1, PageByRank
    <3>3. PageIn(board', b) > page - 1
      BY <1>3, <2>1, <3>2, PageAfterArrival
    <3> QED
      BY <1>3, <2>1, <3>3, PageByRank
  <2> QED
    BY <2>4, <2>5
<1>7. \A b : PageOf(b)' = PageIn(board', b)
  BY DEF PageOf, PageIn, RankIn, Above
<1>8. complete => Missing' = {}
  BY <1>2, <1>5 DEF BackfillReaches
<1> QED
  BY <1>2, <1>6, <1>7, <1>8 DEF BackfillReaches, RankIn, Above

\* A deletion lifts what is missing by one post, which slips counts; where the
\* current attempt has yet to read, nothing is lifted past it.
LEMMA BackfillMeetsDeletion ==
    ASSUME NEW d \in board, TypeOK, TypeOK', Phases, BackfillReaches, Delete(d)
    PROVE  BackfillReaches'
<1> SUFFICES ASSUME ~torn', ~single' PROVE BackfillReaches'
  BY DEF BackfillReaches
<1>1. /\ ~torn /\ ~single /\ board' = board \ {d} /\ slips' = slips + 1
      /\ UNCHANGED <<stored, next, complete, pc, page>>
      /\ pc = "backfilling" => ~(PageOf(d) < page)
  BY DEF Delete, database, readers
<1>2. board \in SUBSET Posts /\ board' \in SUBSET Posts /\ d \in Posts /\ Posts \subseteq Nat
      /\ PageSize \in Nat /\ page \in Nat /\ next \in Nat /\ next > 0 /\ slips \in Nat
  BY SettingsAssumption DEF TypeOK, Posts
<1>3. Missing' \subseteq Missing
  BY <1>1 DEF Missing, HighWater
<1>4. ASSUME NEW b \in Missing'
      PROVE  /\ RankIn(board', b) + slips' >= PageSize * (next - 1)
             /\ pc = "backfilling" => PageIn(board', b) >= page
  <2>1. b \in Missing /\ b \in Posts
    BY <1>2, <1>3 DEF Missing
  <2>2. RankIn(board', b) = IF d > b THEN RankIn(board, b) - 1 ELSE RankIn(board, b)
    <3>1. RankIn(board \ {d}, b) = IF d > b THEN RankIn(board, b) - 1 ELSE RankIn(board, b)
      BY <1>2, <2>1, Counting
    <3> QED
      BY <1>1, <3>1
  <2>3. RankIn(board, b) \in Nat /\ RankIn(board', b) \in Nat
    BY <1>2, <2>1, Counting
  <2>4. RankIn(board, b) + slips >= PageSize * (next - 1) /\ PageSize * (next - 1) \in Nat
    BY <1>1, <1>2, <2>1 DEF BackfillReaches
  <2>5. RankIn(board', b) + slips' >= PageSize * (next - 1)
    BY <1>1, <1>2, <2>2, <2>3, <2>4
  <2>6. ASSUME pc = "backfilling" PROVE PageIn(board', b) >= page
    <3>1. PageIn(board, b) >= page /\ page > 0 /\ ~(PageIn(board, d) < page)
      BY <1>1, <1>2, <2>1, <2>6, Shown DEF BackfillReaches, Phases
    <3>2. PageIn(board, b) \in Nat /\ PageIn(board, d) \in Nat
      BY <1>2, <2>1, PageByRank
    <3>3. page - 1 \in Nat /\ PageIn(board, b) > page - 1 /\ PageIn(board, d) > page - 1
      BY <1>2, <3>1, <3>2
    <3>4. PageIn(board', b) > page - 1
      BY <1>1, <1>2, <2>1, <3>3, PageAfterDeletion
    <3> QED
      BY <1>2, <2>1, <3>4, PageByRank
  <2> QED
    BY <2>5, <2>6
<1>5. \A b : PageOf(b)' = PageIn(board', b)
  BY DEF PageOf, PageIn, RankIn, Above
<1>6. complete => Missing' = {}
  BY <1>1, <1>3 DEF BackfillReaches
<1> QED
  BY <1>1, <1>4, <1>5, <1>6 DEF BackfillReaches, RankIn, Above

LEMMA BackfillStep ==
    ASSUME MinPages >= 2
    PROVE  TypeOK /\ Published /\ Phases /\ ScanReaches /\ BackfillReaches /\ [Next]_vars
             => BackfillReaches'
<1> SUFFICES ASSUME TypeOK, Published, Phases, ScanReaches, BackfillReaches, [Next]_vars
             PROVE  BackfillReaches'
  OBVIOUS
<1> USE DEF history, database, readers
<1>1. TypeOK'
  BY TypeStep
<1>2. CASE StartScan \/ ReadPage \/ EndPartial \/ ReadBeyondEnd \/ EndBackfill \/ Fail \/ UNCHANGED vars
  <2>1. UNCHANGED <<board, stored, next, complete, slips, torn, single>>
    BY <1>2 DEF StartScan, ReadPage, EndPartial, ReadBeyondEnd, EndBackfill, Fail, vars
  <2>2. pc' = "backfilling" => pc = "backfilling" /\ page' = page
    BY <1>2 DEF StartScan, ReadPage, EndPartial, ReadBeyondEnd, EndBackfill, Fail, vars
  <2> QED
    BY <2>1, <2>2, Unmoved
<1>3. CASE CollectMetadata
  BY <1>3 DEF CollectMetadata, BackfillReaches
<1>4. CASE \E b \in board \cap Deletable : Delete(b)
  BY <1>1, <1>4, BackfillMeetsDeletion
<1>5. CASE StoreScan
  BY <1>1, <1>5, BackfillAfterScan
<1>6. CASE BackfillPage
  BY <1>1, <1>6, BackfillReads
<1>7. CASE Arrive
  BY <1>1, <1>7, BackfillMeetsArrivals
<1> QED
  BY <1>2, <1>3, <1>4, <1>5, <1>6, <1>7 DEF Next, Collect

-----------------------------------------------------------------------------
(* What a run of the collector shows *)

\* A scan that has found its boundary, read the overlap and is stored has covered
\* every post on the board between the previous high-water mark and the newest it
\* has seen, unless, while it read, a post of a page it had passed was deleted or,
\* once it had found its boundary, more posts arrived than the pages it had passed
\* can hold (slid); for all sizes of pages, overlaps and limits, and whatever
\* happened before that scan (scan_incremental_pages).
THEOREM GapIsClosed == Spec => ScanClosesTheGap
<1> DEFINE Scanned == TypeOK /\ Published /\ Phases /\ ScanReaches
<1>1. Init => Scanned
  <2> SUFFICES ASSUME Init PROVE ScanReaches
    BY InitTypes
  <2>1. board \subseteq Posts /\ scan.boundary = 0 /\ scan.items = {}
    BY InitTypes DEF Init, NoScan, TypeOK
  <2> QED
    BY <2>1, NothingRead
<1>2. Scanned /\ [Next]_vars => Scanned'
  BY TypeStep, PublishedStep, PhasesStep, ScanStep
<1>3. Scanned /\ [Next]_vars =>
        [scanned' # scanned /\ ~ slid /\ scan.high # 0 =>
            \A b \in board : scan.high < b /\ b <= scanned' => b \in stored']_vars
  <2> SUFFICES ASSUME Scanned, Next, scanned' # scanned, ~ slid, scan.high # 0,
                      NEW b \in board, scan.high < b, b <= scanned'
               PROVE  b \in stored'
    BY DEF vars, history
  <2>1. StoreScan
    BY DEF Next, Collect, StartScan, ReadPage, EndPartial, ReadBeyondEnd, BackfillPage, EndBackfill,
           Fail, CollectMetadata, Arrive, Delete, history
  <2>2. scanned' = Top /\ scan.boundary # 0 /\ stored' = stored \cup scan.items
    BY <2>1 DEF StoreScan, BoundaryReached, Top
  <2> QED
    BY <2>2 DEF ScanReaches
<1> QED
  BY <1>1, <1>2, <1>3, PTL DEF Spec, ScanClosesTheGap

\* No arrival, error, crash, partial scan or interrupted backfill leaves a hole
\* below the high-water mark that no reader returns to, as long as the board moves
\* under no reader by more than it absorbs (torn) and collect-metadata is not used
\* (single), and provided that a scan reads the two pages before the one that a new
\* cursor names
\* (run_backfill_budget stores initial_page = 3; settings.yaml reads two pages).
THEOREM NoHoleRemains ==
    ASSUME MinPages >= 2
    PROVE  Spec => []NoHole
<1> DEFINE Covered == TypeOK /\ Published /\ Phases /\ ScanReaches /\ BackfillReaches
<1>1. Init => Covered
  <2> SUFFICES ASSUME Init PROVE ScanReaches /\ BackfillReaches
    BY InitTypes
  <2>1. board \subseteq Posts /\ scan.boundary = 0 /\ scan.items = {}
    BY InitTypes DEF Init, NoScan, TypeOK
  <2>2. ScanReaches
    BY <2>1, NothingRead
  <2>3. Missing = {}
    <3>1. HighWater = 0
      BY InitTypes, Mark DEF Init
    <3>2. \A b \in board : ~(b <= 0)
      BY <2>1 DEF Posts
    <3> QED
      BY <3>1, <3>2 DEF Missing
  <2>4. BackfillReaches
    BY <2>3 DEF Init, BackfillReaches
  <2> QED
    BY <2>2, <2>4
<1>2. Covered /\ [Next]_vars => Covered'
  BY TypeStep, PublishedStep, PhasesStep, ScanStep, BackfillStep
<1>3. Covered => NoHole
  <2> SUFFICES ASSUME Covered, ~ torn, ~ single, NEW b \in Missing
               PROVE  ~ complete /\ PageOf(b) >= ResumePage
    BY DEF NoHole, Missing
  <2>1. ~ complete /\ RankIn(board, b) + slips >= PageSize * (next - 1)
    BY DEF BackfillReaches
  <2>2. slips <= PageSize /\ b \in Posts /\ board \subseteq Posts
    BY <2>1 DEF Phases, Missing, TypeOK
  <2> QED
    BY <2>1, <2>2, Resumes, Shown
<1> QED
  BY <1>1, <1>2, <1>3, PTL DEF Spec
==============================================================================
