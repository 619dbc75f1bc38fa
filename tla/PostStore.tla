------------------------------ MODULE PostStore ------------------------------
(***************************************************************************)
(* The tables that the collectors fill and the ranking reads: posts,       *)
(* post_metric_snapshots, security_quarantine, cumulative_top_posts and    *)
(* work_items, under concurrent PostgreSQL transactions.                   *)
(*                                                                         *)
(* A collector runs collect_board_slot for one read of a board: the scan's *)
(* transaction, that of a backfill page, that of collect-metadata.  The    *)
(* run locks keep two scans of a slot apart (SourceRun), and none of them  *)
(* keeps a scan, the backfill and the command apart: here their statements *)
(* interleave.  Reviewers release quarantined titles, the ranking replaces *)
(* a slot's rows.                                                          *)
(*                                                                         *)
(* Isolation is READ COMMITTED: a statement sees what is committed when it *)
(* runs; a written row belongs to its writer until the transaction ends.   *)
(***************************************************************************)
EXTENDS PostListing

CONSTANTS
    Collectors,
    Reviewers,
    Nobody,      \* a quarantine row has no reviewer
    Reads,       \* the reads that collectors may come with, by number
    Matches,     \* per title, the rules of the scanner that match it
    Threshold,   \* security.quarantine_threshold
    Slots,       \* the slots that reads are filed under
    Ranked,      \* the slots that are ranked
    Window,      \* ranking.window_days, in minutes
    TopN         \* ranking.top_n

ASSUME NobodyAssumption == Nobody \notin Reviewers
\* A read has finitely many items, with values of the columns' types; 0 is no
\* configuration.
ASSUME ReadsAssumption ==
    /\ DOMAIN Reads \subseteq Nat \ {0}
    /\ \A r \in DOMAIN Reads :
        /\ SlotOf(Reads[r]) \in Slots
        /\ Reads[r].start \in Nat /\ Reads[r].observed \in Nat /\ Reads[r].config # 0
        /\ Usable(Reads[r]) =>
            /\ IsFiniteSet(Items(Reads[r]))
            /\ Items(Reads[r]) \subseteq [post : Posts, title : Titles, views : Nat, published : Nat]
\* A page is parsed within a day of its generation and no later than its items
\* are filed, and lists published posts.  What it shows without a year is less
\* than 365 days old when it is parsed.
ASSUME PagesAssumption ==
    \A r \in DOMAIN Reads : \A n \in DOMAIN Reads[r].pages :
        LET page == Reads[r].pages[n]
        IN  /\ page.generated \in Nat /\ page.parsed \in 0..Reads[r].observed
            /\ page.parsed \in (page.generated - Day)..(page.generated + Day)
            /\ \A i \in Articles(page) :
                LET p == page.rows[i].post
                IN  /\ PublishedAt(p) <= page.generated
                    /\ LabelOf(p, page.generated).form = "MM-DD" => DayOf(page.parsed) < DayOf(PublishedAt(p)) + 365
ASSUME ScanAssumption ==
    /\ Matches \in [Titles -> SUBSET {"override", "secret", "tool", "system", "invisible"}]
    /\ Threshold \in 50..70
ASSUME RankingAssumption == Slots \subseteq Nat /\ Ranked \subseteq Slots /\ Window \in Nat /\ TopN \in Nat \ {0}

VARIABLES
    board,       \* whether the board has its row
    post,        \* posts: the canonical row of each post
    snap,        \* post_metric_snapshots, by post and slot
    quarantine,  \* security_quarantine, by post and title
    items,       \* work_items of kind released_analysis, by quarantine row
    details,     \* work_items of kind detail_fetch, by post
    ranking,     \* cumulative_top_posts, by slot
    stored,      \* the reads whose transaction has committed
    used,        \* the reads that some transaction has begun with
    work,        \* each collector's transaction: its read and uncommitted rows
    review,      \* each reviewer's transaction: the row it holds, as read under its lock
    rank         \* the ranking's transaction

vars == <<board, post, snap, quarantine, items, details, ranking, stored, used, work, review, rank>>
tables == <<board, post, snap, quarantine>>

Ids == DOMAIN Reads
NoRead == 0
Observations == UNION {{[read |-> r, item |-> i] : i \in Items(Reads[r])} : r \in {r \in Ids : Usable(Reads[r])}}
Slot == [r \in Ids |-> SlotOf(Reads[r])]

Titled == Posts \X Titles       \* the key of a quarantine row: the post and the content hash
NoRow == [title |-> 0, published |-> 0, seen |-> 0]
NoSnap == [views |-> 0, seen |-> 0, config |-> 0]
NoReview == [state |-> "absent", by |-> Nobody]
Pending == [state |-> "pending", by |-> Nobody]
Confirmed == [state |-> "confirmed", by |-> Nobody]
NoHold == [key |-> <<0, 0>>, seen |-> NoReview]

\* The statements of the transaction's current post come in this order; a post
\* whose titles are harmless begins with the second.
Steps == {"idle", "titles", "post", "snapshot", "done"}
NoWork == [step |-> "idle", read |-> NoRead, todo |-> {}, newBoard |-> FALSE, titles |-> {},
           posts |-> [p \in Posts |-> NoRow], snaps |-> [p \in Posts |-> NoSnap]]
NoRank == [slot |-> 0, rows |-> {}]

Init ==
    /\ board = FALSE
    /\ post = [p \in Posts |-> NoRow]
    /\ snap = [k \in Posts \X Slots |-> NoSnap]
    /\ quarantine = [q \in Titled |-> NoReview]
    /\ items = {} /\ details = {}
    /\ ranking = [s \in Ranked |-> {}]
    /\ stored = {} /\ used = {}
    /\ work = [c \in Collectors |-> NoWork]
    /\ review = [v \in Reviewers |-> NoHold]
    /\ rank = NoRank

-----------------------------------------------------------------------------
(* The scanner *)

Score == [override |-> 70, secret |-> 70, tool |-> 60, system |-> 60, invisible |-> 30]
RiskScore(title) == Min({100, MapThenSumSet(LAMBDA rule : Score[rule], Matches[title])})
Hostile == {title \in Titles : RiskScore(title) >= Threshold}

-----------------------------------------------------------------------------
(* Batches *)

Batch(r) == {o.item : o \in {o \in Observations : o.read = r}}
ItemsOf(r, p) == {i \in Batch(r) : i.post = p}
PostsOf(r) == {i.post : i \in Batch(r)}
TitlesOf(r) == {<<i.post, i.title>> : i \in Batch(r)}

\* The rank of two observations of a post made at the same time.
Outranks(a, b) ==
    \/ a.published > b.published
    \/ a.published = b.published /\ a.title > b.title

\* One item for the sightings of a post: the greatest, with the greatest counters.
Canonical(same) ==
    LET top == CHOOSE i \in same : \A j \in same : ~Outranks(j, i)
    IN  [top EXCEPT !.views = Max({i.views : i \in same})]

CanonicalRow(r, p) ==
    LET i == Canonical(ItemsOf(r, p))
    IN  [title |-> i.title, published |-> i.published, seen |-> Reads[r].observed]

\* Mutant: at equal times the later transaction wins.
WinsTies(row, old) == old.seen <= row.seen

\* upsert_post refreshes the row old with row.
Refreshes(row, old) ==
    \/ old.seen < row.seen
    \/ old.seen = row.seen /\ Outranks(row, old)

\* Mutant: the counters of the last transaction.
TakesExcluded(old, new) == new

\* The row that ON CONFLICT DO UPDATE leaves: the greatest of each column.
MergedSnapshot(old, new) ==
    [views |-> Max({old.views, new.views}), seen |-> Max({old.seen, new.seen}), config |-> old.config]

-----------------------------------------------------------------------------
(* Row locks: who has written a row and not ended *)

Others(c) == Collectors \ {c}
TitleWriters(c, q) == {d \in Others(c) : q \in work[d].titles}
PostWriters(c, p) == {d \in Others(c) : work[d].posts[p] # NoRow}
SnapshotWriters(c, p) ==
    {d \in Others(c) : work[d].snaps[p] # NoSnap /\ Slot[work[d].read] = Slot[work[c].read]}

\* Mutant: the posts of a batch in the order the page listed them.
ListedFirst(w) ==
    LET rows == Reads[w.read].pages[1].rows
    IN  CHOOSE p \in w.todo : \E i \in DOMAIN rows :
            rows[i].post = p /\ \A j \in 1..(i - 1) : rows[j].post \notin w.todo

\* Batches are stored in the order of the post identities.
Current(w) == Min(w.todo)

\* Mutant: only the title that will be stored is scanned.
ScansCanonical(r, p) == {<<p, Canonical(ItemsOf(r, p)).title>>} \cap (Posts \X Hostile)

\* The quarantine keys that a post's titles in the batch need.
HostileTitles(r, p) == {q \in TitlesOf(r) : q[1] = p /\ q[2] \in Hostile}

\* The first statement of the next post.
AtNextPost(w) ==
    [w EXCEPT !.step = IF w.todo = {} THEN "done"
                       ELSE IF HostileTitles(w.read, Current(w)) # {} THEN "titles" ELSE "post"]

\* The transactions that the current statement of c waits for.  INSERT ... DO
\* NOTHING waits for the uncommitted insert of the same key; an UPDATE whose
\* condition the committed row fails touches nothing and waits for nobody.
WaitsFor(c) ==
    LET w == work[c]
        p == Current(w)
    IN  CASE w.step = "titles" -> UNION {TitleWriters(c, q) :
                    q \in {q \in HostileTitles(w.read, p) : quarantine[q] = NoReview}}
          [] w.step = "post" -> IF post[p] = NoRow \/ Refreshes(CanonicalRow(w.read, p), post[p])
                                THEN PostWriters(c, p) ELSE {}
          [] w.step = "snapshot" -> SnapshotWriters(c, p)
          [] OTHER -> {}

-----------------------------------------------------------------------------
(* collect_board_slot *)

\* The transaction opens with ensure_supported_board, which waits for another
\* transaction that has just inserted the board.  A read with a page that
\* does not parse has failed before.
Begin(c, r) ==
    /\ work[c] = NoWork /\ r \in Ids \ used /\ Usable(Reads[r])
    /\ board \/ \A d \in Others(c) : ~work[d].newBoard
    /\ used' = used \cup {r}
    /\ work' = [work EXCEPT ![c] = AtNextPost([NoWork EXCEPT !.read = r, !.todo = PostsOf(r),
                                                             !.newBoard = ~board])]
    /\ UNCHANGED <<board, post, snap, quarantine, items, details, ranking, stored, review, rank>>

\* quarantine_if_needed for every title the batch has of the post.
StoreTitles(c) ==
    LET w == work[c]
    IN  /\ w.step = "titles" /\ WaitsFor(c) = {}
        /\ work' = [work EXCEPT
                ![c].titles = @ \cup {q \in HostileTitles(w.read, Current(w)) : quarantine[q] = NoReview},
                ![c].step = "post"]
        /\ UNCHANGED <<tables, items, details, ranking, stored, used, review, rank>>

\* upsert_post.
StorePost(c) ==
    LET w == work[c]
        p == Current(w)
        row == CanonicalRow(w.read, p)
    IN  /\ w.step = "post" /\ WaitsFor(c) = {}
        /\ work' = [work EXCEPT
                ![c].posts[p] = IF post[p] = NoRow \/ Refreshes(row, post[p]) THEN row ELSE @,
                ![c].step = "snapshot"]
        /\ UNCHANGED <<tables, items, details, ranking, stored, used, review, rank>>

\* upsert_snapshot; a slot pinned to another configuration raises
\* SnapshotConfigConflict, and the caller's transaction rolls back.
StoreSnapshot(c) ==
    LET w == work[c]
        p == Current(w)
        old == snap[p, Slot[w.read]]
        new == [views |-> Canonical(ItemsOf(w.read, p)).views, seen |-> Reads[w.read].observed,
                config |-> Reads[w.read].config]
    IN  /\ w.step = "snapshot" /\ WaitsFor(c) = {}
        /\ \/ /\ old = NoSnap \/ old.config = new.config
              /\ work' = [work EXCEPT ![c] = AtNextPost(
                    [w EXCEPT !.snaps[p] = IF old = NoSnap THEN new ELSE MergedSnapshot(old, new),
                              !.todo = @ \ {p}])]
           \/ /\ old # NoSnap /\ old.config # new.config
              /\ work' = [work EXCEPT ![c] = NoWork]
        /\ UNCHANGED <<tables, items, details, ranking, stored, used, review, rank>>

Commit(c) ==
    LET w == work[c]
    IN  /\ w.step = "done"
        /\ board' = TRUE
        /\ post' = [p \in Posts |-> IF w.posts[p] # NoRow THEN w.posts[p] ELSE post[p]]
        /\ snap' = [k \in Posts \X Slots |->
                        IF k[2] = Slot[w.read] /\ w.snaps[k[1]] # NoSnap THEN w.snaps[k[1]] ELSE snap[k]]
        /\ quarantine' = [q \in Titled |-> IF q \in w.titles THEN Pending ELSE quarantine[q]]
        /\ stored' = stored \cup {w.read}
        /\ work' = [work EXCEPT ![c] = NoWork]
        /\ UNCHANGED <<items, details, ranking, used, review, rank>>

\* The process dies or the connection is lost: everything uncommitted is gone.
Die(c) ==
    /\ work[c] # NoWork
    /\ work' = [work EXCEPT ![c] = NoWork]
    /\ UNCHANGED <<tables, items, details, ranking, stored, used, review, rank>>

-----------------------------------------------------------------------------
(* release_quarantine *)

\* Mutant: the row is read without FOR UPDATE.
RowUnlocked(v, q) == TRUE

RowFree(v, q) == \A u \in Reviewers \ {v} : review[u].key # q

\* SELECT ... FOR UPDATE of one row.
TakeReview(v, q) ==
    /\ review[v] = NoHold
    /\ quarantine[q] # NoReview
    /\ RowFree(v, q)
    /\ review' = [review EXCEPT ![v] = [key |-> q, seen |-> quarantine[q]]]
    /\ UNCHANGED <<tables, items, details, ranking, stored, used, work, rank>>

\* A pending row is released and its work item inserted; a replay by the same
\* reviewer makes sure of the work item; anything else is a conflict.
EndReview(v) ==
    LET q == review[v].key
        seen == review[v].seen
    IN  /\ review[v] # NoHold
        /\ \/ /\ seen.state = "pending"
              /\ quarantine' = [quarantine EXCEPT ![q] = [state |-> "released", by |-> v]]
              /\ items' = items \cup {q}
           \/ /\ seen = [state |-> "released", by |-> v]
              /\ items' = items \cup {q}
              /\ UNCHANGED quarantine
           \/ /\ seen.state \in {"released", "confirmed"} /\ seen # [state |-> "released", by |-> v]
              /\ UNCHANGED <<quarantine, items>>
        /\ review' = [review EXCEPT ![v] = NoHold]
        /\ UNCHANGED <<board, post, snap, details, ranking, stored, used, work, rank>>

AbortReview(v) ==
    /\ review[v] # NoHold
    /\ review' = [review EXCEPT ![v] = NoHold]
    /\ UNCHANGED <<tables, items, details, ranking, stored, used, work, rank>>

\* An operator confirms a pending row; the repository has the state and no code for it.
Confirm(q) ==
    /\ quarantine[q] = Pending
    /\ \A v \in Reviewers : review[v].key # q
    /\ quarantine' = [quarantine EXCEPT ![q] = Confirmed]
    /\ UNCHANGED <<board, post, snap, items, details, ranking, stored, used, work, review, rank>>

-----------------------------------------------------------------------------
(* refresh_cumulative *)

\* Mutant: only a title that waits for its review keeps a post out.
BlockedByPending(p) == \E t \in Titles : quarantine[p, t].state = "pending"

Blocked(p) == \E t \in Titles : quarantine[p, t].state \in {"pending", "confirmed"}

SnapshotSlots(p, s) == {t \in Slots : t <= s /\ snap[p, t] # NoSnap}
ValueAt(p, s) == snap[p, Max(SnapshotSlots(p, s))].views

Eligible(s) ==
    {p \in Posts : /\ Kind[p] = "ordinary"
                   /\ post[p] # NoRow /\ SnapshotSlots(p, s) # {}
                   /\ post[p].published \in (s - Window)..s
                   /\ ~Blocked(p)}

Above(p, q, s) ==
    \/ ValueAt(p, s) > ValueAt(q, s)
    \/ /\ ValueAt(p, s) = ValueAt(q, s)
       /\ \/ post[p].published > post[q].published
          \/ post[p].published = post[q].published /\ p > q

\* Mutant: ranks from zero.
RankFromZero(p, s) == Cardinality({q \in Eligible(s) : Above(q, p, s)})

RankOf(p, s) == 1 + Cardinality({q \in Eligible(s) : Above(q, p, s)})

TopRows(s) == {[post |-> p, rank |-> RankOf(p, s)] : p \in {p \in Eligible(s) : RankOf(p, s) <= TopN}}

\* The transaction lock, the DELETE of the slot and the INSERT, which reads
\* the tables as they are now.
ReadRanking(s) ==
    /\ rank = NoRank
    /\ rank' = [slot |-> s, rows |-> TopRows(s)]
    /\ UNCHANGED <<tables, items, details, ranking, stored, used, work, review>>

\* Mutant: the work items are made from the rows of the slot before the DELETE.
DetailsOfOld(s, rows) == {row.post : row \in ranking[s]}

NewDetails(s, rows) == {row.post : row \in rows}

\* A detail work item for every ranked post that has none, and the commit.
PublishRanking ==
    /\ rank # NoRank
    /\ ranking' = [ranking EXCEPT ![rank.slot] = rank.rows]
    /\ details' = details \cup NewDetails(rank.slot, rank.rows)
    /\ rank' = NoRank
    /\ UNCHANGED <<tables, items, stored, used, work, review>>

AbortRanking ==
    /\ rank # NoRank
    /\ rank' = NoRank
    /\ UNCHANGED <<tables, items, details, ranking, stored, used, work, review>>

-----------------------------------------------------------------------------
Collect(c) == StoreTitles(c) \/ StorePost(c) \/ StoreSnapshot(c) \/ Commit(c)

Next ==
    \/ \E c \in Collectors : Collect(c) \/ Die(c) \/ \E r \in Ids : Begin(c, r)
    \/ \E v \in Reviewers :
        EndReview(v) \/ AbortReview(v) \/ \E q \in Titled : TakeReview(v, q)
    \/ \E q \in Titled : Confirm(q)
    \/ PublishRanking \/ AbortRanking \/ \E s \in Ranked : ReadRanking(s)

LastSlot == Max(Ranked)

\* Cycles keep coming, and each ranks: the last slot of the model stands for
\* every later one.  Not all of them die before their commit.
Fairness ==
    /\ SF_vars(ReadRanking(LastSlot))
    /\ SF_vars(rank.slot = LastSlot /\ PublishRanking)
    /\ WF_vars(PublishRanking \/ AbortRanking)

Spec == Init /\ [][Next]_vars
FairSpec == Spec /\ Fairness

-----------------------------------------------------------------------------
(* Properties *)

RankRow == [post : Posts, rank : 1..TopN]
RowType == [title : Titles, published : Nat, seen : Nat]
SnapType == [views : Nat, seen : Nat, config : {Reads[r].config : r \in Ids}]
ReviewType == [state : {"released"}, by : Reviewers] \cup {NoReview, Pending, Confirmed}

\* Every table holds rows of its columns' types, and every transaction writes
\* only such rows; work items refer to posts and quarantine rows.
TypeOK ==
    /\ board \in BOOLEAN
    /\ post \in [Posts -> RowType \cup {NoRow}]
    /\ snap \in [Posts \X Slots -> SnapType \cup {NoSnap}]
    /\ quarantine \in [Titled -> ReviewType]
    /\ items \subseteq Titled /\ details \subseteq Posts
    /\ ranking \in [Ranked -> SUBSET RankRow]
    /\ stored \subseteq used /\ used \subseteq Ids
    /\ work \in [Collectors -> [step : Steps, read : Ids \cup {NoRead}, todo : SUBSET Posts,
                                newBoard : BOOLEAN, titles : SUBSET Titled,
                                posts : [Posts -> RowType \cup {NoRow}],
                                snaps : [Posts -> SnapType \cup {NoSnap}]]]
    /\ review \in [Reviewers -> [key : Titled, seen : ReviewType] \cup {NoHold}]
    /\ rank \in [slot : Ranked, rows : SUBSET RankRow] \cup {NoRank}

\* A post's canonical row is the greatest observation among the committed
\* batches, by time and then by rank, whatever the order in which their
\* transactions began, waited and committed.
PostConverges ==
    \A p \in Posts :
        LET rows == {CanonicalRow(r, p) : r \in {r \in stored : p \in PostsOf(r)}}
        IN  IF rows = {} THEN post[p] = NoRow
            ELSE post[p] \in rows /\ \A o \in rows : ~Refreshes(o, post[p])

\* A snapshot is filed under the last trigger of the schedule before its cycle
\* began, belongs to one configuration, and holds the greatest counters and the
\* latest time of the committed batches of its slot.
SnapshotConverges ==
    \A p \in Posts, s \in Slots :
        LET reads == {r \in stored : p \in PostsOf(r) /\ Reads[r].start \in s..(s + Interval * 60 - 1)}
        IN  IF reads = {} THEN snap[p, s] = NoSnap
            ELSE /\ IsTrigger(s)
                 /\ \A r \in reads : Reads[r].config = snap[p, s].config
                 /\ snap[p, s].views = Max({i.views : i \in UNION {ItemsOf(r, p) : r \in reads}})
                 /\ snap[p, s].seen = Max({Reads[r].observed : r \in reads})

\* The publication time of a stored post is never later than its observation,
\* and at most a day off, however the pages straddled midnight or the new year.
\* PagesAssumption leaves out a row without a year that is exactly a year old on
\* a page printed before midnight and parsed after it.
PublishedOnItsDay ==
    \A p \in Posts : post[p] # NoRow =>
        /\ post[p].published <= post[p].seen
        /\ post[p].published \in (PublishedAt(p) - Day)..(PublishedAt(p) + Day)

\* Every hostile title that a committed batch had of a post is on file in the
\* quarantine, also a title that lost to another sighting and was never stored.
TitlesAreScanned ==
    \A r \in stored : \A q \in TitlesOf(r) : q[2] \in Hostile => quarantine[q] # NoReview

\* No two transactions ever wait for each other, although each of them locks
\* several rows and keeps them to its end.
NoWriterDeadlock ==
    \A c, d \in Collectors : d \in WaitsFor(c) => c \notin WaitsFor(d)

\* A quarantine row has its analysis work item exactly when it is released,
\* and every post that was ever published in a ranking has its detail work item.
WorkIsQueued ==
    /\ items = {q \in Titled : quarantine[q].state = "released"}
    /\ \A s \in Ranked : \A row \in ranking[s] : row.post \in details

\* The verdict of a review, and the reviewer it names, are never overwritten:
\* not by a second reviewer, not by a new sighting of the same title.
ReviewIsFinal ==
    [][\A q \in Titled : quarantine[q].state \in {"released", "confirmed"} => quarantine'[q] = quarantine[q]]_vars

\* A post with a title that stays unreleased leaves the published ranking for
\* good, also one that was ranked before the title was seen or confirmed.
UnreleasedPostLeavesRanking ==
    \A p \in Posts :
        <>[](\E t \in Titles : quarantine[p, t].state \notin {"absent", "released"})
            => <>[](\A row \in ranking[LastSlot] : row.post # p)
=============================================================================
