# A verification of the MapleStory community monitor

The repository collects the list pages of a few community boards every six
hours, stores posts and their engagement counters in PostgreSQL, ranks them
over a rolling window, exports releases of the result and analyses them
locally.  This directory models the parts of it where several processes,
crashes and a moving source meet, in TLA+: the collector, the tables it fills,
the ranking, the reviews of quarantined titles, the exports and the local
analysis.  TLC checks the models on small instances and TLAPS proves theorems
about them for all sizes.

Source paths below are relative to `src/maple_monitor/` of the repository.

## 1. Inventory

| Component | State it keeps | Operations | Hard part |
|---|---|---|---|
| Run control (`ops/run_control.py`) | a ledger row per job type and slot (status, attempts, pages consumed, failed sources); session advisory locks | claim, reserve a page, finish; lock, unlock | exclusion without fencing; reopening an interrupted run |
| Source attempt (`ops/scheduler.py`, `_collect_source`) | local: claim, scan result | lock, claim, scan, store and finish, fail, release | crashes, lost sessions, lost commit acknowledgements |
| Backfill attempt (`_run_backfill_cycle`, `collection/backfill.py`) | a cursor per source; the slot's page allowance | lock, claim, reserve, request, store, page error, finish | a durable budget spent by several attempts; fairness between sources |
| Cycle and scheduler (`collect_and_rank_once`, `..._with_retries`, `run_scheduler`) | local: results so far, attempt number | start, visit sources, backfill, rank, retry | overlapping cycles, slots that advance under a retry |
| Incremental scan (`collection/pagination.py`) | local: pages read, boundary | read page, stop, accept or reject | pages move while they are read |
| Posts and snapshots (`collection/repository.py`, `service.py`) | `posts`, `post_metric_snapshots` | upsert, high-water mark | row locks of concurrent transactions, convergence in any commit order, configuration pinning |
| Ranking (`ranking/cumulative.py`) | `cumulative_top_posts`, `work_items` | replace a slot's ranking | concurrent replacement; titles that are quarantined or released while it reads |
| Quarantine (`security/`) | `security_quarantine`, `work_items` | quarantine, release | two reviewers of one title; a title that is sighted again |
| Client and parser (`collection/client.py`, `parser.py`) | none | fetch, parse | rows that show a time or a day without year, read after midnight |
| Manual commands (`cli.py`) | none | `collect-metadata`, `collect-and-rank`, ... | no lock around `collect-metadata` |
| Local analysis (`local/`) | three files per archive | refresh, load | a stop between two of the files; a configuration edited meanwhile; reuse of old rows |
| Export releases (`scripts/export-production-csv.sh`, `download-production-data.ps1`) | releases, leases, `latest-download` | export, copy, check, prune, verify | prunes beside copies; leases that outlive their client; lost answers |
| Publication (`scripts/publish-public-dashboard.ps1`) | a git repository | replace, commit, push, roll back | failure halfway |
| Dashboard (`dashboard/`) | none shared | read | presentation only |
| Configuration, schema, deployment | settings, tables, containers | load, migrate | ranges of settings |

How they interact: the scheduler starts a cycle at every aligned slot (and one
at start-up); operators may start one by hand.  A cycle calls the source attempt
for each source, then the backfill attempt with the sources that succeeded, then
the ranking.  Everything the processes share is in PostgreSQL: the ledger, the
advisory locks, the cursors, the posts, the ranking.  There are no callbacks and
no queues inside the collector; exports read the database, the analysis and the
dashboard read exports.

What makes each component correct:

* source attempt: one owner per slot, no second fetch of a stored slot, a
  reported success is durable;
* backfill: no more requests than the budget over all attempts, no page
  skipped, sources served in turn, a replay that agrees with the original;
* cycle: "succeeded" only for a complete slot; backfill only after collection;
  rankings that never lose data; cycles that end;
* scan and backfill together: no hole in the stored window;
* posts and snapshots: what is stored depends on the observations only and not
  on the order of the transactions; writers never wait in a circle;
* quarantine and ranking: every hostile title is on file, verdicts stand, work is
  queued once, an unreleased post leaves the ranking;
* exports: an archive is a whole copy; only releases that nobody misses are removed;
* analysis: cached rows survive, and the files settle on the last configuration.

The hazards behind these properties, each at its line, are in `PROJECT.json`.

## 2. Modules

| Module | Models | Uses |
|---|---|---|
| `RunLedger` | a ledger row and the three statements on it, as operators | |
| `JobSlot` | abstract: one job at one slot, its owner and status | |
| `JobOutcome` | abstract: the same without the ledger row, its executor and whether it is done | |
| `SourceRun` | `_collect_source`, any number of workers | `RunLedger`; implements `JobSlot`, `JobOutcome` |
| `BackfillRun` | `_run_backfill_cycle` and `run_backfill_budget` | `RunLedger`; implements `JobSlot`, `JobOutcome` |
| `CollectionCycle` | cycle, retries, slots, ranking lock | the two runs as two steps each; implements `JobOutcome` for each job and slot |
| `BoardCoverage` | what scan and backfill cover of a moving board | |
| `PostListing` | pure: what the parser, the scan and the slot alignment make of a read of list pages, at any minute of any year | |
| `PostStore` | `collect_board_slot` by concurrent transactions, reviews, the ranking's rows | `PostListing` |
| `AnalysisRefresh` | `refresh_analysis` over a directory of archives | |
| `ExportRelease` | the export helper, its prunes, and the client that copies | |
| `SourceRunProofs`, `BackfillRunProofs`, `BackfillRunSafety`, `CollectionCycleProofs`, `BoardCoverageProofs`, `PostStoreProofs`, `AnalysisRefreshProofs`, `ExportReleaseProofs` | theorems | |
| `MC...` | instances for TLC | |

**State.** In `SourceRun` and `BackfillRun`, `row` is the ledger row, `lock` the
holder of the advisory lock, `pc[w]` the place of worker *w* between two of
the code's transactions; a transaction is one step, because PostgreSQL commits
or rolls it back as a whole.  A worker is one call of the function in
some process, so a restart is a crash and another call.  `run[w]`
(`attempts[w]` in `SourceRun`) are its local variables.  The ranking of *which*
items a page has is left out; `BackfillRun` knows for each source the page its
window ends on (`WindowEnd`), and `BoardCoverage` replaces that by a board whose
pages move.

**Faults.** `Crash`: the process dies and PostgreSQL ends its session, which
frees the lock.  `LoseSession`: only the lock's connection dies; the worker goes
on, because it never looks at that connection again and writes through others.
`AckLost`: a commit takes effect and the worker gets an error.  `RetryableError`
and `PageError`: the errors of the code's `except` clauses, with nothing
committed.  `OtherError` and `SourceRaises`: errors no clause names, such as the
`ValueError` of a batch above the limit.

**CollectionCycle** composes: `TakeSource`/`FinishSource` stand for a source run
(`SourceRun`) and `TakeBackfill`/`FinishBackfill` for a backfill run, with the job's
lock held in between and the slot's success recorded in `ledger`. `JobOutcome` is what
the two levels have in common: a job is executed by whoever owns it while its row is
running. Both runs implement it in many transactions, as long as no session (for a
source: nor an acknowledgement) is lost, and the cycle implements it for every job
and slot; all three are theorems. Partial, failed and busy sources make no difference
to a cycle and are one outcome (`SkipSource`). A lock may also be taken by a worker that
merely finds its job succeeded, so a cycle may meet it busy and report less than the
slot has. `NoConnection` is an error outside every `try`: the whole attempt
is retried.  `now` is the slot of the current time; a retry takes
it anew, as the code does.  The ranking is the set of source slots it covers:
its `INSERT` (`ComputeRanking`) reads what is committed at that moment and
`CommitRanking` publishes it.

**BoardCoverage** keeps the board as its set of ordinary posts, larger numbers
being newer, and derives the pages.  Posts arrive in `Arrive`, are deleted in
`Delete`.  Items of notice rows are on every page and never count as ordinary;
rows of categories outside the analysis are not modelled.  Three history
variables name what the properties exclude. `slid`: while the current scan reads, a
post of a page it has passed was deleted or, once it has found its boundary, more
posts arrived than the pages it has passed can hold; it is FALSE again when the scan
ends. `torn`: that happened to some scan, or a post was deleted from a page that a
running backfill attempt has passed, or more than a page of posts was deleted
between two pages of an incomplete backfill; it stays. `single`: `collect-metadata`
was used. `ScanClosesTheGap` excludes `slid` alone, `NoHole` and `WindowGetsStored`
exclude `torn` and `single`, and `NoFalseBoundary` excludes nothing.

**PostListing** has the calendar of the code's `datetime`: times are minutes in Korea
Standard Time, a row shows a time of day, a day without year or a full date,
whichever the board shows at that minute (`LabelOf`), and `parse_source_time` turns it
back with the minute of the parse, which may be another day. `ListItems` is a
page's valid items or a refusal, `Items` what the scan keeps of the sightings
of one post, `SlotOf` the slot of a time. The board is a constant: for each post
its category, its date, and its versions (title and counters) from minute to
minute.

**PostStore** takes from it the items of each of its `Reads` and runs one
transaction per collector: titles, post and snapshot of one post after another,
each a statement and a step, and the commit. Isolation is READ COMMITTED. A
transaction's writes are its own (`work[c]`) until the commit; `WaitsFor` is what
PostgreSQL's row locks make of it: an insert of a key waits for another
uncommitted insert of it, an update for the row's writer, and an update whose
condition the committed row already fails waits for nobody.
`TakeReview` is a reviewer's `SELECT ... FOR UPDATE`, `EndReview` its commit.
`ReadRanking` is the ranking's `INSERT ... SELECT`, `PublishRanking` its commit;
`CollectionCycle` shows why only one runs at a time. Window, latest snapshot of
a post, exclusion, order and ties of the Top-N are the code's; units and metrics,
which the statement partitions by, are one. A confirmed verdict has no code of
its own: operators write it by hand (`Confirm`).

**AnalysisRefresh** has the three files of each archive (`disk`) and the one refresh
that runs (`run`). `Analyze` does everything up to the first replacement:
which archive is newest and sound, what the configuration selects, which artifact's
rows can be reused, which posts have to be fetched; a fetch succeeds or fails for
each post. Then `ReplacePosts`, `ReplaceComments` and `ReplaceManifest` follow, and
`Die` may come between any two. Texts are sets of terms, of which an excerpt
holds the head.

**ExportRelease** has the server's directory (`release`, `lease`, `latest`), a helper
call that exports and one that prunes for each run, and the client's place.
Releases are numbered before the file lock is taken, so a slow export may be older
than what `latest-download` shows. `Remove` takes two steps, since `rm -rf` may be
killed half-way; `HelperDies` and `ClientEnds` kill each process at each step;
`TimeOut` loses the answer of a prune that goes on.

Bounds are constants named in the modules: `MaxAttempts`, `MaxSessionLosses`,
`MaxAckLosses`, `MaxFaults`, `LastSlot`, `LastPost`, `Deletable`, `MaxMishaps`,
`MaxClock`, and the lengths of `Reads`, `Archives` and `Configs`, each of whose
elements is used once. `MaxRetries`, `Budget`, `MinPages`, `Overlap`, `MaxPages`,
`Interval`, `SlotMinute`, `Threshold`, `Window`, `TopN`, `RELEASE_KEEP_COUNT` and
`StaleAge` are settings of the code.

## 3. Runs

| Run | Instance | Shows |
|---|---|---|
| `source_run` | 3 workers, 3 attempts, 1 lost session, 1 lost acknowledgement | ownership (`SingleOwner`), no repeated fetch (`NoFetchAfterSuccess`), durable success (`ReportedSuccessIsDurable`), attempts only grow, `SourceRun` implements `JobSlot` |
| `source_run_lost_lock` | 3 workers, 1 lost session | **violated**: `CompletedSlotStaysClosed` |
| `backfill_run` | 2 workers, 2 sources, budget 2, 2 attempts, 1 fault | budget, no skipped page, round robin, allowance spent, replay agrees, cursors only advance, implements `JobSlot`, the lock is released |
| `backfill_forgets` | 1 worker, 1 crash | **violated**: `FailureIsRecorded` |
| `collection_cycle` | 2 workers, 2 sources, 2 slots, 1 retry, 2 faults | what a succeeded cycle guarantees, collection before backfill, rankings never lose |
| `cycle_progress` | 2 workers, 1 source, 2 slots | cycles end; every stored slot gets ranked |
| `cycle_blocked` | 1 worker, 2 sources | **violated**: `NoSourceIsBlocked` |
| `board_coverage` | pages of 2 posts, boards of 6 and 1, 7 arrivals in two bursts, 2 mishaps | no hole, a scan closes the gap, the window gets stored, each but for the movements it names |
| `board_false_boundary` | pages of 2 posts, a board of 6, 3 arrivals, 1 deletion | **violated**: `NoFalseBoundary` |
| `post_store` | 2 collectors, 7 reads of which 3 are refused, 4 posts, 2 reviewers, 2 slots, the midnight of a new year | posts and snapshots converge, publication days, every hostile title on file, no waiting in a circle, work items, verdicts stand, unreleased posts leave the ranking |
| `analysis_refresh` | 4 archives (empty, damaged, with a row twice, good), 3 configurations, 5 posts | cached posts survive stops, the files settle on the last configuration |
| `export_release` | 3 runs, 1 release to keep, 2 clock values | only spare releases go, a finished run has a whole copy and leaves no lease |

Why the bounds are enough to be interesting: two workers on one lock and a third
that meets what they left (`source_run`); a budget that ends in the middle of a
round, so that an attempt inherits a half-spent allowance (`backfill_run`); a
second slot, because a retry may change slots, and both sources, because status
and eligibility depend on subsets (`collection_cycle`); bursts of 3 and 4
posts on pages of 2 with at most 3 pages read, so that scans end partial,
boundary pages move and the overlap matters, and two mishaps, so that a
deletion can follow a failed attempt (`board_coverage`). In `post_store` a post
changes its title twice within minutes and moves to a page that is parsed
after midnight, the backfill and a scan tie in their times, a scan of the same slot
has other settings (its batch is rolled back), and the next slot's scan finds a
title too long; two collectors are enough for every order of two transactions,
and a third adds only longer queues, which the theorems cover. In
`analysis_refresh` two edits, one that selects more with another lexicon and one
that selects fewer, meet artifacts of which one, two or three files are new; the
broken archives come first, so that each is the newest for a while. In
`export_release` a third run prunes while a first one still copies and a second
one was killed half-way; with one release to keep and leases stale after a tick,
both limits of a prune are reached.

Deadlock is checked except in the four runs of `SourceRun` and `BackfillRun`,
whose slots really come to an end (`MaxAttempts`), in `analysis_refresh`, where a
refresh that has nothing left to do returns at once, and in `export_release`, whose
runs end.

### Fairness

* `BackfillRun`: a worker's own steps are weakly fair: requests and statements
  have timeouts.  Nothing makes a worker start, crash or lose a session.
* `CollectionCycle`: steps and starts of each worker are weakly fair (the
  scheduler fires slot after slot), and taking the ranking's lock strongly, since
  PostgreSQL queues waiters.  `Crash` and errors are never required.
* `BoardCoverage`: the collector goes on; nothing is required of the
  board.
* `PostStore`: cycles keep coming, so the last slot, which stands for all later
  ones, is ranked again and again (strong fairness of its `ReadRanking`), and not
  every ranking dies before its commit (strong fairness of its `PublishRanking`).
  Nothing is required of collectors and reviewers.
* `AnalysisRefresh`: the loop of `start-local-dashboard.ps1` calls the refresh every
  thirty seconds (weak fairness of `Analyze`), and is not stopped at the same
  replacement each time (strong fairness of the three).
* `ExportRelease`: none; its properties are safety.

### What the code does and the documents do not say

The four violated properties are documented promises:

1. *Repeating a completed slot exits without another upstream request.*
   `finish_run` updates by id, so a worker that lost its lock session reopens what
   its successor completed.  With intact sessions the promise is proved.
2. *A later all-clear is never manufactured.* The failed sources of an attempt
   are only recorded when it ends; if it crashes, the next attempt records none.
3. *A failed source cannot block later sources.* An error outside
   `_RETRYABLE_ERRORS` ends the cycle.
4. *Notices, deletions, and page movement cannot create a successful false boundary*
   (`2026-07-16-production-metadata-collection-design.md:42`). Each page number is
   read once and the overlap lies behind the boundary. Posts 8 to 10 arrive, page 1
   shows 10 and 9, 9 is deleted, 8 moves up to page 1, pages 2 and 3 are the
   boundary and its overlap: the scan succeeds without 8, and the next mark is 10. A later
   scan meets 8 again only while it is no further down than that scan's own boundary
   and overlap. `ScanClosesTheGap` and its theorem say that nothing else
   makes a successful scan miss a post: arrivals before the boundary, failures,
   earlier holes and single pages do not.

`CONCEPTS.md:21` calls the high-water mark the newest post of the last complete scan;
the code takes the newest stored post, whoever stored it. `NoHole` shows that with the
pages of the backfill this loses nothing; the page of `collect-metadata` can move
the mark past posts no scan has seen, and the property excludes it (`single`).

## 4. Proofs

`SourceRunProofs` proves, for every set of workers and every bound:

* `TypeCorrect`; `MutualExclusion` (`SingleOwner`); `NoRepeatedFetch`
  (`NoFetchAfterSuccess`); `ReportsAreDurable` (`ReportedSuccessIsDurable`);
  `AttemptsMonotone`; `RefinesJobSlot` (`ImplementsJobSlot`).

None of these is inductive alone.  The inductive invariant says, while no session
is lost, that a worker which is not idle holds the lock (so there is one), and
what the row must look like at each of its locations: running, with
the worker's own attempt number, from the claim to the end of the run; and, as
long as acknowledgements arrive, that observations are stored only together with
a succeeded row.  A reported success needs the row to stay
succeeded, which holds because only an owner past the claim writes it and no
claim succeeds on such a row.

`BackfillRunProofs` proves `TypeCorrect` for every set of workers and sources, every
window and budget; `BackfillRunSafety` proves, on top of it,

* under every fault: `NoPageIsSkipped` (`NoSkippedPage`) and `SourcesTakeTurns`
  (`RoundRobin`);
* until a lock session is lost: `BudgetIsRespected` (`BudgetRespected`),
  `AllowanceIsSpent` (`AllowanceSpent`), `ReplaysAgree` (`ReplayAgrees`),
  `CursorsAdvance` (`CursorNeverGoesBack`), `RefinesJobSlot` (`ImplementsJobSlot`).

Three invariants carry them. `Coverage` says that every page behind a durable cursor,
and behind the page an attempt is at, was committed; it needs no lock, so it survives
workers that share a slot after a lost session. `Turns` says that live sources have
been served equally often but for those the round has yet to reach, which are one
request behind. `Owned` says, until a session is lost, that whoever is past the
lock holds it, so its copy of the page count is the row's, its requests are covered by
reservations (a lost acknowledgement leaves one reservation unused, never one
request uncovered), no live source is complete or more than one page ahead in its
cursor, and an eligible source that left the loop is complete or failed unless
the allowance is spent. `OwnerStep` reduces the preservation of `Owned` to the worker
that moves: everybody else is idle.

`CollectionCycleProofs` proves `TypeCorrect`, `SucceededIsComplete`
(`SucceededCycleIsComplete`), `BackfillAfterCollection` (`BackfillFollowsCollection`) and
`RankingsGrow` (`RankingNeverLoses`), for every set of workers and sources and any
number of slots, retries and faults. `Known`: what a cycle believes of its slot is
in the ledger, which only grows. `Backfills`: whoever backfills holds that lock, the
slot has no backfill recorded yet, and a cycle past its backfill that saw no failure is
right. `Rankings`: the rows that the lock's owner has read include those it replaces.
`RefinesJobOutcome` (`ImplementsJobOutcomes`) needs `Fetches`, that a fetching worker holds
its source's lock: then no step ends a job but the worker's own. With the theorems of the
same name of `SourceRunProofs` and `BackfillRunSafety`, which follow from `RefinesJobSlot`,
the replacement of a run by two steps is justified but for the faults named there.
TLC agrees with the three on the instances of `source_run`, `backfill_run` and
`collection_cycle`; the runs do not list them, since the last takes TLC beyond
the time of a run.

`BoardCoverageProofs` proves, for every board, every size of pages and batches and any
number of mishaps, `TypeCorrect`, `GapIsClosed` (`ScanClosesTheGap`) and, if
`MinPages >= 2`, `NoHoleRemains` (`NoHole`). The hypothesis is needed: the backfill's
first cursor is page 3 (`backfill.py:47`), so a first scan that ends after one page
leaves the second to nobody, and TLC finds that hole at once. `settings.yaml` has 2;
`config.py:22` would let 1 pass. Page numbers are divisions, so the invariants speak of
ranks, the number of newer posts: an arrival only raises the rank of a post, a
deletion lowers it by at most one (the lemmas of the first section). `ScanReaches`: up to
the newest post a scan has seen, what it has not seen is on pages it has yet to read,
unless the board has slid under that very scan; nothing that happened before it
matters, since a scan begins with having seen nothing. `GapIsClosed` therefore has
the exception of its property, which `board_false_boundary` shows to be needed.
`BackfillReaches`: the posts of the window that are not stored are not before the stored
cursor, but for the deletions since (`slips`), and not before the page the current
attempt has reached. A scan that is stored hands the one over to the other: what it
passes to the backfill ranks behind two pages.

`PostStoreProofs` proves, for every number of collectors, reviewers, posts and reads,
`TypeCorrect`, `NoDeadlock` (`NoWriterDeadlock`), `TitlesScanned` (`TitlesAreScanned`), `PostsConverge`
(`PostConverges`), `SnapshotsConverge` (`SnapshotConverges`), `PublishedOnDay`
(`PublishedOnItsDay`), `VerdictsStand` (`ReviewIsFinal`) and `WorkQueued` (`WorkIsQueued`). A
transaction goes through its posts in one order and through the statements of a post in
another (`InOrder`), so of two transactions the one behind waits. `OneWriter` says
that a row is written by one of them, `Scanning` that what one found of a title still
holds, `Merging` that it will overwrite what is committed with something newer, or
that what is committed is newer, and `Reviewing` that a locked quarantine row is as
the reviewer saw it. `Converged` is the invariant that `PostConverges` follows from.
For snapshots `OneSampler` says that the row of a post and slot has one writer,
`Sampling` that what it was merged with is still committed, so that its counters and
time are the maxima over the committed reads and its own, and `Recorded` that a
committed row is that summary. `SnapshotConverges` speaks of the trigger in
whose interval a read began, the code of `align_kst_slot`, so the theorem also needs
that the function maps a time to that trigger (a section of arithmetic); its
hypothesis is that the slots are among the function's values, which is what a slot is.
`PublishedOnDay` goes through the calendar: years are 365 or 366 days, a day has one
month and day, one that is parsed without its year is the latest such day that is not
after the parse. The parse may be a day after the board printed the page.

`PagesAssumption` is what these two need of the world: the page is parsed
within a day of its generation, lists posts published by then, and its dates without a
year are less than 365 days old when they are parsed. The board's date column sees
to the last one except for a page printed just before midnight and parsed
just after it, of posts exactly a year old: `parse_source_time` would date those
a year late. Of the rest of `PostListing` the proofs use only that a read gives
finitely many items of the columns' types (`ReadsAssumption`).

`AnalysisRefreshProofs` proves `PostsSurvive` (`CachedPostsSurvive`) for all archives,
configurations and articles: a refresh that is about to replace the posts carries a
row for each selected post of the artifact it replaces (`Carried`). `TypeCorrect` says
more than types: a table has one row for a post or comment, because what is fetched is
what the kept rows lack and relabelling keeps the keys; and nothing is written into a
broken archive, because a refresh begins with one that verifies (`Started`).

`ExportReleaseProofs` proves `TypeCorrect`, `FinishedWhole` (`FinishedRunIsWhole`) and
`LatestWhole` for every set of runs: the calls of one run follow each other (`Calls`) and
one helper at a time works on the shared files (`Lockstep`). It also
proves `OnlySpareRemoved` (`OnlySpareReleasesGo`). A prune counts directories, and those
an earlier prune left torn count too; `Spared` says that each torn or chosen release
nevertheless has as many newer ones, neither torn nor chosen, as have to be kept. It is
inductive because the newest of the torn and chosen has only such releases among
its newer ones, and these are newer than all the others as well. The set of runs may
be infinite: only directories have to be finitely many, and each step adds at most one.

Apart from the two hypotheses named above the proofs assume only what the modules' ASSUMEs
say: `Nobody` is no worker and no reviewer, bounds are natural numbers, constants have the
types their comments say, and `PagesAssumption`. TLC evaluates each of them on its
instance.

With that every invariant, every action property and both refinements of the passing
runs are theorems. Model-checked only are the liveness properties (`LockIsReleased`,
`CycleEnds`, `EventuallyRanked`, `WindowGetsStored`, `UnreleasedPostLeavesRanking`,
`SettlesOnConfiguration`), since TLAPS has no rules for fairness and ENABLED here that its
backends could use.

## 5. Plan

The collector, the tables, the ranking, the reviews, the exports and the analysis are
modelled. What is left, in order of importance:

1. Lost sessions and acknowledgements in `CollectionCycle`, whose runs have them and
   whose jobs do not.
2. The publication script as a component: replace, commit, push, roll back.

## 6. Not modelled

* The forms of HTML cells, links and markers, URL validation, and the term lists of the
  scanner and the classifier: text processing without state. Which rules match a title
  and which terms a text holds are constants.
* The dashboard's pages: read-only presentation. That a dashboard reads the three files
  of an analysis while they are replaced is possible and not modelled; it shows the
  mixture until its next load.
* Publication by git, containers, migrations: a single user's script and
  configuration.
* Two refreshes of one directory at the same time: the loop is the only caller, and
  nothing in the code excludes a second one. The articles of the community site do not
  change between two fetches, comments fit in their excerpt, and an earlier
  configuration does not come back.
* The contents of exported CSV files; a release is whole, torn or absent.

Known limits of the code that no property forbids: the comments of newly fetched posts are
lost when a refresh is stopped between the posts and the comments file, since the next one
reuses the posts; the manifest says complete although fetches failed, so
the failed posts are not tried again until the configuration changes; an artifact of
posts without any comment is never reused.
