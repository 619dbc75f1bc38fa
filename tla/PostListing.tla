----------------------------- MODULE PostListing -----------------------------
(***************************************************************************)
(* What a read of a board's list pages turns into: the observations that   *)
(* parse_list_page of collection/parser.py builds from a page, the one     *)
(* scan_incremental_pages keeps of a post that moved over several pages,   *)
(* and the slot they are filed under.                                      *)
(*                                                                         *)
(* The module is pure: it has no variables.  Times are minutes since the   *)
(* first of January of the year 1, in Korea Standard Time, which has no    *)
(* daylight saving.  The board itself, with its posts, their edits and     *)
(* their counters, is a constant history.                                  *)
(***************************************************************************)
EXTENDS Integers, Sequences, FiniteSetsExt

CONSTANTS
    Posts,       \* post identities
    Titles,      \* titles, numbered in their byte order
    Overlong,    \* the titles above MAX_TITLE_CHARACTERS
    Kind,        \* per post: "ordinary", "notice", "ad", or "foreign": of a category without unit
    History,     \* per post, what its author and readers made of it over time
    Interval,    \* collection.interval_hours
    SlotMinute   \* collection.slot_minute_kst

ASSUME PostsAssumption == Posts \subseteq Nat \ {0}
ASSUME TitlesAssumption == Titles \subseteq Nat \ {0} /\ Overlong \subseteq Titles
ASSUME KindAssumption == Kind \in [Posts -> {"ordinary", "notice", "ad", "foreign"}]
ASSUME HistoryAssumption ==
    \A p \in Posts : History[p] # {} /\ History[p] \subseteq [since : Nat, title : Titles, views : Nat]
ASSUME ScheduleAssumption == Interval \in {n \in 1..24 : 24 % n = 0} /\ SlotMinute \in 0..59

-----------------------------------------------------------------------------
(* The calendar *)

Day == 24 * 60
DayOf(t) == t \div Day

Leap(y) == y % 4 = 0 /\ (y % 100 # 0 \/ y % 400 = 0)
DaysBefore(y) == 365 * (y - 1) + (y - 1) \div 4 - (y - 1) \div 100 + (y - 1) \div 400
YearOf(d) == CHOOSE y \in (d \div 366)..(d \div 365 + 1) : d \in DaysBefore(y)..(DaysBefore(y + 1) - 1)

\* A month and day is its number in a leap year; 60 is the 29th of February.
LeapDay == 60
HasDay(y, md) == Leap(y) \/ md # LeapDay
DayIn(y, md) == DaysBefore(y) + md - (IF Leap(y) \/ md < LeapDay THEN 1 ELSE 2)
MonthDayOf(d) ==
    LET md == d - DaysBefore(YearOf(d)) + 1
    IN  IF Leap(YearOf(d)) \/ md < LeapDay THEN md ELSE md + 1

-----------------------------------------------------------------------------
(* Slots *)

align_kst_slot(now) ==
    LET candidate == DayOf(now) * Day + ((now % Day) \div (Interval * 60)) * Interval * 60 + SlotMinute
    IN  IF candidate > now THEN candidate - Interval * 60 ELSE candidate

\* The hours of the cron trigger.
schedule_hours == {h \in 0..23 : h % Interval = 0}
IsTrigger(t) == t % 60 = SlotMinute /\ (t % Day) \div 60 \in schedule_hours

-----------------------------------------------------------------------------
(* The board *)

PublishedAt(p) == Min({v.since : v \in History[p]})
VersionAt(p, t) ==
    CHOOSE v \in History[p] : v.since <= t /\ \A w \in History[p] : w.since <= t => w.since <= v.since

\* The date column: the time of a post of the day, the day of a younger one
\* than a year, the full date of an older one.
LabelOf(p, generated) ==
    LET t == PublishedAt(p)
    IN  CASE DayOf(t) = DayOf(generated) -> [form |-> "HH:MM", value |-> t % Day]
          [] DayOf(t) # DayOf(generated) /\ generated - t < 365 * Day -> [form |-> "MM-DD", value |-> MonthDayOf(DayOf(t))]
          [] OTHER -> [form |-> "YYYY-MM-DD", value |-> DayOf(t)]

-----------------------------------------------------------------------------
(* Parsing *)

\* The days that a month and day without a year can mean.
DatesOf(md, at) ==
    LET year == YearOf(DayOf(at))
    IN  {DayIn(y, md) : y \in {y \in (year - 8)..year : HasDay(y, md) /\ DayIn(y, md) <= DayOf(at)}}

Parsable(label, at) == label.form = "MM-DD" => DatesOf(label.value, at) # {}

\* Mutant: a time of the day is always a time of the current day.
TimeOfToday(label, at) ==
    CASE label.form = "YYYY-MM-DD" -> label.value * Day
      [] label.form = "MM-DD" -> Max(DatesOf(label.value, at)) * Day
      [] OTHER -> DayOf(at) * Day + label.value

parse_source_time(label, at) ==
    CASE label.form = "YYYY-MM-DD" -> label.value * Day
      [] label.form = "MM-DD" -> Max(DatesOf(label.value, at)) * Day
      [] OTHER -> LET candidate == DayOf(at) * Day + label.value
                  IN  IF candidate > at THEN candidate - Day ELSE candidate

\* A page is generated at one time and parsed as of another: a scan takes the
\* second after the response, the backfill before its request.  A row shows a
\* post as it was at some time before, for the board caches its pinned rows.
Item(row, page) ==
    [post |-> row.post, title |-> VersionAt(row.post, row.shown).title,
     views |-> VersionAt(row.post, row.shown).views,
     published |-> parse_source_time(LabelOf(row.post, page.generated), page.parsed)]

\* A page without the one table of the expected headers is refused.  Of its
\* rows one with nothing in it is passed over, and one broken in any other way
\* (its cells, link, category, title, comment marker or kind) refuses the page.
HasBoardTable(page) == page.table
Articles(page) == {i \in DOMAIN page.rows : page.rows[i].form = "article"}
WellFormed(row) == row.form \in {"article", "blank"}

ValidPage(page) ==
    /\ HasBoardTable(page)
    /\ Articles(page) # {}
    /\ \A i \in DOMAIN page.rows : WellFormed(page.rows[i])
    /\ \A i \in Articles(page) : Parsable(LabelOf(page.rows[i].post, page.generated), page.parsed)

\* Rows of a foreign category count as articles, and are not kept.
ListItems(page) ==
    {[item |-> Item(page.rows[i], page), order |-> i] : i \in {i \in Articles(page) : Kind[page.rows[i].post] # "foreign"}}

-----------------------------------------------------------------------------
(* Reads *)

\* A read is what one call of collect_board_slot is given: the pages of a
\* scan, or the one page of the backfill or of collect-metadata.
Seen(read) ==
    UNION {{[item |-> l.item, page |-> n, order |-> l.order] : l \in ListItems(read.pages[n])} :
        n \in DOMAIN read.pages}

\* The preference of a scan among its sightings of one post.
PreferredTo(s, o) ==
    \/ s.item.views > o.item.views
    \/ s.item.views = o.item.views /\ s.page > o.page
    \/ s.item.views = o.item.views /\ s.page = o.page /\ s.order > o.order

Sightings(read) ==
    IF read.by = "scan"
    THEN {s \in Seen(read) : \A o \in Seen(read) : o.item.post = s.item.post => ~PreferredTo(o, s)}
    ELSE Seen(read)

\* _is_valid_item, of what the parser lets through.
ValidItem(item) == item.title \notin Overlong

Usable(read) == \A n \in DOMAIN read.pages : ValidPage(read.pages[n])
Items(read) == {s.item : s \in {s \in Sightings(read) : ValidItem(s.item)}}
SlotOf(read) == align_kst_slot(read.start)
=============================================================================
