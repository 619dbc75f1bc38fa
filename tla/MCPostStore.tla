----------------------------- MODULE MCPostStore -----------------------------
(* PostStore for TLC: four posts of a board, read around the midnight after the
   last of December by two scans of one slot, under different settings, by the
   backfill and by a scan of the next slot.  Three more reads are refused. *)
EXTENDS PostStore

\* The start of the year 2027, and the minute h:m of the day before it.
NewYear == DaysBefore(2027) * Day
At(h, m) == NewYear - Day + h * 60 + m

PostSet == 1..4
TitleSet == 1..4
TooLong == {4}
\* Invisible characters alone are no reason to quarantine: title 3 is harmless.
RulesOf == [t \in TitleSet |->
    CASE t = 1 -> {"tool", "invisible"} [] t = 4 -> {"override"} [] t = 3 -> {"invisible"} [] OTHER -> {}]
KindOf == [p \in PostSet |-> IF p = 4 THEN "foreign" ELSE "ordinary"]

\* Post 1 has a hostile title for six minutes; that of post 2 becomes too long.
Versions == [p \in PostSet |->
    CASE p = 1 -> {[since |-> At(12, 0), title |-> 2, views |-> 5],
                   [since |-> At(23, 57), title |-> 1, views |-> 9],
                   [since |-> At(24, 3), title |-> 3, views |-> 12]}
      [] p = 2 -> {[since |-> At(0, 0), title |-> 3, views |-> 7],
                   [since |-> At(23, 58), title |-> 2, views |-> 8],
                   [since |-> At(24, 20), title |-> 4, views |-> 9]}
      [] p = 3 -> {[since |-> At(24, 1), title |-> 2, views |-> 1]}
      [] OTHER -> {[since |-> At(1, 0), title |-> 2, views |-> 3]}]

Blank == <<4, 0>>
Page(generated, parsed, shown) ==
    [generated |-> generated, parsed |-> parsed, table |-> TRUE,
     rows |-> [i \in DOMAIN shown |->
        [form |-> IF shown[i] = Blank THEN "blank" ELSE "article", post |-> shown[i][1], shown |-> shown[i][2]]]]

\* A scan of two pages: both posts move to the second, which is generated
\* before midnight and parsed after it.
FirstScan == [by |-> "scan", start |-> At(23, 50), observed |-> At(24, 0), config |-> 1,
    pages |-> <<Page(At(23, 56), At(23, 56), << <<1, At(23, 56)>>, <<2, At(23, 56)>> >>),
                Page(At(23, 59), At(24, 0), << <<1, At(23, 59)>>, <<2, At(23, 59)>> >>)>>]

\* A page of the backfill, whose time is taken before the request: post 3 is
\* younger than that time, the cached rows of posts 1 and 2 are older than the scan.
Backfill == [by |-> "backfill", start |-> At(23, 50), observed |-> At(24, 0), config |-> 1,
    pages |-> <<Page(At(24, 1), At(24, 0),
                     << Blank, <<3, At(24, 1)>>, <<4, At(24, 1)>>, <<2, At(23, 50)>>, <<1, At(23, 50)>>,
                        <<1, At(24, 1)>> >>)>>]

\* A scan that starts before minute 10 belongs to the slot before midnight,
\* for which the settings have changed meanwhile.
LateScan == [by |-> "scan", start |-> At(24, 5), observed |-> At(24, 6), config |-> 2,
    pages |-> <<Page(At(24, 5), At(24, 5), << <<2, At(24, 5)>>, <<1, At(24, 5)>> >>)>>]

NextScan == [by |-> "scan", start |-> At(24, 12), observed |-> At(24, 21), config |-> 2,
    pages |-> <<Page(At(24, 20), At(24, 20), << <<1, At(24, 20)>>, <<2, At(24, 20)>> >>)>>]

\* LateScan's page in three reads that are refused: no article,
\* no table, a broken row.
Refused(page) == [LateScan EXCEPT !.pages = <<page>>]
ReadList ==
    LET page == LateScan.pages[1]
    IN  <<FirstScan, Backfill, LateScan, NextScan, Refused([page EXCEPT !.rows[1].form = "blank", !.rows[2].form = "blank"]),
          Refused([page EXCEPT !.table = FALSE]), Refused([page EXCEPT !.rows[2].form = "broken"])>>
SlotSet == {At(18, 10), At(24, 10)}
RankedSlots == {At(24, 10)}
=============================================================================
