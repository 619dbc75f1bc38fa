--------------------------- MODULE MCBoardCoverage ---------------------------
(* BoardCoverage for TLC: a board of three pages, whose
   window ends on the third, and a board of one page. *)
EXTENDS BoardCoverage

Notices == {1}
SevenInTwo == {3, 4}
Boards == {2..7, {7}}
LongBoard == {2..7}
Three == {3}
DeletablePosts == {3, 5, 6, 9}
=============================================================================
