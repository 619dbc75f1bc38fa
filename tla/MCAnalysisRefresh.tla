-------------------------- MODULE MCAnalysisRefresh --------------------------
(* AnalysisRefresh for TLC: four archives, two of them broken, and three
   configurations: the second selects more posts and has another lexicon, the
   third selects fewer. *)
EXTENDS AnalysisRefresh

UnitSet == {"job", "free"}
TermSet == {"good", "bad", "bug", "boss"}

Post(p, unit, published, comments, recommendations, views) ==
    [post |-> p, unit |-> unit, title |-> IF p = 1 THEN {"boss"} ELSE {}, published |-> published,
     comments |-> comments, recommendations |-> recommendations, views |-> views]

\* Post 5 is older than the window, post 4 hostile, and posts 1 and 2 differ in
\* their last metric only.
Rows == <<Post(1, "job", 50, 3, 2, 9), Post(2, "job", 50, 3, 2, 7), Post(3, "free", 60, 1, 1, 1),
         Post(4, "free", 99, 1, 0, 5), Post(5, "job", 1, 9, 9, 9)>>
Digest == [t \in Tables |-> 1]
Archive(rows) ==
    [members |-> <<"posts", "rankings", "runs", "quarantine", "sums">>, sums |-> Digest, digest |-> Digest, posts |-> rows]

\* The first is empty, the second damaged, the third has a row twice.
ArchiveList == <<Archive(<<>>),
                 [Archive(Rows) EXCEPT !.digest["runs"] = 2],
                 [Archive(Rows) EXCEPT !.posts = Append(@, @[1])],
                 Archive(Rows)>>

Config(n, version, positive, negative) ==
    [policy |-> [days |-> 90, limit |-> [u \in UnitSet |-> n]],
     rules |-> [version |-> version, positive |-> positive, negative |-> negative,
                topics |-> <<{"boss"}, {"bug", "bad"}>>]]
ConfigList == <<Config(1, 1, {"good"}, {"bad"}), Config(2, 2, {"good"}, {"bad", "bug"}),
                Config(1, 2, {"good"}, {"bad", "bug"})>>

Comment(id, text, hostile) == [id |-> id, text |-> text, hostile |-> hostile]
ArticleList == <<
    [head |-> {"good"}, tail |-> {"bad"}, hostile |-> FALSE,
     comments |-> <<Comment(1, {"good"}, FALSE), Comment(2, {"bug"}, FALSE), Comment(2, {"bad"}, FALSE)>>],
    [head |-> {"bug"}, tail |-> {}, hostile |-> FALSE,
     comments |-> <<Comment(3, NoText, FALSE), Comment(4, {"bad"}, TRUE), Comment(5, {"bug"}, FALSE)>>],
    [head |-> {"good", "bug"}, tail |-> {}, hostile |-> FALSE, comments |-> <<>>],
    [head |-> {"bad"}, tail |-> {}, hostile |-> TRUE, comments |-> <<Comment(6, {"bad"}, FALSE)>>],
    [head |-> {}, tail |-> {}, hostile |-> FALSE, comments |-> <<>>]>>
=============================================================================
