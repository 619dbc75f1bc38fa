---------------------------- MODULE AnalysisRefresh ----------------------------
(***************************************************************************)
(* The local analysis of downloaded exports: refresh_analysis of           *)
(* local/pipeline.py, which start-local-dashboard.ps1 calls every thirty   *)
(* seconds for the newest archive of a directory and may stop at any time. *)
(*                                                                         *)
(* A refresh reuses the rows of the archive's previous artifact, labels    *)
(* them anew, fetches the selected posts that have none, and replaces the  *)
(* three files of the artifact one after another, the manifest last.       *)
(*                                                                         *)
(* Text is the set of the terms it contains.  An article does not change   *)
(* between its fetches, and comments fit into their excerpt.               *)
(***************************************************************************)
EXTENDS Integers, Sequences, FiniteSetsExt, Functions

CONSTANTS
    Archives,   \* the archives in the order of their names, which is that of their download
    Configs,    \* the edits of analysis_rules.yaml, in order
    Articles,   \* per post, what the community site serves
    Units,      \* analysis units
    Terms,
    NoText,     \* the text of a comment that has an image only
    MaxInt64

Metrics == {"comments", "recommendations", "views"}
ConfigType == [policy : [days : Nat, limit : [Units -> Nat]],
               rules : [version : Nat, positive : SUBSET Terms, negative : SUBSET Terms, topics : Seq(SUBSET Terms)]]
PostType == [post : DOMAIN Articles, unit : Units, title : SUBSET Terms, published : Nat,
             comments : Nat, recommendations : Nat, views : Nat]
CommentType == [id : Nat, text : (SUBSET Terms) \cup {NoText}, hostile : BOOLEAN]

\* _verify_checksums and _read_typed_csv: what load_export_archive accepts.
\* The rows of the other tables are read alike.
Tables == {"posts", "rankings", "runs", "quarantine"}
Complete(z) == IsInjective(z.members) /\ Range(z.members) = Tables \cup {"sums"}
Verified(z) == DOMAIN z.sums = Tables /\ \A t \in Tables : z.sums[t] = z.digest[t]
Typed(z) ==
    /\ \A i \in DOMAIN z.posts : \A c \in Metrics \cup {"post"} : z.posts[i][c] \in 0..MaxInt64
    /\ \A i, j \in DOMAIN z.posts : z.posts[i].post = z.posts[j].post => i = j
SoundArchives == {a \in DOMAIN Archives : Complete(Archives[a]) /\ Verified(Archives[a]) /\ Typed(Archives[a])}

ASSUME ArchivesAssumption ==
    /\ Archives \in Seq(Range(Archives)) \ {<<>>}
    /\ \A a \in SoundArchives : Range(Archives[a].posts) \subseteq PostType
ASSUME ConfigsAssumption ==
    /\ Configs \in Seq(ConfigType) \ {<<>>}
    \* An edit of the lexicon comes with a new version; no earlier file comes back.
    /\ \A j, k \in DOMAIN Configs : Configs[j].rules.version = Configs[k].rules.version => Configs[j].rules = Configs[k].rules
    /\ \A j, k \in DOMAIN Configs : Configs[j] = Configs[k] => j = k
ASSUME ArticlesAssumption ==
    \A p \in DOMAIN Articles :
        /\ Articles[p].head \subseteq Terms /\ Articles[p].tail \subseteq Terms /\ Articles[p].hostile \in BOOLEAN
        /\ Articles[p].comments \in Seq(CommentType)

VARIABLES
    newest,   \* the newest archive of the directory
    config,   \* the current analysis_rules.yaml
    disk,     \* per archive, the three files of its analysis directory
    run       \* the refresh in progress: what it will write and what it writes next

vars == <<newest, config, disk, run>>

NoManifest == [policy |-> 0, version |-> 0]
NoArtifact == [posts |-> {}, comments |-> {}, manifest |-> NoManifest]
NoRun == [step |-> "none", archive |-> 0, config |-> 0, posts |-> {}, comments |-> {}]

Init ==
    /\ newest = 1 /\ config = 1
    /\ disk = [a \in DOMAIN Archives |-> NoArtifact]
    /\ run = NoRun

-----------------------------------------------------------------------------
(* Selection *)

\* The order of the rows of one unit by one metric.
Before(p, q, metric) ==
    \/ p[metric] > q[metric]
    \/ p[metric] = q[metric] /\ p.published > q.published
    \/ p[metric] = q[metric] /\ p.published = q.published /\ p.post > q.post

Top(rows, metric, n) == {p \in rows : Cardinality({q \in rows : Before(q, p, metric)}) < n}

\* The window ends with the newest post of the archive, not with the present.
Candidates(a, policy) ==
    LET posts == Range(Archives[a].posts)
        end == Max({p.published : p \in posts})
        eligible == {p \in posts : p.published >= end - policy.days}
    IN  IF posts = {} THEN {}
        ELSE UNION {Top({p \in eligible : p.unit = u}, m, policy.limit[u]) : u \in Units, m \in Metrics}

\* The candidates of every archive under every configuration.
Selected == [a \in DOMAIN Archives |-> [k \in DOMAIN Configs |-> Candidates(a, Configs[k].policy)]]
IsSelected(a, k, post) == \E p \in Selected[a][k] : p.post = post

-----------------------------------------------------------------------------
(* Labels *)

Sentiment(text, rules) ==
    LET positive == text \cap rules.positive # {}
        negative == text \cap rules.negative # {}
    IN  CASE positive /\ negative -> "mixed"
          [] positive /\ ~negative -> "positive"
          [] ~positive /\ negative -> "negative"
          [] OTHER -> "neutral"

\* The group with most of its terms in the text, the first of several; 0 when none has any.
Strongest(text, groups) ==
    LET score(i) == Cardinality(text \cap groups[i])
        best == {i \in DOMAIN groups : score(i) > 0 /\ \A j \in DOMAIN groups : score(j) <= score(i)}
    IN  IF best = {} THEN 0 ELSE Min(best)

\* The most frequent sentiment of the comments that have one.
Reaction(comments, rules) ==
    LET count(s) == Cardinality({c \in comments : Sentiment(c.text, rules) = s})
        spoken == {s \in {"positive", "negative", "mixed"} : count(s) > 0}
        leaders == {s \in spoken : \A t \in spoken : count(t) <= count(s)}
    IN  CASE leaders = {} -> "neutral"
          [] Cardinality(leaders) = 1 -> CHOOSE s \in leaders : TRUE
          [] OTHER -> "mixed"

analyze_post(title, body, comments, rules) ==
    [body |-> Sentiment(body, rules), reaction |-> Reaction(comments, rules),
     topic |-> Strongest(title \cup body, rules.topics), version |-> rules.version]

-----------------------------------------------------------------------------
(* Rows *)

\* Mutant: a comment that is listed twice is not skipped.
ParsedTwice(p) == {c \in Range(Articles[p].comments) : c.text # NoText}

\* Comments with a text, one for each identity.
parse_comments(p) ==
    LET list == Articles[p].comments
    IN  {list[i] : i \in {i \in DOMAIN list :
            list[i].text # NoText /\ \A j \in 1..(i - 1) : list[j].id # list[i].id \/ list[j].text = NoText}}

CommentRow(p, id, text, rules) ==
    [post |-> p, id |-> id, text |-> text, sentiment |-> Sentiment(text, rules), version |-> rules.version]

\* A fetched post: labelled by its whole body, stored with the beginning of it.
\* A hostile body drops the post, a hostile comment only itself.
FetchedComments(posts, rules) ==
    UNION {{CommentRow(p.post, c.id, c.text, rules) : c \in {c \in parse_comments(p.post) : ~c.hostile}} :
        p \in {p \in posts : ~Articles[p.post].hostile}}

FetchedPosts(posts, comments, rules) ==
    {[post |-> p.post, title |-> p.title, excerpt |-> Articles[p.post].head,
      label |-> analyze_post(p.title, Articles[p.post].head \cup Articles[p.post].tail,
                             {c \in comments : c.post = p.post}, rules)] :
        p \in {p \in posts : ~Articles[p.post].hostile}}

\* Mutant: only the version of the labels is renewed.
StampedPosts(posts, comments, rules) ==
    {[row EXCEPT !.label.version = rules.version] : row \in posts}

\* _relabel_cached_rows has only the excerpt, and the comments that the files have.
RelabelledComments(comments, rules) ==
    {CommentRow(c.post, c.id, c.text, rules) : c \in comments}

RelabelledPosts(posts, comments, rules) ==
    {[post |-> row.post, title |-> row.title, excerpt |-> row.excerpt,
      label |-> analyze_post(row.title, row.excerpt, {c \in comments : c.post = row.post}, rules)] :
        row \in posts}

-----------------------------------------------------------------------------
(* refresh_analysis *)

\* load_analysis_artifact: a missing file cannot be read, nor can one without
\* rows, for then it has no columns either.
Readable(a) == disk[a].manifest # NoManifest /\ disk[a].posts # {} /\ disk[a].comments # {}
Loaded(a) == IF Readable(a) THEN disk[a] ELSE NoArtifact

Reusable(a, k) ==
    Readable(a) /\ disk[a].manifest = [policy |-> Configs[k].policy, version |-> Configs[k].rules.version]

\* Mutant: rows of another version are fetched again.
KeptOfVersion(a, k) ==
    {row \in Loaded(a).posts : row.label.version = Configs[k].rules.version /\ IsSelected(a, k, row.post)}

KeptPosts(a, k) == {row \in Loaded(a).posts : IsSelected(a, k, row.post)}
KeptComments(a, kept) == {c \in Loaded(a).comments : \E row \in kept : row.post = c.post}
Missing(a, k, kept) == {p \in Selected[a][k] : \A row \in kept : row.post # p.post}

\* The refresh up to its first write; failed are the posts whose fetch or
\* parsing raises.  A broken archive raises before that, and a reusable
\* artifact ends the refresh.
Analyze ==
    LET rules == Configs[config].rules
        kept == KeptPosts(newest, config)
        comments == RelabelledComments(KeptComments(newest, kept), rules)
        posts == RelabelledPosts(kept, comments, rules)
        missing == Missing(newest, config, kept)
        newComments == FetchedComments(missing, rules)
        newPosts == FetchedPosts(missing, newComments, rules)
    IN  /\ run = NoRun
        /\ newest \in SoundArchives /\ ~Reusable(newest, config)
        /\ \E failed \in SUBSET {p.post : p \in missing} :
            run' = [step |-> "posts", archive |-> newest, config |-> config,
                    posts |-> posts \cup {row \in newPosts : row.post \notin failed},
                    comments |-> comments \cup {c \in newComments : c.post \notin failed}]
        /\ UNCHANGED <<newest, config, disk>>

ReplacePosts ==
    /\ run.step = "posts"
    /\ disk' = [disk EXCEPT ![run.archive].posts = run.posts]
    /\ run' = [run EXCEPT !.step = "comments"]
    /\ UNCHANGED <<newest, config>>

ReplaceComments ==
    /\ run.step = "comments"
    /\ disk' = [disk EXCEPT ![run.archive].comments = run.comments]
    /\ run' = [run EXCEPT !.step = "manifest"]
    /\ UNCHANGED <<newest, config>>

ReplaceManifest ==
    /\ run.step = "manifest"
    /\ disk' = [disk EXCEPT ![run.archive].manifest =
            [policy |-> Configs[run.config].policy, version |-> Configs[run.config].rules.version]]
    /\ run' = NoRun
    /\ UNCHANGED <<newest, config>>

\* The job is stopped, or a replacement raises because a reader has the file open.
Die ==
    /\ run # NoRun
    /\ run' = NoRun
    /\ UNCHANGED <<newest, config, disk>>

\* The downloader moves a complete archive into the directory.
Download ==
    /\ newest < Len(Archives)
    /\ newest' = newest + 1
    /\ UNCHANGED <<config, disk, run>>

\* A developer edits analysis_rules.yaml.
EditRules ==
    /\ config < Len(Configs)
    /\ config' = config + 1
    /\ UNCHANGED <<newest, disk, run>>

Next == Analyze \/ ReplacePosts \/ ReplaceComments \/ ReplaceManifest \/ Die \/ Download \/ EditRules

\* The loop calls the refresh again and again, and not every call is stopped at
\* the same replacement.
Fairness ==
    /\ WF_vars(Analyze)
    /\ SF_vars(ReplacePosts) /\ SF_vars(ReplaceComments) /\ SF_vars(ReplaceManifest)

Spec == Init /\ [][Next]_vars
FairSpec == Spec /\ Fairness

-----------------------------------------------------------------------------
(* Properties *)

Versions == {Configs[k].rules.version : k \in DOMAIN Configs}
Sentiments == {"positive", "negative", "mixed", "neutral"}
LabelType == [body : Sentiments, reaction : Sentiments, topic : Nat, version : Versions]
PostRowType == [post : {p \in DOMAIN Articles : ~Articles[p].hostile}, title : SUBSET Terms,
                excerpt : SUBSET Terms, label : LabelType]
CommentRowType == [post : DOMAIN Articles, id : Nat, text : SUBSET Terms, sentiment : Sentiments, version : Versions]

PostTable(rows) ==
    (\A row \in rows : row \in PostRowType) /\ \A r, s \in rows : r.post = s.post => r = s
CommentTable(rows) ==
    (\A row \in rows : row \in CommentRowType) /\ \A r, s \in rows : <<r.post, r.id>> = <<s.post, s.id>> => r = s

\* The tables on disk and in memory hold one row for a post and one for a
\* comment, also when a refresh has read files of two earlier ones, no row for an
\* article the scanner refuses, and nothing that comes from a broken archive.
TypeOK ==
    /\ newest \in DOMAIN Archives /\ config \in DOMAIN Configs
    /\ \A a \in DOMAIN Archives :
        /\ PostTable(disk[a].posts) /\ CommentTable(disk[a].comments)
        /\ a \in SoundArchives \/ disk[a] = NoArtifact
        /\ disk[a].manifest = NoManifest
            \/ \E k \in DOMAIN Configs : disk[a].manifest = [policy |-> Configs[k].policy, version |-> Configs[k].rules.version]
    /\ run.step \in {"none", "posts", "comments", "manifest"}
    /\ run.archive \in DOMAIN Archives \cup {0} /\ run.config \in DOMAIN Configs \cup {0}
    /\ PostTable(run.posts) /\ CommentTable(run.comments)

\* A refresh never loses a cached post that is still selected: whatever fails to
\* be fetched, and wherever earlier refreshes were stopped, the rows of a
\* readable artifact are carried over.
CachedPostsSurvive ==
    [][\A a \in DOMAIN Archives : disk'[a].posts # disk[a].posts /\ Readable(a) =>
        \A row \in disk[a].posts :
            IsSelected(a, run.config, row.post) => \E new \in disk'[a].posts : new.post = row.post]_vars

\* What the files of an archive have to be under a configuration: selected and
\* labelled by its rules, by the body itself where the excerpt holds all of it.
Current(a, k) ==
    LET rules == Configs[k].rules
    IN  /\ disk[a].manifest = [policy |-> Configs[k].policy, version |-> rules.version]
        /\ \A row \in disk[a].posts :
            /\ IsSelected(a, k, row.post)
            /\ row.label.version = rules.version
            /\ Articles[row.post].tail \subseteq row.excerpt => row.label.body = Sentiment(row.excerpt, rules)
        /\ \A c \in disk[a].comments :
            /\ \E row \in disk[a].posts : row.post = c.post
            /\ c = CommentRow(c.post, c.id, c.text, rules)

\* Once downloads and edits end, the newest archive's artifact is and stays that
\* of the last configuration, although refreshes are stopped between their
\* replacements and read mixtures of files afterwards.
SettlesOnConfiguration ==
    <>[](newest \in SoundArchives => Current(newest, config))
=============================================================================
