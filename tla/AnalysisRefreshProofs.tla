------------------------- MODULE AnalysisRefreshProofs -------------------------
(***************************************************************************)
(* What AnalysisRefresh keeps of the cached rows, for all archives,        *)
(* configurations and articles.                                            *)
(*                                                                         *)
(* The argument: a refresh that is about to replace the posts carries a    *)
(* row for every selected post of the readable artifact it will replace    *)
(* (Carried), because the loop is the only writer of an archive's files    *)
(* and no other refresh runs meanwhile.                                    *)
(*                                                                         *)
(* A table keeps one row for a post because what is fetched is what the    *)
(* kept rows lack, and because relabelling keeps the keys; of a broken     *)
(* archive nothing is written, because a refresh only begins with an       *)
(* archive that verifies (Started).                                        *)
(***************************************************************************)
EXTENDS AnalysisRefresh, WellFoundedInduction, TLAPS

\* The shape of the state, as far as updates of it need it.
Artifacts(P, C, M) == [posts : P, comments : C, manifest : M]
Refreshes(P, C) ==
    [step : {"none", "posts", "comments", "manifest"}, archive : DOMAIN Archives \cup {0},
     config : DOMAIN Configs \cup {0}, posts : P, comments : C]
Shape ==
    /\ newest \in DOMAIN Archives /\ config \in DOMAIN Configs
    /\ \E P, C, M : disk \in [DOMAIN Archives -> Artifacts(P, C, M)]
    /\ \E P, C : run \in Refreshes(P, C)

\* The posts about to be written hold every selected post of the files they replace.
Carried ==
    run.step = "posts" /\ Readable(run.archive) =>
        \A row \in disk[run.archive].posts :
            IsSelected(run.archive, run.config, row.post) => \E new \in run.posts : new.post = row.post

Inv == Shape /\ Carried

-----------------------------------------------------------------------------
(* Steps *)

LEMMA InitInv == Init => Inv
<1> SUFFICES ASSUME Init PROVE Inv
  OBVIOUS
<1>1. newest \in DOMAIN Archives /\ config \in DOMAIN Configs
  BY ArchivesAssumption, ConfigsAssumption DEF Init
<1>2. disk \in [DOMAIN Archives -> Artifacts({{}}, {{}}, {NoManifest})]
  BY DEF Init, Artifacts, NoArtifact
<1>3. run \in Refreshes({{}}, {{}})
  BY DEF Init, Refreshes, NoRun
<1>4. run.step # "posts"
  BY DEF Init, NoRun
<1> QED
  BY <1>1, <1>2, <1>3, <1>4 DEF Inv, Shape, Carried

\* Every kept row is carried over, relabelled.
LEMMA RelabelledKeepPosts ==
    ASSUME NEW posts, NEW comments, NEW rules, NEW row \in posts
    PROVE  \E new \in RelabelledPosts(posts, comments, rules) : new.post = row.post
<1> DEFINE new == [post |-> row.post, title |-> row.title, excerpt |-> row.excerpt,
                   label |-> analyze_post(row.title, row.excerpt, {c \in comments : c.post = row.post}, rules)]
<1>1. new \in RelabelledPosts(posts, comments, rules)
  BY DEF RelabelledPosts
<1>2. new.post = row.post
  OBVIOUS
<1> QED
  BY <1>1, <1>2

LEMMA AnalyzeInv == Inv /\ Analyze => Inv'
<1> SUFFICES ASSUME Inv, Analyze PROVE Inv'
  OBVIOUS
<1> USE DEF Inv
<1> DEFINE rules == Configs[config].rules
           kept == KeptPosts(newest, config)
           comments == RelabelledComments(KeptComments(newest, kept), rules)
           posts == RelabelledPosts(kept, comments, rules)
<1>1. PICK more, moreComments :
        run' = [step |-> "posts", archive |-> newest, config |-> config,
                posts |-> posts \cup more, comments |-> comments \cup moreComments]
  BY DEF Analyze
<1>2. UNCHANGED <<newest, config, disk>>
  BY DEF Analyze
<1>3. \A row \in kept : \E new \in posts : new.post = row.post
  <2> HIDE DEF kept, comments, rules
  <2> QED
    BY RelabelledKeepPosts
<1>4. \A row \in disk[newest].posts :
        Readable(newest) /\ IsSelected(newest, config, row.post) => row \in kept
  BY DEF KeptPosts, Loaded
<1> HIDE DEF posts, kept, comments
<1>5. run' \in Refreshes({posts \cup more}, {comments \cup moreComments})
  BY <1>1 DEF Refreshes, Shape
<1>6. Shape'
  BY <1>2, <1>5 DEF Shape
<1>7. Carried'
  BY <1>1, <1>2, <1>3, <1>4 DEF Carried, Readable
<1> QED
  BY <1>6, <1>7

\* One replaced file of one artifact.
LEMMA ReplacedArtifact ==
    ASSUME NEW P, NEW C, NEW M, NEW x \in Artifacts(P, C, M), NEW v
    PROVE  /\ [x EXCEPT !.posts = v] \in Artifacts(P \cup {v}, C, M)
           /\ [x EXCEPT !.comments = v] \in Artifacts(P, C \cup {v}, M)
           /\ [x EXCEPT !.manifest = v] \in Artifacts(P, C, M \cup {v})
BY DEF Artifacts

LEMMA ReplacedFile ==
    ASSUME NEW P, NEW C, NEW M, disk \in [DOMAIN Archives -> Artifacts(P, C, M)], NEW a, NEW v
    PROVE  /\ [disk EXCEPT ![a].posts = v] \in [DOMAIN Archives -> Artifacts(P \cup {v}, C, M)]
           /\ [disk EXCEPT ![a].comments = v] \in [DOMAIN Archives -> Artifacts(P, C \cup {v}, M)]
           /\ [disk EXCEPT ![a].manifest = v] \in [DOMAIN Archives -> Artifacts(P, C, M \cup {v})]
<1>1. \A y : \A Q, D, N : P \subseteq Q /\ C \subseteq D /\ M \subseteq N /\ (a \in DOMAIN Archives => y \in Artifacts(Q, D, N))
        => [disk EXCEPT ![a] = y] \in [DOMAIN Archives -> Artifacts(Q, D, N)]
  BY DEF Artifacts
<1>2. CASE a \in DOMAIN Archives
  <2>1. disk[a] \in Artifacts(P, C, M)
    BY <1>2
  <2> QED
    BY <1>1, <2>1, ReplacedArtifact
<1>3. CASE a \notin DOMAIN Archives
  BY <1>1, <1>3
<1> QED
  BY <1>2, <1>3

LEMMA ReplaceInv == Inv /\ (ReplacePosts \/ ReplaceComments \/ ReplaceManifest) => Inv'
<1> SUFFICES ASSUME Inv, ReplacePosts \/ ReplaceComments \/ ReplaceManifest PROVE Inv'
  OBVIOUS
<1> USE DEF Inv
<1>1. PICK P, C, M : disk \in [DOMAIN Archives -> Artifacts(P, C, M)]
  BY DEF Shape
<1>2. PICK Q, D : run \in Refreshes(Q, D)
  BY DEF Shape
<1>3. run'.step # "posts" /\ run' \in Refreshes(Q \cup {{}}, D \cup {{}})
  BY <1>2 DEF ReplacePosts, ReplaceComments, ReplaceManifest, NoRun, Refreshes
<1>4. \E R, E, N : disk' \in [DOMAIN Archives -> Artifacts(R, E, N)]
  <2>1. CASE ReplacePosts
    <3>1. disk' = [disk EXCEPT ![run.archive].posts = run.posts]
      BY <2>1 DEF ReplacePosts
    <3>2. [disk EXCEPT ![run.archive].posts = run.posts] \in [DOMAIN Archives -> Artifacts(P \cup {run.posts}, C, M)]
      BY <1>1, ReplacedFile
    <3> QED
      BY <3>1, <3>2, Zenon
  <2>2. CASE ReplaceComments
    <3>1. disk' = [disk EXCEPT ![run.archive].comments = run.comments]
      BY <2>2 DEF ReplaceComments
    <3>2. [disk EXCEPT ![run.archive].comments = run.comments]
            \in [DOMAIN Archives -> Artifacts(P, C \cup {run.comments}, M)]
      BY <1>1, ReplacedFile
    <3> QED
      BY <3>1, <3>2, Zenon
  <2>3. CASE ReplaceManifest
    <3> DEFINE manifest == [policy |-> Configs[run.config].policy, version |-> Configs[run.config].rules.version]
    <3>1. disk' = [disk EXCEPT ![run.archive].manifest = manifest]
      BY <2>3 DEF ReplaceManifest
    <3> HIDE DEF manifest
    <3>2. [disk EXCEPT ![run.archive].manifest = manifest] \in [DOMAIN Archives -> Artifacts(P, C, M \cup {manifest})]
      BY <1>1, ReplacedFile
    <3> QED
      BY <3>1, <3>2, Zenon
  <2> QED
    BY <2>1, <2>2, <2>3
<1>5. UNCHANGED <<newest, config>>
  BY DEF ReplacePosts, ReplaceComments, ReplaceManifest
<1> QED
  BY <1>3, <1>4, <1>5 DEF Shape, Carried

LEMMA StepInv == Inv /\ [Next]_vars => Inv'
<1> SUFFICES ASSUME Inv, [Next]_vars PROVE Inv'
  OBVIOUS
<1>1. CASE Die
  <2>1. run' \in Refreshes({{}}, {{}}) /\ run'.step # "posts"
    BY <1>1 DEF Die, NoRun, Refreshes
  <2> QED
    BY <1>1, <2>1 DEF Inv, Shape, Carried, Die
<1>2. CASE Download
  BY <1>2, ArchivesAssumption DEF Inv, Shape, Carried, Readable, Download
<1>3. CASE EditRules
  BY <1>3, ConfigsAssumption DEF Inv, Shape, Carried, Readable, EditRules
<1>4. CASE UNCHANGED vars
  BY <1>4 DEF Inv, Shape, Carried, Readable, vars
<1> QED
  BY AnalyzeInv, ReplaceInv, <1>1, <1>2, <1>3, <1>4 DEF Next

LEMMA Invariance == Spec => []Inv
BY InitInv, StepInv, PTL DEF Spec

-----------------------------------------------------------------------------
(* Theorems *)

Survives ==
    \A a \in DOMAIN Archives : disk'[a].posts # disk[a].posts /\ Readable(a) =>
        \A row \in disk[a].posts :
            IsSelected(a, run.config, row.post) => \E new \in disk'[a].posts : new.post = row.post

LEMMA StepSurvives == Inv /\ [Next]_vars => Survives
<1> SUFFICES ASSUME Inv, [Next]_vars, NEW a \in DOMAIN Archives, disk'[a].posts # disk[a].posts, Readable(a)
             PROVE  \A row \in disk[a].posts :
                        IsSelected(a, run.config, row.post) => \E new \in disk'[a].posts : new.post = row.post
  BY DEF Survives
<1> USE DEF Inv
<1>1. PICK P, C, M : disk \in [DOMAIN Archives -> Artifacts(P, C, M)]
  BY DEF Shape
<1>2. PICK Q, D : run \in Refreshes(Q, D)
  BY DEF Shape
<1>3. ~ReplaceComments /\ ~ReplaceManifest
  BY <1>1 DEF ReplaceComments, ReplaceManifest, Artifacts
<1>4. ReplacePosts
  BY <1>3 DEF Next, vars, Analyze, Die, Download, EditRules
<1>5. a = run.archive /\ disk'[a].posts = run.posts
  BY <1>1, <1>2, <1>4 DEF ReplacePosts, Artifacts
<1> QED
  BY <1>4, <1>5 DEF ReplacePosts, Carried

\* Whatever fails to be fetched and wherever refreshes were stopped, a selected
\* post of a readable artifact keeps its row when the posts are replaced.
THEOREM PostsSurvive == Spec => CachedPostsSurvive
<1>1. Inv /\ [Next]_vars => [Survives]_vars
  BY StepSurvives
<1> QED
  BY <1>1, Invariance, PTL DEF Spec, CachedPostsSurvive, Survives

-----------------------------------------------------------------------------
(* Rows *)

LEMMA LeastOf ==
    ASSUME NEW S \in SUBSET Nat, S # {}
    PROVE  Min(S) \in Nat
<1>1. PICK least \in S : \A n \in S : <<n, least>> \notin OpToRel(<, Nat)
  BY NatLessThanWellFounded, WFMin
<1>2. \A n \in S : ~(n < least)
  BY <1>1 DEF OpToRel
<1>3. \A n \in S : least <= n
  BY <1>2
<1> QED
  BY <1>3 DEF Min

LEMMA LabelTyped ==
    ASSUME NEW k \in DOMAIN Configs, NEW title, NEW body, NEW comments
    PROVE  analyze_post(title, body, comments, Configs[k].rules) \in LabelType
<1> DEFINE rules == Configs[k].rules
<1>1. rules.version \in Versions /\ rules.topics \in Seq(SUBSET Terms)
  <2>1. Configs[k] \in ConfigType
    BY ConfigsAssumption
  <2> QED
    BY <2>1 DEF Versions, ConfigType
<1>2. \A text : Sentiment(text, rules) \in Sentiments
  BY DEF Sentiment, Sentiments
<1>3. Reaction(comments, rules) \in Sentiments
  <2> DEFINE count(s) == Cardinality({c \in comments : Sentiment(c.text, rules) = s})
             spoken == {s \in {"positive", "negative", "mixed"} : count(s) > 0}
             leaders == {s \in spoken : \A t \in spoken : count(t) <= count(s)}
  <2>1. Reaction(comments, rules) = CASE leaders = {} -> "neutral"
                                      [] Cardinality(leaders) = 1 -> CHOOSE s \in leaders : TRUE
                                      [] OTHER -> "mixed"
    BY DEF Reaction
  <2>2. leaders \subseteq Sentiments
    BY DEF Sentiments
  <2> HIDE DEF leaders
  <2>3. leaders = {} \/ (CHOOSE s \in leaders : TRUE) \in leaders
    OBVIOUS
  <2>4. CASE leaders = {}
    BY <2>1, <2>4 DEF Sentiments
  <2>5. CASE leaders # {}
    BY <2>1, <2>2, <2>3, <2>5 DEF Sentiments
  <2> QED
    BY <2>4, <2>5
<1>4. ASSUME NEW text PROVE Strongest(text, rules.topics) \in Nat
  <2> DEFINE groups == rules.topics
             score(i) == Cardinality(text \cap groups[i])
             best == {i \in DOMAIN groups : score(i) > 0 /\ \A j \in DOMAIN groups : score(j) <= score(i)}
  <2>1. Strongest(text, groups) = IF best = {} THEN 0 ELSE Min(best)
    BY DEF Strongest
  <2>2. DOMAIN groups \in SUBSET Nat
    BY <1>1
  <2>3. best \in SUBSET Nat
    BY <2>2
  <2> HIDE DEF best
  <2> QED
    BY <2>1, <2>3, LeastOf
<1> HIDE DEF rules
<1>5. analyze_post(title, body, comments, rules) \in LabelType
  BY <1>1, <1>2, <1>3, <1>4 DEF analyze_post, LabelType
<1> QED
  BY <1>5 DEF rules

\* The selection of a sound archive has one row for a post.
LEMMA SelectedTyped ==
    ASSUME NEW a \in SoundArchives, NEW k \in DOMAIN Configs
    PROVE  /\ Selected[a][k] \subseteq PostType
           /\ \A p, q \in Selected[a][k] : p.post = q.post => p = q
<1> DEFINE rows == Range(Archives[a].posts)
<1>1. a \in DOMAIN Archives /\ Typed(Archives[a])
  BY DEF SoundArchives
<1>2. rows \subseteq PostType
  BY ArchivesAssumption
<1>3. \A p, q \in rows : p.post = q.post => p = q
  BY <1>1 DEF Typed, Range
<1>4. Candidates(a, Configs[k].policy) \subseteq rows
  <2> DEFINE policy == Configs[k].policy
             end == Max({p.published : p \in rows})
             eligible == {p \in rows : p.published >= end - policy.days}
             best(u, m) == Top({p \in eligible : p.unit = u}, m, policy.limit[u])
  <2>1. Candidates(a, policy) = IF rows = {} THEN {} ELSE UNION {best(u, m) : u \in Units, m \in Metrics}
    BY DEF Candidates
  <2>2. \A u, m : best(u, m) \subseteq rows
    BY DEF Top
  <2> HIDE DEF best, rows
  <2>3. UNION {best(u, m) : u \in Units, m \in Metrics} \subseteq rows
    BY <2>2
  <2> QED
    BY <2>1, <2>3
<1>5. Selected[a][k] = Candidates(a, Configs[k].policy)
  BY <1>1 DEF Selected
<1> QED
  BY <1>2, <1>3, <1>4, <1>5

\* The comments of an article that have a text, one for an identity.
LEMMA ParsedTyped ==
    ASSUME NEW p \in DOMAIN Articles
    PROVE  /\ \A c \in parse_comments(p) : c.id \in Nat /\ c.text \subseteq Terms
           /\ \A c, d \in parse_comments(p) : c.id = d.id => c = d
<1> DEFINE list == Articles[p].comments
           kept == {i \in DOMAIN list :
                        list[i].text # NoText /\ \A j \in 1..(i - 1) : list[j].id # list[i].id \/ list[j].text = NoText}
<1>1. parse_comments(p) = {list[i] : i \in kept}
  BY DEF parse_comments
<1>2. list \in Seq(CommentType)
  BY ArticlesAssumption
<1>3. \A i \in kept : list[i].id \in Nat /\ list[i].text \subseteq Terms
  <2> TAKE i \in kept
  <2>1. list[i] \in CommentType /\ list[i].text # NoText
    BY <1>2
  <2> QED
    BY <2>1 DEF CommentType
<1>4. \A i, j \in kept : list[i].id = list[j].id => i = j
  <2> SUFFICES ASSUME NEW i \in kept, NEW j \in kept, list[i].id = list[j].id, i # j PROVE FALSE
    OBVIOUS
  <2>1. i \in Nat \ {0} /\ j \in Nat \ {0}
    BY <1>2
  <2>2. CASE i < j
    <3>1. i \in 1..(j - 1)
      BY <2>1, <2>2
    <3> QED
      BY <3>1
  <2>3. CASE j < i
    <3>1. j \in 1..(i - 1)
      BY <2>1, <2>3
    <3> QED
      BY <3>1
  <2> QED
    BY <2>1, <2>2, <2>3
<1> HIDE DEF kept, list
<1> QED
  BY <1>1, <1>3, <1>4

LEMMA FetchedCommentsTyped ==
    ASSUME NEW k \in DOMAIN Configs, NEW posts \in SUBSET PostType
    PROVE  /\ CommentTable(FetchedComments(posts, Configs[k].rules))
           /\ \A c \in FetchedComments(posts, Configs[k].rules) : \E p \in posts : c.post = p.post
<1> DEFINE rules == Configs[k].rules
           fetched == FetchedComments(posts, rules)
<1>1. \A text : Sentiment(text, rules) \in Sentiments
  BY DEF Sentiment, Sentiments
<1>2. rules.version \in Versions
  BY DEF Versions
<1> HIDE DEF rules
<1>3. \A row \in fetched : \E p \in posts : \E c \in parse_comments(p.post) : row = CommentRow(p.post, c.id, c.text, rules)
  BY DEF FetchedComments
<1> HIDE DEF fetched
<1>4. ASSUME NEW row \in fetched, NEW p \in posts, NEW c \in parse_comments(p.post),
             row = CommentRow(p.post, c.id, c.text, rules)
      PROVE  row \in CommentRowType /\ row.post = p.post /\ row.id = c.id
  <2>1. p.post \in DOMAIN Articles
    BY DEF PostType
  <2>2. c.id \in Nat /\ c.text \subseteq Terms
    BY <2>1, ParsedTyped
  <2> QED
    BY <1>1, <1>2, <1>4, <2>1, <2>2 DEF CommentRow, CommentRowType
<1>5. \A row \in fetched : row \in CommentRowType /\ \E p \in posts : row.post = p.post
  BY <1>3, <1>4
<1>6. ASSUME NEW r \in fetched, NEW s \in fetched, r.post = s.post, r.id = s.id PROVE r = s
  <2>1. PICK p \in posts : \E c \in parse_comments(p.post) : r = CommentRow(p.post, c.id, c.text, rules)
    BY <1>3
  <2>2. PICK c \in parse_comments(p.post) : r = CommentRow(p.post, c.id, c.text, rules)
    BY <2>1
  <2>3. PICK q \in posts : \E d \in parse_comments(q.post) : s = CommentRow(q.post, d.id, d.text, rules)
    BY <1>3
  <2>4. PICK d \in parse_comments(q.post) : s = CommentRow(q.post, d.id, d.text, rules)
    BY <2>3
  <2>5. p.post = q.post /\ c.id = d.id
    BY <1>4, <1>6, <2>2, <2>4
  <2>6. p.post \in DOMAIN Articles
    BY DEF PostType
  <2>7. c = d
    BY <2>5, <2>6, ParsedTyped
  <2> QED
    BY <2>2, <2>4, <2>5, <2>7
<1> QED
  BY <1>5, <1>6 DEF CommentTable, fetched, rules

LEMMA FetchedPostsTyped ==
    ASSUME NEW k \in DOMAIN Configs, NEW posts \in SUBSET PostType, NEW comments,
           \A p, q \in posts : p.post = q.post => p = q
    PROVE  /\ PostTable(FetchedPosts(posts, comments, Configs[k].rules))
           /\ \A row \in FetchedPosts(posts, comments, Configs[k].rules) : \E p \in posts : row.post = p.post
<1> DEFINE rules == Configs[k].rules
           label(p) == analyze_post(p.title, Articles[p.post].head \cup Articles[p.post].tail,
                                    {c \in comments : c.post = p.post}, rules)
           row(p) == [post |-> p.post, title |-> p.title, excerpt |-> Articles[p.post].head, label |-> label(p)]
           fetched == FetchedPosts(posts, comments, rules)
<1>1. \A r \in fetched : \E p \in posts : ~Articles[p.post].hostile /\ r = row(p)
  BY DEF FetchedPosts
<1>2. \A p \in posts : label(p) \in LabelType
  BY LabelTyped
<1> HIDE DEF fetched, label
<1>3. \A p \in posts : row(p).post = p.post /\ (~Articles[p.post].hostile => row(p) \in PostRowType)
  BY <1>2, ArticlesAssumption DEF PostType, PostRowType
<1> HIDE DEF row
<1>4. ASSUME NEW r \in fetched, NEW s \in fetched, r.post = s.post PROVE r = s
  <2>1. PICK p \in posts : r = row(p)
    BY <1>1
  <2>2. PICK q \in posts : s = row(q)
    BY <1>1
  <2>3. p.post = q.post
    BY <1>3, <1>4, <2>1, <2>2
  <2> QED
    BY <2>1, <2>2, <2>3
<1>5. \A r \in fetched : r \in PostRowType /\ \E p \in posts : r.post = p.post
  BY <1>1, <1>3
<1> QED
  BY <1>4, <1>5 DEF PostTable, fetched

LEMMA RelabelledCommentsTyped ==
    ASSUME NEW k \in DOMAIN Configs, NEW comments, CommentTable(comments)
    PROVE  /\ CommentTable(RelabelledComments(comments, Configs[k].rules))
           /\ \A c \in RelabelledComments(comments, Configs[k].rules) : \E d \in comments : c.post = d.post
<1> DEFINE rules == Configs[k].rules
           row(c) == CommentRow(c.post, c.id, c.text, rules)
           new == RelabelledComments(comments, rules)
<1>1. \A r \in new : \E c \in comments : r = row(c)
  BY DEF RelabelledComments
<1>2. ASSUME NEW c \in comments PROVE row(c) \in CommentRowType /\ row(c).post = c.post /\ row(c).id = c.id
  <2>1. c \in CommentRowType /\ Sentiment(c.text, rules) \in Sentiments /\ rules.version \in Versions
    BY DEF CommentTable, Sentiment, Sentiments, Versions
  <2> QED
    BY <2>1 DEF CommentRow, CommentRowType
<1> HIDE DEF new, row
<1>3. ASSUME NEW r \in new, NEW s \in new, r.post = s.post, r.id = s.id PROVE r = s
  <2>1. PICK c \in comments : r = row(c)
    BY <1>1
  <2>2. PICK d \in comments : s = row(d)
    BY <1>1
  <2>3. c.post = d.post /\ c.id = d.id
    BY <1>2, <1>3, <2>1, <2>2
  <2> QED
    BY <2>1, <2>2, <2>3 DEF CommentTable
<1>4. \A r \in new : r \in CommentRowType /\ \E d \in comments : r.post = d.post
  BY <1>1, <1>2
<1> QED
  BY <1>3, <1>4 DEF CommentTable, new

LEMMA RelabelledPostsTyped ==
    ASSUME NEW k \in DOMAIN Configs, NEW posts, NEW comments, PostTable(posts)
    PROVE  /\ PostTable(RelabelledPosts(posts, comments, Configs[k].rules))
           /\ \A r \in RelabelledPosts(posts, comments, Configs[k].rules) : \E p \in posts : r.post = p.post
<1> DEFINE rules == Configs[k].rules
           label(r) == analyze_post(r.title, r.excerpt, {c \in comments : c.post = r.post}, rules)
           row(r) == [post |-> r.post, title |-> r.title, excerpt |-> r.excerpt, label |-> label(r)]
           new == RelabelledPosts(posts, comments, rules)
<1>1. \A r \in new : \E p \in posts : r = row(p)
  BY DEF RelabelledPosts
<1>2. \A p \in posts : label(p) \in LabelType
  BY LabelTyped
<1> HIDE DEF label, new
<1>3. \A p \in posts : row(p) \in PostRowType /\ row(p).post = p.post
  BY <1>2 DEF PostTable, PostRowType
<1> HIDE DEF row
<1>4. ASSUME NEW r \in new, NEW s \in new, r.post = s.post PROVE r = s
  <2>1. PICK p \in posts : r = row(p)
    BY <1>1
  <2>2. PICK q \in posts : s = row(q)
    BY <1>1
  <2>3. p = q
    BY <1>3, <1>4, <2>1, <2>2 DEF PostTable
  <2> QED
    BY <2>1, <2>2, <2>3
<1>5. \A r \in new : r \in PostRowType /\ \E p \in posts : r.post = p.post
  BY <1>1, <1>3
<1> QED
  BY <1>4, <1>5 DEF PostTable, new

-----------------------------------------------------------------------------
(* Types *)

\* A refresh has begun with an archive that verifies and with a configuration.
Started == run.step # "none" => run.archive \in SoundArchives /\ run.config \in DOMAIN Configs

\* What Analyze is about to write: rows that the files have, and rows of posts
\* that they do not.
LEMMA AnalyzeTyped == TypeOK /\ Analyze => TypeOK' /\ Started'
<1> SUFFICES ASSUME TypeOK, Analyze PROVE TypeOK' /\ Started'
  OBVIOUS
<1> DEFINE rules == Configs[config].rules
           kept == KeptPosts(newest, config)
           keptComments == KeptComments(newest, kept)
           comments == RelabelledComments(keptComments, rules)
           posts == RelabelledPosts(kept, comments, rules)
           missing == Missing(newest, config, kept)
           newComments == FetchedComments(missing, rules)
           newPosts == FetchedPosts(missing, newComments, rules)
<1>1. PICK failed \in SUBSET {p.post : p \in missing} :
        run' = [step |-> "posts", archive |-> newest, config |-> config,
                posts |-> posts \cup {row \in newPosts : row.post \notin failed},
                comments |-> comments \cup {c \in newComments : c.post \notin failed}]
  BY DEF Analyze
<1>2. newest \in SoundArchives /\ config \in DOMAIN Configs /\ UNCHANGED <<newest, config, disk>>
  BY DEF Analyze, TypeOK
<1>3. PostTable(kept) /\ CommentTable(keptComments) /\ \A c \in keptComments : \E row \in kept : row.post = c.post
  <2>1. PostTable(Loaded(newest).posts) /\ CommentTable(Loaded(newest).comments)
    BY DEF TypeOK, Loaded, NoArtifact, PostTable, CommentTable
  <2>2. kept \subseteq Loaded(newest).posts /\ keptComments \subseteq Loaded(newest).comments
    BY DEF KeptPosts, KeptComments
  <2>3. \A c \in keptComments : \E row \in kept : row.post = c.post
    BY DEF KeptComments
  <2> HIDE DEF kept, keptComments
  <2> QED
    BY <2>1, <2>2, <2>3 DEF PostTable, CommentTable
<1>4. /\ missing \in SUBSET PostType
      /\ \A p, q \in missing : p.post = q.post => p = q
      /\ \A p \in missing : \A row \in kept : row.post # p.post
  BY <1>2, SelectedTyped DEF Missing
<1> HIDE DEF kept, keptComments, missing
<1>5. CommentTable(comments) /\ \A c \in comments : \E d \in keptComments : c.post = d.post
  BY <1>2, <1>3, RelabelledCommentsTyped
<1>6. CommentTable(newComments) /\ \A c \in newComments : \E p \in missing : c.post = p.post
  BY <1>2, <1>4, FetchedCommentsTyped
<1>7. PostTable(posts) /\ \A row \in posts : \E p \in kept : row.post = p.post
  <2>1. ASSUME NEW k \in DOMAIN Configs, NEW c
        PROVE  /\ PostTable(RelabelledPosts(kept, c, Configs[k].rules))
               /\ \A row \in RelabelledPosts(kept, c, Configs[k].rules) : \E p \in kept : row.post = p.post
    <3>1. PostTable(kept)
      BY <1>3
    <3> QED
      BY <3>1, RelabelledPostsTyped
  <2> QED
    BY <1>2, <2>1
<1>8. PostTable(newPosts) /\ \A row \in newPosts : \E p \in missing : row.post = p.post
  <2>1. ASSUME NEW k \in DOMAIN Configs, NEW c
        PROVE  /\ PostTable(FetchedPosts(missing, c, Configs[k].rules))
               /\ \A row \in FetchedPosts(missing, c, Configs[k].rules) : \E p \in missing : row.post = p.post
    BY <1>4, FetchedPostsTyped
  <2> QED
    BY <1>2, <2>1
<1> HIDE DEF posts, newPosts, comments, newComments, rules
<1>9. PostTable(run'.posts)
  <2>1. \A r \in posts, s \in newPosts : r.post # s.post
    BY <1>4, <1>7, <1>8
  <2>2. run'.posts = posts \cup {row \in newPosts : row.post \notin failed}
    BY <1>1
  <2> QED
    BY <1>7, <1>8, <2>1, <2>2 DEF PostTable
<1>10. CommentTable(run'.comments)
  <2>1. \A r \in comments, s \in newComments : r.post # s.post
    <3> TAKE r \in comments, s \in newComments
    <3>1. PICK d \in keptComments : r.post = d.post
      BY <1>5
    <3>2. PICK row \in kept : row.post = d.post
      BY <1>3
    <3>3. PICK p \in missing : s.post = p.post
      BY <1>6
    <3> QED
      BY <1>4, <3>1, <3>2, <3>3
  <2>2. run'.comments = comments \cup {c \in newComments : c.post \notin failed}
    BY <1>1
  <2> QED
    BY <1>5, <1>6, <2>1, <2>2 DEF CommentTable
<1>11. run'.step = "posts" /\ run'.archive = newest /\ run'.config = config
  BY <1>1
<1> QED
  BY <1>2, <1>9, <1>10, <1>11 DEF TypeOK, Started, SoundArchives

LEMMA ReplaceTyped ==
    Shape /\ TypeOK /\ Started /\ (ReplacePosts \/ ReplaceComments \/ ReplaceManifest) => TypeOK' /\ Started'
<1> SUFFICES ASSUME Shape, TypeOK, Started, ReplacePosts \/ ReplaceComments \/ ReplaceManifest
             PROVE  TypeOK' /\ Started'
  OBVIOUS
<1> USE DEF TypeOK, Started
<1>1. PICK P, C, M : disk \in [DOMAIN Archives -> Artifacts(P, C, M)]
  BY DEF Shape
<1>2. PICK Q, D : run \in Refreshes(Q, D)
  BY DEF Shape
<1>3. UNCHANGED <<newest, config>> /\ run.step # "none" /\ run.archive \in SoundArchives /\ run.config \in DOMAIN Configs
  BY DEF ReplacePosts, ReplaceComments, ReplaceManifest
<1>4. /\ run'.step \in {"none", "posts", "comments", "manifest"}
      /\ run'.archive \in DOMAIN Archives \cup {0} /\ run'.config \in DOMAIN Configs \cup {0}
      /\ PostTable(run'.posts) /\ CommentTable(run'.comments)
      /\ run'.step = "none" \/ (run'.archive = run.archive /\ run'.config = run.config)
  <2>1. CASE ReplacePosts
    BY <1>2, <2>1 DEF ReplacePosts, Refreshes
  <2>2. CASE ReplaceComments
    BY <1>2, <2>2 DEF ReplaceComments, Refreshes
  <2>3. CASE ReplaceManifest
    BY <2>3 DEF ReplaceManifest, NoRun, PostTable, CommentTable
  <2> QED
    BY <2>1, <2>2, <2>3
<1>5. ASSUME NEW a \in DOMAIN Archives
      PROVE  /\ PostTable(disk'[a].posts) /\ CommentTable(disk'[a].comments)
             /\ a \in SoundArchives \/ disk'[a] = NoArtifact
             /\ disk'[a].manifest = NoManifest
                 \/ \E k \in DOMAIN Configs : disk'[a].manifest = [policy |-> Configs[k].policy, version |-> Configs[k].rules.version]
  <2>1. disk[a] \in Artifacts(P, C, M)
    BY <1>1
  <2>2. CASE ReplacePosts
    <3>1. disk'[a] = IF a = run.archive THEN [disk[a] EXCEPT !.posts = run.posts] ELSE disk[a]
      BY <1>1, <2>2 DEF ReplacePosts
    <3> QED
      BY <1>3, <2>1, <3>1 DEF Artifacts
  <2>3. CASE ReplaceComments
    <3>1. disk'[a] = IF a = run.archive THEN [disk[a] EXCEPT !.comments = run.comments] ELSE disk[a]
      BY <1>1, <2>3 DEF ReplaceComments
    <3> QED
      BY <1>3, <2>1, <3>1 DEF Artifacts
  <2>4. CASE ReplaceManifest
    <3> DEFINE new == [policy |-> Configs[run.config].policy, version |-> Configs[run.config].rules.version]
    <3>1. disk'[a] = IF a = run.archive THEN [disk[a] EXCEPT !.manifest = new] ELSE disk[a]
      BY <1>1, <2>4 DEF ReplaceManifest
    <3>2. \E k \in DOMAIN Configs : new = [policy |-> Configs[k].policy, version |-> Configs[k].rules.version]
      BY <1>3
    <3> HIDE DEF new
    <3> QED
      BY <1>3, <2>1, <3>1, <3>2 DEF Artifacts
  <2> QED
    BY <2>2, <2>3, <2>4
<1> QED
  BY <1>3, <1>4, <1>5

\* One row for a post and for a comment in every table, whatever mixture of
\* files a refresh has read.
THEOREM TypeCorrect == Spec => []TypeOK
<1>1. Init => TypeOK /\ Started
  <2> SUFFICES ASSUME Init PROVE TypeOK /\ Started
    OBVIOUS
  <2>1. newest \in DOMAIN Archives /\ config \in DOMAIN Configs
    BY ArchivesAssumption, ConfigsAssumption DEF Init
  <2> QED
    BY <2>1 DEF Init, TypeOK, Started, NoRun, NoArtifact, PostTable, CommentTable
<1>2. Inv /\ (TypeOK /\ Started) /\ [Next]_vars => (TypeOK /\ Started)'
  <2> SUFFICES ASSUME Inv, TypeOK, Started, [Next]_vars PROVE TypeOK' /\ Started'
    OBVIOUS
  <2>1. CASE Die
    BY <2>1 DEF Die, NoRun, TypeOK, Started, PostTable, CommentTable
  <2>2. CASE Download
    BY <2>2, ArchivesAssumption DEF Download, TypeOK, Started
  <2>3. CASE EditRules
    <3>1. config' \in DOMAIN Configs /\ UNCHANGED <<newest, disk, run>>
      BY <2>3, ConfigsAssumption DEF EditRules, TypeOK
    <3> QED
      BY <3>1 DEF TypeOK, Started
  <2>4. CASE UNCHANGED vars
    BY <2>4 DEF vars, TypeOK, Started
  <2>5. CASE Analyze
    BY <2>5, AnalyzeTyped
  <2>6. CASE ReplacePosts \/ ReplaceComments \/ ReplaceManifest
    <3>1. Shape
      BY DEF Inv
    <3> QED
      BY <2>6, <3>1, ReplaceTyped
  <2> QED
    BY <2>1, <2>2, <2>3, <2>4, <2>5, <2>6 DEF Next
<1>3. TypeOK /\ Started => TypeOK
  OBVIOUS
<1> QED
  BY <1>1, <1>2, <1>3, Invariance, PTL DEF Spec
=============================================================================
