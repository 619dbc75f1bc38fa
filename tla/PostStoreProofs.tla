--------------------------- MODULE PostStoreProofs ---------------------------
(***************************************************************************)
(* The tables of PostStore for every number of collectors, reviewers and   *)
(* reads, and every number of posts in a read.                             *)
(*                                                                         *)
(* The argument: a transaction goes through its posts in their order and   *)
(* through the statements of one post in theirs (InOrder), so whoever      *)
(* waits is behind whom it waits for.  A row has one writer (OneWriter),   *)
(* and what a transaction has found of a post holds until it ends: it will *)
(* overwrite what is committed with something newer, or what is committed  *)
(* is no older and can only become newer (Merging).  A quarantine row is   *)
(* new to its writer, and a reviewer's is as it was locked (Reviewing).    *)
(*                                                                         *)
(* A snapshot row has one writer too (OneSampler), so what it was merged   *)
(* with is still committed when it is (Sampling), and a committed row is   *)
(* the summary of the committed reads of its slot (Recorded).  That the    *)
(* slot of a time is the trigger whose interval the time is in, and that   *)
(* the parse of a label finds its day again, is arithmetic on days, hours  *)
(* and years, done in sections of their own.                               *)
(***************************************************************************)
EXTENDS PostStore, FiniteSetTheorems, TLAPS

\* The transaction has executed the statement of a kind for a post.
Passed(w, p) == p \in PostsOf(w.read) \ w.todo
DidTitles(w, p) == Passed(w, p) \/ (p \in w.todo /\ p = Current(w) /\ w.step \in {"post", "snapshot"})
DidPost(w, p) == Passed(w, p) \/ (p \in w.todo /\ p = Current(w) /\ w.step = "snapshot")

Works(S) == [step : Steps, read : Ids \cup {NoRead}, todo : SUBSET Posts, newBoard : BOOLEAN,
             titles : SUBSET Titled, posts : [Posts -> RowType \cup {NoRow}], snaps : [Posts -> S]]

Shape ==
    /\ \E S : work \in [Collectors -> Works(S)]
    /\ post \in [Posts -> RowType \cup {NoRow}]
    /\ quarantine \in [Titled -> ReviewType]
    /\ review \in [Reviewers -> [key : Titled, seen : ReviewType] \cup {NoHold}]
    /\ stored \subseteq {r \in Ids : Usable(Reads[r])}

InOrderOf(w) ==
    /\ w.read \in Ids /\ Usable(Reads[w.read]) /\ w.todo \subseteq PostsOf(w.read)
    /\ w.step \in {"titles", "post", "snapshot", "done"} /\ (w.step = "done" <=> w.todo = {})
    /\ \A p \in PostsOf(w.read) \ w.todo : \A t \in w.todo : p < t
    /\ \A q \in w.titles : DidTitles(w, q[1])
    /\ \A p \in Posts : w.posts[p] # NoRow => DidPost(w, p)
    /\ \A p \in Posts : w.snaps[p] # NoSnap => Passed(w, p)

\* What a transaction has found of a post's titles and row still holds.
ScanningOf(w) ==
    /\ \A q \in w.titles : quarantine[q] = NoReview
    /\ \A q \in TitlesOf(w.read) :
        q[2] \in Hostile /\ DidTitles(w, q[1]) => q \in w.titles \/ quarantine[q] # NoReview

MergingOf(w) == \A p \in Posts : DidPost(w, p) =>
    LET row == CanonicalRow(w.read, p)
    IN  \/ w.posts[p] = row /\ (post[p] = NoRow \/ Refreshes(row, post[p]))
        \/ w.posts[p] = NoRow /\ post[p] # NoRow /\ ~Refreshes(row, post[p])

InOrder == \A c \in Collectors : work[c] = NoWork \/ InOrderOf(work[c])
Scanning == \A c \in Collectors : work[c] = NoWork \/ ScanningOf(work[c])
Merging == \A c \in Collectors : work[c] = NoWork \/ MergingOf(work[c])

OneWriter == \A c, d \in Collectors : c # d =>
    /\ work[c].titles \cap work[d].titles = {}
    /\ \A p \in Posts : work[c].posts[p] = NoRow \/ work[d].posts[p] = NoRow

Reviewing ==
    \A v \in Reviewers : review[v] # NoHold =>
        /\ quarantine[review[v].key] = review[v].seen /\ review[v].seen # NoReview
        /\ \A u \in Reviewers : review[u].key = review[v].key => u = v

Converged == \A p \in Posts :
    LET rows == {CanonicalRow(r, p) : r \in {r \in stored : p \in PostsOf(r)}}
    IN  \/ rows = {} /\ post[p] = NoRow
        \/ post[p] \in rows /\ \A o \in rows : ~Refreshes(o, post[p])

Inv == Shape /\ InOrder /\ OneWriter /\ Scanning /\ Merging /\ Reviewing

-----------------------------------------------------------------------------
(* Orders *)

LEMMA MinOfNat ==
    ASSUME NEW S \in SUBSET Nat, S # {}
    PROVE  Min(S) \in S /\ \A x \in S : Min(S) <= x
<1>1. PICK least \in S : \A n \in S : <<n, least>> \notin OpToRel(<, Nat)
  BY NatLessThanWellFounded, WFMin
<1>2. \A n \in S : ~(n < least)
  BY <1>1 DEF OpToRel
<1>3. \A n \in S : least <= n
  BY <1>2
<1> QED
  BY <1>3 DEF Min

ItemType == [post : Posts, title : Titles, views : Nat, published : Nat]

LEMMA OutranksIsStrict ==
    ASSUME NEW a \in ItemType, NEW b \in ItemType
    PROVE  ~(Outranks(a, b) /\ Outranks(b, a)) /\ ~Outranks(a, a)
<1>1. \A x \in {a, b} : x.published \in Nat /\ x.title \in Nat
  BY TitlesAssumption DEF ItemType
<1> QED
  BY <1>1 DEF Outranks

LEMMA OutranksIsTransitive ==
    ASSUME NEW a \in ItemType, NEW b \in ItemType, NEW c \in ItemType, Outranks(a, b), Outranks(b, c)
    PROVE  Outranks(a, c)
<1>1. \A x \in {a, b, c} : x.published \in Nat /\ x.title \in Nat
  BY TitlesAssumption DEF ItemType
<1> QED
  BY <1>1 DEF Outranks

\* Of finitely many sightings one is not outranked.
LEMMA TopExists ==
    ASSUME NEW S \in SUBSET ItemType, IsFiniteSet(S), S # {}
    PROVE  \E i \in S : \A j \in S : ~Outranks(j, i)
<1> DEFINE above(i) == {j \in S : Outranks(j, i)}
           sizes == {Cardinality(above(i)) : i \in S}
<1>1. \A i \in S : IsFiniteSet(above(i)) /\ Cardinality(above(i)) \in Nat
  <2> TAKE i \in S
  <2>1. above(i) \in SUBSET S
    OBVIOUS
  <2> QED
    BY <2>1, FS_Subset, FS_CardinalityType
<1>2. sizes \in SUBSET Nat /\ sizes # {}
  BY <1>1
<1>3. PICK i \in S : \A j \in S : Cardinality(above(i)) <= Cardinality(above(j))
  <2>1. Min(sizes) \in sizes /\ \A n \in sizes : Min(sizes) <= n
    <3> HIDE DEF sizes
    <3> QED
      BY <1>2, MinOfNat
  <2> QED
    BY <2>1
<1>4. ASSUME NEW j \in S, Outranks(j, i) PROVE FALSE
  <2>1. above(j) \in SUBSET above(i)
    BY <1>4, OutranksIsTransitive
  <2>2. j \in above(i) /\ j \notin above(j)
    BY <1>4, OutranksIsStrict
  <2>3. Cardinality(above(j)) < Cardinality(above(i))
    <3> HIDE DEF above
    <3> QED
      BY <1>1, <2>1, <2>2, FS_Subset
  <2> QED
    BY <1>1, <1>3, <2>3
<1> QED
  BY <1>4

\* The greatest of a set of numbers is what Max returns, and a finite one has it.
LEMMA MaxIs ==
    ASSUME NEW S \in SUBSET Nat, NEW m \in S, \A x \in S : x <= m
    PROVE  Max(S) = m
<1>1. \A n \in S : (\A x \in S : n >= x) => n = m
  OBVIOUS
<1>2. \A x \in S : m >= x
  OBVIOUS
<1> QED
  BY <1>1, <1>2 DEF Max

LEMMA MaxOfFinite ==
    ASSUME NEW S \in SUBSET Nat, IsFiniteSet(S), S # {}
    PROVE  Max(S) \in S /\ \A x \in S : x <= Max(S)
<1> DEFINE above(i) == {j \in S : j > i}
           sizes == {Cardinality(above(i)) : i \in S}
<1>1. \A i \in S : IsFiniteSet(above(i)) /\ Cardinality(above(i)) \in Nat
  <2> TAKE i \in S
  <2>1. above(i) \in SUBSET S
    OBVIOUS
  <2> QED
    BY <2>1, FS_Subset, FS_CardinalityType
<1>2. sizes \in SUBSET Nat /\ sizes # {}
  BY <1>1
<1>3. PICK i \in S : \A j \in S : Cardinality(above(i)) <= Cardinality(above(j))
  <2>1. Min(sizes) \in sizes /\ \A n \in sizes : Min(sizes) <= n
    <3> HIDE DEF sizes
    <3> QED
      BY <1>2, MinOfNat
  <2> QED
    BY <2>1
<1>4. ASSUME NEW j \in S, j > i PROVE FALSE
  <2>1. above(j) \in SUBSET above(i) /\ j \in above(i) /\ j \notin above(j)
    <3>1. j \in Nat /\ i \in Nat /\ j > i
      BY <1>4
    <3>2. \A x \in S : x > j => x > i
      BY <3>1
    <3>3. ~(j > j)
      BY <3>1
    <3> QED
      BY <1>4, <3>2, <3>3
  <2>2. Cardinality(above(j)) < Cardinality(above(i))
    <3> HIDE DEF above
    <3> QED
      BY <1>1, <2>1, FS_Subset
  <2> QED
    BY <1>1, <1>3, <2>2
<1>5. \A j \in S : j <= i
  BY <1>4
<1> QED
  BY <1>5, MaxIs

LEMMA MaxOfTwo ==
    ASSUME NEW a \in Nat, NEW b \in Nat
    PROVE  Max({a, b}) = IF a <= b THEN b ELSE a
<1>1. CASE a <= b
  BY <1>1, MaxIs
<1>2. CASE ~(a <= b)
  <2>1. \A x \in {a, b} : x <= a
    BY <1>2
  <2> QED
    BY <1>2, <2>1, MaxIs
<1> QED
  BY <1>1, <1>2

LEMMA RefreshesIsOrder ==
    ASSUME NEW a \in RowType, NEW b \in RowType, NEW c \in RowType
    PROVE  /\ ~(Refreshes(a, b) /\ Refreshes(b, a))
           /\ Refreshes(a, b) /\ Refreshes(b, c) => Refreshes(a, c)
           /\ ~Refreshes(a, b) /\ Refreshes(c, b) => ~Refreshes(a, c)
<1>1. \A x \in {a, b, c} : x.seen \in Nat /\ x.published \in Nat /\ x.title \in Nat
  BY TitlesAssumption DEF RowType
<1>2. ~(Refreshes(a, b) /\ Refreshes(b, a))
  BY <1>1 DEF Refreshes, Outranks
<1>3. Refreshes(a, b) /\ Refreshes(b, c) => Refreshes(a, c)
  BY <1>1 DEF Refreshes, Outranks
<1>4. ~Refreshes(a, b) /\ Refreshes(c, b) => ~Refreshes(a, c)
  BY <1>1 DEF Refreshes, Outranks
<1> QED
  BY <1>2, <1>3, <1>4

-----------------------------------------------------------------------------
(* Batches *)

LEMMA BatchIsRead ==
    ASSUME NEW r \in Ids, Usable(Reads[r])
    PROVE  /\ Batch(r) = Items(Reads[r])
           /\ Batch(r) \subseteq ItemType /\ IsFiniteSet(Batch(r))
           /\ PostsOf(r) \subseteq Posts /\ TitlesOf(r) \subseteq Titled
<1>1. Batch(r) = Items(Reads[r])
  <2>1. ASSUME NEW i \in Items(Reads[r]) PROVE i \in Batch(r)
    <3> DEFINE o == [read |-> r, item |-> i]
    <3>1. o \in Observations /\ o.read = r /\ o.item = i
      BY DEF Observations
    <3> QED
      BY <3>1 DEF Batch
  <2>2. ASSUME NEW i \in Batch(r) PROVE i \in Items(Reads[r])
    BY DEF Batch, Observations
  <2> QED
    BY <2>1, <2>2
<1>2. Batch(r) \subseteq ItemType /\ IsFiniteSet(Batch(r))
  BY <1>1, ReadsAssumption DEF Ids, ItemType
<1> QED
  BY <1>1, <1>2 DEF PostsOf, TitlesOf, Titled, ItemType

LEMMA RowTyped ==
    ASSUME NEW r \in Ids, Usable(Reads[r]), NEW p \in PostsOf(r)
    PROVE  CanonicalRow(r, p) \in RowType /\ CanonicalRow(r, p) # NoRow
<1> DEFINE same == ItemsOf(r, p)
           top == CHOOSE i \in same : \A j \in same : ~Outranks(j, i)
<1>1. same \in SUBSET ItemType /\ IsFiniteSet(same) /\ same # {}
  <2>1. same \subseteq Batch(r) /\ same # {}
    BY DEF ItemsOf, PostsOf
  <2> QED
    BY <2>1, BatchIsRead, FS_Subset
<1>2. top \in same
  <2> HIDE DEF same
  <2> QED
    BY <1>1, TopExists
<1>3. top \in ItemType
  BY <1>1, <1>2
<1>4. Canonical(same).title = top.title /\ Canonical(same).published = top.published
  <2> DEFINE views == Max({i.views : i \in same})
  <2>1. Canonical(same) = [top EXCEPT !.views = views]
    BY Zenon DEF Canonical
  <2> HIDE DEF same, top, views
  <2> QED
    BY <1>3, <2>1 DEF ItemType
<1>5. CanonicalRow(r, p) = [title |-> top.title, published |-> top.published, seen |-> Reads[r].observed]
  BY <1>4 DEF CanonicalRow
<1>6. Reads[r].observed \in Nat
  BY ReadsAssumption DEF Ids
<1> HIDE DEF top
<1> QED
  BY <1>3, <1>5, <1>6, TitlesAssumption DEF RowType, NoRow, ItemType

-----------------------------------------------------------------------------
(* The steps of one transaction, apart from what the others do *)

LEMMA NoWorkTyped == NoWork \in Works({NoSnap})
BY DEF NoWork, Works, Steps

LEMMA CurrentIsNext ==
    ASSUME NEW w, w.todo \subseteq Posts, w.todo # {}
    PROVE  Current(w) \in w.todo /\ \A p \in w.todo : Current(w) <= p
BY MinOfNat, PostsAssumption DEF Current

LEMMA AtNextPostIs ==
    ASSUME NEW S, NEW w \in Works(S)
    PROVE  /\ AtNextPost(w) \in Works(S)
           /\ \A f \in {"read", "todo", "newBoard", "titles", "posts", "snaps"} : AtNextPost(w)[f] = w[f]
           /\ AtNextPost(w).step = IF w.todo = {} THEN "done"
                                   ELSE IF HostileTitles(w.read, Current(w)) # {} THEN "titles" ELSE "post"
BY DEF AtNextPost, Works, Steps

\* A transaction that has dealt with its posts up to the next one.
LEMMA NextPostInOrder ==
    ASSUME NEW S, NEW w \in Works(S),
           w.read \in Ids, Usable(Reads[w.read]), w.todo \subseteq PostsOf(w.read),
           \A p \in PostsOf(w.read) \ w.todo : \A t \in w.todo : p < t,
           \A q \in w.titles : Passed(w, q[1]),
           \A p \in Posts : w.posts[p] # NoRow => Passed(w, p),
           \A p \in Posts : w.snaps[p] # NoSnap => Passed(w, p),
           \A q \in w.titles : quarantine[q] = NoReview,
           \A q \in TitlesOf(w.read) :
                q[2] \in Hostile /\ Passed(w, q[1]) => q \in w.titles \/ quarantine[q] # NoReview,
           \A p \in Posts : Passed(w, p) =>
                LET row == CanonicalRow(w.read, p)
                IN  \/ w.posts[p] = row /\ (post[p] = NoRow \/ Refreshes(row, post[p]))
                    \/ w.posts[p] = NoRow /\ post[p] # NoRow /\ ~Refreshes(row, post[p])
    PROVE  InOrderOf(AtNextPost(w)) /\ ScanningOf(AtNextPost(w)) /\ MergingOf(AtNextPost(w))
<1> DEFINE n == AtNextPost(w)
<1>1. /\ n.read = w.read /\ n.todo = w.todo /\ n.titles = w.titles /\ n.posts = w.posts /\ n.snaps = w.snaps
      /\ n.step = IF w.todo = {} THEN "done"
                  ELSE IF HostileTitles(w.read, Current(w)) # {} THEN "titles" ELSE "post"
      /\ Current(n) = Current(w)
  BY AtNextPostIs DEF Current
<1> HIDE DEF n
<1>2. \A p : Passed(n, p) <=> Passed(w, p)
  BY <1>1 DEF Passed
<1>3. \A p : DidPost(n, p) <=> Passed(w, p)
  BY <1>1, <1>2 DEF DidPost
<1>4. ASSUME NEW q \in TitlesOf(w.read), q[2] \in Hostile, DidTitles(n, q[1]) PROVE Passed(w, q[1])
  BY <1>1, <1>2, <1>4 DEF DidTitles, HostileTitles
<1>5. InOrderOf(n)
  BY <1>1, <1>2, <1>3 DEF InOrderOf, DidTitles
<1>6. ScanningOf(n)
  BY <1>1, <1>4 DEF ScanningOf, DidTitles
<1>7. MergingOf(n)
  BY <1>1, <1>3 DEF MergingOf, DidPost
<1> QED
  BY <1>5, <1>6, <1>7 DEF n

LEMMA WorksGrow ==
    ASSUME NEW S, NEW T, S \subseteq T
    PROVE  Works(S) \subseteq Works(T)
<1> SUFFICES ASSUME NEW w \in Works(S) PROVE w \in Works(T)
  OBVIOUS
<1> QED
  BY DEF Works

\* One collector moves and commits nothing: the others are not affected.
LEMMA OneMoves ==
    ASSUME Inv, NEW c \in Collectors, NEW S, NEW x \in Works(S),
           work \in [Collectors -> Works(S)], work' = [work EXCEPT ![c] = x],
           UNCHANGED <<post, quarantine, review, stored>>,
           x = NoWork \/ (InOrderOf(x) /\ ScanningOf(x) /\ MergingOf(x)),
           \A d \in Collectors \ {c} : /\ x.titles \cap work[d].titles = {}
                                       /\ \A p \in Posts : x.posts[p] = NoRow \/ work[d].posts[p] = NoRow
    PROVE  Inv'
<1> USE DEF Inv
<1>1. work'[c] = x /\ \A d \in Collectors \ {c} : work'[d] = work[d]
  OBVIOUS
<1>2. Shape'
  BY DEF Shape
<1>3. InOrder'
  BY <1>1 DEF InOrder, InOrderOf
<1>4. OneWriter'
  BY <1>1 DEF OneWriter
<1>5. Scanning'
  BY <1>1 DEF Scanning, ScanningOf
<1>6. Merging'
  BY <1>1 DEF Merging, MergingOf
<1>7. Reviewing'
  BY DEF Reviewing
<1> QED
  BY <1>2, <1>3, <1>4, <1>5, <1>6, <1>7

\* A transaction that ends without commit.
LEMMA RollbackInv ==
    ASSUME Inv, NEW c \in Collectors, work' = [work EXCEPT ![c] = NoWork],
           UNCHANGED <<post, quarantine, review, stored>>
    PROVE  Inv'
<1>1. PICK S : work \in [Collectors -> Works(S)]
  BY DEF Inv, Shape
<1>2. NoWork \in Works(S \cup {NoSnap}) /\ work \in [Collectors -> Works(S \cup {NoSnap})]
  BY <1>1, NoWorkTyped, WorksGrow
<1>3. NoWork.titles = {} /\ \A p \in Posts : NoWork.posts[p] = NoRow
  BY DEF NoWork
<1> QED
  BY <1>2, <1>3, OneMoves

LEMMA BeginInv == ASSUME Inv, NEW c \in Collectors, NEW r \in Ids, Begin(c, r) PROVE Inv'
<1> DEFINE w == [NoWork EXCEPT !.read = r, !.todo = PostsOf(r), !.newBoard = ~board]
<1>1. PICK S : work \in [Collectors -> Works(S)]
  BY DEF Inv, Shape
<1> DEFINE T == S \cup {NoSnap}
<1>2. Usable(Reads[r]) /\ work' = [work EXCEPT ![c] = AtNextPost(w)] /\ UNCHANGED <<post, quarantine, review, stored>>
  BY DEF Begin
<1>3. /\ w \in Works(T) /\ w.read = r /\ w.todo = PostsOf(r) /\ w.titles = {}
      /\ \A p \in Posts : w.posts[p] = NoRow /\ w.snaps[p] = NoSnap
      /\ w.step = "idle"
  <2>1. PostsOf(r) \subseteq Posts
    BY <1>2, BatchIsRead
  <2> QED
    BY <2>1 DEF NoWork, Works, Steps
<1>4. work \in [Collectors -> Works(T)]
  BY <1>1, WorksGrow
<1> HIDE DEF w, T
<1>5. \A p : ~Passed(w, p) /\ ~DidPost(w, p) /\ ~DidTitles(w, p)
  BY <1>3 DEF Passed, DidPost, DidTitles
<1>7. InOrderOf(AtNextPost(w)) /\ ScanningOf(AtNextPost(w)) /\ MergingOf(AtNextPost(w))
  BY <1>2, <1>3, <1>5, NextPostInOrder
<1>8. AtNextPost(w) \in Works(T) /\ AtNextPost(w).titles = {} /\ \A p \in Posts : AtNextPost(w).posts[p] = NoRow
  BY <1>3, AtNextPostIs
<1> QED
  BY <1>2, <1>4, <1>7, <1>8, OneMoves

LEMMA DieInv == ASSUME Inv, NEW c \in Collectors, Die(c) PROVE Inv'
BY RollbackInv DEF Die, tables

\* What is true of a collector in the middle of its posts.
LEMMA AtWork ==
    ASSUME Inv, NEW c \in Collectors, work[c].step \in {"titles", "post", "snapshot"}
    PROVE  /\ work[c] # NoWork /\ InOrderOf(work[c]) /\ ScanningOf(work[c]) /\ MergingOf(work[c])
           /\ work[c].todo # {} /\ work[c].todo \subseteq Posts
           /\ Current(work[c]) \in work[c].todo /\ Current(work[c]) \in Posts
           /\ \A p \in work[c].todo : Current(work[c]) <= p
<1>1. work[c] # NoWork
  BY DEF NoWork
<1>2. InOrderOf(work[c]) /\ ScanningOf(work[c]) /\ MergingOf(work[c])
  BY <1>1 DEF Inv, InOrder, Scanning, Merging
<1>3. work[c].todo # {} /\ work[c].todo \subseteq Posts
  BY <1>2, BatchIsRead DEF InOrderOf
<1> QED
  BY <1>1, <1>2, <1>3, CurrentIsNext

LEMMA StoreTitlesInv == ASSUME Inv, NEW c \in Collectors, StoreTitles(c) PROVE Inv'
<1> DEFINE w == work[c]
           new == {q \in HostileTitles(w.read, Current(w)) : quarantine[q] = NoReview}
           x == [w EXCEPT !.titles = @ \cup new, !.step = "post"]
<1>1. PICK S : work \in [Collectors -> Works(S)]
  BY DEF Inv, Shape
<1>2. w.step = "titles" /\ WaitsFor(c) = {} /\ UNCHANGED <<post, quarantine, review, stored>>
  BY DEF StoreTitles, tables
<1>3. work' = [work EXCEPT ![c] = x]
  BY <1>1 DEF StoreTitles, Works
<1>4. w # NoWork /\ InOrderOf(w) /\ ScanningOf(w) /\ MergingOf(w) /\ Current(w) \in w.todo /\ Current(w) \in Posts
  BY <1>2, AtWork
<1>5. new \subseteq TitlesOf(w.read) /\ TitlesOf(w.read) \subseteq Titled
      /\ \A q \in new : q[1] = Current(w) /\ quarantine[q] = NoReview
  BY <1>4, BatchIsRead DEF HostileTitles, InOrderOf
<1>6. \A d \in Collectors \ {c} : new \cap work[d].titles = {}
  BY <1>2 DEF WaitsFor, TitleWriters, Others
<1>7. /\ x \in Works(S) /\ x.read = w.read /\ x.todo = w.todo /\ x.titles = w.titles \cup new
      /\ x.posts = w.posts /\ x.snaps = w.snaps /\ x.step = "post" /\ Current(x) = Current(w)
  BY <1>1, <1>5 DEF Works, Steps, Current
<1> HIDE DEF x
<1>8. \A p : (Passed(x, p) <=> Passed(w, p)) /\ (DidPost(x, p) <=> Passed(w, p))
      /\ (DidTitles(x, p) <=> Passed(w, p) \/ (p \in w.todo /\ p = Current(w)))
  BY <1>7 DEF Passed, DidPost, DidTitles
<1>9. \A p : (DidPost(w, p) <=> Passed(w, p)) /\ (DidTitles(w, p) <=> Passed(w, p))
  BY <1>2 DEF DidPost, DidTitles
<1> HIDE DEF w
<1>10. InOrderOf(x)
  BY <1>4, <1>5, <1>7, <1>8, <1>9 DEF InOrderOf
<1>11. ScanningOf(x)
  <2>1. \A q \in x.titles : quarantine[q] = NoReview
    BY <1>4, <1>5, <1>7 DEF ScanningOf
  <2>2. ASSUME NEW q \in TitlesOf(w.read), q[2] \in Hostile, DidTitles(x, q[1]), quarantine[q] = NoReview
        PROVE  q \in x.titles
    <3>1. CASE Passed(w, q[1])
      BY <1>4, <1>7, <1>9, <2>2, <3>1 DEF ScanningOf
    <3>2. CASE q[1] = Current(w)
      BY <1>7, <2>2, <3>2 DEF HostileTitles, new
    <3> QED
      BY <1>8, <2>2, <3>1, <3>2
  <2> QED
    BY <1>7, <2>1, <2>2 DEF ScanningOf
<1>12. MergingOf(x)
  BY <1>4, <1>7, <1>8, <1>9 DEF MergingOf
<1>13. \A d \in Collectors \ {c} : /\ x.titles \cap work[d].titles = {}
                                   /\ \A p \in Posts : x.posts[p] = NoRow \/ work[d].posts[p] = NoRow
  BY <1>6, <1>7 DEF Inv, OneWriter, w
<1> QED
  BY <1>1, <1>2, <1>3, <1>7, <1>10, <1>11, <1>12, <1>13, OneMoves

LEMMA StorePostInv == ASSUME Inv, NEW c \in Collectors, StorePost(c) PROVE Inv'
<1> DEFINE w == work[c]
           p == Current(w)
           row == CanonicalRow(w.read, p)
           writes == post[p] = NoRow \/ Refreshes(row, post[p])
           x == [w EXCEPT !.posts[p] = IF writes THEN row ELSE @, !.step = "snapshot"]
<1>1. PICK S : work \in [Collectors -> Works(S)]
  BY DEF Inv, Shape
<1>2. w.step = "post" /\ WaitsFor(c) = {} /\ UNCHANGED <<post, quarantine, review, stored>>
  BY DEF StorePost, tables
<1>3. work' = [work EXCEPT ![c] = x]
  BY <1>1 DEF StorePost, Works
<1>4. w # NoWork /\ InOrderOf(w) /\ ScanningOf(w) /\ MergingOf(w) /\ p \in w.todo /\ p \in Posts
  BY <1>2, AtWork
<1>5. row \in RowType /\ row # NoRow
  BY <1>4, RowTyped DEF InOrderOf
<1>6. writes => \A d \in Collectors \ {c} : work[d].posts[p] = NoRow
  BY <1>2 DEF WaitsFor, PostWriters, Others
<1>7. ~Passed(w, p) /\ ~DidPost(w, p) /\ w.posts[p] = NoRow
  BY <1>2, <1>4 DEF Passed, DidPost, InOrderOf
<1>8. /\ x \in Works(S) /\ x.read = w.read /\ x.todo = w.todo /\ x.titles = w.titles
      /\ x.posts[p] = (IF writes THEN row ELSE NoRow) /\ \A q \in Posts \ {p} : x.posts[q] = w.posts[q]
      /\ x.snaps = w.snaps /\ x.step = "snapshot" /\ Current(x) = p
  <2> HIDE DEF row, writes
  <2> QED
    BY <1>1, <1>4, <1>5, <1>7 DEF Works, Steps, Current
<1> HIDE DEF x
<1>9. \A q : /\ Passed(x, q) <=> Passed(w, q)
             /\ DidPost(x, q) <=> Passed(w, q) \/ q = p
             /\ DidTitles(x, q) <=> Passed(w, q) \/ q = p
  BY <1>4, <1>8 DEF Passed, DidPost, DidTitles
<1>10. \A q : (DidPost(w, q) <=> Passed(w, q)) /\ (DidTitles(w, q) <=> Passed(w, q) \/ q = p)
  BY <1>2, <1>4 DEF DidPost, DidTitles
<1> HIDE DEF w, p, row
<1>11. InOrderOf(x)
  BY <1>4, <1>8, <1>9, <1>10 DEF InOrderOf
<1>12. ScanningOf(x)
  BY <1>4, <1>8, <1>9, <1>10 DEF ScanningOf
<1>13. MergingOf(x)
  <2> SUFFICES ASSUME NEW q \in Posts, DidPost(x, q)
               PROVE  LET r == CanonicalRow(w.read, q)
                      IN  \/ x.posts[q] = r /\ (post[q] = NoRow \/ Refreshes(r, post[q]))
                          \/ x.posts[q] = NoRow /\ post[q] # NoRow /\ ~Refreshes(r, post[q])
    BY <1>8 DEF MergingOf
  <2>1. CASE q = p
    BY <1>8, <2>1 DEF row
  <2>2. CASE q # p
    BY <1>4, <1>8, <1>9, <1>10, <2>2 DEF MergingOf
  <2> QED
    BY <2>1, <2>2
<1>14. \A d \in Collectors \ {c} : /\ x.titles \cap work[d].titles = {}
                                   /\ \A q \in Posts : x.posts[q] = NoRow \/ work[d].posts[q] = NoRow
  BY <1>6, <1>8 DEF Inv, OneWriter, w
<1> QED
  BY <1>1, <1>2, <1>3, <1>8, <1>11, <1>12, <1>13, <1>14, OneMoves

LEMMA StoreSnapshotInv == ASSUME Inv, NEW c \in Collectors, StoreSnapshot(c) PROVE Inv'
<1> DEFINE w == work[c]
           p == Current(w)
           old == snap[p, Slot[w.read]]
           new == [views |-> Canonical(ItemsOf(w.read, p)).views, seen |-> Reads[w.read].observed,
                   config |-> Reads[w.read].config]
           value == IF old = NoSnap THEN new ELSE MergedSnapshot(old, new)
           x == [w EXCEPT !.snaps[p] = value, !.todo = @ \ {p}]
<1>1. PICK S : work \in [Collectors -> Works(S)]
  BY DEF Inv, Shape
<1>2. w.step = "snapshot" /\ UNCHANGED <<post, quarantine, review, stored>>
  BY DEF StoreSnapshot, tables
<1>3. work' = [work EXCEPT ![c] = AtNextPost(x)] \/ work' = [work EXCEPT ![c] = NoWork]
  BY DEF StoreSnapshot
<1>4. CASE work' = [work EXCEPT ![c] = NoWork]
  BY <1>2, <1>4, RollbackInv
<1>5. CASE work' = [work EXCEPT ![c] = AtNextPost(x)]
  <2> DEFINE T == S \cup {value}
  <2>1. /\ w # NoWork /\ InOrderOf(w) /\ ScanningOf(w) /\ MergingOf(w)
        /\ p \in w.todo /\ p \in Posts /\ w.todo \subseteq Posts /\ \A t \in w.todo : p <= t
    BY <1>2, AtWork
  <2>2. work \in [Collectors -> Works(T)]
    <3> HIDE DEF value
    <3> QED
      BY <1>1, WorksGrow
  <2>3. /\ x \in Works(T) /\ x.read = w.read /\ x.todo = w.todo \ {p} /\ x.titles = w.titles
        /\ x.posts = w.posts /\ \A q \in Posts \ {p} : x.snaps[q] = w.snaps[q]
        /\ x.step = "snapshot"
    <3> HIDE DEF value
    <3>1. w \in Works(T) /\ value \in T
      BY <2>2
    <3> HIDE DEF T
    <3> QED
      BY <1>2, <2>1, <3>1 DEF Works, Steps
  <2> HIDE DEF x, value, T
  <2>4. \A q : (Passed(x, q) <=> Passed(w, q) \/ q = p)
    BY <2>1, <2>3 DEF Passed, InOrderOf
  <2>5. \A q : (DidPost(w, q) <=> Passed(x, q)) /\ (DidTitles(w, q) <=> Passed(x, q))
    BY <1>2, <2>1, <2>4 DEF DidPost, DidTitles
  <2>6. \A q : DidPost(x, q) \/ DidTitles(x, q) => Passed(x, q) \/ (q \in x.todo /\ q = Current(x))
    BY DEF DidPost, DidTitles
  <2> HIDE DEF w, p
  <2>7. x.read \in Ids /\ Usable(Reads[x.read]) /\ x.todo \subseteq PostsOf(x.read)
    BY <2>1, <2>3 DEF InOrderOf
  <2>8. \A q \in PostsOf(x.read) \ x.todo : \A t \in x.todo : q < t
    <3> SUFFICES ASSUME NEW q \in PostsOf(w.read) \ (w.todo \ {p}), NEW t \in w.todo \ {p} PROVE q < t
      BY <2>3
    <3>1. CASE q = p
      <4>1. p \in Nat /\ t \in Nat /\ p <= t /\ t # p
        BY <2>1, PostsAssumption
      <4> QED
        BY <3>1, <4>1
    <3>2. CASE q # p
      BY <2>1, <3>2 DEF InOrderOf
    <3> QED
      BY <3>1, <3>2
  <2>9. /\ \A q \in x.titles : Passed(x, q[1])
        /\ \A q \in Posts : x.posts[q] # NoRow => Passed(x, q)
        /\ \A q \in Posts : x.snaps[q] # NoSnap => Passed(x, q)
    BY <2>1, <2>3, <2>4, <2>5 DEF InOrderOf
  <2>10. /\ \A q \in x.titles : quarantine[q] = NoReview
         /\ \A q \in TitlesOf(x.read) :
                q[2] \in Hostile /\ Passed(x, q[1]) => q \in x.titles \/ quarantine[q] # NoReview
    BY <2>1, <2>3, <2>5 DEF ScanningOf
  <2>11. \A q \in Posts : Passed(x, q) =>
            LET row == CanonicalRow(x.read, q)
            IN  \/ x.posts[q] = row /\ (post[q] = NoRow \/ Refreshes(row, post[q]))
                \/ x.posts[q] = NoRow /\ post[q] # NoRow /\ ~Refreshes(row, post[q])
    BY <2>1, <2>3, <2>5 DEF MergingOf
  <2>12. InOrderOf(AtNextPost(x)) /\ ScanningOf(AtNextPost(x)) /\ MergingOf(AtNextPost(x))
    BY <2>3, <2>7, <2>8, <2>9, <2>10, <2>11, NextPostInOrder
  <2>13. AtNextPost(x) \in Works(T) /\ AtNextPost(x).titles = x.titles /\ AtNextPost(x).posts = x.posts
    BY <2>3, AtNextPostIs
  <2>14. \A d \in Collectors \ {c} :
            /\ AtNextPost(x).titles \cap work[d].titles = {}
            /\ \A q \in Posts : AtNextPost(x).posts[q] = NoRow \/ work[d].posts[q] = NoRow
    BY <2>3, <2>13 DEF Inv, OneWriter, w
  <2> QED
    BY <1>2, <1>5, <2>2, <2>12, <2>13, <2>14, OneMoves
<1> QED
  BY <1>3, <1>4, <1>5

LEMMA DidPostIsOfRead ==
    ASSUME NEW w, InOrderOf(w), NEW p, DidPost(w, p)
    PROVE  p \in PostsOf(w.read) /\ CanonicalRow(w.read, p) \in RowType /\ CanonicalRow(w.read, p) # NoRow
<1>1. p \in PostsOf(w.read)
  BY DEF DidPost, Passed, InOrderOf
<1> QED
  BY <1>1, RowTyped DEF InOrderOf

\* What a commit makes of the tables.
LEMMA CommitDoes ==
    ASSUME Inv, NEW c \in Collectors, Commit(c)
    PROVE  LET w == work[c]
           IN  /\ w # NoWork /\ InOrderOf(w) /\ ScanningOf(w) /\ MergingOf(w)
               /\ \A p : Passed(w, p) <=> p \in PostsOf(w.read)
               /\ \A p : DidPost(w, p) <=> p \in PostsOf(w.read)
               /\ \A p : DidTitles(w, p) <=> p \in PostsOf(w.read)
               /\ \A p \in Posts : post'[p] = IF w.posts[p] # NoRow THEN w.posts[p] ELSE post[p]
               /\ \A q \in Titled : quarantine'[q] = IF q \in w.titles THEN Pending ELSE quarantine[q]
               /\ stored' = stored \cup {w.read} /\ work' = [work EXCEPT ![c] = NoWork] /\ review' = review
<1> DEFINE w == work[c]
<1>1. w.step = "done" /\ w # NoWork
  BY DEF Commit, NoWork
<1>2. InOrderOf(w) /\ ScanningOf(w) /\ MergingOf(w)
  BY <1>1 DEF Inv, InOrder, Scanning, Merging
<1>3. w.todo = {}
  BY <1>1, <1>2 DEF InOrderOf
<1>4. \A p : /\ Passed(w, p) <=> p \in PostsOf(w.read)
             /\ DidPost(w, p) <=> p \in PostsOf(w.read)
             /\ DidTitles(w, p) <=> p \in PostsOf(w.read)
  BY <1>3 DEF Passed, DidPost, DidTitles
<1>5. /\ \A p \in Posts : post'[p] = IF w.posts[p] # NoRow THEN w.posts[p] ELSE post[p]
      /\ \A q \in Titled : quarantine'[q] = IF q \in w.titles THEN Pending ELSE quarantine[q]
      /\ stored' = stored \cup {w.read} /\ work' = [work EXCEPT ![c] = NoWork] /\ review' = review
  BY DEF Commit
<1> QED
  BY <1>1, <1>2, <1>4, <1>5

LEMMA CommitInv == ASSUME Inv, NEW c \in Collectors, Commit(c) PROVE Inv'
<1> DEFINE w == work[c]
<1>1. /\ w # NoWork /\ InOrderOf(w) /\ ScanningOf(w) /\ MergingOf(w)
      /\ \A p : DidPost(w, p) <=> p \in PostsOf(w.read)
      /\ \A p \in Posts : post'[p] = IF w.posts[p] # NoRow THEN w.posts[p] ELSE post[p]
      /\ \A q \in Titled : quarantine'[q] = IF q \in w.titles THEN Pending ELSE quarantine[q]
      /\ stored' = stored \cup {w.read} /\ work' = [work EXCEPT ![c] = NoWork] /\ review' = review
  BY CommitDoes
<1>2. PICK S : work \in [Collectors -> Works(S)]
  BY DEF Inv, Shape
<1>3. work' \in [Collectors -> Works(S \cup {NoSnap})]
  BY <1>1, <1>2, NoWorkTyped, WorksGrow
<1>4. Shape'
  <2>1. w.posts \in [Posts -> RowType \cup {NoRow}]
    BY <1>2 DEF Works
  <2>2. post' \in [Posts -> RowType \cup {NoRow}]
    BY <1>1, <2>1 DEF Commit, Inv, Shape
  <2>3. quarantine' \in [Titled -> ReviewType]
    BY DEF Commit, Inv, Shape, ReviewType
  <2>4. stored' \subseteq {r \in Ids : Usable(Reads[r])}
    BY <1>1 DEF Inv, Shape, InOrderOf
  <2> QED
    BY <1>1, <1>3, <2>2, <2>3, <2>4 DEF Inv, Shape
<1>5. work'[c] = NoWork /\ \A d \in Collectors \ {c} : work'[d] = work[d]
  BY <1>1, <1>2
<1>6. InOrder'
  BY <1>5 DEF Inv, InOrder, InOrderOf
<1>7. OneWriter'
  BY <1>5 DEF Inv, OneWriter, NoWork
<1>8. Scanning'
  <2> SUFFICES ASSUME NEW d \in Collectors, d # c, work[d] # NoWork PROVE ScanningOf(work[d])'
    BY <1>5 DEF Scanning
  <2> DEFINE v == work[d]
  <2>1. ScanningOf(v) /\ v.titles \cap w.titles = {} /\ v.titles \subseteq Titled /\ InOrderOf(v)
    BY <1>2 DEF Inv, Scanning, OneWriter, Works, InOrder
  <2>2. TitlesOf(v.read) \subseteq Titled
    BY <2>1, BatchIsRead DEF InOrderOf
  <2>3. \A q \in Titled : quarantine[q] # NoReview => quarantine'[q] # NoReview
    BY <1>1 DEF Pending, NoReview
  <2>4. \A q \in v.titles : quarantine'[q] = NoReview
    BY <1>1, <2>1 DEF ScanningOf
  <2>5. \A q \in TitlesOf(v.read) :
            q[2] \in Hostile /\ DidTitles(v, q[1]) => q \in v.titles \/ quarantine'[q] # NoReview
    BY <2>1, <2>2, <2>3 DEF ScanningOf
  <2>6. work'[d] = v
    BY <1>5
  <2> HIDE DEF v
  <2> QED
    BY <2>4, <2>5, <2>6 DEF ScanningOf
<1>9. Merging'
  <2> SUFFICES ASSUME NEW d \in Collectors, d # c, work[d] # NoWork PROVE MergingOf(work[d])'
    BY <1>5 DEF Merging
  <2> DEFINE v == work[d]
  <2>1. MergingOf(v) /\ InOrderOf(v)
    BY DEF Inv, Merging, InOrder
  <2>2. ASSUME NEW p \in Posts, DidPost(v, p)
        PROVE  LET row == CanonicalRow(v.read, p)
               IN  \/ v.posts[p] = row /\ (post'[p] = NoRow \/ Refreshes(row, post'[p]))
                   \/ v.posts[p] = NoRow /\ post'[p] # NoRow /\ ~Refreshes(row, post'[p])
    <3>1. CASE w.posts[p] = NoRow
      BY <1>1, <2>1, <2>2, <3>1 DEF MergingOf
    <3>2. CASE w.posts[p] # NoRow
      <4> DEFINE row == CanonicalRow(v.read, p)
                 new == CanonicalRow(w.read, p)
      <4>1. v.posts[p] = NoRow
        BY <3>2 DEF Inv, OneWriter
      <4>2. row \in RowType /\ row # NoRow
        BY <2>1, <2>2, DidPostIsOfRead
      <4>3. post[p] # NoRow /\ ~Refreshes(row, post[p]) /\ post[p] \in RowType
        BY <2>1, <2>2, <4>1, <4>2 DEF MergingOf, Inv, Shape
      <4>4. DidPost(w, p)
        BY <1>1, <3>2 DEF InOrderOf
      <4>5. new \in RowType /\ new # NoRow
        BY <1>1, <4>4, DidPostIsOfRead
      <4>6. w.posts[p] = new /\ Refreshes(new, post[p])
        BY <1>1, <3>2, <4>3, <4>4 DEF MergingOf
      <4>7. post'[p] = new
        BY <1>1, <3>2, <4>6
      <4> HIDE DEF row, new
      <4>8. ~Refreshes(row, new)
        BY <4>2, <4>3, <4>5, <4>6, RefreshesIsOrder
      <4> QED
        BY <4>1, <4>5, <4>7, <4>8 DEF row
    <3> QED
      BY <3>1, <3>2
  <2>3. work'[d] = v
    BY <1>5
  <2> HIDE DEF v
  <2> QED
    BY <2>2, <2>3 DEF MergingOf
<1>10. Reviewing'
  <2> SUFFICES ASSUME NEW v \in Reviewers, review[v] # NoHold
               PROVE  quarantine'[review[v].key] = quarantine[review[v].key]
    BY <1>1 DEF Inv, Reviewing
  <2>1. review[v].key \in Titled /\ quarantine[review[v].key] # NoReview
    BY DEF Inv, Reviewing, Shape
  <2> QED
    BY <1>1, <2>1 DEF ScanningOf
<1> QED
  BY <1>4, <1>6, <1>7, <1>8, <1>9, <1>10 DEF Inv

-----------------------------------------------------------------------------
(* Reviews *)

\* A verdict on a row that is on file, given under its lock.
LEMMA VerdictInv ==
    ASSUME Inv, NEW q \in Titled, quarantine[q] # NoReview, NEW verdict \in ReviewType, verdict # NoReview,
           quarantine' = [quarantine EXCEPT ![q] = verdict],
           UNCHANGED <<post, stored, work>>,
           review' \in [Reviewers -> [key : Titled, seen : ReviewType] \cup {NoHold}],
           \A v \in Reviewers : review'[v] = NoHold \/ (review'[v] = review[v] /\ review[v].key # q)
    PROVE  Inv'
<1> USE DEF Inv
<1>1. quarantine \in [Titled -> ReviewType]
  BY DEF Shape
<1>2. Shape' /\ InOrder' /\ OneWriter' /\ Merging'
  BY <1>1 DEF Shape, InOrder, InOrderOf, OneWriter, Merging, MergingOf
<1>3. \A p \in Titled : quarantine'[p] = NoReview <=> quarantine[p] = NoReview
  BY <1>1
<1>4. Scanning'
  <2> SUFFICES ASSUME NEW d \in Collectors, work[d] # NoWork PROVE ScanningOf(work[d])'
    BY DEF Scanning
  <2>1. ScanningOf(work[d]) /\ InOrderOf(work[d]) /\ work[d].titles \subseteq Titled
    BY DEF Scanning, InOrder, Shape, Works
  <2>2. TitlesOf(work[d].read) \subseteq Titled
    BY <2>1, BatchIsRead DEF InOrderOf
  <2> QED
    BY <1>3, <2>1, <2>2 DEF ScanningOf
<1>5. Reviewing'
  <2> SUFFICES ASSUME NEW v \in Reviewers, review'[v] # NoHold
               PROVE  /\ quarantine'[review'[v].key] = review'[v].seen /\ review'[v].seen # NoReview
                      /\ \A u \in Reviewers : review'[u].key = review'[v].key => u = v
    BY DEF Reviewing
  <2>1. review'[v] = review[v] /\ review[v].key # q /\ review[v].key \in Titled
    BY DEF Shape
  <2>2. quarantine'[review'[v].key] = review'[v].seen /\ review'[v].seen # NoReview
    BY <1>1, <2>1 DEF Reviewing
  <2>3. ASSUME NEW u \in Reviewers, review'[u].key = review'[v].key PROVE u = v
    <3>1. NoHold.key \notin Titled
      BY PostsAssumption DEF NoHold, Titled
    <3>2. review'[u] = review[u]
      BY <2>1, <2>3, <3>1
    <3> QED
      BY <2>1, <2>3, <3>2 DEF Reviewing
  <2> QED
    BY <2>2, <2>3
<1> QED
  BY <1>2, <1>4, <1>5

\* A review begins or ends without a verdict.
LEMMA HoldInv ==
    ASSUME Inv, NEW v \in Reviewers, UNCHANGED <<post, quarantine, stored, work>>,
           NEW hold, review' = [review EXCEPT ![v] = hold],
           \/ hold = NoHold
           \/ \E q \in Titled : RowFree(v, q) /\ quarantine[q] # NoReview /\ hold = [key |-> q, seen |-> quarantine[q]]
    PROVE  Inv'
<1> USE DEF Inv
<1>1. quarantine \in [Titled -> ReviewType] /\ review \in [Reviewers -> [key : Titled, seen : ReviewType] \cup {NoHold}]
  BY DEF Shape
<1>2. hold \in [key : Titled, seen : ReviewType] \cup {NoHold}
  BY <1>1
<1>3. Shape' /\ InOrder' /\ OneWriter' /\ Merging' /\ Scanning'
  BY <1>1, <1>2 DEF Shape, InOrder, InOrderOf, OneWriter, Merging, MergingOf, Scanning, ScanningOf
<1>4. review'[v] = hold /\ \A u \in Reviewers \ {v} : review'[u] = review[u]
  BY <1>1
<1>5. NoHold.key \notin Titled
  BY PostsAssumption DEF NoHold, Titled
<1>6. hold # NoHold => /\ quarantine[hold.key] = hold.seen /\ hold.seen # NoReview
                       /\ \A u \in Reviewers \ {v} : review[u].key # hold.key
  BY DEF RowFree
<1>7. Reviewing'
  BY <1>1, <1>2, <1>4, <1>5, <1>6 DEF Reviewing
<1> QED
  BY <1>3, <1>7

LEMMA EndReviewInv == ASSUME Inv, NEW v \in Reviewers, EndReview(v) PROVE Inv'
<1> DEFINE q == review[v].key
<1>1. review[v] # NoHold /\ review' = [review EXCEPT ![v] = NoHold] /\ UNCHANGED <<post, stored, work>>
  BY DEF EndReview
<1>2. /\ q \in Titled /\ quarantine[q] = review[v].seen /\ quarantine[q] # NoReview
      /\ \A u \in Reviewers \ {v} : review[u].key # q
  BY <1>1 DEF Inv, Shape, Reviewing
<1>3. CASE UNCHANGED quarantine
  BY <1>1, <1>3, HoldInv
<1>4. CASE quarantine' = [quarantine EXCEPT ![q] = [state |-> "released", by |-> v]]
  <2>1. [state |-> "released", by |-> v] \in ReviewType /\ [state |-> "released", by |-> v] # NoReview
    BY DEF ReviewType, NoReview
  <2>2. /\ review' \in [Reviewers -> [key : Titled, seen : ReviewType] \cup {NoHold}]
        /\ \A u \in Reviewers : review'[u] = NoHold \/ (review'[u] = review[u] /\ review[u].key # q)
    BY <1>1, <1>2 DEF Inv, Shape
  <2> HIDE DEF q
  <2> QED
    BY <1>1, <1>2, <1>4, <2>1, <2>2, VerdictInv
<1> QED
  BY <1>3, <1>4 DEF EndReview

LEMMA ConfirmInv == ASSUME Inv, NEW q \in Titled, Confirm(q) PROVE Inv'
<1>1. /\ quarantine' = [quarantine EXCEPT ![q] = Confirmed] /\ quarantine[q] = Pending
      /\ UNCHANGED <<post, stored, work, review>> /\ \A v \in Reviewers : review[v].key # q
  BY DEF Confirm
<1>2. Confirmed \in ReviewType /\ Confirmed # NoReview /\ Pending # NoReview
  BY DEF ReviewType, Confirmed, Pending, NoReview
<1>3. review' \in [Reviewers -> [key : Titled, seen : ReviewType] \cup {NoHold}]
  BY <1>1 DEF Inv, Shape
<1> QED
  BY <1>1, <1>2, <1>3, VerdictInv

-----------------------------------------------------------------------------
(* The invariant *)

LEMMA InitInv == Init => Inv
<1> SUFFICES ASSUME Init PROVE Inv
  OBVIOUS
<1>1. work \in [Collectors -> Works({NoSnap})] /\ \A c \in Collectors : work[c] = NoWork
  BY NoWorkTyped DEF Init
<1>2. post \in [Posts -> RowType \cup {NoRow}] /\ quarantine \in [Titled -> ReviewType]
      /\ review \in [Reviewers -> [key : Titled, seen : ReviewType] \cup {NoHold}]
  BY DEF Init, ReviewType
<1>3. Shape
  BY <1>1, <1>2 DEF Shape, Init
<1>4. OneWriter
  BY <1>1 DEF OneWriter, NoWork
<1>5. Reviewing
  BY DEF Reviewing, Init
<1> QED
  BY <1>1, <1>3, <1>4, <1>5 DEF Inv, InOrder, Scanning, Merging

LEMMA StepInv == Inv /\ [Next]_vars => Inv'
<1> SUFFICES ASSUME Inv, [Next]_vars PROVE Inv'
  OBVIOUS
<1>1. ASSUME UNCHANGED <<post, quarantine, review, stored, work>> PROVE Inv'
  BY <1>1 DEF Inv, Shape, InOrder, InOrderOf, OneWriter, Scanning, ScanningOf, Merging, MergingOf, Reviewing
<1>2. ASSUME NEW c \in Collectors, Collect(c) PROVE Inv'
  BY <1>2, StoreTitlesInv, StorePostInv, StoreSnapshotInv, CommitInv DEF Collect
<1>3. ASSUME NEW c \in Collectors, Die(c) \/ \E r \in Ids : Begin(c, r) PROVE Inv'
  BY <1>3, DieInv, BeginInv
<1>4. ASSUME NEW v \in Reviewers, EndReview(v) \/ AbortReview(v) \/ \E q \in Titled : TakeReview(v, q) PROVE Inv'
  <2>1. CASE AbortReview(v)
    BY <2>1, HoldInv DEF AbortReview, tables
  <2>2. ASSUME NEW q \in Titled, TakeReview(v, q) PROVE Inv'
    BY <2>2, HoldInv DEF TakeReview, tables
  <2> QED
    BY <1>4, <2>1, <2>2, EndReviewInv
<1>5. ASSUME NEW q \in Titled, Confirm(q) PROVE Inv'
  BY <1>5, ConfirmInv
<1>6. CASE PublishRanking \/ AbortRanking \/ \E s \in Ranked : ReadRanking(s)
  BY <1>1, <1>6 DEF PublishRanking, AbortRanking, ReadRanking, tables
<1>7. CASE UNCHANGED vars
  BY <1>1, <1>7 DEF vars
<1> QED
  BY <1>2, <1>3, <1>4, <1>5, <1>6, <1>7 DEF Next

LEMMA Invariance == Spec => []Inv
BY InitInv, StepInv, PTL DEF Spec

-----------------------------------------------------------------------------
(* Theorems *)

\* Whoever holds a row that c waits for is not before c in its own posts, and
\* at the same post has come further.
LEMMA WaitsBehind ==
    ASSUME Inv, NEW c \in Collectors, NEW d \in Collectors, d \in WaitsFor(c)
    PROVE  LET p == Current(work[c])
           IN  /\ work[c].step \in {"titles", "post", "snapshot"}
               /\ work[d] # NoWork /\ InOrderOf(work[d])
               /\ CASE work[c].step = "titles" -> DidTitles(work[d], p)
                    [] work[c].step = "post" -> DidPost(work[d], p)
                    [] OTHER -> Passed(work[d], p)
<1> DEFINE p == Current(work[c])
<1>1. work[c].step \in {"titles", "post", "snapshot"}
  BY DEF WaitsFor
<1>2. p \in Posts
  BY <1>1, AtWork
<1>3. \/ work[c].step = "titles" /\ \E q \in work[d].titles : q[1] = p
      \/ work[c].step = "post" /\ work[d].posts[p] # NoRow
      \/ work[c].step = "snapshot" /\ work[d].snaps[p] # NoSnap
  BY DEF WaitsFor, TitleWriters, PostWriters, SnapshotWriters, HostileTitles
<1>4. work[d] # NoWork
  BY <1>2, <1>3 DEF NoWork
<1>5. InOrderOf(work[d])
  BY <1>4 DEF Inv, InOrder
<1> HIDE DEF p
<1>6. \/ work[c].step = "titles" /\ DidTitles(work[d], p)
      \/ work[c].step = "post" /\ DidPost(work[d], p)
      \/ work[c].step = "snapshot" /\ Passed(work[d], p)
  BY <1>2, <1>3, <1>5 DEF InOrderOf
<1> QED
  BY <1>4, <1>5, <1>6 DEF p

\* Transactions lock the rows of common posts in one order.
THEOREM NoDeadlock == Spec => []NoWriterDeadlock
<1>1. Inv => NoWriterDeadlock
  <2> SUFFICES ASSUME Inv, NEW c \in Collectors, NEW d \in Collectors, d \in WaitsFor(c), c \in WaitsFor(d)
               PROVE  FALSE
    BY DEF NoWriterDeadlock
  <2> DEFINE w == work[c]
             v == work[d]
             p == Current(w)
             t == Current(v)
  <2>1. /\ w.step \in {"titles", "post", "snapshot"} /\ v.step \in {"titles", "post", "snapshot"}
        /\ InOrderOf(w) /\ InOrderOf(v)
    BY WaitsBehind
  <2>2. p \in w.todo /\ t \in v.todo /\ p \in Nat /\ t \in Nat
    BY <2>1, AtWork, PostsAssumption
  <2>3. /\ \/ w.step = "titles" /\ DidTitles(v, p)
           \/ w.step = "post" /\ DidPost(v, p)
           \/ w.step = "snapshot" /\ Passed(v, p)
        /\ \/ v.step = "titles" /\ DidTitles(w, t)
           \/ v.step = "post" /\ DidPost(w, t)
           \/ v.step = "snapshot" /\ Passed(w, t)
    BY WaitsBehind
  <2> HIDE DEF w, v, p, t
  <2>4. Passed(v, p) => p < t
    BY <2>1, <2>2 DEF Passed, InOrderOf
  <2>5. Passed(w, t) => t < p
    BY <2>1, <2>2 DEF Passed, InOrderOf
  <2>6. (DidTitles(v, p) \/ DidPost(v, p)) /\ ~Passed(v, p) => p = t
    BY DEF DidTitles, DidPost, t
  <2>7. (DidTitles(w, t) \/ DidPost(w, t)) /\ ~Passed(w, t) => p = t
    BY DEF DidTitles, DidPost, p
  <2>8. p = t /\ ~Passed(v, p) /\ ~Passed(w, t)
    BY <2>2, <2>3, <2>4, <2>5, <2>6, <2>7
  <2> QED
    BY <2>1, <2>3, <2>8 DEF DidTitles, DidPost
<1> QED
  BY <1>1, Invariance, PTL

\* What a committed read has of hostile titles is in the quarantine.
THEOREM TitlesScanned == Spec => []TitlesAreScanned
<1>1. Init => TitlesAreScanned
  BY DEF Init, TitlesAreScanned
<1>2. Inv /\ Inv' /\ TitlesAreScanned /\ [Next]_vars => TitlesAreScanned'
  <2> SUFFICES ASSUME Inv, Inv', TitlesAreScanned, [Next]_vars,
                      NEW r \in stored', NEW q \in TitlesOf(r), q[2] \in Hostile
               PROVE  quarantine'[q] # NoReview
    BY DEF TitlesAreScanned
  <2>1. q \in Titled
    BY BatchIsRead DEF Inv, Shape
  <2>2. quarantine[q] # NoReview => quarantine'[q] # NoReview
    <3>1. CASE \E c \in Collectors : Commit(c)
      BY <2>1, <3>1 DEF Commit, Pending, NoReview
    <3>2. CASE \E v \in Reviewers : EndReview(v)
      BY <2>1, <3>2 DEF EndReview, NoReview, Inv, Shape
    <3>3. CASE \E p \in Titled : Confirm(p)
      BY <2>1, <3>3 DEF Confirm, Confirmed, NoReview, Inv, Shape
    <3>4. CASE UNCHANGED quarantine
      BY <3>4
    <3> QED
      BY <3>1, <3>2, <3>3, <3>4 DEF Next, vars, tables, Collect, StoreTitles, StorePost, StoreSnapshot, Die, Begin,
         AbortReview, TakeReview, PublishRanking, AbortRanking, ReadRanking
  <2>3. CASE r \in stored
    BY <2>2, <2>3 DEF TitlesAreScanned
  <2>4. CASE r \notin stored
    <3>1. PICK c \in Collectors : Commit(c)
      BY <2>4 DEF Next, vars, tables, Collect, StoreTitles, StorePost, StoreSnapshot, Die, Begin, EndReview, Confirm,
         AbortReview, TakeReview, PublishRanking, AbortRanking, ReadRanking
    <3>2. /\ stored' = stored \cup {work[c].read} /\ InOrderOf(work[c]) /\ ScanningOf(work[c])
          /\ \A p : DidTitles(work[c], p) <=> p \in PostsOf(work[c].read)
          /\ \A k \in Titled : quarantine'[k] = IF k \in work[c].titles THEN Pending ELSE quarantine[k]
      BY <3>1, CommitDoes
    <3>3. r = work[c].read /\ q[1] \in PostsOf(r)
      BY <2>4, <3>2 DEF TitlesOf, PostsOf
    <3> QED
      BY <2>1, <2>2, <3>2, <3>3 DEF ScanningOf, Pending, NoReview
  <2> QED
    BY <2>3, <2>4
<1> QED
  BY <1>1, <1>2, Invariance, PTL DEF Spec

\* A step other than a commit leaves what is stored alone.
LEMMA OnlyCommitStores ==
    [Next]_vars => (\E c \in Collectors : Commit(c)) \/ UNCHANGED <<post, stored>>
BY DEF Next, vars, tables, Collect, StoreTitles, StorePost, StoreSnapshot, Die, Begin, EndReview, Confirm,
   AbortReview, TakeReview, PublishRanking, AbortRanking, ReadRanking

LEMMA CommitConverges ==
    ASSUME Inv, Converged, NEW c \in Collectors, Commit(c)
    PROVE  Converged'
<1> DEFINE w == work[c]
           Rows(R, p) == {CanonicalRow(r, p) : r \in {r \in R : p \in PostsOf(r)}}
<1>1. /\ InOrderOf(w) /\ MergingOf(w) /\ stored' = stored \cup {w.read}
      /\ \A p : DidPost(w, p) <=> p \in PostsOf(w.read)
      /\ \A p \in Posts : post'[p] = IF w.posts[p] # NoRow THEN w.posts[p] ELSE post[p]
  BY CommitDoes
<1> SUFFICES ASSUME NEW p \in Posts
             PROVE  \/ Rows(stored', p) = {} /\ post'[p] = NoRow
                    \/ post'[p] \in Rows(stored', p) /\ \A o \in Rows(stored', p) : ~Refreshes(o, post'[p])
  BY DEF Converged
<1>2. \/ Rows(stored, p) = {} /\ post[p] = NoRow
      \/ post[p] \in Rows(stored, p) /\ \A o \in Rows(stored, p) : ~Refreshes(o, post[p])
  BY DEF Converged
<1>3. Rows(stored, p) \subseteq RowType /\ NoRow \notin Rows(stored, p)
  BY RowTyped DEF Inv, Shape
<1>4. CASE p \notin PostsOf(w.read)
  <2>1. Rows(stored', p) = Rows(stored, p)
    BY <1>1, <1>4
  <2>2. post'[p] = post[p]
    BY <1>1, <1>4 DEF InOrderOf
  <2> QED
    BY <1>2, <2>1, <2>2
<1>5. CASE p \in PostsOf(w.read)
  <2> DEFINE new == CanonicalRow(w.read, p)
  <2>1. new \in RowType /\ new # NoRow
    BY <1>1, <1>5, RowTyped DEF InOrderOf
  <2>2. \/ w.posts[p] = new /\ (post[p] = NoRow \/ Refreshes(new, post[p]))
        \/ w.posts[p] = NoRow /\ post[p] # NoRow /\ ~Refreshes(new, post[p])
    BY <1>1, <1>5 DEF MergingOf
  <2>3. Rows(stored', p) = Rows(stored, p) \cup {new}
    BY <1>1, <1>5
  <2> HIDE DEF Rows, new
  <2>4. CASE w.posts[p] = NoRow
    BY <1>1, <1>2, <2>1, <2>2, <2>3, <2>4
  <2>5. CASE w.posts[p] # NoRow
    <3>1. post'[p] = new /\ (post[p] = NoRow \/ Refreshes(new, post[p]))
      BY <1>1, <2>2, <2>5
    <3>2. ASSUME NEW o \in Rows(stored, p) PROVE ~Refreshes(o, new)
      <4>1. post[p] \in RowType /\ o \in RowType /\ post[p] # NoRow /\ ~Refreshes(o, post[p])
        BY <1>2, <1>3
      <4>2. Refreshes(new, post[p])
        BY <3>1, <4>1
      <4> QED
        BY <2>1, <4>1, <4>2, RefreshesIsOrder
    <3>3. ~Refreshes(new, new)
      BY <2>1, RefreshesIsOrder
    <3> QED
      BY <2>3, <3>1, <3>2, <3>3
  <2> QED
    BY <2>4, <2>5
<1> QED
  BY <1>4, <1>5

LEMMA ConvergedInvariance == Spec => []Converged
<1>1. Init => Converged
  BY DEF Init, Converged
<1>2. Inv /\ Converged /\ [Next]_vars => Converged'
  <2> SUFFICES ASSUME Inv, Converged, [Next]_vars PROVE Converged'
    OBVIOUS
  <2>1. CASE UNCHANGED <<post, stored>>
    BY <2>1 DEF Converged
  <2> QED
    BY <2>1, CommitConverges, OnlyCommitStores
<1> QED
  BY <1>1, <1>2, Invariance, PTL DEF Spec

\* Whatever the order of the transactions, the newest committed observation wins.
THEOREM PostsConverge == Spec => []PostConverges
<1>1. Inv /\ Converged => PostConverges
  <2> SUFFICES ASSUME Inv, Converged, NEW p \in Posts
               PROVE  LET rows == {CanonicalRow(r, p) : r \in {r \in stored : p \in PostsOf(r)}}
                      IN  IF rows = {} THEN post[p] = NoRow
                          ELSE post[p] \in rows /\ \A o \in rows : ~Refreshes(o, post[p])
    BY DEF PostConverges
  <2> QED
    BY DEF Converged
<1> QED
  BY <1>1, Invariance, ConvergedInvariance, PTL

\* A verdict stands, whoever reviews or sees the title again.
THEOREM VerdictsStand == Spec => ReviewIsFinal
<1>1. Inv /\ [Next]_vars =>
        [\A q \in Titled : quarantine[q].state \in {"released", "confirmed"} => quarantine'[q] = quarantine[q]]_vars
  <2> SUFFICES ASSUME Inv, [Next]_vars, NEW q \in Titled, quarantine[q].state \in {"released", "confirmed"}
               PROVE  quarantine'[q] = quarantine[q]
    OBVIOUS
  <2>1. ASSUME NEW c \in Collectors, Commit(c) PROVE quarantine'[q] = quarantine[q]
    <3>1. ScanningOf(work[c]) /\ quarantine'[q] = IF q \in work[c].titles THEN Pending ELSE quarantine[q]
      BY <2>1, CommitDoes
    <3> QED
      BY <3>1 DEF ScanningOf, NoReview
  <2>2. ASSUME NEW v \in Reviewers, EndReview(v) PROVE quarantine'[q] = quarantine[q]
    <3>1. quarantine[review[v].key] = review[v].seen /\ quarantine \in [Titled -> ReviewType]
      BY <2>2 DEF EndReview, Inv, Reviewing, Shape
    <3> QED
      BY <2>2, <3>1 DEF EndReview
  <2>3. ASSUME NEW p \in Titled, Confirm(p) PROVE quarantine'[q] = quarantine[q]
    BY <2>3 DEF Confirm, Pending, Inv, Shape
  <2>4. CASE UNCHANGED quarantine
    BY <2>4
  <2> QED
    BY <2>1, <2>2, <2>3, <2>4 DEF Next, vars, tables, Collect, StoreTitles, StorePost, StoreSnapshot, Die, Begin,
       AbortReview, TakeReview, PublishRanking, AbortRanking, ReadRanking
<1> QED
  BY <1>1, Invariance, PTL DEF Spec, ReviewIsFinal

\* Work items go with releases and with published ranks.
THEOREM WorkQueued == Spec => []WorkIsQueued
<1> DEFINE Table == ranking = [s \in Ranked |-> ranking[s]]
           Queued == Table /\ WorkIsQueued
<1>1. Init => Queued
  BY DEF Init, WorkIsQueued, NoReview
<1>2. Inv /\ Queued /\ [Next]_vars => Queued'
  <2> SUFFICES ASSUME Inv, Queued, [Next]_vars PROVE Queued'
    OBVIOUS
  <2> USE DEF WorkIsQueued
  <2>1. ASSUME NEW c \in Collectors, Commit(c) PROVE Queued'
    <3>1. /\ ScanningOf(work[c])
          /\ \A q \in Titled : quarantine'[q] = IF q \in work[c].titles THEN Pending ELSE quarantine[q]
      BY <2>1, CommitDoes
    <3>2. \A q \in Titled : quarantine'[q].state = "released" <=> quarantine[q].state = "released"
      BY <3>1 DEF ScanningOf, NoReview, Pending
    <3>3. UNCHANGED <<items, details, ranking>>
      BY <2>1 DEF Commit
    <3> QED
      BY <3>2, <3>3
  <2>2. ASSUME NEW v \in Reviewers, EndReview(v) PROVE Queued'
    <3> DEFINE q == review[v].key
    <3>1. q \in Titled /\ quarantine[q] = review[v].seen /\ quarantine \in [Titled -> ReviewType]
      BY <2>2 DEF EndReview, Inv, Reviewing, Shape
    <3>2. UNCHANGED <<details, ranking>>
      BY <2>2 DEF EndReview
    <3>3. CASE quarantine' = [quarantine EXCEPT ![q] = [state |-> "released", by |-> v]] /\ items' = items \cup {q}
      BY <3>1, <3>2, <3>3
    <3>4. CASE review[v].seen.state = "released" /\ UNCHANGED quarantine /\ items' = items \cup {q}
      BY <3>1, <3>2, <3>4
    <3>5. CASE UNCHANGED <<quarantine, items>>
      BY <3>2, <3>5
    <3> QED
      BY <2>2, <3>3, <3>4, <3>5 DEF EndReview
  <2>3. ASSUME NEW q \in Titled, Confirm(q) PROVE Queued'
    <3>1. \A p \in Titled : quarantine'[p].state = "released" <=> quarantine[p].state = "released"
      BY <2>3 DEF Confirm, Pending, Confirmed, Inv, Shape
    <3>2. UNCHANGED <<items, details, ranking>>
      BY <2>3 DEF Confirm
    <3> QED
      BY <3>1, <3>2
  <2>4. CASE PublishRanking
    <3>1. /\ ranking' = [ranking EXCEPT ![rank.slot] = rank.rows] /\ UNCHANGED <<items, quarantine>>
          /\ details' = details \cup {row.post : row \in rank.rows}
      BY <2>4 DEF PublishRanking, NewDetails, tables
    <3> QED
      BY <3>1
  <2>5. CASE UNCHANGED <<quarantine, items, details, ranking>>
    BY <2>5
  <2> QED
    BY <2>1, <2>2, <2>3, <2>4, <2>5 DEF Next, vars, tables, Collect, StoreTitles, StorePost, StoreSnapshot, Die, Begin,
       AbortReview, TakeReview, AbortRanking, ReadRanking
<1>3. Queued => WorkIsQueued
  OBVIOUS
<1> HIDE DEF Queued
<1> QED
  BY <1>1, <1>2, <1>3, Invariance, PTL DEF Spec
-----------------------------------------------------------------------------
(* Slots *)

LEMMA Intervals == Interval \in {1, 2, 3, 4, 6, 8, 12, 24} /\ SlotMinute \in 0..59
BY ScheduleAssumption, SMT

MinutesOfDay == 0..1439
TriggerTime(d, h) == 1440 * d + 60 * h + SlotMinute
HourOf(m) == (m \div (Interval * 60)) * Interval

\* A trigger is a day, an hour of the schedule and the minute.
LEMMA TriggerAt ==
    ASSUME NEW d \in Int, NEW h \in schedule_hours
    PROVE  IsTrigger(TriggerTime(d, h))
<1> DEFINE t == 1440 * d + 60 * h + SlotMinute
<1> h \in 0..23 /\ SlotMinute \in 0..59
  BY Intervals DEF schedule_hours
<1>1. t % 60 = SlotMinute
  BY SMT
<1>2. (t % 1440) \div 60 = h
  BY SMT
<1> QED
  BY <1>1, <1>2, SMT DEF IsTrigger, TriggerTime, Day

LEMMA TriggerIs ==
    ASSUME NEW s \in Int, IsTrigger(s)
    PROVE  \E d \in Int, h \in schedule_hours : s = TriggerTime(d, h)
<1> DEFINE d == s \div 1440
           h == (s % 1440) \div 60
<1>1. d \in Int /\ h \in schedule_hours
  BY SMT DEF IsTrigger, Day
<1>2. s = 1440 * d + 60 * h + SlotMinute
  BY Intervals, SMT DEF IsTrigger
<1> QED
  BY <1>1, <1>2 DEF TriggerTime

\* The hours of the schedule are an interval apart, over midnight too.
LEMMA HoursApart ==
    ASSUME NEW d \in Int, NEW h \in schedule_hours,
           NEW e \in Int, NEW g \in schedule_hours,
           1440 * d + 60 * h <= 1440 * e + 60 * g, 1440 * e + 60 * g < 1440 * d + 60 * h + 60 * Interval
    PROVE  d = e /\ h = g
<1>1. CASE Interval = 1
  BY <1>1, SMT DEF schedule_hours
<1>2. CASE Interval = 2
  BY <1>2, SMT DEF schedule_hours
<1>3. CASE Interval = 3
  BY <1>3, SMT DEF schedule_hours
<1>4. CASE Interval = 4
  BY <1>4, SMT DEF schedule_hours
<1>6. CASE Interval = 6
  BY <1>6, SMT DEF schedule_hours
<1>8. CASE Interval = 8
  BY <1>8, SMT DEF schedule_hours
<1>12. CASE Interval = 12
  BY <1>12, SMT DEF schedule_hours
<1>24. CASE Interval = 24
  BY <1>24, SMT DEF schedule_hours
<1> QED
  BY <1>1, <1>2, <1>3, <1>4, <1>6, <1>8, <1>12, <1>24, Intervals

\* The hour of the schedule before a minute of the day, and the one before that.
LEMMA HourBefore ==
    ASSUME NEW m \in MinutesOfDay
    PROVE  /\ HourOf(m) \in schedule_hours
           /\ 60 * HourOf(m) <= m /\ m < 60 * HourOf(m) + 60 * Interval
           /\ HourOf(m) # 0 => HourOf(m) - Interval \in schedule_hours
           /\ 24 - Interval \in schedule_hours
<1>1. CASE Interval = 1
  BY <1>1, SMT DEF HourOf, MinutesOfDay, schedule_hours
<1>2. CASE Interval = 2
  BY <1>2, SMT DEF HourOf, MinutesOfDay, schedule_hours
<1>3. CASE Interval = 3
  BY <1>3, SMT DEF HourOf, MinutesOfDay, schedule_hours
<1>4. CASE Interval = 4
  BY <1>4, SMT DEF HourOf, MinutesOfDay, schedule_hours
<1>6. CASE Interval = 6
  BY <1>6, SMT DEF HourOf, MinutesOfDay, schedule_hours
<1>8. CASE Interval = 8
  BY <1>8, SMT DEF HourOf, MinutesOfDay, schedule_hours
<1>12. CASE Interval = 12
  BY <1>12, SMT DEF HourOf, MinutesOfDay, schedule_hours
<1>24. CASE Interval = 24
  BY <1>24, SMT DEF HourOf, MinutesOfDay, schedule_hours
<1> QED
  BY <1>1, <1>2, <1>3, <1>4, <1>6, <1>8, <1>12, <1>24, Intervals

\* The slot of a time is the last trigger before it.
LEMMA Aligned ==
    ASSUME NEW t \in Nat
    PROVE  LET s == align_kst_slot(t)
           IN  s \in Int /\ s <= t /\ t < s + Interval * 60 /\ IsTrigger(s)
<1>1. PICK d, m : d \in Int /\ m \in MinutesOfDay /\ d = t \div 1440 /\ m = t % 1440 /\ t = 1440 * d + m
  BY SMT DEF MinutesOfDay
<1> DEFINE h == HourOf(m)
           c == TriggerTime(d, h)
<1>2. Interval \in 1..24 /\ SlotMinute \in 0..59 /\ m \in 0..1439
  BY <1>1, ScheduleAssumption DEF MinutesOfDay
<1>3. align_kst_slot(t) = IF c > t THEN c - Interval * 60 ELSE c
  <2> DEFINE k == m \div (Interval * 60)
  <2>1. Interval * 60 \in Nat /\ Interval * 60 > 0
    BY <1>2
  <2>2. k \in Int
    BY <1>1, <2>1, SMT
  <2>3. d * 1440 + k * Interval * 60 + SlotMinute = c
    <3> HIDE DEF k
    <3>1. h = k * Interval /\ k * Interval \in Int
      BY <1>2, <2>2 DEF k, HourOf
    <3> HIDE DEF h
    <3> QED
      BY <1>1, <1>2, <2>2, <3>1, SMT DEF TriggerTime
  <2> QED
    BY <1>1, <2>3 DEF align_kst_slot, DayOf, Day
<1>4. /\ h \in schedule_hours /\ h \in 0..23
      /\ 60 * h <= m /\ m < 60 * h + 60 * Interval
      /\ h # 0 => h - Interval \in schedule_hours
      /\ 24 - Interval \in schedule_hours
  <2>1. /\ h \in schedule_hours /\ 60 * h <= m /\ m < 60 * h + 60 * Interval
        /\ h # 0 => h - Interval \in schedule_hours
        /\ 24 - Interval \in schedule_hours
    BY <1>1, HourBefore
  <2>2. h \in 0..23
    BY <2>1 DEF schedule_hours
  <2> QED
    BY <2>1, <2>2
<1> HIDE DEF h
<1>5. IsTrigger(c)
  BY <1>1, <1>4, TriggerAt
<1>6. CASE c > t
  <2>1. IsTrigger(c - Interval * 60)
    <3>1. CASE h = 0
      <4>1. IsTrigger(TriggerTime(d - 1, 24 - Interval))
        <5>1. d - 1 \in Int /\ 24 - Interval \in schedule_hours
          BY <1>1, <1>4
        <5> QED
          BY <5>1, TriggerAt
      <4>2. c - Interval * 60 = TriggerTime(d - 1, 24 - Interval)
        BY <1>1, <1>2, <3>1 DEF TriggerTime
      <4> QED
        BY <4>1, <4>2
    <3>2. CASE h # 0
      <4>1. IsTrigger(TriggerTime(d, h - Interval))
        <5>1. d \in Int /\ h - Interval \in schedule_hours
          BY <1>1, <1>4, <3>2
        <5> QED
          BY <5>1, TriggerAt
      <4>2. c - Interval * 60 = TriggerTime(d, h - Interval)
        BY <1>1, <1>2, <1>4 DEF TriggerTime
      <4> QED
        BY <4>1, <4>2
    <3> QED
      BY <3>1, <3>2
  <2>2. c \in Int /\ c - Interval * 60 \in Int /\ c - Interval * 60 <= t /\ t < c
    BY <1>1, <1>2, <1>4, <1>6 DEF TriggerTime
  <2> QED
    BY <1>2, <1>3, <1>6, <2>1, <2>2
<1>7. CASE ~(c > t)
  <2>1. c \in Int /\ c <= t /\ t < c + Interval * 60
    BY <1>1, <1>2, <1>4, <1>7 DEF TriggerTime
  <2> QED
    BY <1>3, <1>5, <1>7, <2>1
<1> QED
  BY <1>6, <1>7

\* A time belongs to the one trigger whose interval it is in.
LEMMA SlotOfTime ==
    ASSUME NEW t \in Nat, NEW s \in Int, IsTrigger(s)
    PROVE  align_kst_slot(t) = s <=> t \in s..(s + Interval * 60 - 1)
<1> DEFINE a == align_kst_slot(t)
<1>1. a \in Int /\ a <= t /\ t < a + Interval * 60 /\ IsTrigger(a)
  BY Aligned
<1>2. Interval \in 1..24 /\ SlotMinute \in 0..59
  BY ScheduleAssumption
<1> HIDE DEF a
<1>3. ASSUME s <= t, t < s + Interval * 60 PROVE a = s
  <2>1. PICK d \in Int, h \in schedule_hours : s = 1440 * d + 60 * h + SlotMinute
    BY TriggerIs DEF TriggerTime
  <2>2. PICK e \in Int, g \in schedule_hours : a = 1440 * e + 60 * g + SlotMinute
    BY <1>1, TriggerIs DEF TriggerTime
  <2> h \in 0..23 /\ g \in 0..23
    BY DEF schedule_hours
  <2>3. CASE s <= a
    <3>1. 1440 * d + 60 * h <= 1440 * e + 60 * g /\ 1440 * e + 60 * g < 1440 * d + 60 * h + 60 * Interval
      BY <1>1, <1>2, <1>3, <2>1, <2>2, <2>3
    <3> QED
      BY <2>1, <2>2, <3>1, HoursApart
  <2>4. CASE a <= s
    <3>1. 1440 * e + 60 * g <= 1440 * d + 60 * h /\ 1440 * d + 60 * h < 1440 * e + 60 * g + 60 * Interval
      BY <1>1, <1>2, <1>3, <2>1, <2>2, <2>4
    <3> QED
      BY <2>1, <2>2, <3>1, HoursApart
  <2> QED
    BY <1>1, <2>3, <2>4
<1>4. a = s => t \in s..(s + Interval * 60 - 1)
  BY <1>1, <1>2
<1> QED
  BY <1>2, <1>3, <1>4 DEF a
-----------------------------------------------------------------------------
(* Snapshots *)

\* What a read says of a post's counters, and the row that it leaves.
Sample(r, p) ==
    [views |-> Canonical(ItemsOf(r, p)).views, seen |-> Reads[r].observed, config |-> Reads[r].config]
Sampled(old, new) == IF old = NoSnap THEN new ELSE MergedSnapshot(old, new)

\* A row that carries the greatest of each column over some reads of a post.
SummaryOf(row, reads, p) ==
    /\ row \in SnapType
    /\ \A r \in reads : Reads[r].config = row.config /\ Reads[r].observed <= row.seen
    /\ \A r \in reads : \A i \in ItemsOf(r, p) : i.views <= row.views
    /\ \E r \in reads : row.seen = Reads[r].observed
    /\ \E r \in reads : \E i \in ItemsOf(r, p) : row.views = i.views

ReadsOf(p, s) == {r \in stored : p \in PostsOf(r) /\ Slot[r] = s}

SnapShape ==
    /\ snap \in [Posts \X Slots -> SnapType \cup {NoSnap}]
    /\ work \in [Collectors -> Works(SnapType \cup {NoSnap})]

\* A snapshot row has one writer.
OneSampler == \A c, d \in Collectors : c # d => \A p \in Posts :
    work[c].snaps[p] = NoSnap \/ work[d].snaps[p] = NoSnap \/ Slot[work[c].read] # Slot[work[d].read]

\* What a transaction has merged with is still what is committed.
SamplingOf(w, rows) == \A p \in Posts : Passed(w, p) =>
    LET old == rows[p, Slot[w.read]]
    IN  /\ w.snaps[p] = Sampled(old, Sample(w.read, p))
        /\ old = NoSnap \/ old.config = Reads[w.read].config
Sampling == \A c \in Collectors : work[c] = NoWork \/ SamplingOf(work[c], snap)

Recorded == \A p \in Posts, s \in Slots :
    IF ReadsOf(p, s) = {} THEN snap[p, s] = NoSnap ELSE SummaryOf(snap[p, s], ReadsOf(p, s), p)

SnapInv == SnapShape /\ OneSampler /\ Sampling /\ Recorded

\* The counters of a read's observations of a post, of which Canonical takes the
\* greatest.
LEMMA SampleIs ==
    ASSUME NEW r \in Ids, Usable(Reads[r]), NEW p \in PostsOf(r)
    PROVE  /\ Sample(r, p) \in SnapType /\ Sample(r, p).config = Reads[r].config
           /\ Sample(r, p).seen = Reads[r].observed /\ Slot[r] \in Slots
           /\ \A i \in ItemsOf(r, p) : i.views \in Nat /\ i.views <= Sample(r, p).views
           /\ \E i \in ItemsOf(r, p) : Sample(r, p).views = i.views
<1> DEFINE same == ItemsOf(r, p)
           views == {i.views : i \in same}
           top == CHOOSE i \in same : \A j \in same : ~Outranks(j, i)
<1>1. same \in SUBSET ItemType /\ IsFiniteSet(same) /\ same # {}
  <2>1. same \subseteq Batch(r) /\ same # {}
    BY DEF ItemsOf, PostsOf
  <2> QED
    BY <2>1, BatchIsRead, FS_Subset
<1> HIDE DEF same
<1>2. views \in SUBSET Nat /\ views # {} /\ IsFiniteSet(views)
  <2>1. views \in SUBSET Nat /\ views # {}
    BY <1>1 DEF ItemType
  <2>2. IsFiniteSet(views)
    <3> DEFINE f == [i \in same |-> i.views]
    <3>1. f \in Surjection(same, views)
      BY DEF Surjection
    <3> HIDE DEF f, views
    <3> QED
      BY <1>1, <3>1, FS_Surjection
  <2> QED
    BY <2>1, <2>2
<1>3. Max(views) \in views /\ \A v \in views : v <= Max(views)
  <2> HIDE DEF views
  <2> QED
    BY <1>2, MaxOfFinite
<1>4. Canonical(same).views = Max(views)
  <2>1. top \in ItemType
    BY <1>1, TopExists
  <2>2. Canonical(same) = [top EXCEPT !.views = Max(views)]
    BY Zenon DEF Canonical
  <2> HIDE DEF top, views
  <2> QED
    BY <2>1, <2>2 DEF ItemType
<1>5. Sample(r, p).views = Max(views) /\ Sample(r, p).config = Reads[r].config
      /\ Sample(r, p).seen = Reads[r].observed
  BY <1>4 DEF Sample, same
<1>6. Reads[r].observed \in Nat /\ Slot[r] \in Slots
  BY ReadsAssumption DEF Ids, Slot
<1>7. Sample(r, p) \in SnapType
  <2>1. Max(views) \in Nat
    BY <1>2, <1>3
  <2> QED
    BY <1>4, <1>6, <2>1 DEF Sample, SnapType, same
<1> QED
  BY <1>2, <1>3, <1>5, <1>6, <1>7 DEF same

\* A summary of reads, merged with one more, is the summary of all.
LEMMA SampledIs ==
    ASSUME NEW old \in SnapType \cup {NoSnap}, NEW new \in SnapType
    PROVE  /\ new # NoSnap /\ Sampled(old, new) \in SnapType /\ Sampled(old, new) # NoSnap
           /\ old = NoSnap => Sampled(old, new) = new
           /\ old # NoSnap =>
                /\ old \in SnapType /\ Sampled(old, new).config = old.config
                /\ Sampled(old, new).views = (IF old.views <= new.views THEN new.views ELSE old.views)
                /\ Sampled(old, new).seen = (IF old.seen <= new.seen THEN new.seen ELSE old.seen)
<1>1. \A row \in SnapType : row # NoSnap /\ row.views \in Nat /\ row.seen \in Nat
  BY ReadsAssumption DEF SnapType, NoSnap, Ids
<1>2. CASE old = NoSnap
  BY <1>1, <1>2 DEF Sampled
<1>3. CASE old # NoSnap
  <2>1. old \in SnapType
    BY <1>3
  <2>2. /\ Max({old.views, new.views}) = (IF old.views <= new.views THEN new.views ELSE old.views)
        /\ Max({old.seen, new.seen}) = (IF old.seen <= new.seen THEN new.seen ELSE old.seen)
    BY <1>1, <2>1, MaxOfTwo
  <2>3. Sampled(old, new) = [views |-> IF old.views <= new.views THEN new.views ELSE old.views,
                             seen |-> IF old.seen <= new.seen THEN new.seen ELSE old.seen,
                             config |-> old.config]
    BY <1>3, <2>2 DEF Sampled, MergedSnapshot
  <2>4. Sampled(old, new) \in SnapType
    <3>1. old.views \in Nat /\ old.seen \in Nat /\ new.views \in Nat /\ new.seen \in Nat
          /\ old.config \in {Reads[r].config : r \in Ids}
      BY <2>1 DEF SnapType
    <3> QED
      BY <2>3, <3>1 DEF SnapType
  <2> QED
    BY <1>1, <1>3, <2>1, <2>3, <2>4
<1> QED
  BY <1>2, <1>3

LEMMA Retyped ==
    ASSUME NEW S, NEW v \in [Collectors -> Works(S)], NEW T,
           \A c \in Collectors : v[c].snaps \in [Posts -> T]
    PROVE  v \in [Collectors -> Works(T)]
<1>1. ASSUME NEW c \in Collectors PROVE v[c] \in Works(T)
  BY DEF Works
<1> QED
  BY <1>1

\* A step in which no transaction writes a snapshot.
LEMMA SamplersRest ==
    ASSUME Inv', SnapInv, UNCHANGED <<snap, stored>>,
           \A c \in Collectors :
                \/ work'[c] = NoWork
                \/ /\ work[c] # NoWork /\ work'[c].read = work[c].read
                   /\ work'[c].todo = work[c].todo /\ work'[c].snaps = work[c].snaps
                \/ work'[c].snaps = NoWork.snaps /\ \A p \in Posts : ~Passed(work'[c], p)
    PROVE  SnapInv'
<1> USE DEF SnapInv
<1>1. NoWork.snaps \in [Posts -> SnapType \cup {NoSnap}] /\ \A p \in Posts : NoWork.snaps[p] = NoSnap
  BY DEF NoWork
<1>2. \A c \in Collectors : work'[c].snaps \in [Posts -> SnapType \cup {NoSnap}]
  BY <1>1 DEF SnapShape, Works
<1>3. SnapShape'
  <2>1. PICK S : work' \in [Collectors -> Works(S)]
    BY DEF Inv, Shape
  <2>2. work' \in [Collectors -> Works(SnapType \cup {NoSnap})]
    BY <1>2, <2>1, Retyped
  <2> QED
    BY <2>2 DEF SnapShape
<1>4. OneSampler'
  BY <1>1 DEF OneSampler
<1>5. Sampling'
  <2> SUFFICES ASSUME NEW c \in Collectors, work'[c] # NoWork PROVE SamplingOf(work'[c], snap)
    BY DEF Sampling
  <2>1. CASE \A p \in Posts : ~Passed(work'[c], p)
    BY <2>1 DEF SamplingOf
  <2>2. CASE /\ work[c] # NoWork /\ work'[c].read = work[c].read
             /\ work'[c].todo = work[c].todo /\ work'[c].snaps = work[c].snaps
    <3>1. \A p \in Posts : Passed(work'[c], p) <=> Passed(work[c], p)
      BY <2>2 DEF Passed
    <3> QED
      BY <2>2, <3>1 DEF Sampling, SamplingOf
  <2> QED
    BY <2>1, <2>2
<1>6. Recorded'
  BY DEF Recorded, ReadsOf
<1> QED
  BY <1>3, <1>4, <1>5, <1>6

\* A row that another transaction holds is not written, and what is merged is
\* what is committed.
LEMMA SampleStored ==
    ASSUME Inv, Inv', SnapInv, NEW c \in Collectors, StoreSnapshot(c)
    PROVE  SnapInv'
<1> DEFINE w == work[c]
           p == Current(w)
           old == snap[p, Slot[w.read]]
           new == Sample(w.read, p)
           x == [w EXCEPT !.snaps[p] = Sampled(old, new), !.todo = @ \ {p}]
           y == AtNextPost(x)
           T == SnapType \cup {NoSnap}
<1> USE DEF SnapInv
<1>1. w.step = "snapshot" /\ WaitsFor(c) = {} /\ UNCHANGED <<snap, stored>>
  BY DEF StoreSnapshot, tables
<1>2. /\ w # NoWork /\ InOrderOf(w) /\ p \in w.todo /\ p \in Posts /\ w.read \in Ids
      /\ Usable(Reads[w.read]) /\ p \in PostsOf(w.read)
  BY <1>1, AtWork DEF InOrderOf
<1>3. \/ work' = [work EXCEPT ![c] = NoWork]
      \/ work' = [work EXCEPT ![c] = y] /\ (old = NoSnap \/ old.config = Reads[w.read].config)
  BY DEF StoreSnapshot, Sample, Sampled
<1>4. CASE work' = [work EXCEPT ![c] = NoWork]
  <2>1. \A d \in Collectors : work'[d] = NoWork \/ (work'[d] = work[d] /\ work[d] # NoWork)
    BY <1>4 DEF SnapShape
  <2> QED
    BY <1>1, <2>1, SamplersRest
<1>5. CASE work' = [work EXCEPT ![c] = y] /\ (old = NoSnap \/ old.config = Reads[w.read].config)
  <2>1. new \in SnapType /\ Slot[w.read] \in Slots
    BY <1>2, SampleIs
  <2>2. old \in T
    BY <1>2, <2>1 DEF SnapShape
  <2>3. Sampled(old, new) \in T
    BY <2>1, <2>2, SampledIs
  <2> HIDE DEF old, new
  <2>4. w \in Works(T) /\ work \in [Collectors -> Works(T)]
    BY DEF SnapShape
  <2> HIDE DEF T
  <2>5. /\ x \in Works(T) /\ x.read = w.read /\ x.todo = w.todo \ {p}
        /\ x.snaps = [w.snaps EXCEPT ![p] = Sampled(old, new)]
    BY <1>2, <2>3, <2>4 DEF Works
  <2> HIDE DEF x
  <2>6. y \in Works(T) /\ y.read = w.read /\ y.todo = w.todo \ {p} /\ y.snaps = x.snaps
    BY <2>5, AtNextPostIs
  <2> HIDE DEF y
  <2>7. work'[c] = y /\ \A d \in Collectors \ {c} : work'[d] = work[d]
    BY <1>5, <2>4
  <2>8. work' \in [Collectors -> Works(T)]
    BY <1>5, <2>4, <2>6
  <2>9. y.snaps[p] = Sampled(old, new) /\ \A q \in Posts \ {p} : y.snaps[q] = w.snaps[q]
    BY <1>2, <2>4, <2>5, <2>6 DEF Works
  <2>10. SnapShape'
    BY <1>1, <2>8 DEF SnapShape, T
  <2>11. \A d \in Collectors \ {c} : work[d].snaps[p] = NoSnap \/ Slot[work[d].read] # Slot[w.read]
    BY <1>1 DEF WaitsFor, SnapshotWriters, Others
  <2>12. OneSampler'
    <3> SUFFICES ASSUME NEW d \in Collectors \ {c}, NEW q \in Posts
                 PROVE  y.snaps[q] = NoSnap \/ work[d].snaps[q] = NoSnap \/ Slot[w.read] # Slot[work[d].read]
      BY <2>6, <2>7 DEF OneSampler
    <3>1. CASE q = p
      BY <2>11, <3>1
    <3>2. CASE q # p
      BY <2>9, <3>2 DEF OneSampler
    <3> QED
      BY <3>1, <3>2
  <2>13. SamplingOf(y, snap)
    <3> SUFFICES ASSUME NEW q \in Posts, Passed(y, q)
                 PROVE  /\ y.snaps[q] = Sampled(snap[q, Slot[w.read]], Sample(w.read, q))
                        /\ snap[q, Slot[w.read]] = NoSnap \/ snap[q, Slot[w.read]].config = Reads[w.read].config
      BY <2>6 DEF SamplingOf
    <3>1. CASE q = p
      BY <1>5, <2>9, <3>1 DEF old, new
    <3>2. CASE q # p
      <4>1. Passed(w, q)
        BY <2>6, <3>2 DEF Passed
      <4> QED
        BY <1>2, <2>9, <3>2, <4>1 DEF Sampling, SamplingOf
    <3> QED
      BY <3>1, <3>2
  <2>14. Sampling'
    BY <1>1, <2>7, <2>13 DEF Sampling
  <2>15. Recorded'
    BY <1>1 DEF Recorded, ReadsOf
  <2> QED
    BY <2>10, <2>12, <2>14, <2>15
<1> QED
  BY <1>3, <1>4, <1>5

\* A commit writes the summary of its slot's committed reads and its own.
LEMMA SamplesCommitted ==
    ASSUME Inv, Inv', SnapInv, NEW c \in Collectors, Commit(c)
    PROVE  SnapInv'
<1> DEFINE w == work[c]
           s0 == Slot[w.read]
           T == SnapType \cup {NoSnap}
<1> USE DEF SnapInv
<1>1. /\ w # NoWork /\ InOrderOf(w) /\ w.read \in Ids /\ Usable(Reads[w.read])
      /\ \A p : Passed(w, p) <=> p \in PostsOf(w.read)
      /\ stored' = stored \cup {w.read} /\ work' = [work EXCEPT ![c] = NoWork]
  BY CommitDoes DEF InOrderOf
<1>2. snap' = [k \in Posts \X Slots |->
                  IF k[2] = s0 /\ w.snaps[k[1]] # NoSnap THEN w.snaps[k[1]] ELSE snap[k]]
  BY DEF Commit
<1>3. w \in Works(T) /\ SamplingOf(w, snap) /\ snap \in [Posts \X Slots -> T] /\ w.snaps \in [Posts -> T]
  BY <1>1 DEF SnapShape, Sampling, Works
<1>4. \A p \in Posts, s \in Slots : snap'[p, s] = IF s = s0 /\ w.snaps[p] # NoSnap THEN w.snaps[p] ELSE snap[p, s]
  BY <1>2
<1>5. SnapShape'
  <2>1. snap' \in [Posts \X Slots -> T]
    <3>1. \A k \in Posts \X Slots : k[1] \in Posts
      OBVIOUS
    <3> HIDE DEF T
    <3> QED
      BY <1>2, <1>3, <3>1
  <2>2. work' \in [Collectors -> Works(T)]
    <3>1. NoWork \in Works(T)
      BY NoWorkTyped, WorksGrow
    <3> QED
      BY <1>1, <3>1 DEF SnapShape
  <2> QED
    BY <2>1, <2>2 DEF SnapShape
<1>6. work'[c] = NoWork /\ (\A d \in Collectors \ {c} : work'[d] = work[d])
      /\ (\A p \in Posts : NoWork.snaps[p] = NoSnap)
  BY <1>1 DEF SnapShape, NoWork
<1>7. OneSampler'
  BY <1>6 DEF OneSampler
<1> HIDE DEF T
<1>8. Sampling'
  <2> SUFFICES ASSUME NEW d \in Collectors \ {c}, work[d] # NoWork, NEW p \in Posts, Passed(work[d], p)
               PROVE  snap'[p, Slot[work[d].read]] = snap[p, Slot[work[d].read]]
    <3>1. ASSUME NEW d \in Collectors, work'[d] # NoWork PROVE SamplingOf(work'[d], snap')
      <4>1. d # c /\ work'[d] = work[d] /\ SamplingOf(work[d], snap)
        BY <1>6, <3>1 DEF Sampling
      <4> QED
        BY <4>1, <3>1 DEF SamplingOf
    <3> QED
      BY <3>1 DEF Sampling
  <2> DEFINE v == work[d]
             t == Slot[v.read]
  <2>1. v.read \in Ids /\ Usable(Reads[v.read]) /\ p \in PostsOf(v.read) /\ SamplingOf(v, snap)
    BY DEF Inv, InOrder, InOrderOf, Sampling, Passed
  <2>2. t \in Slots /\ Sample(v.read, p) \in SnapType
    BY <2>1, SampleIs
  <2>3. snap[p, t] \in SnapType \cup {NoSnap}
    BY <1>3, <2>2 DEF T
  <2>4. v.snaps[p] # NoSnap
    <3>1. v.snaps[p] = Sampled(snap[p, t], Sample(v.read, p))
      BY <2>1 DEF SamplingOf
    <3> HIDE DEF t, v
    <3> QED
      BY <2>2, <2>3, <3>1, SampledIs
  <2>5. w.snaps[p] = NoSnap \/ t # s0
    BY <2>4 DEF OneSampler
  <2> HIDE DEF t
  <2> QED
    BY <1>4, <2>2, <2>5 DEF t
<1>9. Recorded'
  <2> SUFFICES ASSUME NEW p \in Posts, NEW s \in Slots
               PROVE  IF ReadsOf(p, s)' = {} THEN snap'[p, s] = NoSnap ELSE SummaryOf(snap'[p, s], ReadsOf(p, s)', p)
    BY DEF Recorded
  <2>1. ReadsOf(p, s)' = ReadsOf(p, s) \cup (IF p \in PostsOf(w.read) /\ s = s0 THEN {w.read} ELSE {})
    BY <1>1 DEF ReadsOf
  <2>2. IF ReadsOf(p, s) = {} THEN snap[p, s] = NoSnap ELSE SummaryOf(snap[p, s], ReadsOf(p, s), p)
    BY DEF Recorded
  <2>3. CASE ~(p \in PostsOf(w.read) /\ s = s0)
    <3>1. w.snaps[p] # NoSnap => p \in PostsOf(w.read)
      BY <1>1 DEF InOrderOf
    <3>2. snap'[p, s] = snap[p, s] /\ ReadsOf(p, s)' = ReadsOf(p, s)
      BY <1>4, <2>1, <2>3, <3>1
    <3> QED
      BY <2>2, <3>2
  <2>4. CASE p \in PostsOf(w.read) /\ s = s0
    <3> DEFINE old == snap[p, s]
               new == Sample(w.read, p)
               row == Sampled(old, new)
    <3>1. /\ new \in SnapType /\ new.config = Reads[w.read].config /\ new.seen = Reads[w.read].observed
          /\ \A i \in ItemsOf(w.read, p) : i.views \in Nat /\ i.views <= new.views
          /\ \E i \in ItemsOf(w.read, p) : new.views = i.views
      BY <1>1, <2>4, SampleIs
    <3>2. w.snaps[p] = row /\ (old = NoSnap \/ old.config = Reads[w.read].config)
      BY <1>1, <1>3, <2>4 DEF SamplingOf
    <3>3. old \in SnapType \cup {NoSnap}
      BY <1>3 DEF T
    <3> HIDE DEF old, new, row
    <3>4. /\ row \in SnapType /\ row # NoSnap
          /\ old = NoSnap => row = new
          /\ old # NoSnap =>
                /\ old \in SnapType /\ row.config = old.config
                /\ row.views = (IF old.views <= new.views THEN new.views ELSE old.views)
                /\ row.seen = (IF old.seen <= new.seen THEN new.seen ELSE old.seen)
      BY <3>1, <3>3, SampledIs DEF row
    <3>5. snap'[p, s] = row /\ ReadsOf(p, s)' = ReadsOf(p, s) \cup {w.read}
      BY <1>4, <2>1, <2>4, <3>2, <3>4
    <3>6. SummaryOf(row, ReadsOf(p, s) \cup {w.read}, p)
      <4>1. CASE old = NoSnap
        <5>1. ReadsOf(p, s) = {}
          <6>1. ASSUME SummaryOf(NoSnap, ReadsOf(p, s), p) PROVE FALSE
            BY <6>1, ReadsAssumption DEF SummaryOf, SnapType, NoSnap, Ids
          <6> QED
            BY <2>2, <4>1, <6>1 DEF old
        <5>2. row = new /\ new.seen \in Nat
          BY <3>1, <3>4, <4>1 DEF SnapType
        <5> QED
          BY <3>1, <5>1, <5>2 DEF SummaryOf
      <4>2. CASE old # NoSnap
        <5>1. SummaryOf(old, ReadsOf(p, s), p)
          BY <2>2, <4>2 DEF old
        <5>2. old.views \in Nat /\ old.seen \in Nat /\ new.views \in Nat /\ new.seen \in Nat
          BY <3>1, <3>4, <4>2 DEF SnapType
        <5>3. row.views >= old.views /\ row.views >= new.views /\ row.seen >= old.seen /\ row.seen >= new.seen
              /\ row.views \in Nat /\ row.seen \in Nat
          BY <3>4, <4>2, <5>2
        <5>4. \A r \in ReadsOf(p, s) \cup {w.read} : Reads[r].config = row.config /\ Reads[r].observed <= row.seen
          <6>1. \A r \in ReadsOf(p, s) : Reads[r].config = row.config /\ Reads[r].observed <= row.seen
            <7>1. \A r \in ReadsOf(p, s) : Reads[r].observed \in Nat
              BY ReadsAssumption DEF ReadsOf, Inv, Shape, Ids
            <7> QED
              BY <3>4, <4>2, <5>1, <5>2, <5>3, <7>1 DEF SummaryOf
          <6>2. Reads[w.read].config = row.config /\ Reads[w.read].observed <= row.seen
            BY <3>1, <3>2, <3>4, <4>2, <5>3
          <6> QED
            BY <6>1, <6>2
        <5>5. \A r \in ReadsOf(p, s) \cup {w.read} : \A i \in ItemsOf(r, p) : i.views <= row.views
          <6>1. ASSUME NEW r \in ReadsOf(p, s), NEW i \in ItemsOf(r, p) PROVE i.views <= row.views
            <7>1. r \in Ids /\ Usable(Reads[r]) /\ p \in PostsOf(r)
              BY DEF ReadsOf, Inv, Shape
            <7>2. i.views \in Nat /\ i.views <= old.views
              BY <5>1, <7>1, SampleIs DEF SummaryOf
            <7> QED
              BY <5>2, <5>3, <7>2
          <6>2. ASSUME NEW i \in ItemsOf(w.read, p) PROVE i.views <= row.views
            BY <3>1, <5>2, <5>3
          <6> QED
            BY <6>1, <6>2
        <5>6. \E r \in ReadsOf(p, s) \cup {w.read} : row.seen = Reads[r].observed
          BY <3>1, <3>4, <4>2, <5>1 DEF SummaryOf
        <5>7. \E r \in ReadsOf(p, s) \cup {w.read} : \E i \in ItemsOf(r, p) : row.views = i.views
          BY <3>1, <3>4, <4>2, <5>1 DEF SummaryOf
        <5> QED
          BY <3>4, <5>4, <5>5, <5>6, <5>7 DEF SummaryOf
      <4> QED
        BY <4>1, <4>2
    <3> QED
      BY <3>5, <3>6
  <2> QED
    BY <2>3, <2>4
<1> QED
  BY <1>5, <1>7, <1>8, <1>9

LEMMA SampledInit == Init => SnapInv
<1> SUFFICES ASSUME Init PROVE SnapInv
  OBVIOUS
<1>1. \A c \in Collectors : work[c] = NoWork
  BY DEF Init
<1>2. SnapShape
  <2>1. work \in [Collectors -> Works({NoSnap})]
    BY NoWorkTyped DEF Init
  <2>2. work \in [Collectors -> Works(SnapType \cup {NoSnap})]
    BY <2>1, WorksGrow
  <2> QED
    BY <2>2 DEF Init, SnapShape
<1>3. OneSampler /\ Sampling
  <2>1. \A p \in Posts : NoWork.snaps[p] = NoSnap
    BY DEF NoWork
  <2> QED
    BY <1>1, <2>1 DEF OneSampler, Sampling
<1>4. Recorded
  BY DEF Init, Recorded, ReadsOf
<1> QED
  BY <1>2, <1>3, <1>4 DEF SnapInv

LEMMA SampledStep == Inv /\ Inv' /\ SnapInv /\ [Next]_vars => SnapInv'
<1> SUFFICES ASSUME Inv, Inv', SnapInv, [Next]_vars PROVE SnapInv'
  OBVIOUS
<1>1. ASSUME NEW c \in Collectors, NEW r \in Ids, Begin(c, r) PROVE SnapInv'
  <2> DEFINE w == [NoWork EXCEPT !.read = r, !.todo = PostsOf(r), !.newBoard = ~board]
             x == AtNextPost(w)
  <2>1. Usable(Reads[r]) /\ work' = [work EXCEPT ![c] = x] /\ UNCHANGED <<snap, stored>>
    BY <1>1 DEF Begin
  <2>2. PostsOf(r) \subseteq Posts
    BY <2>1, BatchIsRead
  <2>3. w \in Works({NoSnap}) /\ w.snaps = NoWork.snaps /\ w.read = r /\ w.todo = PostsOf(r)
    BY <2>2 DEF NoWork, Works, Steps
  <2> HIDE DEF w
  <2>4. x.snaps = NoWork.snaps /\ x.read = r /\ x.todo = PostsOf(r)
    BY <2>3, AtNextPostIs
  <2> HIDE DEF x
  <2>5. \A p \in Posts : ~Passed(x, p)
    BY <2>4 DEF Passed
  <2>6. work'[c] = x /\ \A d \in Collectors \ {c} : work'[d] = work[d]
    BY <2>1 DEF SnapInv, SnapShape
  <2>7. \A d \in Collectors :
           \/ work'[d] = NoWork
           \/ /\ work[d] # NoWork /\ work'[d].read = work[d].read
              /\ work'[d].todo = work[d].todo /\ work'[d].snaps = work[d].snaps
           \/ work'[d].snaps = NoWork.snaps /\ \A p \in Posts : ~Passed(work'[d], p)
    BY <2>4, <2>5, <2>6
  <2> QED
    BY <2>1, <2>7, SamplersRest
<1>2. ASSUME NEW c \in Collectors, StoreTitles(c) \/ StorePost(c) PROVE SnapInv'
  <2>1. work[c].step \in {"titles", "post"} /\ UNCHANGED <<snap, stored>>
    BY <1>2 DEF StoreTitles, StorePost, tables
  <2>2. work[c] # NoWork
    BY <2>1 DEF NoWork
  <2>3. \A d \in Collectors : /\ work'[d].read = work[d].read /\ work'[d].todo = work[d].todo
                              /\ work'[d].snaps = work[d].snaps /\ (work[d] = NoWork => work'[d] = work[d])
    <3>1. work \in [Collectors -> Works(SnapType \cup {NoSnap})]
      BY DEF SnapInv, SnapShape
    <3> HIDE DEF SnapInv
    <3>2. CASE StoreTitles(c)
      BY <2>2, <3>1, <3>2 DEF StoreTitles, Works
    <3>3. CASE StorePost(c)
      BY <2>2, <3>1, <3>3 DEF StorePost, Works
    <3> QED
      BY <1>2, <3>2, <3>3
  <2> QED
    BY <2>1, <2>3, SamplersRest
<1>3. ASSUME NEW c \in Collectors, Die(c) PROVE SnapInv'
  <2>1. UNCHANGED <<snap, stored>> /\ \A d \in Collectors : work'[d] = NoWork \/ work'[d] = work[d]
    BY <1>3 DEF Die, tables, SnapInv, SnapShape
  <2>2. \A d \in Collectors : work'[d] = NoWork \/ (work[d] # NoWork /\ work'[d] = work[d])
    BY <2>1
  <2> QED
    BY <2>1, <2>2, SamplersRest
<1>4. CASE UNCHANGED <<snap, stored, work>>
  BY <1>4 DEF SnapInv, SnapShape, OneSampler, Sampling, Recorded, ReadsOf
<1> QED
  BY <1>1, <1>2, <1>3, <1>4, SampleStored, SamplesCommitted DEF Next, vars, tables, Collect, EndReview, Confirm,
     AbortReview, TakeReview, PublishRanking, AbortRanking, ReadRanking

LEMMA SampledInvariance == Spec => []SnapInv
<1>1. Inv /\ SnapInv /\ [Next]_vars => SnapInv'
  BY StepInv, SampledStep
<1> QED
  BY <1>1, SampledInit, Invariance, PTL DEF Spec

\* Whatever the order of the transactions, a slot's row is the summary of the
\* reads that began in its interval.  The hypothesis: collect_board_slot is
\* given no slot but those of align_kst_slot.
THEOREM SnapshotsConverge ==
    ASSUME Slots \subseteq {align_kst_slot(t) : t \in Nat}
    PROVE  Spec => []SnapshotConverges
<1>1. \A s \in Slots : s \in Int /\ IsTrigger(s)
  BY Aligned
<1>2. Inv /\ SnapInv => SnapshotConverges
  <2> SUFFICES ASSUME Inv, SnapInv PROVE SnapshotConverges
    OBVIOUS
  <2> SUFFICES ASSUME NEW p \in Posts, NEW s \in Slots
               PROVE  LET reads == {r \in stored : p \in PostsOf(r) /\ Reads[r].start \in s..(s + Interval * 60 - 1)}
                      IN  IF reads = {} THEN snap[p, s] = NoSnap
                          ELSE /\ IsTrigger(s)
                               /\ \A r \in reads : Reads[r].config = snap[p, s].config
                               /\ snap[p, s].views = Max({i.views : i \in UNION {ItemsOf(r, p) : r \in reads}})
                               /\ snap[p, s].seen = Max({Reads[r].observed : r \in reads})
    BY DEF SnapshotConverges
  <2> DEFINE reads == {r \in stored : p \in PostsOf(r) /\ Reads[r].start \in s..(s + Interval * 60 - 1)}
             row == snap[p, s]
             views == {i.views : i \in UNION {ItemsOf(r, p) : r \in reads}}
             seen == {Reads[r].observed : r \in reads}
  <2>1. \A r \in stored : r \in Ids /\ Usable(Reads[r])
    BY DEF Inv, Shape
  <2>2. reads = ReadsOf(p, s)
    <3>1. ASSUME NEW r \in stored PROVE Reads[r].start \in s..(s + Interval * 60 - 1) <=> Slot[r] = s
      <4>1. Reads[r].start \in Nat /\ Slot[r] = align_kst_slot(Reads[r].start)
        BY <2>1, ReadsAssumption DEF Slot, SlotOf, Ids
      <4>2. s \in Int /\ IsTrigger(s)
        BY <1>1
      <4> QED
        BY <4>1, <4>2, SlotOfTime
    <3> QED
      BY <3>1 DEF ReadsOf
  <2>3. IF ReadsOf(p, s) = {} THEN row = NoSnap ELSE SummaryOf(row, ReadsOf(p, s), p)
    BY DEF SnapInv, Recorded
  <2> HIDE DEF reads, row
  <2>4. CASE reads = {}
    BY <2>2, <2>3, <2>4 DEF reads, row
  <2>5. CASE reads # {}
    <3>1. SummaryOf(row, reads, p) /\ row.views \in Nat /\ row.seen \in Nat
      BY <2>2, <2>3, <2>5 DEF SummaryOf, SnapType
    <3>2. \A r \in reads : r \in Ids /\ Usable(Reads[r]) /\ p \in PostsOf(r)
      BY <2>1 DEF reads
    <3>3. row.views = Max(views)
      <4>1. \A r \in reads : \A i \in ItemsOf(r, p) : i.views \in Nat
        BY <3>2, SampleIs
      <4>2. views \in SUBSET Nat /\ row.views \in views /\ \A v \in views : v <= row.views
        BY <3>1, <4>1 DEF SummaryOf
      <4> HIDE DEF views
      <4> QED
        BY <4>2, MaxIs
    <3>4. row.seen = Max(seen)
      <4>1. seen \in SUBSET Nat /\ row.seen \in seen /\ \A t \in seen : t <= row.seen
        BY <3>1, <3>2, ReadsAssumption DEF SummaryOf, Ids
      <4> HIDE DEF seen
      <4> QED
        BY <4>1, MaxIs
    <3> QED
      BY <1>1, <2>5, <3>1, <3>3, <3>4 DEF SummaryOf, reads, row
  <2> QED
    BY <2>4, <2>5
<1> QED
  BY <1>2, Invariance, SampledInvariance, PTL
-----------------------------------------------------------------------------
(* Types *)

\* A committed read was begun, as was that of a transaction.
InUse ==
    /\ stored \subseteq used /\ used \subseteq Ids
    /\ \A c \in Collectors : work[c] = NoWork \/ work[c].read \in used

\* The posts on file are finitely many: their ranks are numbers.
FewPosts == IsFiniteSet({p \in Posts : post[p] # NoRow})

Queues ==
    /\ board \in BOOLEAN /\ items \subseteq Titled /\ details \subseteq Posts
    /\ ranking \in [Ranked -> SUBSET RankRow]
    /\ rank \in [slot : Ranked, rows : SUBSET RankRow] \cup {NoRank}

LEMMA FewPostsRead ==
    ASSUME NEW r \in Ids, Usable(Reads[r])
    PROVE  IsFiniteSet(PostsOf(r))
<1> DEFINE items0 == Batch(r)
           f == [i \in items0 |-> i.post]
<1>1. IsFiniteSet(items0) /\ PostsOf(r) = {i.post : i \in items0}
  BY BatchIsRead DEF PostsOf
<1>2. f \in Surjection(items0, PostsOf(r))
  BY <1>1 DEF Surjection
<1> HIDE DEF f, items0
<1> QED
  BY <1>1, <1>2, FS_Surjection

LEMMA InUseStep == Inv /\ InUse /\ [Next]_vars => InUse'
<1> SUFFICES ASSUME Inv, InUse, [Next]_vars PROVE InUse'
  OBVIOUS
<1> USE DEF InUse
<1>1. PICK S : work \in [Collectors -> Works(S)]
  BY DEF Inv, Shape
<1>2. ASSUME NEW c \in Collectors, NEW r \in Ids, Begin(c, r) PROVE InUse'
  <2> DEFINE w == [NoWork EXCEPT !.read = r, !.todo = PostsOf(r), !.newBoard = ~board]
  <2>1. /\ work' = [work EXCEPT ![c] = AtNextPost(w)] /\ used' = used \cup {r} /\ stored' = stored
        /\ Usable(Reads[r])
    BY <1>2 DEF Begin
  <2>2. PostsOf(r) \subseteq Posts
    BY <2>1, BatchIsRead
  <2>3. w \in Works({NoSnap}) /\ w.read = r
    BY <2>2 DEF NoWork, Works, Steps
  <2> HIDE DEF w
  <2>4. AtNextPost(w).read = r
    BY <2>3, AtNextPostIs
  <2> QED
    BY <1>1, <2>1, <2>4
<1>3. ASSUME NEW c \in Collectors, UNCHANGED <<stored, used>>, work[c] # NoWork,
             work'[c] = NoWork \/ work'[c].read = work[c].read,
             \A d \in Collectors \ {c} : work'[d] = work[d]
      PROVE  InUse'
  BY <1>3
<1>4. ASSUME NEW c \in Collectors, StoreTitles(c) \/ StorePost(c) PROVE InUse'
  <2>1. work[c].step \in {"titles", "post"} /\ UNCHANGED <<stored, used>>
    BY <1>4 DEF StoreTitles, StorePost
  <2>2. work[c] # NoWork
    BY <2>1 DEF NoWork
  <2>3. work'[c].read = work[c].read /\ \A d \in Collectors \ {c} : work'[d] = work[d]
    <3>1. CASE StoreTitles(c)
      BY <1>1, <3>1 DEF StoreTitles, Works
    <3>2. CASE StorePost(c)
      BY <1>1, <3>2 DEF StorePost, Works
    <3> QED
      BY <1>4, <3>1, <3>2
  <2> QED
    BY <1>3, <2>1, <2>2, <2>3
<1>5. ASSUME NEW c \in Collectors, StoreSnapshot(c) PROVE InUse'
  <2> DEFINE w == work[c]
             p == Current(w)
             old == snap[p, Slot[w.read]]
             new == Sample(w.read, p)
             x == [w EXCEPT !.snaps[p] = Sampled(old, new), !.todo = @ \ {p}]
             T == S \cup {Sampled(old, new)}
  <2>1. w.step = "snapshot" /\ UNCHANGED <<stored, used>> /\ w # NoWork /\ p \in Posts
    <3>1. w.step = "snapshot" /\ UNCHANGED <<stored, used>>
      BY <1>5 DEF StoreSnapshot
    <3> QED
      BY <3>1, AtWork
  <2>2. work' = [work EXCEPT ![c] = NoWork] \/ work' = [work EXCEPT ![c] = AtNextPost(x)]
    BY <1>5 DEF StoreSnapshot, Sample, Sampled
  <2> HIDE DEF old, new
  <2>3. w \in Works(T)
    BY <1>1, WorksGrow
  <2>4. x \in Works(T) /\ x.read = w.read
    BY <2>1, <2>3 DEF Works
  <2> HIDE DEF x
  <2>5. AtNextPost(x).read = w.read
    BY <2>4, AtNextPostIs
  <2>6. /\ work'[c] = NoWork \/ work'[c].read = work[c].read
        /\ \A d \in Collectors \ {c} : work'[d] = work[d]
    BY <1>1, <2>2, <2>5
  <2> QED
    BY <1>3, <2>1, <2>6
<1>6. ASSUME NEW c \in Collectors, Commit(c) PROVE InUse'
  <2>1. work[c] # NoWork /\ stored' = stored \cup {work[c].read} /\ work' = [work EXCEPT ![c] = NoWork]
    BY <1>6, CommitDoes
  <2>2. used' = used
    BY <1>6 DEF Commit
  <2> QED
    BY <1>1, <2>1, <2>2
<1>7. ASSUME NEW c \in Collectors, Die(c) PROVE InUse'
  BY <1>1, <1>7 DEF Die
<1>8. CASE UNCHANGED <<stored, used, work>>
  BY <1>8
<1> QED
  BY <1>2, <1>4, <1>5, <1>6, <1>7, <1>8 DEF Next, vars, Collect, EndReview, Confirm,
     AbortReview, TakeReview, PublishRanking, AbortRanking, ReadRanking

LEMMA FewPostsStep == Inv /\ FewPosts /\ [Next]_vars => FewPosts'
<1> SUFFICES ASSUME Inv, FewPosts, [Next]_vars PROVE FewPosts'
  OBVIOUS
<1>1. ASSUME NEW c \in Collectors, Commit(c) PROVE FewPosts'
  <2> DEFINE w == work[c]
             old == {p \in Posts : post[p] # NoRow}
             new == {p \in Posts : post'[p] # NoRow}
  <2>1. /\ InOrderOf(w) /\ \A p : DidPost(w, p) <=> p \in PostsOf(w.read)
        /\ \A p \in Posts : post'[p] = IF w.posts[p] # NoRow THEN w.posts[p] ELSE post[p]
    BY <1>1, CommitDoes
  <2>2. new \in SUBSET (old \cup PostsOf(w.read))
    BY <2>1 DEF InOrderOf
  <2>3. IsFiniteSet(old) /\ IsFiniteSet(PostsOf(w.read))
    BY <2>1, FewPostsRead DEF FewPosts, InOrderOf
  <2> HIDE DEF old, new
  <2>4. IsFiniteSet(new)
    BY <2>2, <2>3, FS_Union, FS_Subset
  <2> QED
    BY <2>4 DEF FewPosts, new
<1>2. CASE UNCHANGED post
  BY <1>2 DEF FewPosts
<1> QED
  BY <1>1, <1>2, OnlyCommitStores

\* The ranks of a ranking are numbers up to TopN.
LEMMA RanksTyped ==
    ASSUME FewPosts, NEW s \in Ranked
    PROVE  TopRows(s) \subseteq RankRow
<1> SUFFICES ASSUME NEW p \in Eligible(s), RankOf(p, s) <= TopN
             PROVE  [post |-> p, rank |-> RankOf(p, s)] \in RankRow
  BY DEF TopRows
<1> DEFINE better == {q \in Eligible(s) : Above(q, p, s)}
           filed == {q \in Posts : post[q] # NoRow}
<1>1. better \in SUBSET filed
  BY DEF Eligible
<1>2. IsFiniteSet(filed)
  BY DEF FewPosts
<1>3. Cardinality(better) \in Nat
  <2> HIDE DEF better, filed
  <2> QED
    BY <1>1, <1>2, FS_Subset, FS_CardinalityType
<1>4. RankOf(p, s) = 1 + Cardinality(better) /\ p \in Posts
  BY DEF RankOf, Eligible
<1> HIDE DEF better
<1> QED
  BY <1>3, <1>4, RankingAssumption DEF RankRow

LEMMA QueuesStep == Inv /\ FewPosts /\ Queues /\ [Next]_vars => Queues'
<1> SUFFICES ASSUME Inv, FewPosts, Queues, [Next]_vars PROVE Queues'
  OBVIOUS
<1> USE DEF Queues
<1>1. ASSUME NEW c \in Collectors, Commit(c) PROVE Queues'
  BY <1>1 DEF Commit
<1>2. ASSUME NEW v \in Reviewers, EndReview(v) PROVE Queues'
  <2>1. review[v].key \in Titled
    BY <1>2 DEF EndReview, Inv, Shape
  <2> QED
    BY <1>2, <2>1 DEF EndReview
<1>3. CASE PublishRanking
  <2>1. rank.slot \in Ranked /\ rank.rows \subseteq RankRow
    BY <1>3 DEF PublishRanking
  <2>2. NewDetails(rank.slot, rank.rows) \subseteq Posts
    BY <2>1 DEF NewDetails, RankRow
  <2> QED
    BY <1>3, <2>1, <2>2 DEF PublishRanking, tables
<1>4. ASSUME NEW s \in Ranked, ReadRanking(s) PROVE Queues'
  BY <1>4, RanksTyped DEF ReadRanking, tables
<1>5. CASE AbortRanking
  BY <1>5 DEF AbortRanking, tables
<1>6. CASE UNCHANGED <<board, items, details, ranking, rank>>
  BY <1>6
<1> QED
  BY <1>1, <1>2, <1>3, <1>4, <1>5, <1>6 DEF Next, vars, tables, Collect, StoreTitles, StorePost, StoreSnapshot,
     Die, Begin, Confirm, AbortReview, TakeReview

\* The tables, the transactions and the queues hold rows of their columns' types.
THEOREM TypeCorrect == Spec => []TypeOK
<1>1. Init => InUse /\ FewPosts /\ Queues
  <2> SUFFICES ASSUME Init PROVE InUse /\ FewPosts /\ Queues
    OBVIOUS
  <2>1. InUse /\ Queues
    BY DEF Init, InUse, Queues
  <2>2. {p \in Posts : post[p] # NoRow} = {}
    BY DEF Init
  <2> QED
    BY <2>1, <2>2, FS_EmptySet DEF FewPosts
<1>2. Inv /\ (InUse /\ FewPosts /\ Queues) /\ [Next]_vars => (InUse /\ FewPosts /\ Queues)'
  BY InUseStep, FewPostsStep, QueuesStep
<1>3. Inv /\ SnapInv /\ (InUse /\ FewPosts /\ Queues) => TypeOK
  BY DEF Inv, Shape, SnapInv, SnapShape, InUse, Queues, TypeOK, Works
<1> QED
  BY <1>1, <1>2, <1>3, Invariance, SampledInvariance, PTL DEF Spec
-----------------------------------------------------------------------------
(* The calendar *)

LEMMA YearLength ==
    ASSUME NEW y \in Int
    PROVE  /\ DaysBefore(y) \in Int
           /\ DaysBefore(y + 1) = DaysBefore(y) + (IF Leap(y) THEN 366 ELSE 365)
<1> DEFINE x == y - 1
<1>1. y \div 4 = x \div 4 + (IF y % 4 = 0 THEN 1 ELSE 0)
  BY SMT
<1>2. y \div 100 = x \div 100 + (IF y % 100 = 0 THEN 1 ELSE 0)
  BY SMT
<1>3. y \div 400 = x \div 400 + (IF y % 400 = 0 THEN 1 ELSE 0)
  BY SMT
<1>4. (y % 100 = 0 => y % 4 = 0) /\ (y % 400 = 0 => y % 100 = 0)
  BY SMT
<1>5. (y + 1) - 1 = y /\ x \div 4 \in Int /\ x \div 100 \in Int /\ x \div 400 \in Int
  BY SMT
<1>6. DaysBefore(y) = 365 * x + x \div 4 - x \div 100 + x \div 400
  BY DEF DaysBefore
<1>7. DaysBefore(y + 1) = 365 * y + y \div 4 - y \div 100 + y \div 400
  BY <1>5 DEF DaysBefore
<1> QED
  BY <1>1, <1>2, <1>3, <1>4, <1>5, <1>6, <1>7 DEF Leap

LEMMA YearsApart ==
    ASSUME NEW x \in Int, NEW y \in Int, x <= y
    PROVE  DaysBefore(x) + 364 * (y - x) <= DaysBefore(y)
<1> DEFINE a == x - 1
           b == y - 1
<1>1. a \in Int /\ b \in Int /\ a <= b /\ b - a = y - x
  OBVIOUS
<1> HIDE DEF a, b
<1>2. a \div 4 <= b \div 4 /\ a \div 400 <= b \div 400 /\ 100 * (b \div 100 - a \div 100) <= b - a + 99
  BY <1>1, SMT
<1>3. a \div 4 \in Int /\ b \div 4 \in Int /\ a \div 100 \in Int /\ b \div 100 \in Int
      /\ a \div 400 \in Int /\ b \div 400 \in Int
  BY <1>1, SMT
<1>4. a # b => b - a >= 1
  BY <1>1
<1>5. 365 * a + a \div 4 - a \div 100 + a \div 400 + 364 * (b - a) <= 365 * b + b \div 4 - b \div 100 + b \div 400
  BY <1>1, <1>2, <1>3, <1>4, SMT
<1> QED
  BY <1>1, <1>5 DEF DaysBefore, a, b

\* A day has the one year that it is in.
LEMMA YearIs ==
    ASSUME NEW d \in Nat
    PROVE  /\ YearOf(d) \in Int
           /\ DaysBefore(YearOf(d)) <= d /\ d < DaysBefore(YearOf(d) + 1)
<1> DEFINE lo == d \div 366
           hi == d \div 365 + 1
           before == {y \in lo..hi : DaysBefore(y) <= d}
<1>1. lo \in Nat /\ hi \in Nat /\ lo <= hi /\ 366 * lo <= d /\ d < 365 * hi
  BY SMT
<1> HIDE DEF lo, hi
<1>2. DaysBefore(lo) <= d
  <2>1. 365 * (lo - 1) + (lo - 1) \div 4 - (lo - 1) \div 100 + (lo - 1) \div 400 <= 366 * lo
    BY <1>1, SMT
  <2> QED
    BY <1>1, <2>1 DEF DaysBefore
<1>3. d < DaysBefore(hi + 1)
  <2>1. 365 * hi <= 365 * hi + hi \div 4 - hi \div 100 + hi \div 400
    BY <1>1, SMT
  <2>2. (hi + 1) - 1 = hi
    BY <1>1
  <2> QED
    BY <1>1, <2>1, <2>2 DEF DaysBefore
<1>4. before \in SUBSET Nat /\ lo \in before /\ IsFiniteSet(before)
  <2>1. IsFiniteSet(lo..hi)
    BY <1>1, FS_Interval
  <2> QED
    BY <1>1, <1>2, <2>1, FS_Subset
<1>5. PICK y \in before : \A z \in before : z <= y
  <2> HIDE DEF before
  <2> QED
    BY <1>4, MaxOfFinite
<1>6. y \in lo..hi /\ DaysBefore(y) <= d /\ d < DaysBefore(y + 1)
  <2>1. y \in lo..hi /\ DaysBefore(y) <= d
    OBVIOUS
  <2>2. y # hi => y + 1 \in lo..hi
    BY <1>1, <2>1
  <2>3. y + 1 \notin before
    BY <1>1, <1>5, <2>1
  <2>4. y \in Int /\ DaysBefore(y + 1) \in Int
    BY <1>1, <2>1, YearLength
  <2> QED
    BY <1>3, <2>1, <2>2, <2>3, <2>4
<1>7. YearOf(d) = CHOOSE z \in lo..hi : d \in DaysBefore(z)..(DaysBefore(z + 1) - 1)
  BY DEF YearOf, lo, hi
<1>8. \A z \in lo..hi : z \in Int /\ DaysBefore(z) \in Int /\ DaysBefore(z + 1) \in Int
  BY <1>1, YearLength
<1>9. \A z \in lo..hi : d \in DaysBefore(z)..(DaysBefore(z + 1) - 1) <=> DaysBefore(z) <= d /\ d < DaysBefore(z + 1)
  BY <1>8
<1> HIDE DEF before
<1>10. YearOf(d) \in lo..hi /\ d \in DaysBefore(YearOf(d))..(DaysBefore(YearOf(d) + 1) - 1)
  BY <1>6, <1>7, <1>9
<1> QED
  BY <1>8, <1>9, <1>10

\* A day is its month and day in its year.
LEMMA DayIs ==
    ASSUME NEW d \in Nat
    PROVE  /\ MonthDayOf(d) \in 1..366 /\ HasDay(YearOf(d), MonthDayOf(d))
           /\ DayIn(YearOf(d), MonthDayOf(d)) = d
<1> DEFINE Y == YearOf(d)
           md == d - DaysBefore(Y) + 1
           b == DaysBefore(Y)
<1>1. Y \in Int /\ b \in Int /\ b <= d /\ d < b + (IF Leap(Y) THEN 366 ELSE 365)
  BY YearIs, YearLength
<1>2. MonthDayOf(d) = IF Leap(Y) \/ md < 60 THEN md ELSE md + 1
  BY DEF MonthDayOf, LeapDay
<1>3. DayIn(Y, MonthDayOf(d)) = b + MonthDayOf(d) - (IF Leap(Y) \/ MonthDayOf(d) < 60 THEN 1 ELSE 2)
  BY DEF DayIn, LeapDay
<1>4. md = d - b + 1
  OBVIOUS
<1> HIDE DEF Y, b, md
<1>5. MonthDayOf(d) \in 1..366 /\ (Leap(Y) \/ MonthDayOf(d) # 60)
  BY <1>1, <1>2, <1>4
<1>6. DayIn(Y, MonthDayOf(d)) = d
  BY <1>1, <1>2, <1>3, <1>4
<1> QED
  BY <1>5, <1>6 DEF HasDay, LeapDay, Y

\* A month and day comes once in a year.
LEMMA DatesApart ==
    ASSUME NEW y \in Int, NEW z \in Int, NEW md \in 1..366, y < z
    PROVE  DayIn(y, md) \in Int /\ DayIn(z, md) \in Int /\ DayIn(y, md) + 365 <= DayIn(z, md)
<1> DEFINE b == DaysBefore(y)
           c == DaysBefore(z)
<1>1. b \in Int /\ c \in Int /\ DaysBefore(y + 1) = b + (IF Leap(y) THEN 366 ELSE 365)
  BY YearLength
<1>2. DaysBefore(y + 1) + 364 * (z - (y + 1)) <= c
  BY YearsApart
<1>3. DayIn(y, md) = b + md - (IF Leap(y) \/ md < 60 THEN 1 ELSE 2)
      /\ DayIn(z, md) = c + md - (IF Leap(z) \/ md < 60 THEN 1 ELSE 2)
  BY DEF DayIn, LeapDay
<1> HIDE DEF b, c
<1>4. b + (IF Leap(y) THEN 366 ELSE 365) + 364 * (z - (y + 1)) <= c
  BY <1>1, <1>2
<1>5. z = y + 1 \/ 364 * (z - (y + 1)) >= 364
  OBVIOUS
<1> QED
  BY <1>1, <1>3, <1>4, <1>5

\* Less than a year later, a month and day means the day that it was taken from.
LEMMA LatestDate ==
    ASSUME NEW d \in Nat, NEW at \in Nat, d <= DayOf(at), DayOf(at) < d + 365
    PROVE  Parsable([form |-> "MM-DD", value |-> MonthDayOf(d)], at)
           /\ Max(DatesOf(MonthDayOf(d), at)) = d
<1> DEFINE e == DayOf(at)
           md == MonthDayOf(d)
           Y == YearOf(d)
           year == YearOf(e)
           years == {y \in (year - 8)..year : HasDay(y, md) /\ DayIn(y, md) <= e}
<1>1. e \in Nat /\ d <= e /\ e < d + 365
  BY SMT DEF DayOf, Day
<1> HIDE DEF e
<1>2. Y \in Int /\ DaysBefore(Y) \in Int /\ DaysBefore(Y) <= d /\ d < DaysBefore(Y + 1)
  BY YearIs, YearLength
<1>3. year \in Int /\ DaysBefore(year) \in Int /\ DaysBefore(year) <= e /\ e < DaysBefore(year + 1)
  BY <1>1, YearIs, YearLength
<1>4. md \in 1..366 /\ HasDay(Y, md) /\ DayIn(Y, md) = d
  BY DayIs
<1>5. DatesOf(md, at) = {DayIn(y, md) : y \in years}
  BY DEF DatesOf, e
<1> HIDE DEF Y, year, md
<1>6. DaysBefore(Y + 1) \in Int /\ DaysBefore(year + 1) \in Int
  BY <1>2, <1>3, YearLength
<1>7. Y <= year
  <2> SUFFICES ASSUME year + 1 <= Y PROVE FALSE
    BY <1>2, <1>3
  <2>1. DaysBefore(year + 1) + 364 * (Y - (year + 1)) <= DaysBefore(Y)
    BY <1>2, <1>3, YearsApart
  <2> QED
    BY <1>1, <1>2, <1>3, <1>6, <2>1
<1>8. year <= Y + 8
  <2> SUFFICES ASSUME Y + 3 <= year PROVE FALSE
    BY <1>2, <1>3
  <2>1. DaysBefore(Y + 1) + 364 * (year - (Y + 1)) <= DaysBefore(year)
    BY <1>2, <1>3, YearsApart
  <2>2. 364 * (year - (Y + 1)) >= 728
    BY <1>2, <1>3
  <2> QED
    BY <1>1, <1>2, <1>3, <1>6, <2>1, <2>2
<1>9. Y \in years
  BY <1>1, <1>2, <1>3, <1>4, <1>7, <1>8
<1>10. ASSUME NEW y \in years PROVE DayIn(y, md) \in Int /\ DayIn(y, md) <= d
  <2>1. y \in Int /\ DayIn(y, md) <= e
    BY <1>3
  <2>2. CASE y = Y
    BY <1>4, <2>2
  <2>3. CASE y < Y
    <3>1. DayIn(y, md) \in Int /\ DayIn(y, md) + 365 <= DayIn(Y, md)
      BY <1>2, <1>4, <2>1, <2>3, DatesApart
    <3> QED
      BY <1>4, <3>1
  <2>4. CASE Y < y
    <3>1. DayIn(y, md) \in Int /\ DayIn(Y, md) + 365 <= DayIn(y, md)
      BY <1>2, <1>4, <2>1, <2>4, DatesApart
    <3> QED
      BY <1>1, <1>4, <2>1, <3>1
  <2> QED
    BY <1>2, <2>1, <2>2, <2>3, <2>4
<1> HIDE DEF years
<1>11. d \in DatesOf(md, at) /\ \A x \in DatesOf(md, at) : x \in Int /\ x <= d
  BY <1>4, <1>5, <1>9, <1>10
<1>12. Max(DatesOf(md, at)) = d
  <2>1. \A x \in DatesOf(md, at) : d >= x
    BY <1>11
  <2>2. \A n \in DatesOf(md, at) : (\A x \in DatesOf(md, at) : n >= x) => n = d
    BY <1>11
  <2> QED
    BY <1>11, <2>1, <2>2 DEF Max
<1> QED
  BY <1>11, <1>12 DEF Parsable, md

\* What parse_source_time makes of the label of a time: a time of that day or, if
\* the parse has another day than the page, of a day before or after.
LEMMA ParsedOnItsDay ==
    ASSUME NEW p \in Posts, NEW g \in Nat, NEW at \in Nat,
           PublishedAt(p) \in Nat, PublishedAt(p) <= g, g <= at + Day, at <= g + Day,
           LabelOf(p, g).form = "MM-DD" => DayOf(at) < DayOf(PublishedAt(p)) + 365
    PROVE  LET v == parse_source_time(LabelOf(p, g), at)
           IN  v <= at /\ v \in (PublishedAt(p) - Day)..(PublishedAt(p) + Day)
<1> DEFINE t == PublishedAt(p)
           d == DayOf(t)
           tod == t % Day
           v == parse_source_time(LabelOf(p, g), at)
<1>1. t \in Nat /\ t <= g /\ g <= at + 1440 /\ at <= g + 1440
  BY DEF Day
<1>2. Day = 1440 /\ d = t \div 1440 /\ DayOf(g) = g \div 1440 /\ DayOf(at) = at \div 1440
  BY DEF Day, DayOf
<1>3. LabelOf(p, g) = CASE d = DayOf(g) -> [form |-> "HH:MM", value |-> tod]
                        [] d # DayOf(g) /\ g - t < 365 * Day -> [form |-> "MM-DD", value |-> MonthDayOf(d)]
                        [] OTHER -> [form |-> "YYYY-MM-DD", value |-> d]
  BY DEF LabelOf
<1> HIDE DEF t, tod
<1>4. d \in Nat /\ 1440 * d <= t /\ t < 1440 * d + 1440
  BY <1>1, <1>2, SMT
<1>5. CASE d = DayOf(g)
  <2>1. LabelOf(p, g) = [form |-> "HH:MM", value |-> tod]
    BY <1>3, <1>5
  <2>2. v = IF DayOf(at) * Day + tod > at THEN (DayOf(at) * Day + tod) - Day ELSE DayOf(at) * Day + tod
    <3> DEFINE label == LabelOf(p, g)
    <3>1. label.form # "YYYY-MM-DD" /\ label.form # "MM-DD" /\ label.value = tod
      BY <2>1
    <3> HIDE DEF label
    <3>2. parse_source_time(label, at) =
            LET candidate == DayOf(at) * Day + label.value IN IF candidate > at THEN candidate - Day ELSE candidate
      BY <3>1, Zenon DEF parse_source_time
    <3>3. v = parse_source_time(label, at)
      BY DEF label
    <3> HIDE DEF v
    <3> QED
      BY <3>1, <3>2, <3>3, Zenon
  <2> HIDE DEF v, d
  <2>3. tod = t - 1440 * d /\ tod \in 0..1439
    BY <1>1, <1>2, SMT DEF tod
  <2>4. DayOf(at) \in Nat /\ 1440 * DayOf(at) <= at /\ at < 1440 * DayOf(at) + 1440
    BY <1>2, SMT
  <2>5. 1440 * d <= g /\ g < 1440 * d + 1440
    BY <1>2, <1>5, SMT
  <2>6. v <= at /\ t - 1440 <= v /\ v <= t + 1440 /\ v \in Int
    BY <1>1, <1>2, <1>4, <2>2, <2>3, <2>4, <2>5
  <2> QED
    BY <1>1, <1>2, <2>6 DEF t, v
<1>6. CASE d # DayOf(g) /\ g - t < 365 * Day
  <2>1. LabelOf(p, g) = [form |-> "MM-DD", value |-> MonthDayOf(d)]
    BY <1>3, <1>6
  <2>2. v = Max(DatesOf(MonthDayOf(d), at)) * Day
    BY <2>1 DEF parse_source_time
  <2>3. DayOf(at) < d + 365
    BY <2>1 DEF t
  <2> HIDE DEF v, d
  <2>4. d <= DayOf(at)
    BY <1>1, <1>2, <1>6, SMT
  <2>5. Max(DatesOf(MonthDayOf(d), at)) = d
    <3>1. \A e \in Nat : e <= DayOf(at) /\ DayOf(at) < e + 365 => Max(DatesOf(MonthDayOf(e), at)) = e
      BY LatestDate
    <3> QED
      BY <1>4, <2>3, <2>4, <3>1
  <2>6. v = 1440 * d /\ v <= at
    <3>1. v = d * 1440
      BY <1>2, <2>2, <2>5
    <3>2. 1440 * d <= at
      BY <1>2, <1>4, <2>4, SMT
    <3> QED
      BY <1>4, <3>1, <3>2
  <2> QED
    BY <1>1, <1>2, <1>4, <2>6 DEF t, v
<1>7. CASE d # DayOf(g) /\ ~(g - t < 365 * Day)
  <2>1. LabelOf(p, g) = [form |-> "YYYY-MM-DD", value |-> d]
    BY <1>3, <1>7
  <2>2. v = d * Day
    BY <2>1 DEF parse_source_time
  <2> HIDE DEF v, d
  <2> QED
    BY <1>1, <1>2, <1>4, <1>7, <2>2 DEF t, v
<1> QED
  BY <1>5, <1>6, <1>7

LEMMA PublishedTyped ==
    ASSUME NEW p \in Posts
    PROVE  PublishedAt(p) \in Nat
<1> DEFINE times == {v.since : v \in History[p]}
<1>1. times \in SUBSET Nat /\ times # {}
  BY HistoryAssumption
<1> HIDE DEF times
<1>2. Min(times) \in Nat
  BY <1>1, MinOfNat
<1> QED
  BY <1>2 DEF PublishedAt, times

LEMMA ItemOnItsDay ==
    ASSUME NEW r \in Ids, Usable(Reads[r]), NEW i \in Batch(r)
    PROVE  /\ i.published <= Reads[r].observed
           /\ i.published \in (PublishedAt(i.post) - Day)..(PublishedAt(i.post) + Day)
<1>1. i \in Items(Reads[r]) /\ i.post \in Posts
  BY BatchIsRead DEF ItemType
<1>2. PICK s \in Seen(Reads[r]) : s.item = i
  BY <1>1 DEF Items, Sightings
<1>3. PICK n \in DOMAIN Reads[r].pages :
        s \in {[item |-> l.item, page |-> n, order |-> l.order] : l \in ListItems(Reads[r].pages[n])}
  BY DEF Seen
<1> DEFINE page == Reads[r].pages[n]
<1>4. PICK l \in ListItems(page) : l.item = i
  BY <1>2, <1>3
<1>5. PICK k \in Articles(page) : i = Item(page.rows[k], page)
  BY <1>4 DEF ListItems
<1> DEFINE p == page.rows[k].post
           g == page.generated
           at == page.parsed
<1>6. i.post = p /\ i.published = parse_source_time(LabelOf(p, g), at)
  BY <1>5 DEF Item
<1>7. /\ g \in Nat /\ at \in 0..Reads[r].observed /\ at \in (g - Day)..(g + Day) /\ PublishedAt(p) <= g
      /\ LabelOf(p, g).form = "MM-DD" => DayOf(at) < DayOf(PublishedAt(p)) + 365
  BY PagesAssumption DEF Ids
<1>8. Reads[r].observed \in Nat /\ Day = 1440 /\ p \in Posts /\ PublishedAt(p) \in Nat
  BY <1>1, <1>6, ReadsAssumption, PublishedTyped DEF Ids, Day
<1> HIDE DEF p, g, at, page
<1>9. at \in Nat /\ at <= Reads[r].observed /\ g <= at + Day /\ at <= g + Day
  BY <1>7, <1>8
<1>10. /\ parse_source_time(LabelOf(p, g), at) <= at
       /\ parse_source_time(LabelOf(p, g), at) \in (PublishedAt(p) - Day)..(PublishedAt(p) + Day)
  BY <1>7, <1>8, <1>9, ParsedOnItsDay
<1> QED
  BY <1>6, <1>8, <1>9, <1>10

\* The stored time of publication is that of the day, whatever the straddled
\* midnights and years, and never after the observation, for pages whose dates
\* without a year are less than 365 days old when parsed (PagesAssumption).
THEOREM PublishedOnDay == Spec => []PublishedOnItsDay
<1>1. Inv /\ Converged => PublishedOnItsDay
  <2> SUFFICES ASSUME Inv, Converged, NEW p \in Posts, post[p] # NoRow
               PROVE  /\ post[p].published <= post[p].seen
                      /\ post[p].published \in (PublishedAt(p) - Day)..(PublishedAt(p) + Day)
    BY DEF PublishedOnItsDay
  <2>1. PICK r \in stored : p \in PostsOf(r) /\ post[p] = CanonicalRow(r, p)
    BY DEF Converged
  <2>2. r \in Ids /\ Usable(Reads[r])
    BY DEF Inv, Shape
  <2> DEFINE same == ItemsOf(r, p)
             top == CHOOSE i \in same : \A j \in same : ~Outranks(j, i)
  <2>3. same \in SUBSET ItemType /\ IsFiniteSet(same) /\ same # {} /\ same \subseteq Batch(r)
    <3>1. same \subseteq Batch(r) /\ same # {}
      BY <2>1 DEF ItemsOf, PostsOf
    <3> QED
      BY <2>2, <3>1, BatchIsRead, FS_Subset
  <2>4. top \in same
    <3> HIDE DEF same
    <3> QED
      BY <2>3, TopExists
  <2>5. top \in Batch(r) /\ top.post = p
    BY <2>3, <2>4 DEF ItemsOf
  <2>6. post[p].published = top.published /\ post[p].seen = Reads[r].observed
    <3>1. Canonical(same) = [top EXCEPT !.views = Max({i.views : i \in same})]
      BY Zenon DEF Canonical
    <3>2. CanonicalRow(r, p) = [title |-> Canonical(same).title, published |-> Canonical(same).published,
                                seen |-> Reads[r].observed]
      BY DEF CanonicalRow
    <3>3. top \in ItemType
      BY <2>3, <2>4
    <3> HIDE DEF top, same
    <3> QED
      BY <2>1, <3>1, <3>2, <3>3 DEF ItemType
  <2> QED
    BY <2>2, <2>5, <2>6, ItemOnItsDay
<1> QED
  BY <1>1, Invariance, ConvergedInvariance, PTL
=============================================================================
