----------------------- MODULE ArticlesAndReuse_proofs -------------------------
(*****************************************************************************)
(* Proofs about a story's article and about its analyses: the acquisition    *)
(* of an article, for any pages, any number of redirects, with and without   *)
(* an archive, and any finite number of editions that prepare the story at   *)
(* once; and that analyses are what their keys say, for any stories,         *)
(* contents, versions and numbers of jobs and changes.                       *)
(*                                                                           *)
(* That an answer was made from what its job was prepared from is known      *)
(* only while nothing changed since: the invariant says of a waiting job     *)
(* without a change that content and version are still those it was          *)
(* prepared from, and of a request under way that it was made from them.     *)
(*****************************************************************************)
EXTENDS ArticleAcquisition, AnalysisReuse, FiniteSetTheorems, WellFoundedInduction,
        TLAPS

\* Who has written what came of the requests.
Past == {p \in Preparers : preparing[p].at \in {"find", "save", "choose", "done", "error"}}

\* Failures go on from the server of the article to the archive, and a page
\* ends the requests; a text is chosen at the end only.
RequestOK(s) ==
    /\ s.failure = "restricted" => s.stage = "direct"
    /\ s.at \in {"idle", "check", "request"} =>
          /\ s.page = NoPage
          /\ s.stage \in {"social", "direct"} => s.failure = None
          /\ s.stage \in {"lookup", "snapshot"} => s.failure = "unavailable"
    /\ s.page # NoPage => s.failure = None
    /\ s.at \in {"find", "save", "error"} => s.failure = None
    /\ s.at # "done" => s.chosen = None

\* The rows that were found are there still, and are for the URL looked for.
RowsOK(p) ==
    LET s == preparing[p] IN
    /\ s.at = "write" /\ s.row > 0 => documents[s.row].url = FetchedUrl(s)
    /\ s.at = "find" => \/ s.stage = "snapshot" /\ ~source.normal
                        \/ \E i \in DOMAIN documents : documents[i].url = "href"
    /\ s.at = "save" => s.row > 0
    /\ s.at = "error" => (s.stage = "snapshot" /\ ~source.normal) \/ Duplicates

\* The newest row there is to read has the text of the page.
IsNewest(text) ==
    \E i \in UsableRows :
        /\ documents[i].text = text
        /\ \A j \in UsableRows \ {i} : documents[j].updated < documents[i].updated

\* What holds for who prepares the story alone.
AloneOK(p) ==
    LET s == preparing[p] IN
    /\ s.at = "choose" /\ s.page # NoPage => IsNewest(PageText(s.page))
    /\ s.at = "done" /\ s.page # NoPage => s.chosen = PageText(s.page)
    /\ s.failure = "restricted" /\ source.normal /\ ~Duplicates =>
          /\ s.at = "choose" => UsableRows = {}
          /\ s.at = "done" => s.chosen = None

UrlsOK == source.normal => \A i \in DOMAIN documents : documents[i].url = "href"

\* The inductive invariant.
AcquisitionInv ==
    /\ AcquisitionTypeOK
    /\ Len(documents) <= Cardinality(Past)
    /\ UrlsOK
    /\ \A p \in Preparers :
          /\ RequestOK(preparing[p]) /\ RowsOK(p)
          /\ preparing[p].alone =>
                /\ AloneOK(p)
                /\ Running(p) => \A q \in Preparers \ {p} : ~Running(q)

-----------------------------------------------------------------------------
(* Numbers.                                                                *)

LEMMA LeastOfNaturals ==
    ASSUME NEW B, B \subseteq Nat, B # {}
    PROVE  \E m \in B : \A n \in B : m <= n
<1>1. PICK m \in B : \A n \in B : ~ (<<n, m>> \in OpToRel(<, Nat))
  BY NatLessThanWellFounded, WFMin
<1>2. \A n \in B : ~ (n < m)
  BY <1>1 DEF OpToRel
<1> QED
  BY <1>2

\* The greatest is the one that fewest are greater than.
LEMMA GreatestOfNaturals ==
    ASSUME NEW B, B \subseteq Nat, B # {}, IsFiniteSet(B)
    PROVE  \E m \in B : \A n \in B : n <= m
<1> DEFINE Above(m) == {n \in B : n > m}
           Counts == {Cardinality(Above(m)) : m \in B}
<1>1. \A m \in B : Above(m) \in SUBSET B
  OBVIOUS
<1>2. \A m \in B : IsFiniteSet(Above(m)) /\ Cardinality(Above(m)) \in Nat
  BY <1>1, FS_Subset, FS_CardinalityType
<1>3. Counts \subseteq Nat /\ Counts # {}
  BY <1>2
<1>4. PICK least \in Counts : \A c \in Counts : least <= c
  BY <1>3, LeastOfNaturals
<1>5. PICK m \in B : least = Cardinality(Above(m))
  BY <1>4
<1>6. ASSUME NEW n \in B, n > m
      PROVE  FALSE
  <2>1. Above(n) \in SUBSET Above(m)
    <3>1. \A x, y, z \in Nat : x > y /\ y > z => x > z
      OBVIOUS
    <3> QED
      BY <1>6, <3>1
  <2>2. n \in Above(m) /\ n \notin Above(n)
    BY <1>6
  <2>3. Cardinality(Above(m)) <= Cardinality(Above(n))
    BY <1>4, <1>5
  <2> HIDE DEF Above
  <2>4. /\ IsFiniteSet(Above(m))
        /\ Cardinality(Above(m)) \in Nat /\ Cardinality(Above(n)) \in Nat
    BY <1>2
  <2>5. /\ Cardinality(Above(n)) <= Cardinality(Above(m))
        /\ Cardinality(Above(m)) = Cardinality(Above(n)) => Above(m) = Above(n)
    BY <2>1, <2>4, FS_Subset
  <2>6. \A a, b \in Nat : a <= b /\ b <= a => a = b
    OBVIOUS
  <2> QED
    BY <2>2, <2>3, <2>4, <2>5, <2>6
<1>7. \A x, y \in Nat : ~(x > y) => x <= y
  OBVIOUS
<1> QED
  BY <1>6, <1>7

-----------------------------------------------------------------------------
(* Rows.                                                                   *)

LEMMA RowsAreNumbered ==
    ASSUME AcquisitionTypeOK
    PROVE  /\ Len(documents) \in Nat
           /\ DOMAIN documents = 1 .. Len(documents)
           /\ \A i \in DOMAIN documents : documents[i] \in Rows
BY DEF AcquisitionTypeOK

\* recordFetch and recordExtraction find a row if there is one for the URL.
LEMMA NewestRowIsThere ==
    ASSUME AcquisitionTypeOK, NEW url
    PROVE  /\ NewestRow(url) \in 0 .. Len(documents)
           /\ NewestRow(url) > 0 => documents[NewestRow(url)].url = url
           /\ NewestRow(url) = 0 => \A i \in DOMAIN documents : documents[i].url # url
<1> DEFINE rows == {i \in DOMAIN documents : documents[i].url = url}
<1>1. /\ Len(documents) \in Nat /\ DOMAIN documents = 1 .. Len(documents)
      /\ rows \in SUBSET (1 .. Len(documents))
  BY RowsAreNumbered
<1>2. CASE rows = {}
  BY <1>1, <1>2 DEF NewestRow
<1>3. CASE rows # {}
  <2>1. rows \subseteq Nat /\ IsFiniteSet(rows)
    <3> HIDE DEF rows
    <3>1. IsFiniteSet(1 .. Len(documents)) /\ 1 .. Len(documents) \subseteq Nat
      BY <1>1, FS_Interval
    <3> QED
      BY <1>1, <3>1, FS_Subset
  <2>2. \E i \in rows : \A j \in rows : j <= i
    BY <1>3, <2>1, GreatestOfNaturals
  <2>3. NewestRow(url) \in rows
    BY <1>3, <2>2 DEF NewestRow
  <2>4. \A n \in Nat : \A i \in 1 .. n : i \in 0 .. n /\ i # 0
    OBVIOUS
  <2>5. NewestRow(url) \in 0 .. Len(documents) /\ NewestRow(url) # 0
    BY <1>1, <2>3, <2>4
  <2> QED
    BY <2>3, <2>5
<1> QED
  BY <1>2, <1>3

\* A row that was just saved is newer than all.
LEMMA NewestIsGreatest ==
    ASSUME AcquisitionTypeOK
    PROVE  /\ Newest \in Nat
           /\ \A i \in DOMAIN documents : documents[i].updated <= Newest
<1> DEFINE Updated(i) == documents[i].updated
           times == {Updated(i) : i \in DOMAIN documents}
<1>1. /\ Len(documents) \in Nat /\ DOMAIN documents = 1 .. Len(documents)
      /\ times \subseteq Nat
  BY RowsAreNumbered DEF Rows
<1>2. CASE documents = <<>>
  BY <1>2 DEF Newest
<1>3. CASE documents # <<>>
  <2>1. 1 \in DOMAIN documents
    BY <1>1, <1>3 DEF AcquisitionTypeOK
  <2>2. times # {}
    BY <2>1
  <2> DEFINE f == [i \in DOMAIN documents |-> Updated(i)]
  <2>3. f \in Surjection(DOMAIN documents, times)
    BY DEF Surjection
  <2>4. IsFiniteSet(DOMAIN documents)
    BY <1>1, FS_Interval
  <2>5. IsFiniteSet(times)
    <3> HIDE DEF f, times
    <3> QED
      BY <2>3, <2>4, FS_Surjection
  <2>6. PICK m \in times : \A n \in times : n <= m
    BY <1>1, <2>2, <2>5, GreatestOfNaturals
  <2>7. \A n \in times : m >= n
    BY <1>1, <2>6
  <2>8. Newest = Max(times)
    BY <1>3 DEF Newest
  <2>9. Newest \in times /\ \A n \in times : Newest >= n
    <3> HIDE DEF times
    <3> QED
      BY <2>7, <2>8 DEF Max
  <2> QED
    BY <1>1, <2>9
<1> QED
  BY <1>2, <1>3

-----------------------------------------------------------------------------
(* Steps of one preparer.                                                  *)

\* Rows are added and changed, never removed or moved to another URL.
Grows ==
    /\ Len(documents) <= Len(documents')
    /\ \A i \in DOMAIN documents : documents'[i].url = documents[i].url

LEMMA DuplicatesStay ==
    ASSUME AcquisitionTypeOK, documents' \in Seq(Rows), Grows, Duplicates
    PROVE  Duplicates'
<1>1. DOMAIN documents \subseteq DOMAIN documents'
  <2>1. \A m, n \in Nat : m <= n => 1 .. m \subseteq 1 .. n
    OBVIOUS
  <2>2. /\ Len(documents) \in Nat /\ DOMAIN documents = 1 .. Len(documents)
        /\ Len(documents') \in Nat /\ DOMAIN documents' = 1 .. Len(documents')
    BY RowsAreNumbered
  <2> QED
    BY <2>1, <2>2 DEF Grows
<1> QED
  BY <1>1 DEF Duplicates, Grows

\* A preparer that is not at work, or does not prepare alone, stays right
\* whatever another does.
LEMMA OthersStay ==
    ASSUME AcquisitionInv, NEW q \in Preparers, UNCHANGED source,
           documents' \in Seq(Rows), Grows,
           preparing'[q] = preparing[q] \/ preparing'[q] = [preparing[q] EXCEPT !.alone = FALSE],
           preparing'[q].alone => ~Running(q) \/ UNCHANGED documents
    PROVE  /\ RequestOK(preparing'[q]) /\ RowsOK(q)'
           /\ preparing'[q].alone => AloneOK(q)'
           /\ preparing'[q].at = preparing[q].at
<1> DEFINE s == preparing[q]
           t == preparing'[q]
<1>1. AcquisitionTypeOK /\ s \in Preparations /\ RequestOK(s) /\ RowsOK(q)
      /\ (s.alone => AloneOK(q))
  BY DEF AcquisitionInv, AcquisitionTypeOK
<1>2. /\ t.at = s.at /\ t.stage = s.stage /\ t.hops = s.hops /\ t.failure = s.failure
      /\ t.page = s.page /\ t.row = s.row /\ t.chosen = s.chosen
      /\ t.alone => s.alone
  <2>1. CASE t = s
    BY <2>1
  <2>2. CASE t = [s EXCEPT !.alone = FALSE]
    BY <1>1, <2>2 DEF Preparations
  <2> QED
    BY <2>1, <2>2
<1>3. Duplicates => Duplicates'
  BY <1>1, DuplicatesStay
<1>4. /\ \A i \in DOMAIN documents : i \in DOMAIN documents'
                                     /\ documents'[i].url = documents[i].url
      /\ s.row <= Len(documents) /\ s.row \in Nat
      /\ DOMAIN documents = 1 .. Len(documents) /\ Len(documents) \in Nat
  <2>1. \A m, n \in Nat : m <= n => \A i \in 1 .. m : i \in 1 .. n
    OBVIOUS
  <2>2. /\ Len(documents) \in Nat /\ DOMAIN documents = 1 .. Len(documents)
        /\ Len(documents') \in Nat /\ DOMAIN documents' = 1 .. Len(documents')
    BY <1>1, RowsAreNumbered
  <2> QED
    BY <1>1, <2>1, <2>2 DEF Grows, AcquisitionTypeOK, Preparations
<1>5. s.row > 0 => s.row \in DOMAIN documents
  BY <1>4
<1>6. RequestOK(t)
  BY <1>1, <1>2 DEF RequestOK
<1>7. FetchedUrl(preparing[q])' = FetchedUrl(s)
  BY <1>2 DEF FetchedUrl, Url
<1>8. RowsOK(q)'
  <2>1. t.at = "write" /\ t.row > 0 => documents'[t.row].url = FetchedUrl(preparing[q])'
    BY <1>1, <1>2, <1>4, <1>5, <1>7 DEF RowsOK, FetchedUrl, Url
  <2>2. t.at = "find" => \/ t.stage = "snapshot" /\ ~source'.normal
                         \/ \E i \in DOMAIN documents' : documents'[i].url = "href"
    BY <1>1, <1>2, <1>4 DEF RowsOK
  <2>3. t.at = "save" => t.row > 0
    BY <1>1, <1>2 DEF RowsOK
  <2>4. t.at = "error" => (t.stage = "snapshot" /\ ~source'.normal) \/ Duplicates'
    BY <1>1, <1>2, <1>3 DEF RowsOK
  <2> QED
    BY <2>1, <2>2, <2>3, <2>4 DEF RowsOK
<1>9. ASSUME t.alone
      PROVE  AloneOK(q)'
  <2>1. AloneOK(q)
    BY <1>1, <1>2, <1>9
  <2>2. CASE ~Running(q)
    <3>1. s.at # "choose"
      BY <2>2 DEF Running
    <3> QED
      BY <1>2, <1>3, <2>1, <3>1 DEF AloneOK
  <2>3. CASE UNCHANGED documents
    <3>1. UsableRows' = UsableRows /\ Duplicates' = Duplicates
      BY <2>3 DEF UsableRows, Duplicates
    <3>2. s.at = "choose" /\ s.page # NoPage => IsNewest(PageText(preparing[q].page))'
      <4>1. PageText(t.page) = PageText(s.page)
        BY <1>2
      <4> QED
        BY <2>1, <2>3, <3>1, <4>1 DEF AloneOK, IsNewest
    <3> QED
      BY <1>2, <2>1, <2>3, <3>1, <3>2 DEF AloneOK
  <2> QED
    BY <1>9, <2>2, <2>3
<1> QED
  BY <1>2, <1>6, <1>8, <1>9

\* A step of one preparer that leaves it in the state t, and others alone.
LEMMA StepIsOK ==
    ASSUME AcquisitionInv, NEW p \in Preparers, NEW t \in Preparations, Running(p),
           preparing' = [preparing EXCEPT ![p] = t], UNCHANGED source,
           documents' \in Seq(Rows), Grows,
           t.row <= Len(documents'), Len(documents') <= Cardinality(Past'),
           UrlsOK', RequestOK(t), RowsOK(p)',
           t.alone = preparing[p].alone, t.alone => AloneOK(p)'
    PROVE  AcquisitionInv'
<1>1. AcquisitionTypeOK /\ preparing'[p] = t
      /\ \A q \in Preparers \ {p} : preparing'[q] = preparing[q]
  BY DEF AcquisitionInv, AcquisitionTypeOK
<1>2. ASSUME NEW q \in Preparers \ {p}
      PROVE  /\ RequestOK(preparing'[q]) /\ RowsOK(q)'
             /\ preparing'[q].alone => AloneOK(q)'
             /\ Running(q)' <=> Running(q)
  <2>1. preparing[q].alone => ~Running(q)
    BY DEF AcquisitionInv
  <2>2. preparing'[q].alone => ~Running(q) \/ UNCHANGED documents
    BY <1>1, <2>1
  <2>3. preparing'[q] = preparing[q] \/ preparing'[q] = [preparing[q] EXCEPT !.alone = FALSE]
    BY <1>1
  <2> QED
    BY <1>1, <2>2, <2>3, OthersStay DEF Running
<1>3. AcquisitionTypeOK'
  <2>1. preparing' \in [Preparers -> Preparations]
    BY DEF AcquisitionInv, AcquisitionTypeOK
  <2>2. Past' \in SUBSET Preparers
    BY DEF Past
  <2>3. IsFiniteSet(Preparers)
    BY AcquisitionAssumption
  <2>4. /\ Cardinality(Past') <= Cardinality(Preparers)
        /\ Cardinality(Past') \in Nat /\ Cardinality(Preparers) \in Nat
    BY <2>2, <2>3, FS_Subset, FS_CardinalityType
  <2>5. Len(documents) \in Nat /\ Len(documents') \in Nat
    BY <1>1, RowsAreNumbered
  <2>6. \A a, b, c \in Nat : a <= b /\ b <= c => a <= c
    OBVIOUS
  <2>7. Len(documents') <= Cardinality(Preparers)
    BY <2>4, <2>5, <2>6
  <2>8. ASSUME NEW q \in Preparers
        PROVE  preparing'[q].row <= Len(documents')
    <3>1. CASE q = p
      BY <1>1, <3>1
    <3>2. CASE q # p
      <4>1. preparing'[q].row = preparing[q].row /\ preparing[q].row \in Nat
        BY <1>1, <3>2 DEF AcquisitionTypeOK, Preparations
      <4>2. preparing[q].row <= Len(documents) /\ Len(documents) <= Len(documents')
        BY <1>1 DEF Grows, AcquisitionTypeOK
      <4> QED
        BY <2>5, <2>6, <4>1, <4>2
    <3> QED
      BY <3>1, <3>2
  <2> QED
    BY <1>1, <2>1, <2>7, <2>8 DEF AcquisitionTypeOK
<1>4. preparing'[p].alone => \A q \in Preparers \ {p} : ~Running(q)'
  BY <1>1, <1>2 DEF AcquisitionInv
<1>5. ASSUME NEW q \in Preparers \ {p}, preparing'[q].alone
      PROVE  ~Running(q)'
  BY <1>1, <1>2, <1>5 DEF AcquisitionInv
<1>6. ASSUME NEW q \in Preparers
      PROVE  (/\ RequestOK(preparing[q]) /\ RowsOK(q)
              /\ preparing[q].alone =>
                    /\ AloneOK(q)
                    /\ Running(q) => \A r \in Preparers \ {q} : ~Running(r))'
  <2>1. CASE q = p
    BY <1>1, <1>4, <2>1
  <2>2. CASE q # p
    BY <1>1, <1>2, <1>5, <2>2
  <2> QED
    BY <2>1, <2>2
<1> QED
  BY <1>3, <1>6 DEF AcquisitionInv

-----------------------------------------------------------------------------
(* Requests.                                                               *)

\* What a step of a request leads to: another request, or the writing.
LEMMA RequestStep ==
    ASSUME AcquisitionInv, NEW p \in Preparers, NEW t \in Preparations,
           preparing[p].at \in {"check", "request"},
           preparing' = [preparing EXCEPT ![p] = t], UNCHANGED <<source, documents>>,
           t.at \in {"check", "request", "look"}, RequestOK(t),
           t.row = preparing[p].row, t.alone = preparing[p].alone
    PROVE  AcquisitionInv'
<1>1. AcquisitionTypeOK /\ preparing'[p] = t /\ Running(p)
      /\ UNCHANGED source /\ UNCHANGED documents
  BY DEF AcquisitionInv, AcquisitionTypeOK, Running
<1>2. Len(documents) \in Nat /\ documents' \in Seq(Rows) /\ UrlsOK'
      /\ Len(documents) <= Len(documents')
  BY <1>1, RowsAreNumbered DEF AcquisitionInv, AcquisitionTypeOK, UrlsOK
<1>3. Grows
  BY <1>1, <1>2 DEF Grows
<1>4. t.row <= Len(documents')
  BY <1>1 DEF AcquisitionTypeOK
<1>5. Past' = Past
  <2>1. \A q \in Preparers : q \in Past' <=> q \in Past
    BY <1>1 DEF Past, AcquisitionTypeOK
  <2> QED
    BY <2>1 DEF Past
<1>6. Len(documents') <= Cardinality(Past')
  BY <1>1, <1>5 DEF AcquisitionInv
<1>7. RowsOK(p)' /\ AloneOK(p)'
  BY <1>1 DEF RowsOK, AloneOK
<1> QED
  BY <1>1, <1>2, <1>3, <1>4, <1>6, <1>7, StepIsOK

\* The requests of a stage begin with a count of redirects of their own.
LEMMA AsksIsOK ==
    ASSUME NEW s \in Preparations, NEW stage \in Stages
    PROVE  /\ Asks(s, stage) \in Preparations
           /\ Asks(s, stage).at = "check" /\ Asks(s, stage).stage = stage
           /\ Asks(s, stage).failure = s.failure /\ Asks(s, stage).page = s.page
           /\ Asks(s, stage).row = s.row /\ Asks(s, stage).alone = s.alone
           /\ Asks(s, stage).chosen = s.chosen
<1>1. 0 \in 0 .. MaximumRedirects
  BY AcquisitionAssumption
<1> QED
  BY <1>1 DEF Asks, Preparations

\* A failed request leads on to the next source, or to the writing of it.
LEMMA FailedIsOK ==
    ASSUME NEW s \in Preparations, NEW f \in Failures,
           s.at \in {"check", "request"}, RequestOK(s)
    PROVE  /\ Failed(s, f) \in Preparations
           /\ Failed(s, f).at \in {"check", "look"}
           /\ RequestOK(Failed(s, f))
           /\ Failed(s, f).row = s.row /\ Failed(s, f).alone = s.alone
        /\ Failed(s, f).chosen = None
<1>2. \A stage \in Stages :
         /\ Asks(s, stage) \in Preparations
         /\ Asks(s, stage).at = "check" /\ Asks(s, stage).stage = stage
         /\ Asks(s, stage).failure = s.failure /\ Asks(s, stage).page = s.page
         /\ Asks(s, stage).row = s.row /\ Asks(s, stage).alone = s.alone
         /\ Asks(s, stage).chosen = s.chosen
  BY AsksIsOK
<1>3. s.page = NoPage /\ s.stage \in Stages /\ s.chosen = None
      /\ (s.stage \in {"social", "direct"} => s.failure = None)
      /\ (s.stage \in {"lookup", "snapshot"} => s.failure = "unavailable")
  BY DEF RequestOK, Preparations
<1>4. CASE s.stage = "social"
  <2>1. Failed(s, f) = Asks(s, "direct")
    BY <1>4 DEF Failed
  <2> QED
    BY <1>2, <1>3, <1>4, <2>1 DEF Stages, RequestOK, Failures, None
<1>5. CASE s.stage = "direct" /\ MayAskArchive(f)
  <2>1. Failed(s, f) = [Asks(s, "lookup") EXCEPT !.failure = f]
    BY <1>5 DEF Failed
  <2>2. f = "unavailable"
    BY <1>5 DEF MayAskArchive
  <2>3. Asks(s, "lookup") \in Preparations /\ Asks(s, "lookup").at = "check"
        /\ Asks(s, "lookup").stage = "lookup" /\ Asks(s, "lookup").page = NoPage
        /\ Asks(s, "lookup").row = s.row /\ Asks(s, "lookup").alone = s.alone
        /\ Asks(s, "lookup").chosen = None
    BY <1>2, <1>3 DEF Stages
  <2>4. /\ Failed(s, f) \in Preparations
        /\ Failed(s, f).at = "check" /\ Failed(s, f).stage = "lookup"
        /\ Failed(s, f).failure = "unavailable" /\ Failed(s, f).page = NoPage
        /\ Failed(s, f).row = s.row /\ Failed(s, f).alone = s.alone
        /\ Failed(s, f).chosen = None
    BY <2>1, <2>2, <2>3 DEF Preparations, Failures
  <2> QED
    BY <2>4 DEF RequestOK
<1>6. CASE s.stage = "direct" /\ ~MayAskArchive(f)
  <2>1. Failed(s, f) = [s EXCEPT !.at = "look", !.failure = f]
    BY <1>6 DEF Failed
  <2>2. /\ Failed(s, f) \in Preparations
        /\ Failed(s, f).at = "look" /\ Failed(s, f).stage = "direct"
        /\ Failed(s, f).failure = f /\ Failed(s, f).page = NoPage
        /\ Failed(s, f).row = s.row /\ Failed(s, f).alone = s.alone
        /\ Failed(s, f).chosen = None
    BY <1>3, <1>6, <2>1 DEF Preparations
  <2> QED
    BY <2>2 DEF RequestOK
<1>7. CASE s.stage \in {"lookup", "snapshot"}
  <2>1. Failed(s, f) = [s EXCEPT !.at = "look"]
    BY <1>7 DEF Failed
  <2>2. /\ Failed(s, f) \in Preparations
        /\ Failed(s, f).at = "look" /\ Failed(s, f).stage = s.stage
        /\ Failed(s, f).failure = "unavailable" /\ Failed(s, f).page = NoPage
        /\ Failed(s, f).row = s.row /\ Failed(s, f).alone = s.alone
        /\ Failed(s, f).chosen = None
    BY <1>3, <1>7, <2>1 DEF Preparations
  <2> QED
    BY <2>2 DEF RequestOK
<1> QED
  BY <1>3, <1>4, <1>5, <1>6, <1>7 DEF Stages

LEMMA CheckUrlIsOK ==
    ASSUME AcquisitionInv, NEW p \in Preparers, CheckUrl(p) PROVE AcquisitionInv'
<1> DEFINE s == preparing[p]
<1>1. s \in Preparations /\ RequestOK(s) /\ s.at = "check"
      /\ UNCHANGED <<source, documents>>
  BY DEF AcquisitionInv, AcquisitionTypeOK, CheckUrl, At
<1>2. CASE Goes(p, [s EXCEPT !.at = "request"])
  <2> DEFINE t == [s EXCEPT !.at = "request"]
  <2>1. /\ t \in Preparations /\ t.at = "request" /\ t.stage = s.stage
        /\ t.failure = s.failure /\ t.page = s.page
        /\ t.row = s.row /\ t.alone = s.alone /\ t.chosen = s.chosen
    BY <1>1 DEF Preparations
  <2>2. RequestOK(t)
    BY <1>1, <2>1 DEF RequestOK
  <2>3. preparing' = [preparing EXCEPT ![p] = t]
    BY <1>2 DEF Goes
  <2> HIDE DEF t
  <2> QED
    BY <1>1, <2>1, <2>2, <2>3, RequestStep
<1>3. CASE Goes(p, Failed(s, "unavailable"))
  <2>1. "unavailable" \in Failures
    BY DEF Failures
  <2> DEFINE t == Failed(s, "unavailable")
  <2>2. /\ t \in Preparations /\ t.at \in {"check", "look"} /\ RequestOK(t)
        /\ t.row = s.row /\ t.alone = s.alone
    BY <1>1, <2>1, FailedIsOK
  <2>3. preparing' = [preparing EXCEPT ![p] = t]
    BY <1>3 DEF Goes
  <2> HIDE DEF t
  <2> QED
    BY <1>1, <2>2, <2>3, RequestStep
<1> QED
  BY <1>2, <1>3 DEF CheckUrl

LEMMA SendRequestIsOK ==
    ASSUME AcquisitionInv, NEW p \in Preparers, SendRequest(p) PROVE AcquisitionInv'
<1> DEFINE s == preparing[p]
<1>1. s \in Preparations /\ RequestOK(s) /\ s.at = "request"
      /\ UNCHANGED <<source, documents>>
  BY DEF AcquisitionInv, AcquisitionTypeOK, SendRequest, At
<1>2. ASSUME NEW f \in Failures, Goes(p, Failed(s, f))
      PROVE  AcquisitionInv'
  <2> DEFINE t == Failed(s, f)
  <2>1. /\ t \in Preparations /\ t.at \in {"check", "look"} /\ RequestOK(t)
        /\ t.row = s.row /\ t.alone = s.alone
    BY <1>1, FailedIsOK
  <2>2. preparing' = [preparing EXCEPT ![p] = t]
    BY <1>2 DEF Goes
  <2> HIDE DEF t
  <2> QED
    BY <1>1, <2>1, <2>2, RequestStep
<1>3. CASE Goes(p, Redirected(s))
  <2>1. CASE s.hops = MaximumRedirects
    <3>1. Redirected(s) = Failed(s, "unavailable") /\ "unavailable" \in Failures
      BY <2>1 DEF Redirected, Failures
    <3> QED
      BY <1>2, <1>3, <3>1
  <2>2. CASE s.hops # MaximumRedirects
    <3> DEFINE t == [s EXCEPT !.at = "check", !.hops = s.hops + 1]
    <3>1. \A m \in Nat : \A h \in 0 .. m : h # m => h + 1 \in 0 .. m
      OBVIOUS
    <3>2. s.hops + 1 \in 0 .. MaximumRedirects
      BY <1>1, <2>2, <3>1, AcquisitionAssumption DEF Preparations
    <3>3. /\ t \in Preparations /\ t.at = "check" /\ t.stage = s.stage
          /\ t.failure = s.failure /\ t.page = s.page
          /\ t.row = s.row /\ t.alone = s.alone /\ t.chosen = s.chosen
      BY <1>1, <3>2 DEF Preparations
    <3>4. RequestOK(t)
      BY <1>1, <3>3 DEF RequestOK
    <3>5. preparing' = [preparing EXCEPT ![p] = t]
      BY <1>3, <2>2 DEF Goes, Redirected
    <3> HIDE DEF t
    <3> QED
      BY <1>1, <3>3, <3>4, <3>5, RequestStep
  <2> QED
    BY <2>1, <2>2
<1>4. ASSUME NEW page \in Served(s.stage), Goes(p, Answered(s, page))
      PROVE  AcquisitionInv'
  <2> DEFINE t == Answered(s, page)
  <2>1. page \in ArticlePages
    BY DEF Served, PostPages, RepositoryPages
  <2>2. /\ s.page = NoPage /\ s.chosen = None
        /\ s.stage \in {"lookup", "snapshot"} => s.failure = "unavailable"
    BY <1>1 DEF RequestOK
  <2>3. preparing' = [preparing EXCEPT ![p] = t]
    BY <1>4 DEF Goes
  <2>4. CASE s.stage = "lookup"
    <3>1. 0 \in 0 .. MaximumRedirects
      BY AcquisitionAssumption
    <3>2. /\ t \in Preparations /\ t.at = "check" /\ t.stage = "snapshot"
          /\ t.failure = "unavailable" /\ t.page = NoPage
          /\ t.row = s.row /\ t.alone = s.alone /\ t.chosen = s.chosen
      BY <1>1, <2>2, <2>4, <3>1 DEF Answered, Asks, Preparations, Stages
    <3>3. RequestOK(t)
      BY <2>2, <3>2 DEF RequestOK
    <3> HIDE DEF t
    <3> QED
      BY <1>1, <2>3, <3>2, <3>3, RequestStep
  <2>5. CASE s.stage # "lookup"
    <3>1. t = [s EXCEPT !.at = "look", !.failure = None, !.page = page]
      BY <2>5 DEF Answered
    <3>2. /\ t \in Preparations /\ t.at = "look" /\ t.failure = None
          /\ t.row = s.row /\ t.alone = s.alone /\ t.chosen = s.chosen
      BY <1>1, <2>1, <3>1 DEF Preparations
    <3>3. RequestOK(t)
      BY <2>2, <3>2 DEF RequestOK, None
    <3> HIDE DEF t
    <3> QED
      BY <1>1, <2>3, <3>2, <3>3, RequestStep
  <2> QED
    BY <2>4, <2>5
<1> QED
  BY <1>2, <1>3, <1>4 DEF SendRequest

-----------------------------------------------------------------------------
(* The beginning.                                                          *)

LEMMA WaitingIsOK ==
    /\ Waiting \in Preparations /\ RequestOK(Waiting)
    /\ Waiting.at = "idle" /\ Waiting.row = 0
    /\ Waiting.failure = None /\ Waiting.page = NoPage /\ Waiting.chosen = None
<1>1. 0 \in 0 .. MaximumRedirects
  BY AcquisitionAssumption
<1>2. Waiting \in Preparations
  <2>1. NoPage \in ArticlePages \cup {NoPage} /\ None \in Failures \cup {None}
    OBVIOUS
  <2>2. None \in PageTexts /\ "direct" \in Stages
    BY DEF PageTexts, Stages
  <2> HIDE DEF None
  <2> QED
    BY <1>1, <2>1, <2>2 DEF Waiting, Preparations
<1>3. /\ Waiting.at = "idle" /\ Waiting.row = 0 /\ Waiting.stage = "direct"
      /\ Waiting.failure = None /\ Waiting.page = NoPage /\ Waiting.chosen = None
  BY DEF Waiting
<1>4. RequestOK(Waiting)
  BY <1>3 DEF RequestOK, None
<1> QED
  BY <1>2, <1>3, <1>4

LEMMA AcquisitionInitially == AcquisitionInit => AcquisitionInv
<1> SUFFICES ASSUME AcquisitionInit PROVE AcquisitionInv
  OBVIOUS
<1>1. \A p \in Preparers : preparing[p] = Waiting
  BY DEF AcquisitionInit
<1>2. documents = <<>> /\ Len(documents) = 0 /\ documents \in Seq(Rows)
      /\ DOMAIN documents = {}
  BY DEF AcquisitionInit
<1>3. Past = {}
  BY <1>1, WaitingIsOK DEF Past
<1>4. Cardinality(Past) = 0 /\ Cardinality(Preparers) \in Nat
  BY <1>3, FS_EmptySet, FS_CardinalityType, AcquisitionAssumption
<1>5. AcquisitionTypeOK
  <2>1. preparing \in [Preparers -> Preparations]
    BY WaitingIsOK DEF AcquisitionInit
  <2> QED
    BY <1>1, <1>2, <1>4, <2>1, WaitingIsOK DEF AcquisitionInit, AcquisitionTypeOK
<1>6. \A p \in Preparers : RowsOK(p) /\ AloneOK(p) /\ ~Running(p)
  BY <1>1, WaitingIsOK DEF RowsOK, AloneOK, Running
<1> QED
  BY <1>1, <1>2, <1>4, <1>5, <1>6, WaitingIsOK DEF AcquisitionInv, UrlsOK

LEMMA BeginAcquisitionIsOK ==
    ASSUME AcquisitionInv, NEW p \in Preparers, BeginAcquisition(p) PROVE AcquisitionInv'
<1> DEFINE stage == IF source.kind = "social" THEN "social" ELSE "direct"
           first == [Asks(Waiting, stage) EXCEPT
                        !.alone = \A r \in Preparers : ~Running(r)]
<1>1. AcquisitionTypeOK /\ preparing[p].at = "idle"
      /\ UNCHANGED source /\ UNCHANGED documents
  BY DEF AcquisitionInv, BeginAcquisition, At
<1>2. /\ first \in Preparations /\ first.at = "check" /\ first.row = 0
      /\ RequestOK(first)
      /\ first.alone <=> \A r \in Preparers : ~Running(r)
  <2>2. stage \in {"social", "direct"}
    OBVIOUS
  <2> DEFINE asks == Asks(Waiting, stage)
  <2>3. /\ asks \in Preparations /\ asks.at = "check" /\ asks.row = 0
        /\ asks.page = NoPage /\ asks.failure = None /\ asks.stage = stage
        /\ asks.chosen = None
    <3> HIDE DEF stage
    <3> QED
      BY <2>2, WaitingIsOK, AsksIsOK DEF Stages
  <2> DEFINE nobody == \A r \in Preparers : ~Running(r)
  <2>4. nobody \in BOOLEAN
    OBVIOUS
  <2>5. first = [asks EXCEPT !.alone = nobody]
    OBVIOUS
  <2> HIDE DEF asks, nobody, stage
  <2>6. /\ first \in Preparations /\ first.at = "check" /\ first.row = 0
        /\ first.page = NoPage /\ first.failure = None /\ first.stage = stage
        /\ first.alone = nobody /\ first.chosen = None
    <3> HIDE DEF first
    <3> QED
      BY <2>3, <2>4, <2>5 DEF Preparations
  <2>7. RequestOK(first)
    <3> HIDE DEF first
    <3> QED
      BY <2>2, <2>6 DEF RequestOK, None
  <2> QED
    BY <2>6, <2>7 DEF nobody
<1>3. preparing' = [q \in Preparers |->
          CASE q = p -> first
            [] q # p /\ Running(q) -> [preparing[q] EXCEPT !.alone = FALSE]
            [] OTHER -> preparing[q]]
  BY DEF BeginAcquisition
<1> HIDE DEF first, stage
<1>4. preparing'[p] = first
  BY <1>3
<1>5. ASSUME NEW q \in Preparers \ {p}
      PROVE  /\ Running(q) => preparing'[q] = [preparing[q] EXCEPT !.alone = FALSE]
             /\ ~Running(q) => preparing'[q] = preparing[q]
  BY <1>3
<1>6. ASSUME NEW q \in Preparers \ {p}
      PROVE  /\ preparing'[q] \in Preparations
             /\ preparing'[q].at = preparing[q].at /\ preparing'[q].row = preparing[q].row
             /\ Running(q) => ~preparing'[q].alone
  <2>1. preparing[q] \in Preparations
    BY <1>1 DEF AcquisitionTypeOK
  <2> QED
    BY <1>5, <2>1 DEF Preparations
<1>7. Len(documents) \in Nat /\ documents' \in Seq(Rows) /\ Grows
  BY <1>1, RowsAreNumbered DEF AcquisitionTypeOK, Grows
<1>8. AcquisitionTypeOK'
  <2>1. \A q \in Preparers : preparing'[q] \in Preparations
    BY <1>2, <1>4, <1>6
  <2>2. preparing' \in [Preparers -> Preparations]
    BY <1>3, <2>1
  <2>3. \A q \in Preparers : preparing'[q].row <= Len(documents)
    BY <1>1, <1>2, <1>4, <1>6, <1>7 DEF AcquisitionTypeOK
  <2> QED
    BY <1>1, <2>2, <2>3 DEF AcquisitionTypeOK
<1>9. Past' = Past
  <2>1. \A q \in Preparers : q \in Past' <=> q \in Past
    BY <1>1, <1>2, <1>4, <1>6 DEF Past
  <2> QED
    BY <2>1 DEF Past
<1>10. UrlsOK'
  BY <1>1 DEF AcquisitionInv, UrlsOK
<1>11. ASSUME NEW q \in Preparers \ {p}
       PROVE  /\ RequestOK(preparing'[q]) /\ RowsOK(q)'
              /\ preparing'[q].alone => AloneOK(q)'
  <2>1. UNCHANGED source /\ (preparing'[q].alone => ~Running(q) \/ UNCHANGED documents)
    BY <1>1
  <2>2. preparing'[q] = preparing[q] \/ preparing'[q] = [preparing[q] EXCEPT !.alone = FALSE]
    BY <1>5
  <2> QED
    BY <1>7, <2>1, <2>2, OthersStay
<1>12. RequestOK(preparing'[p]) /\ RowsOK(p)' /\ AloneOK(p)'
  BY <1>2, <1>4 DEF RowsOK, AloneOK
<1>13. ASSUME NEW q \in Preparers, preparing'[q].alone, Running(q)',
              NEW r \in Preparers \ {q}
       PROVE  ~Running(r)'
  <2>1. CASE q = p
    BY <1>2, <1>4, <1>6, <1>13, <2>1 DEF Running
  <2>2. CASE q # p
    BY <1>6, <1>13, <2>2 DEF Running
  <2> QED
    BY <2>1, <2>2
<1>14. ASSUME NEW q \in Preparers
       PROVE  (/\ RequestOK(preparing[q]) /\ RowsOK(q)
               /\ preparing[q].alone =>
                     /\ AloneOK(q)
                     /\ Running(q) => \A r \in Preparers \ {q} : ~Running(r))'
  BY <1>11, <1>12, <1>13
<1> QED
  BY <1>1, <1>8, <1>9, <1>10, <1>14 DEF AcquisitionInv

-----------------------------------------------------------------------------
(* The rows that are written.                                              *)

\* A step that changes no row, of who is past the writing or is not.
LEMMA ReadStep ==
    ASSUME AcquisitionInv, NEW p \in Preparers, NEW t \in Preparations, Running(p),
           preparing' = [preparing EXCEPT ![p] = t], UNCHANGED <<source, documents>>,
           t.row <= Len(documents), p \in Past => p \in Past',
           RequestOK(t), RowsOK(p)',
           t.alone = preparing[p].alone, t.alone => AloneOK(p)'
    PROVE  AcquisitionInv'
<1>1. AcquisitionTypeOK /\ UNCHANGED source /\ UNCHANGED documents
  BY DEF AcquisitionInv
<1>2. Len(documents) \in Nat /\ documents' \in Seq(Rows) /\ UrlsOK'
      /\ Len(documents) <= Len(documents')
  BY <1>1, RowsAreNumbered DEF AcquisitionInv, AcquisitionTypeOK, UrlsOK
<1>3. Grows
  BY <1>1, <1>2 DEF Grows
<1>4. Past \in SUBSET Past' /\ Past' \in SUBSET Preparers
  BY <1>1 DEF Past, AcquisitionTypeOK
<1>5. IsFiniteSet(Past')
  BY <1>4, FS_Subset, AcquisitionAssumption
<1>6. /\ Cardinality(Past) <= Cardinality(Past') /\ IsFiniteSet(Past)
      /\ Cardinality(Past') \in Nat
  BY <1>4, <1>5, FS_Subset, FS_CardinalityType
<1>7. Cardinality(Past) \in Nat
  BY <1>6, FS_CardinalityType
<1>8. \A a, b, c \in Nat : a <= b /\ b <= c => a <= c
  OBVIOUS
<1>9. Len(documents) <= Cardinality(Past')
  BY <1>2, <1>6, <1>7, <1>8 DEF AcquisitionInv
<1> QED
  BY <1>1, <1>2, <1>3, <1>9, StepIsOK

LEMMA LookForRowIsOK ==
    ASSUME AcquisitionInv, NEW p \in Preparers, LookForRow(p) PROVE AcquisitionInv'
<1> DEFINE s == preparing[p]
           found == NewestRow(FetchedUrl(s))
           t == [s EXCEPT !.at = "write", !.row = found]
<1>1. AcquisitionTypeOK /\ s \in Preparations /\ RequestOK(s) /\ s.at = "look"
      /\ UNCHANGED source /\ UNCHANGED documents
  BY DEF AcquisitionInv, AcquisitionTypeOK, LookForRow, At
<1>2. /\ found \in 0 .. Len(documents)
      /\ found > 0 => documents[found].url = FetchedUrl(s)
  BY <1>1, NewestRowIsThere
<1>3. preparing' = [preparing EXCEPT ![p] = t] /\ Running(p)
  BY <1>1 DEF LookForRow, Goes, Running
<1>4. Len(documents) \in Nat
  BY <1>1, RowsAreNumbered
<1> HIDE DEF found
<1>5. found \in Nat /\ found <= Len(documents)
  BY <1>2, <1>4
<1>6. /\ t \in Preparations /\ t.at = "write" /\ t.stage = s.stage
      /\ t.failure = s.failure /\ t.page = s.page
      /\ t.row = found /\ t.alone = s.alone /\ t.chosen = s.chosen
  BY <1>1, <1>5 DEF Preparations
<1>7. RequestOK(t)
  BY <1>1, <1>6 DEF RequestOK
<1> HIDE DEF t
<1>8. preparing'[p] = t
  BY <1>1, <1>3 DEF AcquisitionTypeOK
<1>9. FetchedUrl(preparing[p])' = FetchedUrl(s)
  BY <1>1, <1>6, <1>8 DEF FetchedUrl, Url
<1>10. RowsOK(p)'
  BY <1>1, <1>2, <1>6, <1>8, <1>9 DEF RowsOK
<1>11. AloneOK(p)'
  BY <1>6, <1>8 DEF AloneOK
<1>12. p \notin Past
  BY <1>1 DEF Past
<1> QED
  BY <1>1, <1>3, <1>5, <1>6, <1>7, <1>10, <1>11, <1>12, ReadStep

LEMMA FindDocumentIsOK ==
    ASSUME AcquisitionInv, NEW p \in Preparers, FindDocument(p) PROVE AcquisitionInv'
<1> DEFINE s == preparing[p]
           found == NewestRow("href")
           t == IF found = 0 THEN [s EXCEPT !.at = "error"]
                ELSE [s EXCEPT !.at = "save", !.row = found]
<1>1. AcquisitionTypeOK /\ s \in Preparations /\ RequestOK(s) /\ s.at = "find"
      /\ RowsOK(p) /\ UNCHANGED source /\ UNCHANGED documents
  BY DEF AcquisitionInv, AcquisitionTypeOK, FindDocument, At
<1>2. /\ found \in 0 .. Len(documents)
      /\ found = 0 => \A i \in DOMAIN documents : documents[i].url # "href"
  BY <1>1, NewestRowIsThere
<1>3. preparing' = [preparing EXCEPT ![p] = t] /\ Running(p)
  BY <1>1 DEF FindDocument, Goes, Running
<1>4. Len(documents) \in Nat /\ s.row <= Len(documents)
  BY <1>1, RowsAreNumbered DEF AcquisitionTypeOK
<1> HIDE DEF found
<1>5. found \in Nat /\ found <= Len(documents)
  BY <1>2, <1>4
<1>6. /\ t \in Preparations /\ t.stage = s.stage
      /\ t.failure = s.failure /\ t.page = s.page /\ t.alone = s.alone
      /\ t.at = IF found = 0 THEN "error" ELSE "save"
      /\ t.row = IF found = 0 THEN s.row ELSE found
      /\ t.chosen = s.chosen
  BY <1>1, <1>5 DEF Preparations
<1>7. RequestOK(t)
  BY <1>1, <1>6 DEF RequestOK
<1> HIDE DEF t
<1>8. preparing'[p] = t
  BY <1>1, <1>3 DEF AcquisitionTypeOK
<1>9. RowsOK(p)'
  BY <1>1, <1>2, <1>5, <1>6, <1>8 DEF RowsOK
<1>10. AloneOK(p)'
  BY <1>6, <1>8 DEF AloneOK
<1>11. p \in Past' /\ t.row <= Len(documents)
  BY <1>4, <1>5, <1>6, <1>8 DEF Past
<1> QED
  BY <1>1, <1>3, <1>6, <1>7, <1>9, <1>10, <1>11, ReadStep

\* A page without a text is one in which nothing was found anywhere.
LEMMA PageTextIsAny ==
    ASSUME NEW page \in ArticlePages \cup {NoPage}
    PROVE  /\ PageText(page) \in PageTexts
           /\ PageText(page) = None => \A i \in DOMAIN page.texts : page.texts[i] = None
<1> DEFINE found == {i \in DOMAIN page.texts \ {1} : page.texts[i] # None}
<1>1. CASE page = NoPage
  <2>1. /\ page.type = "text" /\ DOMAIN page.texts = {1} /\ page.texts[1] = None
    BY <1>1 DEF NoPage
  <2>2. PageText(page) = None
    BY <2>1 DEF PageText, ReadText
  <2> QED
    BY <2>1, <2>2 DEF PageTexts
<1>2. CASE page \in ArticlePages
  <2>1. /\ page.texts \in Seq(PageTexts)
        /\ Len(page.texts) \in IF page.type = "html" THEN 1 .. 3 ELSE {1}
    BY <1>2, AcquisitionAssumption
  <2>2. /\ DOMAIN page.texts = 1 .. Len(page.texts) /\ Len(page.texts) \in Nat \ {0}
        /\ \A i \in DOMAIN page.texts : page.texts[i] \in PageTexts
        /\ page.type # "html" => DOMAIN page.texts = {1}
    BY <2>1
  <2>3. 1 \in DOMAIN page.texts /\ found \subseteq DOMAIN page.texts
    BY <2>2
  <2>4. found # {} => FallbackText(page) \in PageTexts /\ FallbackText(page) # None
    <3> SUFFICES ASSUME found # {}
                 PROVE  FallbackText(page) \in PageTexts /\ FallbackText(page) # None
      OBVIOUS
    <3>1. found \subseteq Nat
      BY <2>2, <2>3
    <3>2. \E i \in found : \A j \in found : i <= j
      BY <3>1, LeastOfNaturals
    <3> DEFINE first == CHOOSE i \in found : \A j \in found : i <= j
    <3>3. first \in found
      BY <3>2
    <3>4. FallbackText(page) = page.texts[first]
      BY DEF FallbackText
    <3> HIDE DEF first
    <3> QED
      BY <2>2, <2>3, <3>3, <3>4
  <2>5. found = {} => /\ FallbackText(page) = None
                      /\ \A i \in DOMAIN page.texts \ {1} : page.texts[i] = None
    BY DEF FallbackText
  <2>6. None \in PageTexts
    BY DEF PageTexts
  <2>7. CASE page.type = "html" /\ page.texts[1] = None
    <3>1. PageText(page) = FallbackText(page)
      BY <2>7 DEF PageText, ReadText
    <3> HIDE DEF found
    <3> QED
      BY <2>4, <2>5, <2>6, <2>7, <3>1
  <2>8. CASE ~(page.type = "html" /\ page.texts[1] = None)
    <3>1. PageText(page) = page.texts[1]
      BY <2>8 DEF PageText, ReadText
    <3> QED
      BY <2>2, <2>3, <2>8, <3>1
  <2> QED
    BY <2>7, <2>8
<1> QED
  BY <1>1, <1>2

LEMMA WriteFetchIsOK ==
    ASSUME AcquisitionInv, NEW p \in Preparers, WriteFetch(p) PROVE AcquisitionInv'
<1> DEFINE s == preparing[p]
           n == Len(documents)
           status == FetchStatus(s.failure)
           new == [url |-> FetchedUrl(s), status |-> status, text |-> None, updated |-> 0]
           at == IF s.failure = None THEN "find" ELSE "choose"
           t == [s EXCEPT !.at = at, !.row = 0]
<1>1. AcquisitionTypeOK /\ s \in Preparations /\ RequestOK(s) /\ s.at = "write"
      /\ RowsOK(p) /\ UrlsOK /\ UNCHANGED source
      /\ n \in Nat /\ DOMAIN documents = 1 .. n
      /\ documents \in Seq(Rows) /\ source.normal \in BOOLEAN
  BY RowsAreNumbered DEF AcquisitionInv, AcquisitionTypeOK, WriteFetch, At
<1>2. preparing' = [preparing EXCEPT ![p] = t] /\ Running(p)
  BY <1>1 DEF WriteFetch, Goes, Running
<1>3. /\ status \in {"pending", "failed", "access_restricted", "unsupported"}
      /\ s.failure = "restricted" => status = "access_restricted"
  BY <1>1 DEF FetchStatus, Preparations, Failures, None
<1>4. /\ FetchedUrl(s) \in {"raw", "href"}
      /\ source.normal => FetchedUrl(s) = "href"
      /\ s.failure = None /\ s.stage # "snapshot" => FetchedUrl(s) = "href"
  BY DEF FetchedUrl, Url
<1>5. new \in Rows
  <2>1. None \in PageTexts
    BY DEF PageTexts
  <2>2. status \in Failures \cup {"pending", "failed", "access_restricted",
                                  "extracted", "low_confidence"}
    BY <1>3 DEF Failures
  <2> HIDE DEF status, None
  <2> QED
    BY <1>4, <2>1, <2>2 DEF Rows
<1>6. /\ t \in Preparations /\ t.at = at /\ t.stage = s.stage
      /\ t.failure = s.failure /\ t.page = s.page
      /\ t.row = 0 /\ t.alone = s.alone /\ t.chosen = s.chosen
  BY <1>1 DEF Preparations
<1>7. RequestOK(t)
  BY <1>1, <1>6 DEF RequestOK
<1> HIDE DEF t, status
<1>8. preparing'[p] = t /\ \A q \in Preparers \ {p} : preparing'[q] = preparing[q]
  BY <1>1, <1>2 DEF AcquisitionTypeOK
\* the row written is of the URL, and others are left alone
<1>9. /\ \E i \in DOMAIN documents' :
            /\ documents'[i].url = FetchedUrl(s) /\ documents'[i].status = status
            /\ \A j \in DOMAIN documents' \ {i} :
                  j \in DOMAIN documents /\ documents'[j] = documents[j]
            /\ i \in DOMAIN documents => documents[i].url = FetchedUrl(s)
      /\ documents' \in Seq(Rows)
      /\ n <= Len(documents') /\ Len(documents') <= n + 1
  <2>1. CASE s.row > 0
    <3> DEFINE row == [documents[s.row] EXCEPT !.status = status]
    <3>1. documents' = [documents EXCEPT ![s.row] = row]
      BY <2>1 DEF WriteFetch, status
    <3>2. s.row \in DOMAIN documents /\ documents[s.row] \in Rows
          /\ documents[s.row].url = FetchedUrl(s)
      <4>1. s.row \in Nat /\ s.row <= n
        BY <1>1 DEF AcquisitionTypeOK, Preparations
      <4>2. s.row \in DOMAIN documents
        BY <1>1, <2>1, <4>1
      <4> QED
        BY <1>1, <2>1, <4>2, RowsAreNumbered DEF RowsOK
    <3>3. row \in Rows /\ row.url = FetchedUrl(s) /\ row.status = status
      <4>1. status \in Failures \cup {"pending", "failed", "access_restricted",
                                      "extracted", "low_confidence"}
        BY <1>3 DEF Failures
      <4> QED
        BY <3>2, <4>1 DEF Rows
    <3> HIDE DEF row
    <3>4. /\ documents' \in Seq(Rows) /\ DOMAIN documents' = DOMAIN documents
          /\ Len(documents') = n /\ documents'[s.row] = row
          /\ \A j \in DOMAIN documents \ {s.row} : documents'[j] = documents[j]
      BY <1>1, <3>1, <3>2, <3>3
    <3>5. s.row # 0
      BY <2>1
    <3> QED
      BY <1>1, <3>2, <3>3, <3>4, <3>5
  <2>2. CASE ~(s.row > 0)
    <3>1. documents' = Append(documents, new)
      BY <2>2 DEF WriteFetch, status
    <3>2. new.url = FetchedUrl(s) /\ new.status = status
      OBVIOUS
    <3> HIDE DEF new
    <3>3. /\ documents' \in Seq(Rows) /\ Len(documents') = n + 1
          /\ DOMAIN documents' = 1 .. n + 1
          /\ documents'[n + 1] = new
          /\ \A j \in 1 .. n : documents'[j] = documents[j]
      BY <1>1, <1>5, <3>1
    <3>4. \A m \in Nat : m + 1 \notin 1 .. m /\ m + 1 \in 1 .. m + 1
                         /\ (\A j \in (1 .. m + 1) \ {m + 1} : j \in 1 .. m)
      OBVIOUS
    <3>5. n + 1 \notin DOMAIN documents /\ n + 1 \in DOMAIN documents'
          /\ (\A j \in DOMAIN documents' \ {n + 1} : j \in DOMAIN documents)
      BY <1>1, <3>3, <3>4
    <3> QED
      BY <1>1, <3>2, <3>3, <3>5
  <2> QED
    BY <2>1, <2>2
<1>10. PICK i \in DOMAIN documents' :
         /\ documents'[i].url = FetchedUrl(s) /\ documents'[i].status = status
         /\ \A j \in DOMAIN documents' \ {i} :
               j \in DOMAIN documents /\ documents'[j] = documents[j]
         /\ i \in DOMAIN documents => documents[i].url = FetchedUrl(s)
  BY <1>9
<1>11. DOMAIN documents \subseteq DOMAIN documents'
  <2>1. \A a, b \in Nat : a <= b => 1 .. a \subseteq 1 .. b
    OBVIOUS
  <2>2. Len(documents') \in Nat /\ DOMAIN documents' = 1 .. Len(documents')
    BY <1>9
  <2> QED
    BY <1>1, <1>9, <2>1, <2>2
<1>12. Grows
  BY <1>9, <1>10, <1>11 DEF Grows
<1>13. UrlsOK'
  BY <1>1, <1>4, <1>10 DEF UrlsOK
<1>14. Len(documents') <= Cardinality(Past')
  <2>1. p \notin Past /\ Past' = Past \cup {p}
    <3>1. p \notin Past
      BY <1>1 DEF Past
    <3>2. \A q \in Preparers : q \in Past' <=> q \in Past \cup {p}
      BY <1>6, <1>8 DEF Past
    <3>3. Past \subseteq Preparers /\ Past' \subseteq Preparers
      BY DEF Past
    <3> QED
      BY <3>1, <3>2, <3>3
  <2>2. Past \in SUBSET Preparers
    BY DEF Past
  <2>3. IsFiniteSet(Past) /\ Cardinality(Past) \in Nat
    BY <2>2, FS_Subset, FS_CardinalityType, AcquisitionAssumption
  <2>4. Cardinality(Past') = Cardinality(Past) + 1
    BY <2>1, <2>3, FS_AddElement
  <2>5. \A a, b, c \in Nat : a <= b + 1 /\ b <= c => a <= c + 1
    OBVIOUS
  <2>6. Len(documents') \in Nat /\ n <= Cardinality(Past)
    BY <1>9 DEF AcquisitionInv
  <2> QED
    BY <1>1, <1>9, <2>3, <2>4, <2>5, <2>6
<1>15. RowsOK(p)'
  <2>1. t.at = "find" => \/ t.stage = "snapshot" /\ ~source'.normal
                         \/ \E j \in DOMAIN documents' : documents'[j].url = "href"
    BY <1>1, <1>4, <1>6, <1>10
  <2> QED
    BY <1>6, <1>8, <2>1 DEF RowsOK
<1>16. ASSUME t.alone
       PROVE  AloneOK(p)'
  <2>1. t.at = "choose" => t.page = NoPage
    BY <1>1, <1>6 DEF RequestOK
  <2>2. ASSUME t.failure = "restricted", source.normal, ~Duplicates'
        PROVE  UsableRows' = {}
    <3>1. status = "access_restricted"
      BY <1>3, <1>6, <2>2
    <3>2. ASSUME NEW j \in DOMAIN documents' \ {i}
          PROVE  FALSE
      <4>1. documents'[j].url = "href" /\ documents'[i].url = "href"
        BY <1>1, <1>13, <2>2 DEF UrlsOK
      <4> QED
        BY <2>2, <3>2, <4>1 DEF Duplicates
    <3> QED
      BY <1>10, <3>1, <3>2 DEF UsableRows
  <2>3. t.at \in {"find", "choose"}
    BY <1>6
  <2> QED
    BY <1>1, <1>8, <2>1, <2>2, <2>3 DEF AloneOK
<1>17. t.row <= Len(documents')
  <2>1. Len(documents') \in Nat
    BY <1>9
  <2> QED
    BY <1>6, <2>1
<1> QED
  BY <1>1, <1>2, <1>6, <1>7, <1>9, <1>12, <1>13, <1>14, <1>15, <1>16, <1>17, StepIsOK

LEMMA SaveExtractionIsOK ==
    ASSUME AcquisitionInv, NEW p \in Preparers, SaveExtraction(p) PROVE AcquisitionInv'
<1> DEFINE s == preparing[p]
           n == Len(documents)
           text == PageText(s.page)
           taken == \E i \in DOMAIN documents \ {s.row} :
                       text # None /\ documents[i].text = text
                                   /\ documents[i].url = documents[s.row].url
           t == [s EXCEPT !.at = IF taken THEN "error" ELSE "choose", !.row = 0]
<1>1. AcquisitionTypeOK /\ s \in Preparations /\ RequestOK(s) /\ s.at = "save"
      /\ RowsOK(p) /\ UrlsOK /\ UNCHANGED source
      /\ n \in Nat /\ DOMAIN documents = 1 .. n
      /\ documents \in Seq(Rows)
  BY RowsAreNumbered DEF AcquisitionInv, AcquisitionTypeOK, SaveExtraction, At
<1>2. preparing' = [preparing EXCEPT ![p] = t] /\ Running(p)
  BY <1>1 DEF SaveExtraction, Goes, Running
<1>3. s.row \in DOMAIN documents /\ documents[s.row] \in Rows
  <2>1. s.row \in Nat /\ s.row <= n /\ s.row > 0
    BY <1>1 DEF AcquisitionTypeOK, Preparations, RowsOK
  <2>2. s.row \in DOMAIN documents
    BY <1>1, <2>1
  <2> QED
    BY <1>1, <2>2, RowsAreNumbered
<1>4. text \in PageTexts
  BY <1>1, PageTextIsAny DEF Preparations
<1>5. s.failure = None /\ s.chosen = None /\ p \in Past
  BY <1>1 DEF RequestOK, Past
<1>6. CASE taken
  <2>1. documents' = documents
    BY <1>6 DEF SaveExtraction
  <2>2. /\ t \in Preparations /\ t.at = "error" /\ t.stage = s.stage
        /\ t.failure = s.failure /\ t.page = s.page
        /\ t.row = 0 /\ t.alone = s.alone /\ t.chosen = s.chosen
    <3> HIDE DEF taken
    <3> QED
      BY <1>1, <1>6 DEF Preparations
  <2>3. RequestOK(t)
    BY <1>1, <1>5, <2>2 DEF RequestOK
  <2>4. Duplicates
    BY <1>3, <1>6 DEF Duplicates
  <2> HIDE DEF t, taken
  <2>5. preparing'[p] = t
    BY <1>1, <1>2 DEF AcquisitionTypeOK
  <2>6. Duplicates'
    BY <2>1, <2>4 DEF Duplicates
  <2>7. RowsOK(p)' /\ AloneOK(p)' /\ p \in Past'
    BY <2>2, <2>5, <2>6, <1>5 DEF RowsOK, AloneOK, Past, None
  <2>8. t.row <= Len(documents)
    BY <1>1, <2>2
  <2> QED
    BY <1>1, <1>2, <2>1, <2>2, <2>3, <2>7, <2>8, ReadStep
<1>7. CASE ~taken
  <2> DEFINE new == [url |-> documents[s.row].url, status |-> ExtractionStatus(text),
                     text |-> text, updated |-> Newest + 1]
  <2>1. documents' = [documents EXCEPT ![s.row] = new]
    BY <1>7 DEF SaveExtraction
  <2>2. /\ t \in Preparations /\ t.at = "choose" /\ t.stage = s.stage
        /\ t.failure = s.failure /\ t.page = s.page
        /\ t.row = 0 /\ t.alone = s.alone /\ t.chosen = s.chosen
    <3> HIDE DEF taken
    <3> QED
      BY <1>1, <1>7 DEF Preparations
  <2>3. RequestOK(t)
    BY <1>1, <1>5, <2>2 DEF RequestOK
  <2>4. /\ Newest \in Nat
        /\ \A i \in DOMAIN documents : documents[i].updated <= Newest
    BY <1>1, NewestIsGreatest
  <2>5. ExtractionStatus(text) \in {"extracted", "low_confidence"}
    BY DEF ExtractionStatus
  <2> HIDE DEF t, taken, text
  <2>6. /\ new \in Rows /\ new.url = documents[s.row].url
        /\ new.status \in {"extracted", "low_confidence"}
        /\ new.text = text /\ new.updated = Newest + 1
    BY <1>3, <1>4, <2>4, <2>5 DEF Rows
  <2> HIDE DEF new
  <2>7. /\ documents' \in Seq(Rows) /\ Len(documents') = n
        /\ DOMAIN documents' = DOMAIN documents
        /\ documents'[s.row] = new
        /\ \A i \in DOMAIN documents \ {s.row} : documents'[i] = documents[i]
    BY <1>1, <1>3, <2>1, <2>6
  <2>8. Grows
    BY <1>1, <2>6, <2>7 DEF Grows
  <2>9. UrlsOK'
    BY <1>1, <1>3, <2>6, <2>7 DEF UrlsOK
  <2>10. preparing'[p] = t /\ \A q \in Preparers \ {p} : preparing'[q] = preparing[q]
    BY <1>1, <1>2 DEF AcquisitionTypeOK
  <2>11. Past' = Past
    <3>1. \A q \in Preparers : q \in Past' <=> q \in Past
      BY <1>1, <2>2, <2>10 DEF Past
    <3> QED
      BY <3>1 DEF Past
  <2>12. Len(documents') <= Cardinality(Past') /\ t.row <= Len(documents')
    BY <1>1, <2>2, <2>7, <2>11 DEF AcquisitionInv
  <2>13. RowsOK(p)'
    BY <2>2, <2>10 DEF RowsOK
  <2>14. AloneOK(p)'
    <3>1. s.row \in UsableRows'
      BY <1>3, <2>6, <2>7 DEF UsableRows
    <3>2. ASSUME NEW j \in UsableRows' \ {s.row}
          PROVE  documents'[j].updated < documents'[s.row].updated
      <4>1. j \in DOMAIN documents /\ documents'[j] = documents[j]
        BY <2>7 DEF UsableRows
      <4>2. documents[j].updated \in Nat /\ documents[j].updated <= Newest
        BY <1>1, <2>4, <4>1, RowsAreNumbered DEF Rows
      <4>3. \A a, b \in Nat : a <= b => a < b + 1
        OBVIOUS
      <4> QED
        BY <2>4, <2>6, <2>7, <4>1, <4>2, <4>3
    <3>3. documents'[s.row].text = text /\ PageText(preparing'[p].page) = text
      BY <2>2, <2>6, <2>7, <2>10 DEF text
    <3>4. IsNewest(PageText(preparing[p].page))'
      BY <3>1, <3>2, <3>3 DEF IsNewest
    <3> QED
      BY <1>5, <2>2, <2>10, <3>4 DEF AloneOK, None
  <2> QED
    BY <1>1, <1>2, <2>2, <2>3, <2>7, <2>8, <2>9, <2>12, <2>13, <2>14, StepIsOK
<1> QED
  BY <1>6, <1>7

LEMMA ChooseDocumentIsOK ==
    ASSUME AcquisitionInv, NEW p \in Preparers, ChooseDocument(p) PROVE AcquisitionInv'
<1> DEFINE s == preparing[p]
           newest == {i \in UsableRows : \A j \in UsableRows :
                         documents[j].updated <= documents[i].updated}
<1>1. AcquisitionTypeOK /\ s \in Preparations /\ RequestOK(s) /\ s.at = "choose"
      /\ (s.alone => AloneOK(p)) /\ s.chosen = None
      /\ UNCHANGED source /\ UNCHANGED documents
  BY DEF AcquisitionInv, AcquisitionTypeOK, ChooseDocument, At, RequestOK
\* what is chosen is the newest text there is, or none
<1>2. PICK text \in PageTexts :
         /\ Goes(p, [s EXCEPT !.at = "done", !.chosen = text])
         /\ \/ newest = {} /\ text = None
            \/ \E i \in newest : text = documents[i].text
  <2>1. CASE newest = {} /\ Goes(p, [s EXCEPT !.at = "done"])
    <3>1. [s EXCEPT !.at = "done"] = [s EXCEPT !.at = "done", !.chosen = None]
      BY <1>1 DEF Preparations
    <3>2. None \in PageTexts
      BY DEF PageTexts
    <3> HIDE DEF newest, None
    <3> QED
      BY <2>1, <3>1, <3>2
  <2>2. ASSUME NEW i \in newest,
               Goes(p, [s EXCEPT !.at = "done", !.chosen = documents[i].text])
        PROVE  documents[i].text \in PageTexts
    BY <1>1, RowsAreNumbered DEF UsableRows, Rows
  <2>3. \/ newest = {} /\ Goes(p, [s EXCEPT !.at = "done"])
        \/ \E i \in newest : Goes(p, [s EXCEPT !.at = "done", !.chosen = documents[i].text])
    BY DEF ChooseDocument
  <2> HIDE DEF newest
  <2> QED
    BY <2>1, <2>2, <2>3
<1> DEFINE t == [s EXCEPT !.at = "done", !.chosen = text]
<1>3. preparing' = [preparing EXCEPT ![p] = t] /\ Running(p)
  BY <1>1, <1>2 DEF Goes, Running
<1>4. /\ t \in Preparations /\ t.at = "done" /\ t.stage = s.stage
      /\ t.failure = s.failure /\ t.page = s.page
      /\ t.row = s.row /\ t.alone = s.alone /\ t.chosen = text
  BY <1>1, <1>2 DEF Preparations
<1>5. RequestOK(t)
  BY <1>1, <1>4 DEF RequestOK
<1> HIDE DEF t
<1>6. preparing'[p] = t
  BY <1>1, <1>3 DEF AcquisitionTypeOK
<1>7. RowsOK(p)' /\ p \in Past' /\ t.row <= Len(documents)
  BY <1>1, <1>4, <1>6 DEF RowsOK, Past, AcquisitionTypeOK
<1>8. ASSUME t.alone
      PROVE  AloneOK(p)'
  <2>1. AloneOK(p)
    BY <1>1, <1>4, <1>8
  <2>2. ASSUME s.page # NoPage
        PROVE  text = PageText(s.page)
    <3>1. PICK k \in UsableRows :
             /\ documents[k].text = PageText(s.page)
             /\ \A j \in UsableRows \ {k} : documents[j].updated < documents[k].updated
      BY <1>1, <2>1, <2>2 DEF AloneOK, IsNewest
    <3>2. \A j \in UsableRows : documents[j].updated \in Nat
      BY <1>1, RowsAreNumbered DEF UsableRows, Rows
    <3>3. \A a, b \in Nat : a < b => a <= b /\ ~(b <= a)
      OBVIOUS
    <3>4. \A j \in UsableRows : documents[j].updated <= documents[k].updated
      BY <3>1, <3>2, <3>3
    <3>5. k \in newest
      BY <3>1, <3>4
    <3>6. PICK i \in newest : text = documents[i].text
      BY <1>2, <3>5
    <3>7. i = k
      <4>1. i \in UsableRows /\ documents[k].updated <= documents[i].updated
        BY <3>1, <3>6
      <4> QED
        BY <3>1, <3>2, <3>3, <4>1
    <3> QED
      BY <3>1, <3>6, <3>7
  <2>3. Duplicates' = Duplicates
    BY <1>1 DEF Duplicates
  <2>4. ASSUME s.failure = "restricted", source.normal, ~Duplicates
        PROVE  text = None
    <3>1. UsableRows = {}
      BY <1>1, <2>1, <2>4 DEF AloneOK
    <3> QED
      BY <1>2, <3>1
  <2>5. PageText(preparing'[p].page) = PageText(s.page)
    BY <1>4, <1>6
  <2> QED
    BY <1>1, <1>4, <1>6, <2>2, <2>3, <2>4, <2>5 DEF AloneOK
<1> QED
  BY <1>1, <1>3, <1>4, <1>5, <1>7, <1>8, ReadStep

LEMMA AcquisitionStutter ==
    ASSUME AcquisitionInv, UNCHANGED acquisitionVars PROVE AcquisitionInv'
<1>1. UNCHANGED source /\ UNCHANGED preparing /\ UNCHANGED documents
  BY DEF acquisitionVars
<1>2. AcquisitionTypeOK /\ Len(documents) \in Nat
  BY RowsAreNumbered DEF AcquisitionInv
<1>3. documents' \in Seq(Rows) /\ Grows
  BY <1>1, <1>2 DEF AcquisitionTypeOK, Grows
<1>4. \A q \in Preparers : RequestOK(preparing'[q]) /\ RowsOK(q)'
                           /\ (preparing'[q].alone => AloneOK(q)')
  BY <1>1, <1>3, OthersStay
<1>5. AcquisitionTypeOK' /\ UrlsOK' /\ Len(documents') <= Cardinality(Past')
  BY <1>1 DEF AcquisitionInv, AcquisitionTypeOK, UrlsOK, Past
<1>6. \A q \in Preparers : preparing'[q].alone /\ Running(q)' =>
         \A r \in Preparers \ {q} : ~Running(r)'
  BY <1>1 DEF AcquisitionInv, Running
<1> QED
  BY <1>1, <1>4, <1>5, <1>6 DEF AcquisitionInv

-----------------------------------------------------------------------------
(* The theorems.                                                           *)

\* The inductive invariant of an acquisition: failures and pages exclude each
\* other, rows that were found are there, and who prepares alone finds the row
\* it wrote.
THEOREM AcquisitionAlways == AcquisitionSpec => []AcquisitionInv
<1>1. AcquisitionInit => AcquisitionInv
  BY AcquisitionInitially
<1>2. AcquisitionInv /\ [AcquisitionNext]_acquisitionVars => AcquisitionInv'
  <2> SUFFICES ASSUME AcquisitionInv, [AcquisitionNext]_acquisitionVars
               PROVE  AcquisitionInv'
    OBVIOUS
  <2>1. ASSUME NEW p \in Preparers, BeginAcquisition(p) \/ AcquisitionStep(p)
        PROVE  AcquisitionInv'
    <3>1. CASE BeginAcquisition(p)
      BY <3>1, BeginAcquisitionIsOK
    <3>2. CASE CheckUrl(p) \/ SendRequest(p)
      BY <3>2, CheckUrlIsOK, SendRequestIsOK
    <3>3. CASE LookForRow(p) \/ WriteFetch(p)
      BY <3>3, LookForRowIsOK, WriteFetchIsOK
    <3>4. CASE FindDocument(p) \/ SaveExtraction(p) \/ ChooseDocument(p)
      BY <3>4, FindDocumentIsOK, SaveExtractionIsOK, ChooseDocumentIsOK
    <3> QED
      BY <2>1, <3>1, <3>2, <3>3, <3>4 DEF AcquisitionStep
  <2>2. CASE UNCHANGED acquisitionVars
    BY <2>2, AcquisitionStutter
  <2> QED
    BY <2>1, <2>2 DEF AcquisitionNext
<1> QED
  BY <1>1, <1>2, PTL DEF AcquisitionSpec

\* A refusal by the article's own server is respected: the archive is not asked
\* (acquireArticle), and an earlier text is not used instead (prepareStory).
THEOREM RefusalsAreRespected == AcquisitionSpec => []RestrictedIsRespected
<1>1. AcquisitionInv => RestrictedIsRespected
  BY DEF AcquisitionInv, RequestOK, AloneOK, RestrictedIsRespected, At
<1> QED
  BY <1>1, AcquisitionAlways, PTL

\* A preparation ends with the text of the page it was served, in whichever of
\* its places it was (extractArticle), or for one of two known reasons with an
\* error (recordExtraction).
THEOREM TextIsAlwaysFound == AcquisitionSpec => []TextIsFound
<1>1. AcquisitionInv => TextIsFound
  <2> SUFFICES ASSUME AcquisitionInv
               PROVE  AcquisitionTypeOK /\ ServedTextIsUsed /\ ErrorsAreExplained
    BY DEF TextIsFound
  <2>1. AcquisitionTypeOK
    BY DEF AcquisitionInv
  <2>2. ServedTextIsUsed
    <3> SUFFICES ASSUME NEW p \in Preparers, preparing[p].at = "done",
                        preparing[p].alone, preparing[p].page # NoPage
                 PROVE  /\ preparing[p].chosen = PageText(preparing[p].page)
                        /\ preparing[p].chosen = None =>
                              \A i \in DOMAIN preparing[p].page.texts :
                                  preparing[p].page.texts[i] = None
      BY DEF ServedTextIsUsed, At
    <3>1. preparing[p].chosen = PageText(preparing[p].page)
      BY DEF AcquisitionInv, AloneOK
    <3>2. preparing[p].page \in ArticlePages \cup {NoPage}
      BY <2>1 DEF AcquisitionTypeOK, Preparations
    <3> QED
      BY <3>1, <3>2, PageTextIsAny
  <2>3. ErrorsAreExplained
    BY DEF AcquisitionInv, RowsOK, ErrorsAreExplained, At
  <2> QED
    BY <2>1, <2>2, <2>3
<1> QED
  BY <1>1, AcquisitionAlways, PTL

-----------------------------------------------------------------------------
ReuseRows == QueuedJobs \cup AskedJobs \cup SucceededJobs

\* The analysis a says what p was prepared from; if it was not changed meanwhile.
Fits(a, p, changed) ==
    /\ ~changed => /\ a.from.article = p.content.article
                   /\ a.from.comments = p.content.comments
                   /\ a.by = p.version
    /\ p.content.comments # Nothing => a.story = p.story
    /\ a.rowStory = a.story
    /\ a.article <=> p.content.article # Nothing
    /\ a.rowVersion = a.by

\* The row r is right while stories have the content c and v is the version.
IsRight(r, c, v) ==
    /\ r.status = "succeeded" => Fits(r.analysis, r.prepared, r.changed)
    /\ r.status # "succeeded" /\ ~r.changed =>
          c[r.prepared.story] = r.prepared.content /\ v = r.prepared.version
    /\ r.status = "asked" =>
          r.by = v /\ (~r.changed => r.from = r.prepared.content)

\* The inductive invariant.
ReuseInv ==
    /\ ReuseTypeOK
    /\ \A j \in ReuseJobs : HasJob(j) => IsRight(reuseJob[j], content, version)

-----------------------------------------------------------------------------
(* ReuseRows.                                                                   *)

\* A row that is there is a record of one of three kinds, told by its status.
LEMMA RowColumns ==
    ASSUME NEW r \in {NoJob} \cup ReuseRows
    PROVE  /\ r # NoJob <=> r \in ReuseRows
           /\ r \in ReuseRows =>
                 /\ r.status \in {"queued", "asked", "succeeded"}
                 /\ r.prepared \in Prepared /\ r.changed \in BOOLEAN
                 /\ r.status = "queued" => r \in QueuedJobs
                 /\ r.status = "asked" => r \in AskedJobs
                 /\ r.status = "succeeded" => r \in SucceededJobs
BY DEF ReuseRows, QueuedJobs, AskedJobs, SucceededJobs, NoJob

LEMMA JobColumns ==
    ASSUME ReuseTypeOK, NEW j \in ReuseJobs
    PROVE  /\ reuseJob[j] \in {NoJob} \cup ReuseRows
           /\ HasJob(j) <=> reuseJob[j] \in ReuseRows
           /\ Succeeded(j) <=> reuseJob[j] \in ReuseRows /\ reuseJob[j].status = "succeeded"
<1>1. reuseJob[j] \in {NoJob} \cup ReuseRows
  BY DEF ReuseTypeOK, ReuseRows
<1> QED
  BY <1>1, RowColumns DEF HasJob, Succeeded

\* A request is for what is stored now, an answer is of what was asked for.
LEMMA AskedIsRight ==
    ASSUME NEW c \in [Stories -> Contents], NEW v \in Versions, NEW r \in QueuedJobs,
           IsRight(r, c, v),
           NEW new, new = [status |-> "asked", prepared |-> r.prepared,
                           changed |-> r.changed, analysis |-> NoAnalysis,
                           from |-> c[r.prepared.story], by |-> v]
    PROVE  new \in AskedJobs /\ IsRight(new, c, v)
BY DEF QueuedJobs, AskedJobs, IsRight, Prepared

LEMMA PersistedIsRight ==
    ASSUME NEW c \in [Stories -> Contents], NEW v \in Versions, NEW r \in AskedJobs,
           IsRight(r, c, v),
           NEW new, new = [status |-> "succeeded", prepared |-> r.prepared,
                           changed |-> r.changed,
                           analysis |-> [story |-> r.prepared.story, from |-> r.from,
                                         by |-> r.by, rowStory |-> r.prepared.story,
                                         rowVersion |-> v,
                                         article |-> r.prepared.content.article # Nothing]]
    PROVE  new \in SucceededJobs /\ IsRight(new, c, v)
<1>1. /\ r.prepared \in Prepared /\ r.from \in Contents /\ r.by \in Versions
      /\ r.changed \in BOOLEAN /\ r.status = "asked"
      /\ r.prepared.story \in Stories
  BY DEF AskedJobs, Prepared
<1>2. new.analysis \in Analyses /\ new \in SucceededJobs
  BY <1>1 DEF Analyses, SucceededJobs
<1>3. r.by = v /\ (~r.changed => r.from = r.prepared.content /\ v = r.prepared.version)
  BY <1>1 DEF IsRight
<1>4. Fits(new.analysis, r.prepared, r.changed)
  BY <1>3 DEF Fits
<1> QED
  BY <1>2, <1>4 DEF IsRight

\* Keys are the same only for the same article and version and, of the same
\* story, the same comments.
LEMMA KeysTell ==
    ASSUME NEW p \in Prepared, NEW q \in Prepared, CacheKey(p) = CacheKey(q)
    PROVE  /\ p.content.article = q.content.article
           /\ p.content.comments = q.content.comments
           /\ p.version = q.version
           /\ p.content.comments # Nothing => p.story = q.story
<1> DEFINE C(x) == IF x.content.comments = Nothing THEN <<>>
                   ELSE <<x.story, x.content.comments>>
<1>1. /\ p.content.article = q.content.article /\ p.version = q.version
      /\ C(p) = C(q)
  BY DEF CacheKey
<1>2. \A x, y : <<x, y>> # <<>>
  OBVIOUS
<1>3. CASE p.content.comments = Nothing
  BY <1>1, <1>2, <1>3
<1>4. CASE p.content.comments # Nothing
  BY <1>1, <1>2, <1>4
<1> QED
  BY <1>1, <1>3, <1>4

\* A copy fits the job it is made for.
LEMMA CopiedIsRight ==
    ASSUME NEW c, NEW v, NEW r \in SucceededJobs, IsRight(r, c, v),
           NEW p \in Prepared, IsContent(p.content), CacheKey(r.prepared) = CacheKey(p),
           NEW new, new = [status |-> "succeeded", prepared |-> p,
                           changed |-> r.changed, analysis |-> Copy(r.analysis, p)]
    PROVE  new \in SucceededJobs /\ IsRight(new, c, v)
<1> DEFINE a == r.analysis
           b == Copy(r.analysis, p)
<1>1. /\ r.prepared \in Prepared /\ r.changed \in BOOLEAN /\ a \in Analyses
      /\ r.status = "succeeded"
  BY DEF SucceededJobs
<1>2. /\ a.article \in BOOLEAN /\ p.content.document \in BOOLEAN
      /\ p.content \in Contents
  BY <1>1 DEF Analyses, Prepared, Contents
<1>3. /\ b \in Analyses
      /\ b.story = a.story /\ b.from = a.from /\ b.by = a.by
      /\ b.rowStory = a.rowStory /\ b.rowVersion = a.rowVersion
      /\ b.article = (a.article /\ p.content.document)
  BY <1>1, <1>2 DEF Copy, Analyses
<1>4. Fits(a, r.prepared, r.changed)
  BY <1>1 DEF IsRight
<1>5. /\ r.prepared.content.article = p.content.article
      /\ r.prepared.content.comments = p.content.comments
      /\ r.prepared.version = p.version
      /\ p.content.comments # Nothing => r.prepared.story = p.story
  BY <1>1, KeysTell
<1> HIDE DEF a, b
<1>6. b.article <=> p.content.article # Nothing
  BY <1>2, <1>3, <1>4, <1>5 DEF Fits, IsContent
<1>7. Fits(b, p, r.changed)
  BY <1>3, <1>4, <1>5, <1>6 DEF Fits
<1>8. new \in SucceededJobs
  BY <1>1, <1>3 DEF SucceededJobs, b
<1> QED
  BY <1>7, <1>8 DEF IsRight, b

-----------------------------------------------------------------------------
(* Steps.                                                                  *)

\* One job's row is replaced, content and version stay.
LEMMA OneRow ==
    ASSUME ReuseInv, NEW j \in ReuseJobs, NEW row \in ReuseRows,
           IsRight(row, content, version),
           reuseJob' = [reuseJob EXCEPT ![j] = row],
           UNCHANGED <<content, version, changes>>
    PROVE  ReuseInv'
<1>1. ReuseTypeOK'
  BY DEF ReuseInv, ReuseTypeOK, ReuseRows
<1>2. /\ reuseJob'[j] = row
      /\ \A i \in ReuseJobs \ {j} : reuseJob'[i] = reuseJob[i]
  BY DEF ReuseInv, ReuseTypeOK
<1>3. ASSUME NEW i \in ReuseJobs, HasJob(i)'
      PROVE  IsRight(reuseJob[i], content, version)'
  <2>1. CASE i = j
    <3>1. reuseJob'[i] = row
      BY <1>2, <2>1
    <3> QED
      BY <3>1 DEF IsRight
  <2>2. CASE i # j
    <3>1. reuseJob'[i] = reuseJob[i] /\ HasJob(i)
      BY <1>2, <1>3, <2>2 DEF HasJob
    <3> QED
      BY <3>1 DEF ReuseInv, IsRight
  <2> QED
    BY <2>1, <2>2
<1> QED
  BY <1>1, <1>3 DEF ReuseInv

\* Content or version change, and rows with them: each that is there is right
\* afterwards.
LEMMA AllRows ==
    ASSUME ReuseInv, content' \in [Stories -> Contents],
           \A s \in Stories : IsContent(content'[s]),
           version' \in Versions, changes' \in 0 .. MaxChanges,
           reuseJob' \in [ReuseJobs -> {NoJob} \cup ReuseRows],
           \A j \in ReuseJobs :
              reuseJob'[j] # NoJob => IsRight(reuseJob'[j], content', version')
    PROVE  ReuseInv'
<1>1. ReuseTypeOK'
  BY DEF ReuseTypeOK, ReuseRows, IsContent
<1>2. \A j \in ReuseJobs : HasJob(j)' => IsRight(reuseJob[j], content, version)'
  BY DEF HasJob, IsRight
<1> QED
  BY <1>1, <1>2 DEF ReuseInv

LEMMA PrepareKeeps ==
    ASSUME ReuseInv, NEW j \in ReuseJobs, NEW s \in Stories, PrepareJob(j, s)
    PROVE  ReuseInv'
<1> DEFINE p == [story |-> s, content |-> content[s], version |-> version]
<1>1. /\ p \in Prepared /\ IsContent(p.content)
      /\ p.story = s /\ p.content = content[s] /\ p.version = version
  BY DEF ReuseInv, ReuseTypeOK, Prepared
<1>2. UNCHANGED <<content, version, changes>>
  BY DEF PrepareJob
<1>3. \/ reuseJob' = [reuseJob EXCEPT ![j] =
                [status |-> "queued", prepared |-> p, changed |-> FALSE,
                 analysis |-> NoAnalysis]]
      \/ \E hit \in Hits(p) :
             reuseJob' = [reuseJob EXCEPT ![j] =
                [status |-> "succeeded", prepared |-> p,
                 changed |-> reuseJob[hit].changed,
                 analysis |-> Copy(reuseJob[hit].analysis, p)]]
  BY DEF PrepareJob
<1> HIDE DEF p
<1>4. CASE reuseJob' = [reuseJob EXCEPT ![j] =
                [status |-> "queued", prepared |-> p, changed |-> FALSE,
                 analysis |-> NoAnalysis]]
  <2> DEFINE new == [status |-> "queued", prepared |-> p, changed |-> FALSE,
                     analysis |-> NoAnalysis]
  <2>1. new \in QueuedJobs /\ new \in ReuseRows
    BY <1>1 DEF QueuedJobs, ReuseRows
  <2>2. IsRight(new, content, version)
    BY <1>1 DEF IsRight
  <2> HIDE DEF new
  <2>3. reuseJob' = [reuseJob EXCEPT ![j] = new]
    BY <1>4 DEF new
  <2> QED
    BY <1>2, <2>1, <2>2, <2>3, OneRow
<1>5. ASSUME NEW hit \in Hits(p),
             reuseJob' = [reuseJob EXCEPT ![j] =
                [status |-> "succeeded", prepared |-> p,
                 changed |-> reuseJob[hit].changed,
                 analysis |-> Copy(reuseJob[hit].analysis, p)]]
      PROVE  ReuseInv'
  <2> DEFINE r == reuseJob[hit]
             new == [status |-> "succeeded", prepared |-> p, changed |-> r.changed,
                     analysis |-> Copy(r.analysis, p)]
  <2>1. hit \in ReuseJobs /\ Succeeded(hit) /\ CacheKey(r.prepared) = CacheKey(p)
    BY DEF Hits
  <2>2. r \in ReuseRows /\ r.status = "succeeded" /\ HasJob(hit)
    BY <2>1, JobColumns DEF ReuseInv
  <2>3. r \in SucceededJobs /\ IsRight(r, content, version)
    BY <2>1, <2>2, RowColumns DEF ReuseInv
  <2>4. reuseJob' = [reuseJob EXCEPT ![j] = new]
    BY <1>5
  <2> HIDE DEF r
  <2>5. new \in SucceededJobs /\ IsRight(new, content, version)
    BY <1>1, <2>1, <2>3, CopiedIsRight
  <2>6. new \in ReuseRows
    BY <2>5 DEF ReuseRows
  <2> HIDE DEF new
  <2> QED
    BY <1>2, <2>4, <2>5, <2>6, OneRow
<1> QED
  BY <1>3, <1>4, <1>5

LEMMA ReconstructKeeps ==
    ASSUME ReuseInv, NEW j \in ReuseJobs, Reconstruct(j)
    PROVE  ReuseInv'
<1> DEFINE r == reuseJob[j]
           new == [status |-> "asked", prepared |-> r.prepared, changed |-> r.changed,
                   analysis |-> NoAnalysis, from |-> content[r.prepared.story],
                   by |-> version]
<1>1. r \in QueuedJobs /\ IsRight(r, content, version)
  <2>1. r \in ReuseRows /\ r.status = "queued" /\ HasJob(j)
    BY JobColumns DEF ReuseInv, Reconstruct
  <2> QED
    BY <2>1, RowColumns DEF ReuseInv
<1>2. reuseJob' = [reuseJob EXCEPT ![j] = new]
  BY DEF Reconstruct, ReuseInv, ReuseTypeOK
<1> HIDE DEF r
<1>3. new \in AskedJobs /\ IsRight(new, content, version)
  BY <1>1, AskedIsRight DEF ReuseInv, ReuseTypeOK
<1>4. new \in ReuseRows
  BY <1>3 DEF ReuseRows
<1>5. UNCHANGED <<content, version, changes>>
  BY DEF Reconstruct
<1> HIDE DEF new
<1> QED
  BY <1>2, <1>3, <1>4, <1>5, OneRow

LEMMA PersistKeeps ==
    ASSUME ReuseInv, NEW j \in ReuseJobs, Persist(j)
    PROVE  ReuseInv'
<1> DEFINE r == reuseJob[j]
           new == [status |-> "succeeded", prepared |-> r.prepared,
                   changed |-> r.changed,
                   analysis |-> [story |-> r.prepared.story, from |-> r.from,
                                 by |-> r.by, rowStory |-> r.prepared.story,
                                 rowVersion |-> version,
                                 article |-> r.prepared.content.article # Nothing]]
<1>1. r \in AskedJobs /\ IsRight(r, content, version)
  <2>1. r \in ReuseRows /\ r.status = "asked" /\ HasJob(j)
    BY JobColumns DEF ReuseInv, Persist
  <2> QED
    BY <2>1, RowColumns DEF ReuseInv
<1>2. reuseJob' = [reuseJob EXCEPT ![j] = new]
  BY DEF Persist, ReuseInv, ReuseTypeOK
<1> HIDE DEF r
<1>3. new \in SucceededJobs /\ IsRight(new, content, version)
  BY <1>1, PersistedIsRight DEF ReuseInv, ReuseTypeOK
<1>4. new \in ReuseRows
  BY <1>3 DEF ReuseRows
<1>5. UNCHANGED <<content, version, changes>>
  BY DEF Persist
<1> HIDE DEF new
<1> QED
  BY <1>2, <1>3, <1>4, <1>5, OneRow

\* A job that waited is queued again, and known to be changed.
LEMMA BuildKeeps ==
    ASSUME ReuseInv, Build
    PROVE  ReuseInv'
<1>1. /\ changes' \in 0 .. MaxChanges /\ version' \in Versions /\ content' = content
  BY ReuseAssumption DEF Build, ReuseInv, ReuseTypeOK
<1>2. ASSUME NEW j \in ReuseJobs
      PROVE  /\ reuseJob'[j] \in {NoJob} \cup ReuseRows
             /\ reuseJob'[j] # NoJob => IsRight(reuseJob'[j], content', version')
  <2>1. reuseJob[j] \in {NoJob} \cup ReuseRows /\ (HasJob(j) <=> reuseJob[j] # NoJob)
    BY JobColumns DEF ReuseInv, HasJob
  <2>2. CASE HasJob(j) /\ ~Succeeded(j)
    <3> DEFINE new == [status |-> "queued", prepared |-> reuseJob[j].prepared,
                       changed |-> TRUE, analysis |-> NoAnalysis]
    <3>1. reuseJob'[j] = new
      BY <2>2 DEF Build, AfterBuild
    <3>2. reuseJob[j].prepared \in Prepared
      BY <2>1, <2>2, RowColumns
    <3>3. new \in ReuseRows
      BY <3>2 DEF ReuseRows, QueuedJobs
    <3>4. IsRight(new, content', version')
      BY DEF IsRight
    <3> HIDE DEF new
    <3> QED
      BY <3>1, <3>3, <3>4
  <2>3. CASE ~HasJob(j)
    <3>1. reuseJob'[j] = reuseJob[j]
      BY <2>3 DEF Build, AfterBuild
    <3> QED
      BY <2>1, <2>3, <3>1
  <2>4. CASE Succeeded(j)
    <3>1. reuseJob'[j] = reuseJob[j]
      BY <2>4 DEF Build, AfterBuild
    <3>2. IsRight(reuseJob[j], content, version) /\ reuseJob[j].status = "succeeded"
      BY <2>4 DEF ReuseInv, Succeeded
    <3>3. IsRight(reuseJob[j], content', version')
      BY <3>2 DEF IsRight
    <3> QED
      BY <2>1, <3>1, <3>3
  <2> QED
    BY <2>2, <2>3, <2>4
<1>3. reuseJob' \in [ReuseJobs -> {NoJob} \cup ReuseRows]
  <2>1. reuseJob' = [j \in ReuseJobs |-> reuseJob'[j]]
    BY DEF Build, AfterBuild
  <2> QED
    BY <1>2, <2>1
<1> QED
  BY <1>1, <1>2, <1>3, AllRows DEF ReuseInv, ReuseTypeOK

\* A job of the story that waited is known to be changed; others are not of it.
LEMMA RewriteKeeps ==
    ASSUME ReuseInv, NEW s \in Stories, Rewrite(s)
    PROVE  ReuseInv'
<1> DEFINE IsLate(j) == /\ HasJob(j) /\ ~Succeeded(j)
                        /\ reuseJob[j].prepared.story = s
<1>1. /\ changes' \in 0 .. MaxChanges /\ version' = version
      /\ \E c \in Contents : IsContent(c) /\ content' = [content EXCEPT ![s] = c]
  <2>1. changes \in 0 .. MaxChanges /\ MaxChanges \in Nat
    BY ReuseAssumption DEF ReuseInv, ReuseTypeOK
  <2>2. changes' \in 0 .. MaxChanges
    BY <2>1 DEF Rewrite
  <2>3. /\ version' = version
        /\ \E c \in Contents : IsContent(c) /\ content' = [content EXCEPT ![s] = c]
    BY DEF Rewrite
  <2> QED
    BY <2>2, <2>3
<1>2. /\ content' \in [Stories -> Contents]
      /\ \A o \in Stories : IsContent(content'[o])
      /\ \A o \in Stories \ {s} : content'[o] = content[o]
  BY <1>1 DEF ReuseInv, ReuseTypeOK
<1>3. ASSUME NEW j \in ReuseJobs
      PROVE  /\ reuseJob'[j] \in {NoJob} \cup ReuseRows
             /\ reuseJob'[j] # NoJob => IsRight(reuseJob'[j], content', version')
  <2>1. reuseJob[j] \in {NoJob} \cup ReuseRows /\ (HasJob(j) <=> reuseJob[j] # NoJob)
    BY JobColumns DEF ReuseInv, HasJob
  <2>2. CASE IsLate(j)
    <3> DEFINE r == reuseJob[j]
               new == [r EXCEPT !.changed = TRUE]
    <3>1. reuseJob'[j] = new
      BY <2>2 DEF Rewrite
    <3>2. r \in QueuedJobs \cup AskedJobs /\ IsRight(r, content, version)
      <4>1. r \in ReuseRows /\ r.status # "succeeded"
        BY <2>1, <2>2 DEF Succeeded
      <4> QED
        BY <2>2, <4>1, RowColumns DEF ReuseInv
    <3> HIDE DEF r
    <3>3. /\ new \in ReuseRows /\ new.status = r.status /\ new.changed
          /\ r.status = "asked" => new.by = r.by
          /\ r.status # "succeeded"
      BY <3>2 DEF ReuseRows, QueuedJobs, AskedJobs
    <3> HIDE DEF new
    <3>4. IsRight(new, content', version')
      BY <1>1, <3>2, <3>3 DEF IsRight
    <3> QED
      BY <3>1, <3>3, <3>4
  <2>3. CASE ~IsLate(j)
    <3>1. reuseJob'[j] = reuseJob[j]
      BY <2>3 DEF Rewrite
    <3>2. CASE HasJob(j)
      <4>1. /\ IsRight(reuseJob[j], content, version)
            /\ reuseJob[j].prepared.story \in Stories
        BY <2>1, <3>2, RowColumns DEF ReuseInv, Prepared
      <4>2. reuseJob[j].status = "succeeded" \/ reuseJob[j].prepared.story # s
        BY <2>3, <3>2 DEF Succeeded
      <4>3. IsRight(reuseJob[j], content', version')
        BY <1>1, <1>2, <4>1, <4>2 DEF IsRight
      <4> QED
        BY <2>1, <3>1, <4>3
    <3>3. CASE ~HasJob(j)
      BY <2>1, <3>1, <3>3
    <3> QED
      BY <3>2, <3>3
  <2> QED
    BY <2>2, <2>3
<1>4. reuseJob' \in [ReuseJobs -> {NoJob} \cup ReuseRows]
  <2>1. reuseJob' = [j \in ReuseJobs |-> reuseJob'[j]]
    BY DEF Rewrite
  <2> QED
    BY <1>3, <2>1
<1> QED
  BY <1>1, <1>2, <1>3, <1>4, AllRows DEF ReuseInv, ReuseTypeOK

LEMMA ReuseIsKept == ReuseInv /\ [ReuseNext]_reuseVars => ReuseInv'
<1> SUFFICES ASSUME ReuseInv, [ReuseNext]_reuseVars PROVE ReuseInv'
  OBVIOUS
<1>1. CASE UNCHANGED reuseVars
  <2>1. UNCHANGED <<content, version, changes, reuseJob>>
    BY <1>1 DEF reuseVars
  <2>2. ReuseTypeOK'
    BY <2>1 DEF ReuseInv, ReuseTypeOK
  <2>3. \A j \in ReuseJobs : HasJob(j)' => IsRight(reuseJob[j], content, version)'
    BY <2>1 DEF ReuseInv, HasJob, IsRight
  <2> QED
    BY <2>2, <2>3 DEF ReuseInv
<1>2. CASE ReuseNext
  BY <1>2, PrepareKeeps, ReconstructKeeps, PersistKeeps, BuildKeeps, RewriteKeeps
     DEF ReuseNext
<1> QED
  BY <1>1, <1>2

LEMMA ReuseInitially == ReuseInit => ReuseInv
<1> SUFFICES ASSUME ReuseInit PROVE ReuseInv
  OBVIOUS
<1>1. version \in Versions /\ changes \in 0 .. MaxChanges
  BY ReuseAssumption DEF ReuseInit
<1>2. /\ content \in [Stories -> Contents] /\ \A s \in Stories : IsContent(content[s])
      /\ reuseJob = [j \in ReuseJobs |-> NoJob]
  BY DEF ReuseInit
<1> QED
  BY <1>1, <1>2 DEF ReuseInv, ReuseTypeOK, HasJob

LEMMA RightIsReusable == ReuseInv => AnalysesAreReusable
<1> SUFFICES ASSUME ReuseInv PROVE AnalysesAreReusable
  OBVIOUS
<1>1. \A j \in ReuseJobs : Succeeded(j) =>
         Fits(reuseJob[j].analysis, reuseJob[j].prepared, reuseJob[j].changed)
  BY DEF ReuseInv, IsRight, Succeeded
<1>2. MadeFromItsKey
  BY <1>1 DEF MadeFromItsKey, Fits
<1>3. OwnDiscussion /\ RowsSayWhatWasMade
  BY <1>1 DEF OwnDiscussion, RowsSayWhatWasMade, Fits
<1> QED
  BY <1>2, <1>3 DEF AnalysesAreReusable, ReuseInv

\* An analysis that is stored for a job, answered or copied, is of the article,
\* the comments, the story and the version that the key of the job stands for,
\* unless content or version changed while the job waited, and its rows say so
\* (createAnalysisCacheKeys, reconstructRequest, persistAnalysis, reuseAnalysis).
THEOREM AnalysesMayBeReused == ReuseSpec => []AnalysesAreReusable
<1> QED
  BY ReuseInitially, ReuseIsKept, RightIsReusable, PTL DEF ReuseSpec

=============================================================================
