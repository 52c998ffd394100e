--------------------------- MODULE ArticleAcquisition ---------------------------
(***************************************************************************)
(* Getting the article of one story: the requests of                       *)
(* src/src/articles/fetcher.ts with their redirects, the sources tried in  *)
(* turn (acquisition.ts, github.ts, archive.ts), the text taken from what  *)
(* was served (extractor.ts, feeds.ts), and the rows of the table          *)
(* documents it all ends in (acquisition.ts, extraction.ts and prepareStory *)
(* of src/src/pipeline/digest-pipeline.ts).                                *)
(*                                                                         *)
(* Two editions may prepare the same story at once: no transaction and no  *)
(* lock holds the steps of a preparer together.  All failures of a request *)
(* the code does not tell apart are "unavailable": timeouts, names that    *)
(* are not resolved, addresses that are not public, oversized bodies,      *)
(* other HTTP errors, malformed answers.                                   *)
(***************************************************************************)
EXTENDS Integers, Sequences, FiniteSets, SequencesExt

CONSTANTS
    Preparers,          \* collections of the story, each prepares it once
    ArticlePages,       \* pages that may be served
    HasArchive,         \* whether prepareStory is given an archive
    MaximumRedirects

None == "none"

\* A page has up to three texts: what Readability makes of it, what its first
\* semantic element has, and what its metadata tell; other types have one.
PageTexts == {None} \cup UNION {ToSet(page.texts) : page \in ArticlePages}

ASSUME AcquisitionAssumption ==
    /\ IsFiniteSet(Preparers)
    /\ HasArchive \in BOOLEAN /\ MaximumRedirects \in Nat
    /\ \A page \in ArticlePages :
          /\ page.type \in {"html", "text", "feed"} /\ page.texts \in Seq(PageTexts)
          /\ Len(page.texts) \in IF page.type = "html" THEN 1 .. 3 ELSE {1}

VARIABLES
    source,      \* the story's URL: its kind, and whether parsing keeps it as it is
    preparing,   \* by preparer, where it stands
    documents    \* the rows of the story, in the order of their creation

acquisitionVars == <<source, preparing, documents>>

-----------------------------------------------------------------------------

Stages == {"social", "direct", "lookup", "snapshot"}

Failures == {"unavailable", "restricted", "unsupported"}

NoPage == [type |-> "text", texts |-> <<None>>]

Waiting == [at |-> "idle", stage |-> "direct", hops |-> 0, failure |-> None,
            page |-> NoPage, row |-> 0, chosen |-> None, alone |-> TRUE]

Rows == [url : {"raw", "href"}, status : Failures \cup
             {"pending", "failed", "access_restricted", "extracted", "low_confidence"},
         text : PageTexts, updated : Nat]

Preparations ==
    [at : {"idle", "check", "request", "look", "write", "find", "save", "choose",
           "done", "error"},
     stage : Stages, hops : 0 .. MaximumRedirects, failure : Failures \cup {None},
     page : ArticlePages \cup {NoPage}, row : Nat, chosen : PageTexts, alone : BOOLEAN]

AcquisitionTypeOK ==
    /\ source \in [kind : {"page", "social", "repository"}, normal : BOOLEAN]
    /\ preparing \in [Preparers -> Preparations]
    /\ documents \in Seq(Rows) /\ Len(documents) <= Cardinality(Preparers)
    /\ \A p \in Preparers : preparing[p].row <= Len(documents)

AcquisitionInit ==
    /\ source \in [kind : {"page", "social", "repository"}, normal : BOOLEAN]
    /\ preparing = [p \in Preparers |-> Waiting]
    /\ documents = <<>>

At(p, at) == preparing[p].at = at

Goes(p, state) == preparing' = [preparing EXCEPT ![p] = state]

Running(p) == preparing[p].at \notin {"idle", "done", "error"}

-----------------------------------------------------------------------------
(* Requests.  Each stage has a deadline and a count of redirects of its    *)
(* own; the failures of both end in Failed.                                *)

Asks(s, stage) == [s EXCEPT !.at = "check", !.stage = stage, !.hops = 0]

\* mutant: the archive is asked for whatever was not served
MayAskArchiveAnyway(failure) == HasArchive /\ failure # "unsupported"

MayAskArchive(failure) == HasArchive /\ failure = "unavailable"

\* no post: as any other page; nothing archived: what failed before counts
Failed(s, failure) ==
    CASE s.stage = "social" -> Asks(s, "direct")
      [] s.stage = "direct" /\ MayAskArchive(failure) ->
            [Asks(s, "lookup") EXCEPT !.failure = failure]
      [] s.stage = "direct" /\ ~MayAskArchive(failure) ->
            [s EXCEPT !.at = "look", !.failure = failure]
      [] s.stage \in {"lookup", "snapshot"} -> [s EXCEPT !.at = "look"]

\* mutant: every redirect starts the count again
RedirectedAnew(s) == [s EXCEPT !.at = "check", !.hops = 0]

Redirected(s) ==
    IF s.hops = MaximumRedirects THEN Failed(s, "unavailable")
    ELSE [s EXCEPT !.at = "check", !.hops = @ + 1]

Answered(s, page) ==
    IF s.stage = "lookup" THEN Asks(s, "snapshot")
    ELSE [s EXCEPT !.at = "look", !.failure = None, !.page = page]

\* a post is put into a page of the code's own
PostPages == {page \in ArticlePages : page.type = "html"}

\* a README or another file, which the repository's API gives as text
RepositoryPages == {page \in ArticlePages : page.type = "text"}

Served(stage) ==
    CASE stage = "social" -> PostPages
      [] stage = "direct" /\ source.kind = "repository" -> RepositoryPages
      [] OTHER -> ArticlePages

BeginAcquisition(p) ==
    LET first == Asks(Waiting, IF source.kind = "social" THEN "social" ELSE "direct") IN
    /\ At(p, "idle")
    /\ preparing' = [q \in Preparers |->
          CASE q = p -> [first EXCEPT !.alone = \A r \in Preparers : ~Running(r)]
            [] q # p /\ Running(q) -> [preparing[q] EXCEPT !.alone = FALSE]
            [] OTHER -> preparing[q]]
    /\ UNCHANGED <<source, documents>>

\* the protocol, the name and the addresses, before every hop
CheckUrl(p) ==
    /\ At(p, "check")
    /\ \/ Goes(p, [preparing[p] EXCEPT !.at = "request"])
       \/ Goes(p, Failed(preparing[p], "unavailable"))
    /\ UNCHANGED <<source, documents>>

SendRequest(p) ==
    /\ At(p, "request")
    /\ \/ Goes(p, Redirected(preparing[p]))
       \/ \E f \in Failures : Goes(p, Failed(preparing[p], f))
       \/ \E page \in Served(preparing[p].stage) : Goes(p, Answered(preparing[p], page))
    /\ UNCHANGED <<source, documents>>

-----------------------------------------------------------------------------
(* recordFetch: the newest row of the URL is updated, or one inserted.     *)

Url(url) == IF source.normal THEN "href" ELSE url

\* failures and archived pages are stored under the URL of the story as it
\* is, other pages under the URL the fetcher parsed
FetchedUrl(s) == Url(IF s.failure # None \/ s.stage = "snapshot" THEN "raw" ELSE "href")

NewestRow(url) ==
    LET rows == {i \in DOMAIN documents : documents[i].url = url}
    IN  IF rows = {} THEN 0 ELSE CHOOSE i \in rows : \A j \in rows : j <= i

FetchStatus(failure) ==
    CASE failure = None          -> "pending"
      [] failure = "restricted"  -> "access_restricted"
      [] failure = "unsupported" -> "unsupported"
      [] failure = "unavailable" -> "failed"

LookForRow(p) ==
    /\ At(p, "look")
    /\ Goes(p, [preparing[p] EXCEPT !.at = "write",
                                    !.row = NewestRow(FetchedUrl(preparing[p]))])
    /\ UNCHANGED <<source, documents>>

\* an update keeps the text of an earlier fetch
WriteFetch(p) ==
    LET s == preparing[p] IN
    /\ At(p, "write")
    /\ documents' = IF s.row > 0
                    THEN [documents EXCEPT ![s.row].status = FetchStatus(s.failure)]
                    ELSE Append(documents,
                            [url |-> FetchedUrl(s), status |-> FetchStatus(s.failure),
                             text |-> None, updated |-> 0])
    /\ Goes(p, [s EXCEPT !.at = IF s.failure = None THEN "find" ELSE "choose",
                         !.row = 0])
    /\ UNCHANGED source

-----------------------------------------------------------------------------
(* The text of a page, and recordExtraction.                               *)

\* what Readability makes of a page, or all the text of another type
ReadText(page) == page.texts[1]

\* the first there is of the semantic element's and the metadata's
FallbackText(page) ==
    LET found == {i \in DOMAIN page.texts \ {1} : page.texts[i] # None}
    IN  IF found = {} THEN None
        ELSE page.texts[CHOOSE i \in found : \A j \in found : i <= j]

\* mutant: what Readability cannot read is not looked at again
PageTextReadable(page) == ReadText(page)

PageText(page) ==
    IF page.type = "html" /\ ReadText(page) = None THEN FallbackText(page)
    ELSE ReadText(page)

\* long enough, of enough paragraphs; an empty one is kept like a doubtful one
ExtractionStatus(text) == IF text \in {None, "brief"} THEN "low_confidence" ELSE "extracted"

FindDocument(p) ==
    LET row == NewestRow("href") IN
    /\ At(p, "find")
    /\ Goes(p, IF row = 0 THEN [preparing[p] EXCEPT !.at = "error"]
               ELSE [preparing[p] EXCEPT !.at = "save", !.row = row])
    /\ UNCHANGED <<source, documents>>

Newest == IF documents = <<>> THEN 0
          ELSE Max({documents[i].updated : i \in DOMAIN documents})

\* at most one row for a URL and a text; the new row is newest by updated_at
SaveExtraction(p) ==
    LET s     == preparing[p]
        text  == PageText(s.page)
        taken == \E i \in DOMAIN documents \ {s.row} :
                    text # None /\ documents[i].text = text
                                /\ documents[i].url = documents[s.row].url
    IN
    /\ At(p, "save")
    /\ documents' = IF taken THEN documents
                    ELSE [documents EXCEPT ![s.row] =
                            [url |-> @.url, status |-> ExtractionStatus(text),
                             text |-> text, updated |-> Newest + 1]]
    /\ Goes(p, [s EXCEPT !.at = IF taken THEN "error" ELSE "choose", !.row = 0])
    /\ UNCHANGED source

UsableRows == {i \in DOMAIN documents :
                  documents[i].status \in {"extracted", "low_confidence"}}

\* prepareStory reads the story's newest document that was extracted
ChooseDocument(p) ==
    LET newest == {i \in UsableRows : \A j \in UsableRows :
                      documents[j].updated <= documents[i].updated}
    IN
    /\ At(p, "choose")
    /\ \/ newest = {} /\ Goes(p, [preparing[p] EXCEPT !.at = "done"])
       \/ \E i \in newest :
             Goes(p, [preparing[p] EXCEPT !.at = "done", !.chosen = documents[i].text])
    /\ UNCHANGED <<source, documents>>

AcquisitionStep(p) ==
    \/ CheckUrl(p) \/ SendRequest(p)
    \/ LookForRow(p) \/ WriteFetch(p)
    \/ FindDocument(p) \/ SaveExtraction(p) \/ ChooseDocument(p)

AcquisitionNext == \E p \in Preparers : BeginAcquisition(p) \/ AcquisitionStep(p)

AcquisitionSpec == AcquisitionInit /\ [][AcquisitionNext]_acquisitionVars

-----------------------------------------------------------------------------

Duplicates == \E i, j \in DOMAIN documents :
                 i # j /\ documents[i].url = documents[j].url

\* Whom the article's own server refused as restricted does not ask the
\* archive, and the story is not analysed with a text of an earlier time,
\* as long as nobody else prepares it and it has one row.
RestrictedIsRespected ==
    \A p \in Preparers :
        LET s == preparing[p] IN
        s.failure = "restricted" =>
            /\ s.stage = "direct"
            /\ At(p, "done") /\ s.alone /\ source.normal /\ ~Duplicates
                  => s.chosen = None

\* A story is prepared with the text of the page that was served to it, if
\* any of the places has one, unless somebody else prepares it, too.
ServedTextIsUsed ==
    \A p \in Preparers :
        LET s == preparing[p] IN
        At(p, "done") /\ s.alone /\ s.page # NoPage
            => /\ s.chosen = PageText(s.page)
               /\ s.chosen = None =>
                     \A i \in DOMAIN s.page.texts : s.page.texts[i] = None

\* An acquisition fails, and the story with it, only for an archived page of
\* a URL that is not kept as it is, or after two inserted the same row.
ErrorsAreExplained ==
    \A p \in Preparers :
        At(p, "error") =>
            \/ ~source.normal /\ preparing[p].stage = "snapshot"
            \/ Duplicates

\* A preparation comes to its end, though pages send on to each other, and
\* whatever order sources and failures come in.
AcquisitionEnds == <>[](\A p \in Preparers : ~Running(p))

\* A preparation ends with the text it was served, or for a known reason with
\* an error (extractArticle, recordExtraction).
TextIsFound == AcquisitionTypeOK /\ ServedTextIsUsed /\ ErrorsAreExplained

==============================================================================
