----------------------------- MODULE AnalysisReuse -----------------------------
(***************************************************************************)
(* What an analysis was made from, and for whom it is used again: the      *)
(* cache keys of src/src/analysis/cache.ts, and prepareStory,              *)
(* reconstructRequest, persistAnalysis and reuseAnalysis of                *)
(* src/src/pipeline/digest-pipeline.ts.                                    *)
(*                                                                         *)
(* A job keeps the hashes of what it was prepared from, not the content:   *)
(* the worker reads article and comments again, and may find them          *)
(* rewritten by another edition, or be a later build with another prompt   *)
(* or model.  An article is known by its text; comments by their ids and   *)
(* texts, which belong to one story.                                       *)
(***************************************************************************)
EXTENDS Naturals, FiniteSets

CONSTANTS
    Stories,
    MaxJobs,       \* bound: jobs, in the order of their preparation
    ArticleTexts,  \* texts of articles, which several stories may have
    CommentTexts,  \* texts of a story's selected comments
    Versions,      \* of the prompt, the schema, the model and its effort
    MaxChanges     \* bound: rewrites of content, and builds

Nothing == "nothing"

ASSUME ReuseAssumption ==
    /\ Nothing \notin ArticleTexts \cup CommentTexts /\ Versions # {}
    /\ {MaxJobs, MaxChanges} \subseteq Nat

VARIABLES
    content,     \* by story, its article and its comments as they are stored
    version,     \* of the build that runs
    changes,     \* how often content or version changed
    reuseJob     \* by job, what it was prepared from and what came of it

reuseVars == <<content, version, changes, reuseJob>>

-----------------------------------------------------------------------------

ReuseJobs == 1 .. MaxJobs

\* a document may be there without a text
Contents == [document : BOOLEAN, article : ArticleTexts \cup {Nothing},
             comments : CommentTexts \cup {Nothing}]

IsContent(c) == c.article # Nothing => c.document

NoJob == [status |-> "absent"]

\* Of an analysis: the story and the content the answer was made from, and by
\* which version; then the columns: story_id, and whether there is a row for
\* the article.
Analyses == [story : Stories, from : Contents, by : Versions,
             rowStory : Stories, rowVersion : Versions, article : BOOLEAN]

NoAnalysis == [article |-> FALSE]

Prepared == [story : Stories, content : Contents, version : Versions]

\* changed: content or version changed while the job waited; from, by: what the
\* request under way was made from, and by which version
QueuedJobs == [status : {"queued"}, prepared : Prepared, changed : BOOLEAN,
               analysis : {NoAnalysis}]

AskedJobs == [status : {"asked"}, prepared : Prepared, changed : BOOLEAN,
              analysis : {NoAnalysis}, from : Contents, by : Versions]

SucceededJobs == [status : {"succeeded"}, prepared : Prepared, changed : BOOLEAN,
                  analysis : Analyses]

ReuseTypeOK ==
    /\ content \in [Stories -> Contents] /\ \A s \in Stories : IsContent(content[s])
    /\ version \in Versions /\ changes \in 0 .. MaxChanges
    /\ reuseJob \in
          [ReuseJobs -> {NoJob} \cup QueuedJobs \cup AskedJobs \cup SucceededJobs]

ReuseInit ==
    /\ content \in [Stories -> {c \in Contents : IsContent(c)}]
    /\ version = CHOOSE v \in Versions : TRUE
    /\ changes = 0
    /\ reuseJob = [j \in ReuseJobs |-> NoJob]

HasJob(j) == reuseJob[j] # NoJob

Succeeded(j) == HasJob(j) /\ reuseJob[j].status = "succeeded"

-----------------------------------------------------------------------------

\* mutant: the comments are left out of the key
CacheKeyOfArticle(p) ==
    [article |-> p.content.article, comments |-> <<>>, version |-> p.version]

\* createAnalysisCacheKeys; comments of two stories are never the same
CacheKey(p) ==
    [article |-> p.content.article, version |-> p.version,
     comments |-> IF p.content.comments = Nothing THEN <<>>
                  ELSE <<p.story, p.content.comments>>]

Hits(p) == {j \in ReuseJobs : Succeeded(j) /\ CacheKey(reuseJob[j].prepared) = CacheKey(p)}

\* reuseAnalysis: the rows are copied, but for the ids of job and document
Copy(a, p) == [a EXCEPT !.article = @ /\ p.content.document]

\* prepareStory from the choice of the document on, and reuseAnalysis
PrepareJob(j, s) ==
    LET p == [story |-> s, content |-> content[s], version |-> version] IN
    /\ ~HasJob(j) /\ \A i \in 1 .. j - 1 : HasJob(i)
    /\ \/ /\ Hits(p) = {}
          /\ reuseJob' = [reuseJob EXCEPT ![j] =
                [status |-> "queued", prepared |-> p, changed |-> FALSE,
                 analysis |-> NoAnalysis]]
       \/ \E hit \in Hits(p) :
             reuseJob' = [reuseJob EXCEPT ![j] =
                [status |-> "succeeded", prepared |-> p,
                 changed |-> reuseJob[hit].changed,
                 analysis |-> Copy(reuseJob[hit].analysis, p)]]
    /\ UNCHANGED <<content, version, changes>>

\* reconstructRequest: the document and the comments as they are now
Reconstruct(j) ==
    /\ HasJob(j) /\ reuseJob[j].status = "queued"
    /\ reuseJob' = [reuseJob EXCEPT ![j] =
          [status |-> "asked", prepared |-> @.prepared, changed |-> @.changed,
           analysis |-> NoAnalysis, from |-> content[@.prepared.story], by |-> version]]
    /\ UNCHANGED <<content, version, changes>>

\* persistAnalysis: the document and its hash are those of the job
Persist(j) ==
    /\ HasJob(j) /\ reuseJob[j].status = "asked"
    /\ reuseJob' = [reuseJob EXCEPT ![j] =
          [status |-> "succeeded", prepared |-> @.prepared, changed |-> @.changed,
           analysis |-> [story |-> @.prepared.story, from |-> @.from, by |-> @.by,
                         rowStory |-> @.prepared.story, rowVersion |-> version,
                         article |-> @.prepared.content.article # Nothing]]]
    /\ UNCHANGED <<content, version, changes>>

\* a job that was asked for by the build before is claimed again by the next
AfterBuild == [j \in ReuseJobs |->
    IF HasJob(j) /\ ~Succeeded(j)
    THEN [status |-> "queued", prepared |-> reuseJob[j].prepared, changed |-> TRUE,
          analysis |-> NoAnalysis]
    ELSE reuseJob[j]]

\* another edition collects the story: it stores what the article and the
\* comments have become
Rewrite(s) ==
    /\ changes < MaxChanges /\ changes' = changes + 1
    /\ \E c \in Contents : IsContent(c) /\ (content[s].document => c.document)
                           /\ content' = [content EXCEPT ![s] = c]
    /\ reuseJob' = [j \in ReuseJobs |->
          IF HasJob(j) /\ ~Succeeded(j) /\ reuseJob[j].prepared.story = s
          THEN [reuseJob[j] EXCEPT !.changed = TRUE] ELSE reuseJob[j]]
    /\ UNCHANGED version

Build ==
    /\ changes < MaxChanges /\ changes' = changes + 1
    /\ version' \in Versions \ {version}
    /\ reuseJob' = AfterBuild
    /\ UNCHANGED content

ReuseNext ==
    \/ \E j \in ReuseJobs : \E s \in Stories : PrepareJob(j, s)
    \/ \E j \in ReuseJobs : Reconstruct(j) \/ Persist(j)
    \/ \E s \in Stories : Rewrite(s)
    \/ Build

ReuseSpec == ReuseInit /\ [][ReuseNext]_reuseVars

-----------------------------------------------------------------------------

\* A story's analysis was made from the article and the comments its job was
\* prepared from and by the version its key names, also where it was copied,
\* unless content or build changed while the job that was answered waited.
MadeFromItsKey ==
    \A j \in ReuseJobs :
        Succeeded(j) /\ ~reuseJob[j].changed =>
            LET p == reuseJob[j].prepared  a == reuseJob[j].analysis IN
            /\ a.from.article = p.content.article
            /\ a.from.comments = p.content.comments
            /\ a.by = p.version

\* Only without comments does a story get the analysis of another one, which
\* then had the same article, or none either.
OwnDiscussion ==
    \A j \in ReuseJobs :
        Succeeded(j) =>
            LET p == reuseJob[j].prepared  a == reuseJob[j].analysis IN
            /\ p.content.comments # Nothing => a.story = p.story
            /\ a.rowStory = a.story

\* There is an analysis of the article exactly if there was an article, and
\* the columns name the version that answered.
RowsSayWhatWasMade ==
    \A j \in ReuseJobs :
        Succeeded(j) =>
            LET p == reuseJob[j].prepared  a == reuseJob[j].analysis IN
            /\ a.article <=> p.content.article # Nothing
            /\ a.rowVersion = a.by

\* An analysis may be used for every job with its key: it is of the content,
\* the story and the version the key stands for, and its rows say so
\* (createAnalysisCacheKeys, persistAnalysis, reuseAnalysis).
AnalysesAreReusable ==
    ReuseTypeOK /\ MadeFromItsKey /\ OwnDiscussion /\ RowsSayWhatWasMade

==============================================================================
