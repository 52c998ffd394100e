---------------------------- MODULE DigestPipeline ----------------------------
(***************************************************************************)
(* One scheduled digest run, from the row the scheduler made to the moment *)
(* its newsletter may go out: src/src/pipeline/digest-pipeline.ts with     *)
(* ingestTopStories, as the scheduler loops and the analysis tasks of the  *)
(* background processes run it.                                            *)
(*                                                                         *)
(* Collectors ingest stories and insert their analysis jobs; tasks take    *)
(* jobs from the queue, call the LLM and store what it answers; both end   *)
(* by reconciling the run with its stories.  Every statement on the        *)
(* database is a step of its own, so whatever an actor read before may be  *)
(* stale when it writes.                                                   *)
(*                                                                         *)
(* A story of the run and its job have one name (the job is unique per     *)
(* story).  The queue is seen through JobLedger, which AnalysisQueue       *)
(* implements.  Outcomes other than success and retry are one: "failed".   *)
(***************************************************************************)
EXTENDS Integers, FiniteSets

CONSTANTS
    Stories,      \* stories the front page may offer
    Requested,    \* requestedStoryCount
    Collectors,   \* scheduler loops, one per process
    Tasks,        \* analysis tasks in flight, over all processes
    NoTask,       \* nobody holds a job
    MaxCitationAttempts,
    Mishaps       \* what may go wrong in one behaviour: sets of MishapKinds

\* a collector or task that stops half-way; a collection or attempt that
\* outlasts its lease; a database error that prepareStory's caller catches
MishapKinds ==
    {"collector stops", "task stops", "late collector", "late task", "error"}

ASSUME PipelineAssumption ==
    /\ IsFiniteSet(Stories)
    /\ Requested \in Nat \ {0}
    /\ MaxCitationAttempts \in Nat \ {0}
    /\ NoTask \notin Tasks
    /\ Collectors \cap Tasks = {}
    /\ Mishaps \subseteq SUBSET MishapKinds

VARIABLES
    run,       \* digest_runs: the row of the run
    story,     \* digest_run_stories
    analysed,  \* stories with a row in discussion_analyses
    posted, holder, grants, result,  \* the queue's ledger of their jobs
    actor,     \* what each collector and each task holds in memory
    mishaps    \* what has gone wrong so far

ledger == <<holder, grants, result, posted>>

vars == <<run, story, analysed, ledger, actor, mishaps>>

Queue == INSTANCE JobLedger WITH
    Jobs       <- Stories,
    Workers    <- Tasks,
    NoWorker   <- NoTask,
    Results    <- {"succeeded", "failed"},
    NoResult   <- "none",
    MaxReturns <- MaxCitationAttempts - 1

-----------------------------------------------------------------------------

Actors == Collectors \cup Tasks

\* "complete" stands for complete and discussion_only
ActiveStatuses == {"pending", "collecting", "analyzing"}

StoryStatuses == ActiveStatuses \cup {"complete", "failed"}

DeliverableStatuses == {"complete", "partial"}

RunStatuses ==
    {"pending", "collecting", "analyzing", "failed"} \cup DeliverableStatuses

\* "shortfall" stands for the two errors of a short edition
RunErrors == {"none", "shortfall", "failure"}

RunRow == [status : RunStatuses, error : RunErrors, ready : BOOLEAN,
           humanized : BOOLEAN]

StoryRow == [status : {"absent"} \cup StoryStatuses, rank : Nat]

Idle == [phase |-> "idle"]

\* What actors hold in memory.  Collector: claimed the run, about to start it,
\* saving stories, listing them, preparing them one by one.
CollectorStates ==
    [phase : {"claimed", "starting", "listing"}]
    \cup [phase : {"saving"}, saved : SUBSET Stories]
    \cup [phase : {"preparing"}, todo : SUBSET Stories]
    \cup [phase : {"marking", "fetching", "inserted", "broken"},
          story : Stories, todo : SUBSET Stories]

\* Task: took a job, asked the LLM, got a usable answer, knows the outcome,
\* has told the queue.
TaskStates ==
    [phase : {"taken", "asking", "persisting"}, story : Stories, grant : Nat]
    \cup [phase : {"finishing", "reporting"}, story : Stories, grant : Nat,
          outcome : {"succeeded", "failed", "retry"}]

\* Both: reconciling, with the reads of stories and run in either order.
ReconcilerStates ==
    [phase : {"reading", "failing"}]
    \cup [phase : {"has stories"}, statuses : SUBSET StoryStatuses, count : Nat]
    \cup [phase : {"has run"}, row : RunRow]
    \cup [phase : {"humanizing", "calling", "writing"}, status : RunStatuses,
          error : RunErrors, ready : BOOLEAN]

ActorStates ==
    {Idle} \cup CollectorStates \cup TaskStates \cup ReconcilerStates

TypeOK ==
    /\ run \in RunRow
    /\ story \in [Stories -> StoryRow]
    /\ analysed \subseteq Stories
    /\ posted \subseteq Stories
    /\ holder \in [Stories -> Tasks \cup {NoTask}]
    /\ grants \in [Stories -> Nat]
    /\ result \in [Stories -> {"none", "succeeded", "failed"}]
    /\ actor \in [Actors -> ActorStates]
    /\ mishaps \subseteq MishapKinds

-----------------------------------------------------------------------------

Phase(a) == actor[a].phase

Goes(a, state) == actor' = [actor EXCEPT ![a] = state]

Present == {s \in Stories : story[s].status # "absent"}

MayGoWrong(kind) ==
    kind \notin mishaps /\ \E m \in Mishaps : mishaps \cup {kind} \subseteq m

GoesWrong(kind) == mishaps' = mishaps \cup {kind}

SetsStory(s, status) == story' = [story EXCEPT ![s].status = status]

Init ==
    /\ run = [status |-> "pending", error |-> "none", ready |-> FALSE,
              humanized |-> FALSE]
    /\ story = [s \in Stories |-> [status |-> "absent", rank |-> 0]]
    /\ analysed = {}
    /\ Queue!LedgerInit
    /\ actor = [a \in Actors |-> Idle]
    /\ mishaps = {}

-----------------------------------------------------------------------------
(* Collecting: processNextRun, collectAndEnqueue, prepareStory.            *)

\* A collection is stale when its collector is gone; when it is merely slow,
\* that is a mishap.
Abandoned == \A c \in Collectors : Phase(c) = "idle"

\* faulty: only pending runs are taken up
ClaimPendingRun(c) ==
    /\ Phase(c) = "idle"
    /\ run.status = "pending"
    /\ run' = [run EXCEPT !.status = "collecting"]
    /\ Goes(c, [phase |-> "claimed"])
    /\ UNCHANGED <<story, analysed, ledger, mishaps>>

ClaimRun(c) ==
    /\ Phase(c) = "idle"
    /\ \/ /\ run.status = "pending"
          /\ UNCHANGED mishaps
       \/ /\ run.status = "collecting"
          /\ \/ Abandoned /\ UNCHANGED mishaps
             \/ /\ ~Abandoned
                /\ MayGoWrong("late collector")
                /\ GoesWrong("late collector")
    /\ run' = [run EXCEPT !.status = "collecting"]
    /\ Goes(c, [phase |-> "claimed"])
    /\ UNCHANGED <<story, analysed, ledger>>

\* only a run that is still to be collected is ingested
ReadRunToCollect(c) ==
    /\ Phase(c) = "claimed"
    /\ Goes(c, [phase |-> IF run.status \in {"pending", "collecting"}
                          THEN "starting" ELSE "listing"])
    /\ UNCHANGED <<run, story, analysed, ledger, mishaps>>

\* startRun throws unless the run is pending or collecting
StartRun(c) ==
    /\ Phase(c) = "starting"
    /\ run' = IF run.status = "pending"
              THEN [run EXCEPT !.status = "collecting", !.error = "none"]
              ELSE run
    /\ Goes(c, IF run.status \in {"pending", "collecting"}
               THEN [phase |-> "saving", saved |-> {}]
               ELSE [phase |-> "failing"])
    /\ UNCHANGED <<story, analysed, ledger, mishaps>>

\* saveStory gives the next rank; ranks are unique in a run, so another story
\* that has it already (of an earlier collection) makes the ingestion fail
SaveStory(c, s) ==
    LET saved == actor[c].saved
        rank  == Cardinality(saved) + 1
    IN
    /\ Phase(c) = "saving"
    /\ s \notin saved
    /\ Cardinality(saved) < Requested
    /\ \/ /\ \A o \in Present \ {s} : story[o].rank # rank
          /\ story' = [story EXCEPT
                          ![s] = [status |-> IF @.status = "absent"
                                             THEN "pending" ELSE @.status,
                                  rank   |-> rank]]
          /\ Goes(c, [phase |-> "saving", saved |-> saved \cup {s}])
       \/ /\ \E o \in Present \ {s} : story[o].rank = rank
          /\ Goes(c, [phase |-> "failing"])
          /\ UNCHANGED story
    /\ UNCHANGED <<run, analysed, ledger, mishaps>>

\* finishRun after enough stories, or at the end of a short list
EndIngestion(c) ==
    LET short == Cardinality(actor[c].saved) < Requested IN
    /\ Phase(c) = "saving"
    /\ run' = [run EXCEPT !.status = "collecting",
                          !.error = IF short THEN "shortfall" ELSE "none"]
    /\ Goes(c, [phase |-> "listing"])
    /\ UNCHANGED <<story, analysed, ledger, mishaps>>

\* the list of top stories is not to be had, which is noted in the row at
\* once, or one of the statements fails
IngestionFails(c) ==
    /\ Phase(c) = "saving"
    /\ \/ /\ actor[c].saved = {}
          /\ run' = [run EXCEPT !.status = "failed", !.error = "failure"]
       \/ UNCHANGED run
    /\ Goes(c, [phase |-> "failing"])
    /\ UNCHANGED <<story, analysed, ledger, mishaps>>

ListStories(c) ==
    /\ Phase(c) = "listing"
    /\ Goes(c, [phase |-> "preparing", todo |-> Present])
    /\ UNCHANGED <<run, story, analysed, ledger, mishaps>>

\* the next story by rank; one that has a job is passed over
NextStory(c) ==
    /\ Phase(c) = "preparing"
    /\ \E s \in actor[c].todo :
          LET rest == actor[c].todo \ {s} IN
          /\ \A o \in rest : story[s].rank <= story[o].rank
          /\ Goes(c, IF s \in posted
                     THEN [phase |-> "preparing", todo |-> rest]
                     ELSE [phase |-> "marking", story |-> s, todo |-> rest])
    /\ UNCHANGED <<run, story, analysed, ledger, mishaps>>

MarkCollecting(c) ==
    /\ Phase(c) = "marking"
    /\ SetsStory(actor[c].story, "collecting")
    /\ Goes(c, [actor[c] EXCEPT !.phase = "fetching"])
    /\ UNCHANGED <<run, analysed, ledger, mishaps>>

\* the article, the comments or the request cannot be had
PreparationFails(c) ==
    /\ Phase(c) = "fetching"
    /\ Goes(c, [actor[c] EXCEPT !.phase = "broken"])
    /\ UNCHANGED <<run, story, analysed, ledger, mishaps>>

\* the insert of the job, which fails if the story has one
InsertJob(c) ==
    LET s == actor[c].story IN
    /\ Phase(c) = "fetching"
    /\ \/ /\ Queue!Post(s)
          /\ Goes(c, [actor[c] EXCEPT !.phase = "inserted"])
       \/ /\ s \in posted
          /\ Goes(c, [actor[c] EXCEPT !.phase = "broken"])
          /\ UNCHANGED ledger
    /\ UNCHANGED <<run, story, analysed, mishaps>>

\* reuseAnalysis: job, analysis and status of the story in one transaction
ReuseAnalysis(c) ==
    LET s == actor[c].story IN
    /\ Phase(c) = "fetching"
    /\ \/ /\ Queue!Import(s, "succeeded")
          /\ analysed' = analysed \cup {s}
          /\ SetsStory(s, "complete")
          /\ Goes(c, [phase |-> "preparing", todo |-> actor[c].todo])
       \/ /\ s \in posted
          /\ Goes(c, [actor[c] EXCEPT !.phase = "broken"])
          /\ UNCHANGED <<analysed, story, ledger>>
    /\ UNCHANGED <<run, mishaps>>

\* a statement of its own, after the insert: the job may be anywhere by now
MarkAnalyzing(c) ==
    /\ Phase(c) = "inserted"
    /\ \/ /\ SetsStory(actor[c].story, "analyzing")
          /\ Goes(c, [phase |-> "preparing", todo |-> actor[c].todo])
          /\ UNCHANGED mishaps
       \/ /\ MayGoWrong("error")
          /\ GoesWrong("error")
          /\ Goes(c, [actor[c] EXCEPT !.phase = "broken"])
          /\ UNCHANGED story
    /\ UNCHANGED <<run, analysed, ledger>>

MarkUnprepared(c) ==
    /\ Phase(c) = "broken"
    /\ SetsStory(actor[c].story, "failed")
    /\ Goes(c, [phase |-> "preparing", todo |-> actor[c].todo])
    /\ UNCHANGED <<run, analysed, ledger, mishaps>>

AllPrepared(c) ==
    /\ Phase(c) = "preparing"
    /\ actor[c].todo = {}
    /\ Goes(c, [phase |-> "reading"])
    /\ UNCHANGED <<run, story, analysed, ledger, mishaps>>

-----------------------------------------------------------------------------
(* Analysing: processOne of the worker, processClaimedJob and              *)
(* finishClaimedJob of the pipeline.                                       *)

\* The claim's job is still the one the queue has for it.
Fenced(t) ==
    LET s == actor[t].story IN
    holder[s] # NoTask /\ grants[s] = actor[t].grant

\* somebody works on the latest grant of s
Tended(s) ==
    \E t \in Tasks :
        /\ Phase(t) \in {"taken", "asking", "persisting", "finishing"}
        /\ actor[t].story = s
        /\ Fenced(t)

\* A job is granted again when its task is gone; when that task is merely
\* slow, that is a mishap.
TakeJob(t) ==
    /\ Phase(t) = "idle"
    /\ \E s \in Stories :
          /\ Queue!Grant(s, t)
          /\ \/ ~Tended(s) /\ UNCHANGED mishaps
             \/ /\ Tended(s)
                /\ MayGoWrong("late task")
                /\ GoesWrong("late task")
          /\ Goes(t, [phase |-> "taken", story |-> s, grant |-> grants[s] + 1])
    /\ UNCHANGED <<run, story, analysed>>

Knows(t, outcome) ==
    Goes(t, [phase |-> "finishing", story |-> actor[t].story,
             grant |-> actor[t].grant, outcome |-> outcome])

\* the budget is asked before anything else
Deny(t) ==
    /\ Phase(t) = "taken"
    /\ Knows(t, "failed")
    /\ UNCHANGED <<run, story, analysed, ledger, mishaps>>

\* an earlier attempt may have stored the analysis already
AskModel(t) ==
    /\ Phase(t) = "taken"
    /\ IF actor[t].story \in analysed
       THEN Knows(t, "succeeded")
       ELSE Goes(t, [actor[t] EXCEPT !.phase = "asking"])
    /\ UNCHANGED <<run, story, analysed, ledger, mishaps>>

\* faulty: success is reported before the analysis is stored
AnswerUnsaved(t) ==
    /\ Phase(t) = "asking"
    /\ \E o \in {"failed", "succeeded"} : Knows(t, o)
    /\ UNCHANGED <<run, story, analysed, ledger, mishaps>>

\* A bad answer is retried below MAX_CITATION_ATTEMPTS; after that its
\* invalid citations are cut out and the rest is used.
Answer(t) ==
    /\ Phase(t) = "asking"
    /\ \/ Knows(t, "failed")
       \/ actor[t].grant < MaxCitationAttempts /\ Knows(t, "retry")
       \/ Goes(t, [actor[t] EXCEPT !.phase = "persisting"])
    /\ UNCHANGED <<run, story, analysed, ledger, mishaps>>

\* persistAnalysis: the analysis and the status of the story in one
\* transaction, which fails if the job has an analysis by now
Persist(t) ==
    LET s == actor[t].story IN
    /\ Phase(t) = "persisting"
    /\ \/ /\ s \notin analysed
          /\ analysed' = analysed \cup {s}
          /\ SetsStory(s, "complete")
          /\ Knows(t, "succeeded")
       \/ /\ s \in analysed
          /\ Knows(t, "failed")
          /\ UNCHANGED <<analysed, story>>
    /\ UNCHANGED <<run, ledger, mishaps>>

\* finishAnalysisJobAttempt, whose answer nobody looks at
FinishJob(t) ==
    LET s == actor[t].story
        o == actor[t].outcome
    IN
    /\ Phase(t) = "finishing"
    /\ \/ Fenced(t) /\ o = "retry" /\ Queue!Return(s)
       \/ Fenced(t) /\ o # "retry" /\ Queue!Settle(s, o)
       \/ ~Fenced(t) /\ UNCHANGED ledger
    /\ Goes(t, [actor[t] EXCEPT !.phase = "reporting"])
    /\ UNCHANGED <<run, story, analysed, mishaps>>

\* finishClaimedJob up to its reconcileRun
Report(t) ==
    LET o == actor[t].outcome IN
    /\ Phase(t) = "reporting"
    /\ \/ o = "retry" /\ Goes(t, Idle) /\ UNCHANGED story
       \/ o = "succeeded" /\ Goes(t, [phase |-> "reading"]) /\ UNCHANGED story
       \/ /\ o = "failed"
          /\ SetsStory(actor[t].story, "failed")
          /\ Goes(t, [phase |-> "reading"])
    /\ UNCHANGED <<run, analysed, ledger, mishaps>>

-----------------------------------------------------------------------------
(* Reconciling: reconcileRun, humanizeRun, failRun.                        *)

\* faulty: a pending story does not keep the run active
RunStatusNoPending(statuses, count, error) ==
    CASE statuses \cap {"collecting", "analyzing"} # {} -> "analyzing"
      [] statuses = {"failed"}                          -> "failed"
      [] "failed" \in statuses                          -> "partial"
      [] OTHER                                          -> "complete"

\* determineDigestRunStatus, from the set of the stories' statuses and their
\* number
RunStatus(statuses, count, error) ==
    CASE statuses \cap ActiveStatuses # {}          -> "analyzing"
      [] statuses = {"failed"}                      -> "failed"
      [] \/ statuses = {"failed", "complete"}
         \/ /\ statuses = {"complete"}
            /\ count < Requested
            /\ error = "shortfall"                  -> "partial"
      [] OTHER                                      -> "complete"

RunError(status, error) ==
    CASE status = "complete"                    -> "none"
      [] status = "failed" /\ error = "none"    -> "failure"
      [] OTHER                                  -> error

\* faulty: a run that is still analyzing is released
DecidesEarly(a, statuses, count, row) ==
    LET status == RunStatus(statuses, count, row.error) IN
    Goes(a, IF count = 0
            THEN [phase |-> "failing"]
            ELSE [phase  |-> "writing",
                  status |-> status,
                  error  |-> RunError(status, row.error),
                  ready  |-> row.ready \/ status # "failed"])

\* what an actor that has read the statuses and the row will do next
Decides(a, statuses, count, row) ==
    LET status == RunStatus(statuses, count, row.error)
        ends   == status \in DeliverableStatuses
    IN
    Goes(a, IF count = 0
            THEN [phase |-> "failing"]
            ELSE [phase  |-> IF ends /\ ~row.humanized THEN "humanizing"
                                                       ELSE "writing",
                  status |-> status,
                  error  |-> RunError(status, row.error),
                  ready  |-> row.ready \/ ends])

\* the two reads are sent together and either may be answered first
ReadStories(a) ==
    LET statuses == {story[s].status : s \in Present}
        count    == Cardinality(Present)
    IN
    /\ \/ /\ Phase(a) = "reading"
          /\ Goes(a, [phase |-> "has stories", statuses |-> statuses,
                      count |-> count])
       \/ /\ Phase(a) = "has run"
          /\ Decides(a, statuses, count, actor[a].row)
    /\ UNCHANGED <<run, story, analysed, ledger, mishaps>>

ReadRun(a) ==
    /\ \/ /\ Phase(a) = "reading"
          /\ Goes(a, [phase |-> "has run", row |-> run])
       \/ /\ Phase(a) = "has stories"
          /\ Decides(a, actor[a].statuses, actor[a].count, run)
    /\ UNCHANGED <<run, story, analysed, ledger, mishaps>>

\* humanizeRun up to its call of the LLM; disabled, over the budget, with
\* nothing to rewrite or on an error it gives up
Humanize(a) ==
    /\ Phase(a) = "humanizing"
    /\ \E next \in {"calling", "writing"} : Goes(a, [actor[a] EXCEPT !.phase = next])
    /\ UNCHANGED <<run, story, analysed, ledger, mishaps>>

\* the LLM answered, or the call failed and leaves no trace
Humanized(a) ==
    /\ Phase(a) = "calling"
    /\ \/ run' = [run EXCEPT !.humanized = TRUE]
       \/ UNCHANGED run
    /\ Goes(a, [actor[a] EXCEPT !.phase = "writing"])
    /\ UNCHANGED <<story, analysed, ledger, mishaps>>

\* The write does not ask whether anything changed since the reads.
WriteRun(a) ==
    /\ Phase(a) = "writing"
    /\ run' = [run EXCEPT !.status = actor[a].status,
                          !.error = actor[a].error,
                          !.ready = actor[a].ready]
    /\ Goes(a, Idle)
    /\ UNCHANGED <<story, analysed, ledger, mishaps>>

FailRun(a) ==
    /\ Phase(a) = "failing"
    /\ run' = [run EXCEPT !.status = "failed", !.error = "failure"]
    /\ Goes(a, Idle)
    /\ UNCHANGED <<story, analysed, ledger, mishaps>>

-----------------------------------------------------------------------------

\* a process stops, or an error escapes to the poll loop
Stop(a) ==
    LET kind == IF a \in Tasks THEN "task stops" ELSE "collector stops" IN
    /\ Phase(a) # "idle"
    /\ MayGoWrong(kind)
    /\ GoesWrong(kind)
    /\ Goes(a, Idle)
    /\ UNCHANGED <<run, story, analysed, ledger>>

CollectorStep(c) ==
    \/ ReadRunToCollect(c)
    \/ StartRun(c)
    \/ \E s \in Stories : SaveStory(c, s)
    \/ EndIngestion(c)
    \/ IngestionFails(c)
    \/ ListStories(c)
    \/ NextStory(c)
    \/ MarkCollecting(c)
    \/ PreparationFails(c)
    \/ InsertJob(c)
    \/ ReuseAnalysis(c)
    \/ MarkAnalyzing(c)
    \/ MarkUnprepared(c)
    \/ AllPrepared(c)

TaskStep(t) ==
    Deny(t) \/ AskModel(t) \/ Answer(t) \/ Persist(t) \/ FinishJob(t) \/ Report(t)

ReconcilerStep(a) ==
    \/ ReadStories(a)
    \/ ReadRun(a)
    \/ Humanize(a)
    \/ Humanized(a)
    \/ WriteRun(a)
    \/ FailRun(a)

Next ==
    \/ \E c \in Collectors : ClaimRun(c) \/ CollectorStep(c)
    \/ \E t \in Tasks : TakeJob(t) \/ TaskStep(t)
    \/ \E a \in Actors : ReconcilerStep(a) \/ Stop(a)

Spec == Init /\ [][Next]_vars

\* The poll loops run for ever and every started statement or call returns.
Fairness ==
    /\ \A c \in Collectors : WF_vars(ClaimRun(c)) /\ WF_vars(CollectorStep(c))
    /\ \A t \in Tasks : WF_vars(TakeJob(t)) /\ WF_vars(TaskStep(t))
    /\ \A a \in Actors : WF_vars(ReconcilerStep(a))

FairSpec == Spec /\ Fairness

-----------------------------------------------------------------------------

\* A job that succeeded has its analysis: whichever of several attempts
\* stored it, and however the others ended.
SucceededHasAnalysis ==
    \A s \in Stories : result[s] = "succeeded" => s \in analysed

\* What the reader shows as analysed is there to be read.
PublishedHasAnalysis ==
    \A s \in Stories : story[s].status = "complete" => s \in analysed

\* The rows are of their types, and what they say of a story is true of the
\* analyses that are stored (persistAnalysis, reuseAnalysis).
RowsAgree == TypeOK /\ SucceededHasAnalysis /\ PublishedHasAnalysis

\* The run is collected once: no collector stopped half-way or was slow.
CollectedOnce == mishaps \cap {"collector stops", "late collector"} = {}

\* A complete run that is collected once has an analysis of every story,
\* however late the write that made it complete, whatever becomes of tasks.
\* (A second collection may add stories that a write under way does not know.)
CompleteIsAnalysed ==
    run.status = "complete" /\ CollectedOnce => Present \subseteq analysed

Decided(s) == s \in analysed \/ result[s] = "failed"

\* While the run is collected once, no attempt outlasts its lease and no story
\* is marked failed after its job was inserted, the newsletter is not released
\* before the analysis of every story is decided: each has one, or its job has
\* failed, or it never got a job.
ReleasedIsDecided ==
    run.ready /\ CollectedOnce /\ mishaps \cap {"late task", "error"} = {}
        => \A s \in posted : Decided(s)

\* The run does not stay in collection, even if its collector stops.
CollectionEnds ==
    (run.status \in {"pending", "collecting"})
        ~> (run.status \notin {"pending", "collecting"})

\* ROADMAP: "Sending starts only after the corresponding digest reaches its
\* deliverable terminal state."
Deliverable == run.status \in DeliverableStatuses /\ run.ready

DeliverableIsTerminal == [][Deliverable => Deliverable']_vars

=============================================================================
