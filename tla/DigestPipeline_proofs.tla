------------------------ MODULE DigestPipeline_proofs ------------------------
(***************************************************************************)
(* Theorems about one digest run, for any set of stories, collectors and   *)
(* tasks, and whatever may go wrong.                                       *)
(*                                                                         *)
(* The argument has three layers.  Rows: what the statements write of a    *)
(* story is true of the stored analyses, because an outcome is known only  *)
(* from them (RowsInv).  Collection: as long as no collector stops or is   *)
(* slow, nobody else does anything before the stories are listed, and      *)
(* there is no second collection (OneCollection); so what anybody read of  *)
(* the stories stays true of them until it is written (ReadsLast).         *)
(* Attempts: as long as no task is slow, the holder of a job is the task   *)
(* that works on it (TasksHold), so what a task reports has been settled   *)
(* (ReleaseInv).                                                           *)
(***************************************************************************)
EXTENDS DigestPipeline, FiniteSetTheorems, TLAPS

-----------------------------------------------------------------------------
(* The inductive invariants.                                               *)

WithStory == {"marking", "fetching", "inserted", "broken"}

WithTodo == WithStory \cup {"preparing"}

Working == {"taken", "asking", "persisting", "finishing"}

WithJob == Working \cup {"reporting"}

Deciding == {"humanizing", "calling", "writing"}

\* before the stories are listed
Early == {"claimed", "starting", "saving", "listing"}

\* A task that knows of a success has its analysis in the table.
OutcomesAreStored ==
    \A t \in Tasks :
        Phase(t) \in {"finishing", "reporting"} /\ actor[t].outcome = "succeeded"
            => actor[t].story \in analysed

RowsInv == RowsAgree /\ OutcomesAreStored

\* Whatever an actor works on is a story of the run, and has a job if it is a
\* task that works on it.
ActorsKnow ==
    /\ posted \subseteq Present
    /\ \A c \in Collectors :
          /\ Phase(c) \in WithTodo => actor[c].todo \subseteq Present
          /\ Phase(c) \in WithStory => actor[c].story \in Present
    /\ \A t \in Tasks : Phase(t) \in WithJob => actor[t].story \in posted
    /\ \A a \in Actors :
          /\ Phase(a) = "has stories" /\ actor[a].statuses = {} => actor[a].count = 0
          /\ Phase(a) \in Deciding => actor[a].status \notin {"pending", "collecting"}

\* One collector at most is at work; until the stories are listed it is alone,
\* and nobody takes the run from it.
AloneBeforeListing ==
    /\ \A c, d \in Collectors : Phase(c) # "idle" /\ Phase(d) # "idle" => c = d
    /\ run.status = "collecting" => \E c \in Collectors : Phase(c) # "idle"
    /\ run.status = "pending" => \A a \in Actors : Phase(a) = "idle"
    /\ \A c \in Collectors :
          Phase(c) \in Early =>
              /\ run.status = "collecting"
              /\ \A a \in Actors \ {c} : Phase(a) = "idle"
    /\ (run.status = "pending" \/ \E c \in Collectors : Phase(c) \in Early) =>
          /\ posted = {} /\ ~run.ready
          /\ \A s \in Present : story[s].status = "pending"

OneCollection == CollectedOnce => AloneBeforeListing

\* Who has read that every story is complete, or decided so, is still right.
SawComplete(a) ==
    \/ Phase(a) = "has stories" /\ actor[a].statuses = {"complete"}
    \/ Phase(a) \in Deciding /\ actor[a].status = "complete"

ReadsAreTrue == \A a \in Actors : SawComplete(a) => Present \subseteq analysed

ReadsLast == CollectedOnce => ReadsAreTrue

\* A job that a task works on is held by it.
TasksHold ==
    "late task" \notin mishaps =>
        \A t \in Tasks :
            Phase(t) \in Working =>
                LET s == actor[t].story IN
                holder[s] = t /\ grants[s] = actor[t].grant

\* What may go wrong with tasks that no longer matters to the release.
Orderly ==
    CollectedOnce /\ mishaps \cap {"late task", "error"} = {}

\* A story that is to be prepared is as it was collected.
TodoIsFresh(c) ==
    /\ Phase(c) \in WithTodo =>
          \A s \in actor[c].todo : s \notin posted /\ story[s].status = "pending"
    /\ Phase(c) \in {"marking", "fetching", "broken"} =>
          /\ actor[c].story \notin posted
          /\ story[actor[c].story].status \in ActiveStatuses
    /\ Phase(c) \in WithStory => actor[c].story \notin actor[c].todo

FailuresAreDecided ==
    /\ \A s \in posted : story[s].status = "failed" => Decided(s)
    /\ \A t \in Tasks :
          Phase(t) = "reporting" /\ actor[t].outcome = "failed"
              => Decided(actor[t].story)
    /\ \A c \in Collectors : TodoIsFresh(c)

\* No job is left undecided and none will be posted.
AllDecided ==
    /\ \A s \in posted : Decided(s)
    /\ \A c \in Collectors :
          /\ Phase(c) \notin Early \cup {"marking", "fetching", "broken"}
          /\ Phase(c) \in {"preparing", "inserted"} => actor[c].todo = {}

\* Who has seen a release, or may decide on one.
MayRelease(a) ==
    \/ Phase(a) = "has run" /\ actor[a].row.ready
    \/ /\ Phase(a) = "has stories"
       /\ actor[a].statuses \cap ActiveStatuses = {}
       /\ actor[a].statuses # {}
    \/ Phase(a) \in Deciding /\ actor[a].ready

\* Somebody has released the newsletter, or may do so.
Released == run.ready \/ \E a \in Actors : MayRelease(a)

ReleaseInv ==
    Orderly =>
        /\ FailuresAreDecided
        /\ Released => AllDecided

-----------------------------------------------------------------------------
(* Lemmas about the operators.                                             *)

Asking == {"taken", "asking", "persisting"}

Ending == {"finishing", "reporting"}

\* What the phase of an actor says of its record.
LEMMA Shapes ==
    ASSUME NEW a, actor[a] \in ActorStates
    PROVE  /\ Phase(a) = "saving" => actor[a].saved \in SUBSET Stories
           /\ Phase(a) \in WithTodo => actor[a].todo \in SUBSET Stories
           /\ Phase(a) \in WithStory =>
                 actor[a] \in [phase : WithStory, story : Stories,
                               todo : SUBSET Stories]
           /\ Phase(a) \in Asking =>
                 actor[a] \in [phase : Asking, story : Stories, grant : Nat]
           /\ Phase(a) \in Ending =>
                 actor[a] \in [phase : Ending, story : Stories, grant : Nat,
                               outcome : {"succeeded", "failed", "retry"}]
           /\ Phase(a) \in WithJob => actor[a].story \in Stories
           /\ Phase(a) = "has stories" =>
                 actor[a].statuses \in SUBSET StoryStatuses /\ actor[a].count \in Nat
           /\ Phase(a) = "has run" => actor[a].row \in RunRow
           /\ Phase(a) \in Deciding =>
                 actor[a] \in [phase : Deciding, status : RunStatuses,
                               error : RunErrors, ready : BOOLEAN]
<1> USE DEF Phase, WithTodo, WithStory, WithJob, Working, Deciding, Asking, Ending
<1>1. CASE actor[a] = Idle
  BY <1>1 DEF Idle
<1>2. CASE actor[a] \in [phase : {"claimed", "starting", "listing", "reading",
                                 "failing"}]
  BY <1>2
<1>3. CASE actor[a] \in [phase : {"saving"}, saved : SUBSET Stories]
  BY <1>3
<1>4. CASE actor[a] \in [phase : {"preparing"}, todo : SUBSET Stories]
  BY <1>4
<1>5. CASE actor[a] \in [phase : WithStory, story : Stories, todo : SUBSET Stories]
  BY <1>5
<1>6. CASE actor[a] \in [phase : Asking, story : Stories, grant : Nat]
  BY <1>6
<1>7. CASE actor[a] \in [phase : Ending, story : Stories, grant : Nat,
                        outcome : {"succeeded", "failed", "retry"}]
  BY <1>7
<1>8. CASE actor[a] \in [phase : {"has stories"}, statuses : SUBSET StoryStatuses,
                        count : Nat]
  BY <1>8
<1>9. CASE actor[a] \in [phase : {"has run"}, row : RunRow]
  BY <1>9
<1>10. CASE actor[a] \in [phase : Deciding, status : RunStatuses,
                         error : RunErrors, ready : BOOLEAN]
  BY <1>10
<1> QED
  BY <1>1, <1>2, <1>3, <1>4, <1>5, <1>6, <1>7, <1>8, <1>9, <1>10
     DEF ActorStates, CollectorStates, TaskStates, ReconcilerStates

\* A step of an actor changes what it holds and nothing else in memory.
LEMMA Going ==
    ASSUME actor \in [Actors -> ActorStates],
           NEW a \in Actors, NEW state, Goes(a, state)
    PROVE  /\ actor'[a] = state
           /\ \A b \in Actors \ {a} : actor'[b] = actor[b]
           /\ state \in ActorStates => actor' \in [Actors -> ActorStates]
BY DEF Goes

\* What is decided from statuses and row, and when.
LEMMA RunStatusCases ==
    ASSUME NEW statuses \in SUBSET StoryStatuses, NEW count, NEW error
    PROVE  LET status == RunStatus(statuses, count, error) IN
           /\ status \in {"analyzing", "failed", "partial", "complete"}
           /\ status = "complete" => statuses \in {{}, {"complete"}}
           /\ status \in DeliverableStatuses => statuses \cap ActiveStatuses = {}
BY DEF RunStatus, StoryStatuses, ActiveStatuses, DeliverableStatuses

LEMMA RunErrorType ==
    ASSUME NEW status, NEW error \in RunErrors
    PROVE  RunError(status, error) \in RunErrors
BY DEF RunError, RunErrors

\* What an actor holds once it has read both.
LEMMA Deciders ==
    ASSUME actor \in [Actors -> ActorStates], NEW a \in Actors,
           NEW statuses \in SUBSET StoryStatuses, NEW count,
           NEW row \in RunRow, Decides(a, statuses, count, row)
    PROVE  /\ actor' \in [Actors -> ActorStates]
           /\ \A b \in Actors \ {a} : actor'[b] = actor[b]
           /\ count = 0 => actor'[a] = [phase |-> "failing"]
           /\ count # 0 =>
                 /\ Phase(a)' \in Deciding
                 /\ actor'[a].status = RunStatus(statuses, count, row.error)
                 /\ actor'[a].ready
                       = (row.ready \/ actor'[a].status \in DeliverableStatuses)
<1> DEFINE status == RunStatus(statuses, count, row.error)
           next   == [phase  |-> IF status \in DeliverableStatuses /\ ~row.humanized
                                 THEN "humanizing" ELSE "writing",
                      status |-> status,
                      error  |-> RunError(status, row.error),
                      ready  |-> row.ready \/ status \in DeliverableStatuses]
           state  == IF count = 0 THEN [phase |-> "failing"] ELSE next
<1>1. row.error \in RunErrors /\ row.ready \in BOOLEAN
  BY DEF RunRow
<1>2. status \in RunStatuses
  BY RunStatusCases DEF RunStatuses, DeliverableStatuses
<1>3. RunError(status, row.error) \in RunErrors
  BY <1>1, RunErrorType
<1>4. Goes(a, state)
  BY DEF Decides
<1> HIDE DEF status
<1>5. state \in ActorStates
  BY <1>1, <1>2, <1>3 DEF ActorStates, ReconcilerStates
<1>6. /\ actor' \in [Actors -> ActorStates]
      /\ actor'[a] = state
      /\ \A b \in Actors \ {a} : actor'[b] = actor[b]
  BY <1>4, <1>5, Going
<1>7. count # 0 => actor'[a] = next
  BY <1>6
<1>8. next.phase \in Deciding
  BY DEF Deciding
<1> QED
  BY <1>6, <1>7, <1>8 DEF status, Phase

\* The records an actor may hold.
LEMMA StatesOfActors ==
    /\ \A p \in {"idle", "claimed", "starting", "listing", "reading", "failing"} :
          [phase |-> p] \in ActorStates
    /\ \A saved \in SUBSET Stories :
          [phase |-> "saving", saved |-> saved] \in ActorStates
    /\ \A todo \in SUBSET Stories :
          [phase |-> "preparing", todo |-> todo] \in ActorStates
    /\ [phase : WithStory, story : Stories, todo : SUBSET Stories] \subseteq ActorStates
    /\ [phase : Asking, story : Stories, grant : Nat] \subseteq ActorStates
    /\ [phase : Ending, story : Stories, grant : Nat,
        outcome : {"succeeded", "failed", "retry"}] \subseteq ActorStates
    /\ [phase : {"has stories"}, statuses : SUBSET StoryStatuses, count : Nat]
          \subseteq ActorStates
    /\ \A row \in RunRow : [phase |-> "has run", row |-> row] \in ActorStates
    /\ [phase : Deciding, status : RunStatuses, error : RunErrors, ready : BOOLEAN]
          \subseteq ActorStates
BY DEF ActorStates, CollectorStates, TaskStates, ReconcilerStates, Idle,
       WithStory, Asking, Ending, Deciding

\* The stories of the run can be counted, and their statuses are known ones.
LEMMA PresentStories ==
    ASSUME TypeOK
    PROVE  /\ Present \in SUBSET Stories
           /\ Cardinality(Present) \in Nat
           /\ Cardinality(Present) = 0 <=> Present = {}
           /\ {story[s].status : s \in Present} \in SUBSET StoryStatuses
<1>1. Present \in SUBSET Stories
  BY DEF Present
<1>2. IsFiniteSet(Present)
  BY <1>1, FS_Subset, PipelineAssumption
<1>3. \A s \in Present : story[s].status \in StoryStatuses
  BY DEF Present, TypeOK, StoryRow
<1> QED
  BY <1>1, <1>2, <1>3, FS_CardinalityType, FS_EmptySet

\* The status of one story is set, and nothing else in the table.
LEMMA SettingStatus ==
    ASSUME story \in [Stories -> StoryRow],
           NEW s \in Stories, NEW status \in StoryStatuses, SetsStory(s, status)
    PROVE  /\ story' \in [Stories -> StoryRow]
           /\ story'[s].status = status
           /\ \A o \in Stories \ {s} : story'[o] = story[o]
<1>1. story[s] \in StoryRow
  OBVIOUS
<1>2. [story[s] EXCEPT !.status = status] \in StoryRow
  BY <1>1 DEF StoryRow
<1>3. story' = [story EXCEPT ![s] = [story[s] EXCEPT !.status = status]]
  BY DEF SetsStory
<1>4. [story[s] EXCEPT !.status = status].status = status
  BY <1>1 DEF StoryRow
<1> QED
  BY <1>2, <1>3, <1>4

-----------------------------------------------------------------------------
(* Type correctness.                                                       *)

LEMMA TypeInit == Init => TypeOK
<1> SUFFICES ASSUME Init PROVE TypeOK
  OBVIOUS
<1> USE DEF Init
<1>1. run \in RunRow
  BY DEF RunRow, RunStatuses, RunErrors
<1>2. story \in [Stories -> StoryRow]
  BY DEF StoryRow
<1>3. /\ posted \subseteq Stories
      /\ holder \in [Stories -> Tasks \cup {NoTask}]
      /\ grants \in [Stories -> Nat]
      /\ result \in [Stories -> {"none", "succeeded", "failed"}]
  BY DEF Queue!LedgerInit
<1>4. actor \in [Actors -> ActorStates]
  BY StatesOfActors DEF Idle
<1> QED
  BY <1>1, <1>2, <1>3, <1>4 DEF TypeOK

\* Each step of a collector keeps the types.
LEMMA CollectorTypes ==
    ASSUME TypeOK, NEW c \in Collectors, ClaimRun(c) \/ CollectorStep(c)
    PROVE  TypeOK'
<1>1. /\ c \in Actors /\ actor \in [Actors -> ActorStates]
      /\ actor[c] \in ActorStates
      /\ story \in [Stories -> StoryRow] /\ run \in RunRow
  BY DEF Actors, TypeOK
<1>2. ASSUME NEW state \in ActorStates, Goes(c, state)
      PROVE  actor' \in [Actors -> ActorStates]
  BY <1>1, <1>2, Going
<1>3. /\ Phase(c) = "saving" => actor[c].saved \in SUBSET Stories
      /\ Phase(c) \in WithTodo => actor[c].todo \in SUBSET Stories
      /\ Phase(c) \in WithStory =>
            actor[c] \in [phase : WithStory, story : Stories, todo : SUBSET Stories]
  BY <1>1, Shapes
<1>4. ASSUME NEW p \in WithStory, Phase(c) \in WithStory
      PROVE  [actor[c] EXCEPT !.phase = p] \in ActorStates
  <2>1. [actor[c] EXCEPT !.phase = p]
           \in [phase : WithStory, story : Stories, todo : SUBSET Stories]
    BY <1>3, <1>4
  <2> QED
    BY <2>1, StatesOfActors
<1>5. ASSUME Phase(c) \in WithTodo
      PROVE  [phase |-> "preparing", todo |-> actor[c].todo] \in ActorStates
  BY <1>3, <1>5, StatesOfActors
<1>6. ASSUME NEW status \in StoryStatuses, Phase(c) \in WithStory,
             SetsStory(actor[c].story, status)
      PROVE  story' \in [Stories -> StoryRow]
  BY <1>1, <1>3, <1>6, SettingStatus
<1>7. CASE ClaimRun(c)
  <2>1. run' \in RunRow
    BY <1>1, <1>7 DEF ClaimRun, RunRow, RunStatuses
  <2>2. actor' \in [Actors -> ActorStates]
    BY <1>2, <1>7, StatesOfActors DEF ClaimRun
  <2>3. mishaps' \subseteq MishapKinds
    BY <1>7 DEF ClaimRun, GoesWrong, TypeOK, MishapKinds
  <2> QED
    BY <1>7, <2>1, <2>2, <2>3 DEF ClaimRun, TypeOK, ledger
<1>8. CASE ReadRunToCollect(c)
  <2>1. actor' \in [Actors -> ActorStates]
    BY <1>2, <1>8, StatesOfActors DEF ReadRunToCollect
  <2> QED
    BY <1>8, <2>1 DEF ReadRunToCollect, TypeOK, ledger
<1>9. CASE StartRun(c)
  <2>1. run' \in RunRow
    BY <1>1, <1>9 DEF StartRun, RunRow, RunStatuses, RunErrors
  <2>2. actor' \in [Actors -> ActorStates]
    BY <1>2, <1>9, StatesOfActors DEF StartRun
  <2> QED
    BY <1>9, <2>1, <2>2 DEF StartRun, TypeOK, ledger
<1>10. ASSUME NEW s \in Stories, SaveStory(c, s) PROVE TypeOK'
  <2> DEFINE saved == actor[c].saved
             rank  == Cardinality(saved) + 1
  <2>1. saved \in SUBSET Stories /\ rank \in Nat
    <3>1. saved \in SUBSET Stories
      BY <1>3, <1>10 DEF SaveStory
    <3>2. IsFiniteSet(saved)
      BY <3>1, FS_Subset, PipelineAssumption
    <3> QED
      BY <3>1, <3>2, FS_CardinalityType
  <2>2. [phase |-> "saving", saved |-> saved \cup {s}] \in ActorStates
    <3>1. saved \cup {s} \in SUBSET Stories
      BY <2>1
    <3> QED
      BY <3>1, StatesOfActors
  <2>3. actor' \in [Actors -> ActorStates]
    BY <1>2, <1>10, <2>2, StatesOfActors DEF SaveStory
  <2>4. story' \in [Stories -> StoryRow]
    <3>1. [status |-> IF story[s].status = "absent" THEN "pending" ELSE story[s].status,
           rank |-> rank] \in StoryRow
      BY <1>1, <2>1 DEF StoryRow, StoryStatuses, ActiveStatuses
    <3>2. CASE UNCHANGED story
      BY <1>1, <3>2
    <3>3. CASE story' = [story EXCEPT
                  ![s] = [status |-> IF @.status = "absent" THEN "pending" ELSE @.status,
                          rank |-> rank]]
      BY <1>1, <3>1, <3>3
    <3> QED
      BY <1>10, <3>2, <3>3 DEF SaveStory
  <2> QED
    BY <1>10, <2>3, <2>4 DEF SaveStory, TypeOK, ledger
<1>11. CASE EndIngestion(c)
  <2>1. run' \in RunRow
    BY <1>1, <1>11 DEF EndIngestion, RunRow, RunStatuses, RunErrors
  <2>2. actor' \in [Actors -> ActorStates]
    BY <1>2, <1>11, StatesOfActors DEF EndIngestion
  <2> QED
    BY <1>11, <2>1, <2>2 DEF EndIngestion, TypeOK, ledger
<1>12. CASE IngestionFails(c)
  <2>1. run' \in RunRow
    BY <1>1, <1>12 DEF IngestionFails, RunRow, RunStatuses, RunErrors
  <2>2. actor' \in [Actors -> ActorStates]
    BY <1>2, <1>12, StatesOfActors DEF IngestionFails
  <2> QED
    BY <1>12, <2>1, <2>2 DEF IngestionFails, TypeOK, ledger
<1>13. CASE ListStories(c)
  <2>1. actor' \in [Actors -> ActorStates]
    BY <1>2, <1>13, PresentStories, StatesOfActors DEF ListStories
  <2> QED
    BY <1>13, <2>1 DEF ListStories, TypeOK, ledger
<1>14. CASE NextStory(c)
  <2> PICK s \in actor[c].todo :
        LET rest == actor[c].todo \ {s} IN
        Goes(c, IF s \in posted
                THEN [phase |-> "preparing", todo |-> rest]
                ELSE [phase |-> "marking", story |-> s, todo |-> rest])
    BY <1>14 DEF NextStory
  <2>1. /\ s \in Stories /\ actor[c].todo \ {s} \in SUBSET Stories
    BY <1>3, <1>14 DEF NextStory, WithTodo
  <2>2. [phase |-> "marking", story |-> s, todo |-> actor[c].todo \ {s}]
           \in [phase : WithStory, story : Stories, todo : SUBSET Stories]
    BY <2>1 DEF WithStory
  <2>3. actor' \in [Actors -> ActorStates]
    BY <1>2, <2>1, <2>2, StatesOfActors
  <2> QED
    BY <1>14, <2>3 DEF NextStory, TypeOK, ledger
<1>15. CASE MarkCollecting(c)
  <2>1. actor' \in [Actors -> ActorStates]
    BY <1>2, <1>4, <1>15 DEF MarkCollecting, WithStory
  <2>2. story' \in [Stories -> StoryRow]
    BY <1>6, <1>15 DEF MarkCollecting, WithStory, StoryStatuses, ActiveStatuses
  <2> QED
    BY <1>15, <2>1, <2>2 DEF MarkCollecting, TypeOK, ledger
<1>16. CASE PreparationFails(c)
  <2>1. actor' \in [Actors -> ActorStates]
    BY <1>2, <1>4, <1>16 DEF PreparationFails, WithStory
  <2> QED
    BY <1>16, <2>1 DEF PreparationFails, TypeOK, ledger
<1>17. CASE InsertJob(c)
  <2>1. actor' \in [Actors -> ActorStates]
    BY <1>2, <1>4, <1>17 DEF InsertJob, WithStory
  <2>2. actor[c].story \in Stories
    BY <1>3, <1>17 DEF InsertJob, WithStory
  <2>3. /\ posted' \subseteq Stories
        /\ holder' \in [Stories -> Tasks \cup {NoTask}]
        /\ grants' \in [Stories -> Nat]
        /\ result' \in [Stories -> {"none", "succeeded", "failed"}]
    BY <1>17, <2>2 DEF InsertJob, TypeOK, ledger, Queue!Post
  <2> QED
    BY <1>17, <2>1, <2>3 DEF InsertJob, TypeOK
<1>18. CASE ReuseAnalysis(c)
  <2>1. Phase(c) \in WithStory /\ Phase(c) \in WithTodo
    BY <1>18 DEF ReuseAnalysis, WithStory, WithTodo
  <2>2. actor' \in [Actors -> ActorStates]
    BY <1>2, <1>4, <1>5, <1>18, <2>1 DEF ReuseAnalysis, WithStory
  <2>3. actor[c].story \in Stories
    BY <1>3, <2>1
  <2>4. /\ posted' \subseteq Stories
        /\ holder' \in [Stories -> Tasks \cup {NoTask}]
        /\ grants' \in [Stories -> Nat]
        /\ result' \in [Stories -> {"none", "succeeded", "failed"}]
    BY <1>18, <2>3 DEF ReuseAnalysis, TypeOK, ledger, Queue!Import
  <2>5. story' \in [Stories -> StoryRow]
    BY <1>1, <1>6, <1>18, <2>1 DEF ReuseAnalysis, StoryStatuses
  <2>6. analysed' \subseteq Stories
    BY <1>18, <2>3 DEF ReuseAnalysis, TypeOK
  <2> QED
    BY <1>18, <2>2, <2>4, <2>5, <2>6 DEF ReuseAnalysis, TypeOK
<1>19. CASE MarkAnalyzing(c)
  <2>1. Phase(c) \in WithStory /\ Phase(c) \in WithTodo
    BY <1>19 DEF MarkAnalyzing, WithStory, WithTodo
  <2>2. actor' \in [Actors -> ActorStates]
    BY <1>2, <1>4, <1>5, <1>19, <2>1 DEF MarkAnalyzing, WithStory
  <2>3. story' \in [Stories -> StoryRow]
    BY <1>1, <1>6, <1>19, <2>1 DEF MarkAnalyzing, StoryStatuses, ActiveStatuses
  <2>4. mishaps' \subseteq MishapKinds
    BY <1>19 DEF MarkAnalyzing, GoesWrong, TypeOK, MishapKinds
  <2> QED
    BY <1>19, <2>2, <2>3, <2>4 DEF MarkAnalyzing, TypeOK, ledger
<1>20. CASE MarkUnprepared(c)
  <2>1. Phase(c) \in WithStory /\ Phase(c) \in WithTodo
    BY <1>20 DEF MarkUnprepared, WithStory, WithTodo
  <2>2. actor' \in [Actors -> ActorStates]
    BY <1>2, <1>5, <1>20, <2>1 DEF MarkUnprepared
  <2>3. story' \in [Stories -> StoryRow]
    BY <1>6, <1>20, <2>1 DEF MarkUnprepared, StoryStatuses
  <2> QED
    BY <1>20, <2>2, <2>3 DEF MarkUnprepared, TypeOK, ledger
<1>21. CASE AllPrepared(c)
  <2>1. actor' \in [Actors -> ActorStates]
    BY <1>2, <1>21, StatesOfActors DEF AllPrepared
  <2> QED
    BY <1>21, <2>1 DEF AllPrepared, TypeOK, ledger
<1> QED
  BY <1>7, <1>8, <1>9, <1>10, <1>11, <1>12, <1>13, <1>14, <1>15, <1>16, <1>17,
     <1>18, <1>19, <1>20, <1>21 DEF CollectorStep

\* Each step of a task keeps the types.
LEMMA TaskTypes ==
    ASSUME TypeOK, NEW t \in Tasks, TakeJob(t) \/ TaskStep(t)
    PROVE  TypeOK'
<1>1. /\ t \in Actors /\ actor \in [Actors -> ActorStates]
      /\ actor[t] \in ActorStates
      /\ story \in [Stories -> StoryRow]
  BY DEF Actors, TypeOK
<1>2. ASSUME NEW state \in ActorStates, Goes(t, state)
      PROVE  actor' \in [Actors -> ActorStates]
  BY <1>1, <1>2, Going
<1>3. /\ Phase(t) \in Asking =>
            actor[t] \in [phase : Asking, story : Stories, grant : Nat]
      /\ Phase(t) \in Ending =>
            actor[t] \in [phase : Ending, story : Stories, grant : Nat,
                          outcome : {"succeeded", "failed", "retry"}]
  BY <1>1, Shapes
<1>4. ASSUME NEW p \in Asking, Phase(t) \in Asking
      PROVE  [actor[t] EXCEPT !.phase = p] \in ActorStates
  <2>1. [actor[t] EXCEPT !.phase = p] \in [phase : Asking, story : Stories, grant : Nat]
    BY <1>3, <1>4
  <2> QED
    BY <2>1, StatesOfActors
<1>5. ASSUME NEW o \in {"succeeded", "failed", "retry"}, Phase(t) \in Asking,
             Knows(t, o)
      PROVE  actor' \in [Actors -> ActorStates]
  <2>1. [phase |-> "finishing", story |-> actor[t].story,
         grant |-> actor[t].grant, outcome |-> o]
           \in [phase : Ending, story : Stories, grant : Nat,
                outcome : {"succeeded", "failed", "retry"}]
    BY <1>3, <1>5 DEF Ending
  <2> QED
    BY <1>2, <1>5, <2>1, StatesOfActors DEF Knows
<1>6. ASSUME NEW status \in StoryStatuses, Phase(t) \in Asking \cup Ending,
             SetsStory(actor[t].story, status)
      PROVE  story' \in [Stories -> StoryRow]
  BY <1>1, <1>3, <1>6, SettingStatus
<1>7. CASE TakeJob(t)
  <2>1. PICK s \in Stories :
        /\ Queue!Grant(s, t)
        /\ UNCHANGED mishaps \/ GoesWrong("late task")
        /\ Goes(t, [phase |-> "taken", story |-> s, grant |-> grants[s] + 1])
    BY <1>7 DEF TakeJob
  <2>2. grants[s] + 1 \in Nat
    BY DEF TypeOK
  <2>3. [phase |-> "taken", story |-> s, grant |-> grants[s] + 1]
           \in [phase : Asking, story : Stories, grant : Nat]
    BY <2>2 DEF Asking
  <2>4. actor' \in [Actors -> ActorStates]
    BY <1>2, <2>1, <2>3, StatesOfActors
  <2>5. /\ posted' \subseteq Stories
        /\ holder' \in [Stories -> Tasks \cup {NoTask}]
        /\ grants' \in [Stories -> Nat]
        /\ result' \in [Stories -> {"none", "succeeded", "failed"}]
    <3>1. Queue!Grant(s, t)
      BY <2>1
    <3> QED
      BY <3>1 DEF TypeOK, Queue!Grant
  <2>6. mishaps' \subseteq MishapKinds
    BY <2>1 DEF GoesWrong, TypeOK, MishapKinds
  <2> QED
    BY <1>7, <2>4, <2>5, <2>6 DEF TakeJob, TypeOK
<1>8. CASE Deny(t)
  <2>1. actor' \in [Actors -> ActorStates]
    BY <1>5, <1>8 DEF Deny, Asking
  <2> QED
    BY <1>8, <2>1 DEF Deny, TypeOK, ledger
<1>9. CASE AskModel(t)
  <2>1. actor' \in [Actors -> ActorStates]
    BY <1>2, <1>4, <1>5, <1>9 DEF AskModel, Asking
  <2> QED
    BY <1>9, <2>1 DEF AskModel, TypeOK, ledger
<1>10. CASE Answer(t)
  <2>1. actor' \in [Actors -> ActorStates]
    BY <1>2, <1>4, <1>5, <1>10 DEF Answer, Asking
  <2> QED
    BY <1>10, <2>1 DEF Answer, TypeOK, ledger
<1>11. CASE Persist(t)
  <2>1. Phase(t) \in Asking /\ actor[t].story \in Stories
    BY <1>3, <1>11 DEF Persist, Asking
  <2>2. actor' \in [Actors -> ActorStates]
    BY <1>5, <1>11, <2>1 DEF Persist
  <2>3. story' \in [Stories -> StoryRow]
    BY <1>1, <1>6, <1>11, <2>1 DEF Persist, StoryStatuses
  <2>4. analysed' \subseteq Stories
    BY <1>11, <2>1 DEF Persist, TypeOK
  <2> QED
    BY <1>11, <2>2, <2>3, <2>4 DEF Persist, TypeOK, ledger
<1>12. CASE FinishJob(t)
  <2>1. /\ actor[t] \in [phase : Ending, story : Stories, grant : Nat,
                         outcome : {"succeeded", "failed", "retry"}]
    BY <1>3, <1>12 DEF FinishJob, Ending
  <2>2. [actor[t] EXCEPT !.phase = "reporting"]
           \in [phase : Ending, story : Stories, grant : Nat,
                outcome : {"succeeded", "failed", "retry"}]
    BY <2>1 DEF Ending
  <2>3. actor' \in [Actors -> ActorStates]
    BY <1>2, <1>12, <2>2, StatesOfActors DEF FinishJob
  <2>4. /\ posted' \subseteq Stories
        /\ holder' \in [Stories -> Tasks \cup {NoTask}]
        /\ grants' \in [Stories -> Nat]
        /\ result' \in [Stories -> {"none", "succeeded", "failed"}]
    BY <1>12, <2>1 DEF FinishJob, TypeOK, ledger, Queue!Return, Queue!Settle
  <2> QED
    BY <1>12, <2>3, <2>4 DEF FinishJob, TypeOK
<1>13. CASE Report(t)
  <2>1. Phase(t) \in Ending
    BY <1>13 DEF Report, Ending
  <2>2. actor' \in [Actors -> ActorStates]
    BY <1>2, <1>13, StatesOfActors DEF Report, Idle
  <2>3. story' \in [Stories -> StoryRow]
    BY <1>1, <1>6, <1>13, <2>1 DEF Report, StoryStatuses
  <2> QED
    BY <1>13, <2>2, <2>3 DEF Report, TypeOK, ledger
<1> QED
  BY <1>7, <1>8, <1>9, <1>10, <1>11, <1>12, <1>13 DEF TaskStep

\* What a read of the stories sees.
SeenStatuses == {story[s].status : s \in Present}

SeenCount == Cardinality(Present)

\* The reads of a reconciliation, in either order, and what they lead to.
LEMMA Reading ==
    ASSUME TypeOK, NEW a \in Actors, ReadStories(a) \/ ReadRun(a)
    PROVE  \/ /\ Phase(a) = "reading"
              /\ Goes(a, [phase |-> "has stories", statuses |-> SeenStatuses,
                          count |-> SeenCount])
           \/ /\ Phase(a) = "reading"
              /\ Goes(a, [phase |-> "has run", row |-> run])
           \/ /\ Phase(a) = "has run" /\ actor[a].row \in RunRow
              /\ Decides(a, SeenStatuses, SeenCount, actor[a].row)
           \/ /\ Phase(a) = "has stories"
              /\ actor[a].statuses \in SUBSET StoryStatuses /\ actor[a].count \in Nat
              /\ Decides(a, actor[a].statuses, actor[a].count, run)
<1>1. actor[a] \in ActorStates
  BY DEF TypeOK
<1> QED
  BY <1>1, Shapes DEF ReadStories, ReadRun, SeenStatuses, SeenCount

\* Each step of a reconciliation keeps the types.
LEMMA ReconcilerTypes ==
    ASSUME TypeOK, NEW a \in Actors, ReconcilerStep(a) \/ Stop(a)
    PROVE  TypeOK'
<1>1. /\ actor \in [Actors -> ActorStates]
      /\ actor[a] \in ActorStates
      /\ run \in RunRow
  BY DEF TypeOK
<1>2. ASSUME NEW state \in ActorStates, Goes(a, state)
      PROVE  actor' \in [Actors -> ActorStates]
  BY <1>1, <1>2, Going
<1>3. ASSUME NEW p \in Deciding, Phase(a) \in Deciding
      PROVE  [actor[a] EXCEPT !.phase = p] \in ActorStates
  <2>1. [actor[a] EXCEPT !.phase = p]
           \in [phase : Deciding, status : RunStatuses, error : RunErrors,
                ready : BOOLEAN]
    BY <1>1, <1>3, Shapes
  <2> QED
    BY <2>1, StatesOfActors
<1>4. CASE ReadStories(a) \/ ReadRun(a)
  <2>1. actor' \in [Actors -> ActorStates]
    <3>1. SeenStatuses \in SUBSET StoryStatuses /\ SeenCount \in Nat
      BY PresentStories DEF SeenStatuses, SeenCount
    <3>2. ASSUME Goes(a, [phase |-> "has stories", statuses |-> SeenStatuses,
                          count |-> SeenCount])
          PROVE  actor' \in [Actors -> ActorStates]
      <4>1. [phase |-> "has stories", statuses |-> SeenStatuses,
                          count |-> SeenCount]
               \in [phase : {"has stories"}, statuses : SUBSET StoryStatuses, count : Nat]
        BY <3>1
      <4> QED
        BY <1>2, <3>2, <4>1, StatesOfActors
    <3>3. ASSUME Goes(a, [phase |-> "has run", row |-> run])
          PROVE  actor' \in [Actors -> ActorStates]
      BY <1>1, <1>2, <3>3, StatesOfActors
    <3>4. ASSUME NEW statuses \in SUBSET StoryStatuses, NEW n \in Nat,
                 NEW row \in RunRow, Decides(a, statuses, n, row)
          PROVE  actor' \in [Actors -> ActorStates]
      BY <1>1, <3>4, Deciders
    <3> QED
      BY <1>1, <1>4, <3>1, <3>2, <3>3, <3>4, Reading
  <2> QED
    BY <1>4, <2>1 DEF ReadStories, ReadRun, TypeOK, ledger
<1>5. CASE Humanize(a)
  <2>1. actor' \in [Actors -> ActorStates]
    BY <1>2, <1>3, <1>5 DEF Humanize, Deciding
  <2> QED
    BY <1>5, <2>1 DEF Humanize, TypeOK, ledger
<1>6. CASE Humanized(a)
  <2>1. actor' \in [Actors -> ActorStates]
    BY <1>2, <1>3, <1>6 DEF Humanized, Deciding
  <2>2. run' \in RunRow
    BY <1>1, <1>6 DEF Humanized, RunRow
  <2> QED
    BY <1>6, <2>1, <2>2 DEF Humanized, TypeOK, ledger
<1>7. CASE WriteRun(a)
  <2>1. actor' \in [Actors -> ActorStates]
    BY <1>2, <1>7, StatesOfActors DEF WriteRun, Idle
  <2>2. run' \in RunRow
    <3>1. actor[a] \in [phase : Deciding, status : RunStatuses, error : RunErrors,
                        ready : BOOLEAN]
      BY <1>1, <1>7, Shapes DEF WriteRun, Deciding
    <3> QED
      BY <1>1, <1>7, <3>1 DEF WriteRun, RunRow
  <2> QED
    BY <1>7, <2>1, <2>2 DEF WriteRun, TypeOK, ledger
<1>8. CASE FailRun(a)
  <2>1. actor' \in [Actors -> ActorStates]
    BY <1>2, <1>8, StatesOfActors DEF FailRun, Idle
  <2>2. run' \in RunRow
    BY <1>1, <1>8 DEF FailRun, RunRow, RunStatuses, RunErrors
  <2> QED
    BY <1>8, <2>1, <2>2 DEF FailRun, TypeOK, ledger
<1>9. CASE Stop(a)
  <2>1. actor' \in [Actors -> ActorStates]
    BY <1>2, <1>9, StatesOfActors DEF Stop, Idle
  <2>2. mishaps' \subseteq MishapKinds
    BY <1>9 DEF Stop, GoesWrong, TypeOK, MishapKinds
  <2> QED
    BY <1>9, <2>1, <2>2 DEF Stop, TypeOK, ledger
<1> QED
  BY <1>4, <1>5, <1>6, <1>7, <1>8, <1>9 DEF ReconcilerStep

LEMMA TypeStep == TypeOK /\ [Next]_vars => TypeOK'
<1>1. ASSUME TypeOK, UNCHANGED vars PROVE TypeOK'
  BY <1>1 DEF TypeOK, vars, ledger
<1> QED
  BY <1>1, CollectorTypes, TaskTypes, ReconcilerTypes DEF Next

\* The rows and what every actor holds in memory are of their types.
THEOREM TypeCorrect == Spec => []TypeOK
<1> QED
  BY TypeInit, TypeStep, PTL DEF Spec

-----------------------------------------------------------------------------
(* What the steps of each kind of actor can change.                        *)

\* A collector adds analyses and jobs, of the story it has fetched only, and
\* sets the status of the story it prepares; new stories come in while it
\* saves.
LEMMA CollectorFrame ==
    ASSUME TypeOK, NEW c \in Collectors, ClaimRun(c) \/ CollectorStep(c)
    PROVE  /\ \A a \in Actors \ {c} : actor'[a] = actor[a]
           /\ \A t \in Tasks : actor'[t] = actor[t]
           /\ analysed \subseteq analysed' /\ mishaps \subseteq mishaps'
           /\ UNCHANGED <<holder, grants>>
           /\ \/ UNCHANGED posted
              \/ /\ Phase(c) = "fetching"
                 /\ posted' = posted \cup {actor[c].story}
           /\ \A s \in Stories : \/ result'[s] = result[s]
                                 \/ s \in analysed' /\ s \notin posted
           /\ \A s \in Stories :
                 \/ story'[s].status = story[s].status
                 \/ /\ Phase(c) = "saving"
                    /\ story[s].status = "absent" /\ story'[s].status = "pending"
                 \/ /\ Phase(c) \in WithStory /\ s = actor[c].story
                    /\ \/ story'[s].status \in ActiveStatuses
                       \/ story'[s].status = "complete" /\ s \in analysed'
                       \/ story'[s].status = "failed" /\ Phase(c) = "broken"
<1>1. /\ c \in Actors /\ c \notin Tasks /\ Tasks \subseteq Actors
      /\ actor \in [Actors -> ActorStates]
      /\ story \in [Stories -> StoryRow]
      /\ actor[c] \in ActorStates
  BY PipelineAssumption DEF Actors, TypeOK
<1>2. Phase(c) \in WithStory => actor[c].story \in Stories
  BY <1>1, Shapes
<1>3. \E state : Goes(c, state)
  BY DEF ClaimRun, CollectorStep, ReadRunToCollect, StartRun, SaveStory,
         EndIngestion, IngestionFails, ListStories, NextStory, MarkCollecting,
         PreparationFails, InsertJob, ReuseAnalysis, MarkAnalyzing,
         MarkUnprepared, AllPrepared
<1>4. /\ \A a \in Actors \ {c} : actor'[a] = actor[a]
      /\ \A t \in Tasks : actor'[t] = actor[t]
  BY <1>1, <1>3, Going
<1>5. ASSUME NEW status \in StoryStatuses, Phase(c) \in WithStory,
             SetsStory(actor[c].story, status)
      PROVE  \A s \in Stories :
                \/ story'[s].status = story[s].status
                \/ s = actor[c].story /\ story'[s].status = status
  BY <1>1, <1>2, <1>5, SettingStatus
<1>6. CASE ClaimRun(c)
  BY <1>4, <1>6 DEF ClaimRun, GoesWrong, ledger
<1>7. CASE ReadRunToCollect(c) \/ StartRun(c) \/ EndIngestion(c)
           \/ IngestionFails(c) \/ ListStories(c) \/ NextStory(c)
           \/ PreparationFails(c) \/ AllPrepared(c)
  BY <1>4, <1>7 DEF ReadRunToCollect, StartRun, EndIngestion, IngestionFails,
                    ListStories, NextStory, PreparationFails, AllPrepared, ledger
<1>8. ASSUME NEW s \in Stories, SaveStory(c, s)
      PROVE  \A o \in Stories :
                \/ story'[o].status = story[o].status
                \/ story[o].status = "absent" /\ story'[o].status = "pending"
  BY <1>1, <1>8 DEF SaveStory
<1>9. CASE \E s \in Stories : SaveStory(c, s)
  BY <1>4, <1>8, <1>9 DEF SaveStory, ledger
<1>10. CASE MarkCollecting(c)
  BY <1>4, <1>5, <1>10
     DEF MarkCollecting, ledger, WithStory, StoryStatuses, ActiveStatuses
<1>11. CASE InsertJob(c)
  BY <1>4, <1>11 DEF InsertJob, ledger, Queue!Post
<1>12. CASE ReuseAnalysis(c)
  <2>1. Phase(c) = "fetching" /\ Phase(c) \in WithStory
    BY <1>12 DEF ReuseAnalysis, WithStory
  <2>2. UNCHANGED mishaps
    BY <1>12 DEF ReuseAnalysis
  <2>3. CASE UNCHANGED <<analysed, story, ledger>>
    BY <1>4, <2>2, <2>3 DEF ledger
  <2>4. CASE /\ Queue!Import(actor[c].story, "succeeded")
             /\ analysed' = analysed \cup {actor[c].story}
             /\ SetsStory(actor[c].story, "complete")
    <3>1. /\ posted' = posted \cup {actor[c].story}
          /\ UNCHANGED <<holder, grants>>
          /\ \A s \in Stories : \/ result'[s] = result[s]
                                \/ s = actor[c].story /\ s \notin posted
      BY <2>4 DEF Queue!Import, TypeOK
    <3>2. \A s \in Stories :
             \/ story'[s].status = story[s].status
             \/ s = actor[c].story /\ story'[s].status = "complete"
      BY <1>5, <2>1, <2>4 DEF StoryStatuses
    <3> QED
      BY <1>4, <2>1, <2>2, <2>4, <3>1, <3>2
  <2> QED
    BY <1>12, <2>3, <2>4 DEF ReuseAnalysis
<1>13. CASE MarkAnalyzing(c)
  BY <1>4, <1>5, <1>13
     DEF MarkAnalyzing, GoesWrong, ledger, WithStory, StoryStatuses, ActiveStatuses
<1>14. CASE MarkUnprepared(c)
  BY <1>4, <1>5, <1>14 DEF MarkUnprepared, ledger, WithStory, StoryStatuses
<1> QED
  BY <1>6, <1>7, <1>9, <1>10, <1>11, <1>12, <1>13, <1>14 DEF CollectorStep

\* A task adds the analysis of its story, settles its job, and sets the status
\* of its story from one or the other.
LEMMA TaskFrame ==
    ASSUME TypeOK, NEW t \in Tasks, TakeJob(t) \/ TaskStep(t)
    PROVE  /\ \A a \in Actors \ {t} : actor'[a] = actor[a]
           /\ \A c \in Collectors : actor'[c] = actor[c]
           /\ analysed \subseteq analysed' /\ mishaps \subseteq mishaps'
           /\ UNCHANGED <<run, posted>>
           /\ \A s \in Stories :
                 \/ result'[s] = result[s]
                 \/ /\ Phase(t) = "finishing" /\ Fenced(t) /\ s = actor[t].story
                    /\ actor[t].outcome \in {"succeeded", "failed"}
                    /\ result[s] = "none" /\ result'[s] = actor[t].outcome
           /\ \A s \in Stories :
                 \/ story'[s].status = story[s].status
                 \/ /\ Phase(t) \in WithJob /\ s = actor[t].story
                    /\ \/ story'[s].status = "complete" /\ s \in analysed'
                       \/ /\ story'[s].status = "failed"
                          /\ Phase(t) = "reporting" /\ actor[t].outcome = "failed"
<1>1. /\ t \in Actors /\ t \notin Collectors /\ Collectors \subseteq Actors
      /\ actor \in [Actors -> ActorStates]
      /\ story \in [Stories -> StoryRow]
      /\ actor[t] \in ActorStates
  BY PipelineAssumption DEF Actors, TypeOK
<1>2. Phase(t) \in WithJob => actor[t].story \in Stories
  BY <1>1, Shapes
<1>3. \E state : Goes(t, state)
  BY DEF TakeJob, TaskStep, Deny, AskModel, Answer, Persist, FinishJob, Report, Knows
<1>4. /\ \A a \in Actors \ {t} : actor'[a] = actor[a]
      /\ \A c \in Collectors : actor'[c] = actor[c]
  BY <1>1, <1>3, Going
<1>5. ASSUME NEW status \in StoryStatuses, Phase(t) \in WithJob,
             SetsStory(actor[t].story, status)
      PROVE  \A s \in Stories :
                \/ story'[s].status = story[s].status
                \/ s = actor[t].story /\ story'[s].status = status
  BY <1>1, <1>2, <1>5, SettingStatus
<1>6. CASE TakeJob(t)
  <2>1. mishaps \subseteq mishaps'
    BY <1>6 DEF TakeJob, GoesWrong
  <2>2. UNCHANGED <<result, posted>>
    BY <1>6 DEF TakeJob, Queue!Grant
  <2> QED
    BY <1>4, <1>6, <2>1, <2>2 DEF TakeJob
<1>7. CASE Deny(t) \/ AskModel(t) \/ Answer(t)
  BY <1>4, <1>7 DEF Deny, AskModel, Answer, ledger
<1>8. CASE Persist(t)
  BY <1>4, <1>5, <1>8 DEF Persist, ledger, WithJob, Working, StoryStatuses
<1>9. CASE FinishJob(t)
  <2>1. /\ Phase(t) = "finishing"
        /\ UNCHANGED <<run, story, analysed, mishaps>>
    BY <1>9 DEF FinishJob
  <2>2. CASE ~Fenced(t) /\ UNCHANGED ledger
    BY <1>4, <2>1, <2>2 DEF ledger
  <2>3. CASE Queue!Return(actor[t].story)
    BY <1>4, <2>1, <2>3 DEF Queue!Return
  <2>4. CASE /\ Fenced(t) /\ actor[t].outcome # "retry"
             /\ Queue!Settle(actor[t].story, actor[t].outcome)
    <3>1. actor[t].outcome \in {"succeeded", "failed", "retry"}
      BY <1>1, <2>1, Shapes DEF Ending
    <3>2. /\ UNCHANGED posted
          /\ \A s \in Stories :
                \/ result'[s] = result[s]
                \/ /\ s = actor[t].story /\ result[s] = "none"
                   /\ result'[s] = actor[t].outcome
      BY <2>4 DEF Queue!Settle, TypeOK
    <3> QED
      BY <1>4, <2>1, <2>4, <3>1, <3>2
  <2> QED
    BY <1>9, <2>2, <2>3, <2>4 DEF FinishJob
<1>10. CASE Report(t)
  BY <1>4, <1>5, <1>10 DEF Report, ledger, WithJob, Working, StoryStatuses
<1> QED
  BY <1>6, <1>7, <1>8, <1>9, <1>10 DEF TaskStep

\* What a reconciliation goes through: the reads in either order, the decision
\* from both, the call, the write.
ReconcilerMove(a) ==
    LET DecidedFrom(statuses, n, row) ==
            /\ n # 0
            /\ actor'[a].status = RunStatus(statuses, n, row.error)
            /\ actor'[a].ready
                  = (row.ready \/ actor'[a].status \in DeliverableStatuses)
    IN
    \/ /\ Phase(a) = "reading" /\ Phase(a)' = "has stories"
       /\ actor'[a].statuses = SeenStatuses /\ actor'[a].count = SeenCount
    \/ /\ Phase(a) = "reading" /\ Phase(a)' = "has run"
       /\ actor'[a].row = run
    \/ /\ Phase(a) = "has run" /\ Phase(a)' \in Deciding
       /\ DecidedFrom(SeenStatuses, SeenCount, actor[a].row)
    \/ /\ Phase(a) = "has stories" /\ Phase(a)' \in Deciding
       /\ DecidedFrom(actor[a].statuses, actor[a].count, run)
    \/ /\ Phase(a) \in {"has run", "has stories"} /\ Phase(a)' = "failing"
    \/ /\ Phase(a) \in Deciding /\ Phase(a)' \in Deciding
       /\ actor'[a].status = actor[a].status /\ actor'[a].ready = actor[a].ready
    \/ Phase(a) \in {"writing", "failing"} /\ Phase(a)' = "idle"
    \/ Stop(a) /\ Phase(a)' = "idle"

LEMMA ReconcilerMoves ==
    ASSUME TypeOK, NEW a \in Actors, ReconcilerStep(a) \/ Stop(a)
    PROVE  ReconcilerMove(a)
<1>1. actor \in [Actors -> ActorStates] /\ run \in RunRow /\ actor[a] \in ActorStates
  BY DEF TypeOK
<1>2. {story[s].status : s \in Present} \in SUBSET StoryStatuses
  BY PresentStories
<1>3. CASE ReadStories(a) \/ ReadRun(a)
  <2>1. SeenStatuses \in SUBSET StoryStatuses
    BY <1>2 DEF SeenStatuses
  <2>2. ASSUME Goes(a, [phase |-> "has run", row |-> run])
        PROVE  Phase(a)' = "has run" /\ actor'[a].row = run
    BY <1>1, <2>2 DEF Goes, Phase
  <2>3. ASSUME Goes(a, [phase |-> "has stories", statuses |-> SeenStatuses, count |-> SeenCount])
        PROVE  /\ Phase(a)' = "has stories"
               /\ actor'[a].statuses = SeenStatuses /\ actor'[a].count = SeenCount
    BY <1>1, <2>3 DEF Goes, Phase
  <2>4. CASE Phase(a) = "has run" /\ actor[a].row \in RunRow
             /\ Decides(a, SeenStatuses, SeenCount, actor[a].row)
    <3>1. SeenCount = 0 => Phase(a)' = "failing"
      <4>1. SeenCount = 0 => actor'[a] = [phase |-> "failing"]
        BY <1>1, <2>1, <2>4, Deciders
      <4> QED
        BY <4>1 DEF Phase
    <3>2. SeenCount # 0 =>
             /\ Phase(a)' \in Deciding
             /\ actor'[a].status = RunStatus(SeenStatuses, SeenCount, actor[a].row.error)
             /\ actor'[a].ready
                   = (actor[a].row.ready \/ actor'[a].status \in DeliverableStatuses)
      BY <1>1, <2>1, <2>4, Deciders
    <3> QED
      BY <2>4, <3>1, <3>2 DEF ReconcilerMove
  <2>5. CASE /\ Phase(a) = "has stories"
             /\ actor[a].statuses \in SUBSET StoryStatuses /\ actor[a].count \in Nat
             /\ Decides(a, actor[a].statuses, actor[a].count, run)
    <3>1. actor[a].count = 0 => Phase(a)' = "failing"
      <4>1. actor[a].count = 0 => actor'[a] = [phase |-> "failing"]
        BY <1>1, <2>5, Deciders
      <4> QED
        BY <4>1 DEF Phase
    <3>2. actor[a].count # 0 =>
             /\ Phase(a)' \in Deciding
             /\ actor'[a].status
                   = RunStatus(actor[a].statuses, actor[a].count, run.error)
             /\ actor'[a].ready
                   = (run.ready \/ actor'[a].status \in DeliverableStatuses)
      BY <1>1, <2>5, Deciders
    <3> QED
      BY <2>5, <3>1, <3>2 DEF ReconcilerMove
  <2>6. CASE /\ Phase(a) = "reading"
             /\ Goes(a, [phase |-> "has stories", statuses |-> SeenStatuses, count |-> SeenCount])
    BY <2>3, <2>6 DEF ReconcilerMove
  <2>7. CASE Phase(a) = "reading" /\ Goes(a, [phase |-> "has run", row |-> run])
    BY <2>2, <2>7 DEF ReconcilerMove
  <2> QED
    BY <1>3, <2>4, <2>5, <2>6, <2>7, Reading
<1>4. CASE Humanize(a) \/ Humanized(a)
  <2>1. Phase(a) \in Deciding
    BY <1>4 DEF Humanize, Humanized, Deciding
  <2>2. actor[a] \in [phase : Deciding, status : RunStatuses, error : RunErrors,
                      ready : BOOLEAN]
    BY <1>1, <2>1, Shapes
  <2>3. PICK p \in Deciding : actor'[a] = [actor[a] EXCEPT !.phase = p]
    BY <1>1, <1>4, Going DEF Humanize, Humanized, Deciding
  <2>4. /\ Phase(a)' \in Deciding
        /\ actor'[a].status = actor[a].status /\ actor'[a].ready = actor[a].ready
    BY <2>2, <2>3 DEF Phase
  <2> QED
    BY <2>1, <2>4 DEF ReconcilerMove
<1>5. CASE WriteRun(a) \/ FailRun(a) \/ Stop(a)
  <2>1. actor'[a] = Idle
    BY <1>1, <1>5, Going DEF WriteRun, FailRun, Stop
  <2>2. Phase(a)' = "idle"
    BY <2>1 DEF Idle, Phase
  <2>3. Phase(a) \in {"writing", "failing"} \/ Stop(a)
    BY <1>5 DEF WriteRun, FailRun
  <2> QED
    BY <2>2, <2>3 DEF ReconcilerMove
<1> QED
  BY <1>3, <1>4, <1>5 DEF ReconcilerStep

\* Reconciling changes the row of the run only.
LEMMA ReconcilerFrame ==
    ASSUME TypeOK, NEW a \in Actors, ReconcilerStep(a) \/ Stop(a)
    PROVE  /\ \A b \in Actors \ {a} : actor'[b] = actor[b]
           /\ mishaps \subseteq mishaps'
           /\ UNCHANGED <<story, analysed, ledger>>
           /\ \/ UNCHANGED run /\ (Phase(a)' # "idle" \/ Stop(a))
              \/ /\ Phase(a) = "calling" /\ Phase(a)' = "writing"
                 /\ run' = [run EXCEPT !.humanized = TRUE]
              \/ /\ Phase(a) = "writing" /\ Phase(a)' = "idle"
                 /\ run'.status = actor[a].status /\ run'.ready = actor[a].ready
              \/ /\ Phase(a) = "failing" /\ Phase(a)' = "idle"
                 /\ run'.status = "failed" /\ run'.ready = run.ready
<1>1. actor \in [Actors -> ActorStates] /\ run \in RunRow /\ actor[a] \in ActorStates
  BY DEF TypeOK
<1>2. \E state : Goes(a, state)
  BY DEF ReconcilerStep, ReadStories, ReadRun, Decides, Humanize, Humanized,
         WriteRun, FailRun, Stop
<1>3. \A b \in Actors \ {a} : actor'[b] = actor[b]
  BY <1>1, <1>2, Going
<1>4. CASE ReadStories(a) \/ ReadRun(a) \/ Humanize(a)
  <2>1. Phase(a) \notin {"writing", "failing"}
    BY <1>4 DEF ReadStories, ReadRun, Humanize
  <2>2. Phase(a)' # "idle" \/ Stop(a)
    BY <1>4, <2>1, ReconcilerMoves DEF ReconcilerMove, ReconcilerStep, Deciding
  <2> QED
    BY <1>3, <1>4, <2>2 DEF ReadStories, ReadRun, Humanize
<1>5. CASE Humanized(a)
  <2>1. actor'[a] = [actor[a] EXCEPT !.phase = "writing"]
    BY <1>1, <1>5, Going DEF Humanized
  <2>2. Phase(a)' = "writing"
    <3>1. actor[a] \in [phase : Deciding, status : RunStatuses, error : RunErrors,
                        ready : BOOLEAN]
      BY <1>1, <1>5, Shapes DEF Humanized, Deciding
    <3> QED
      BY <2>1, <3>1 DEF Phase
  <2> QED
    BY <1>3, <1>5, <2>2 DEF Humanized
<1>6. CASE WriteRun(a)
  <2>1. Phase(a)' = "idle"
    BY <1>1, <1>6, Going DEF WriteRun, Idle, Phase
  <2> QED
    BY <1>1, <1>3, <1>6, <2>1 DEF WriteRun, RunRow
<1>7. CASE FailRun(a)
  <2>1. Phase(a)' = "idle"
    BY <1>1, <1>7, Going DEF FailRun, Idle, Phase
  <2> QED
    BY <1>1, <1>3, <1>7, <2>1 DEF FailRun, RunRow
<1>8. CASE Stop(a)
  BY <1>3, <1>8 DEF Stop, GoesWrong
<1> QED
  BY <1>4, <1>5, <1>6, <1>7, <1>8 DEF ReconcilerStep

-----------------------------------------------------------------------------
(* What the rows say of a story is true of its analysis.                   *)

\* What a task may come to know, and from where.
LEMMA TaskOutcome ==
    ASSUME TypeOK, NEW t \in Tasks, TakeJob(t) \/ TaskStep(t),
           Phase(t)' \in Ending
    PROVE  /\ Phase(t) \in Asking \cup {"finishing"}
           /\ Phase(t)' = "finishing" <=> Phase(t) \in Asking
           /\ Phase(t) \in WithJob
           /\ actor'[t].story = actor[t].story
           /\ actor'[t].grant = actor[t].grant
           /\ Phase(t) = "finishing" => actor'[t].outcome = actor[t].outcome
           /\ Phase(t) # "finishing" /\ actor'[t].outcome = "succeeded"
                 => actor[t].story \in analysed'
<1>1. /\ t \in Actors /\ actor \in [Actors -> ActorStates]
      /\ actor[t] \in ActorStates
  BY DEF Actors, TypeOK
<1> DEFINE Known ==
             /\ Phase(t) \in Asking \cup {"finishing"}
             /\ Phase(t)' = "finishing" <=> Phase(t) \in Asking
             /\ Phase(t) \in WithJob
             /\ actor'[t].story = actor[t].story
             /\ actor'[t].grant = actor[t].grant
             /\ Phase(t) = "finishing" => actor'[t].outcome = actor[t].outcome
             /\ Phase(t) # "finishing" /\ actor'[t].outcome = "succeeded"
                   => actor[t].story \in analysed'
<1>2. ASSUME NEW o, Knows(t, o), Phase(t) \in Asking,
             o = "succeeded" => actor[t].story \in analysed'
      PROVE  Known
  <2>1. actor'[t] = [phase |-> "finishing", story |-> actor[t].story,
                     grant |-> actor[t].grant, outcome |-> o]
    BY <1>1, <1>2, Going DEF Knows
  <2> QED
    BY <1>2, <2>1 DEF Phase, Asking, WithJob, Working
<1> SUFFICES Known
  OBVIOUS
<1> USE DEF Phase, Ending, Asking, WithJob, Working
<1>3. CASE TakeJob(t)
  <2>1. \E s, g : Goes(t, [phase |-> "taken", story |-> s, grant |-> g])
    BY <1>3 DEF TakeJob
  <2> QED
    BY <1>1, <2>1, Going
<1>4. CASE Deny(t)
  <2>1. Phase(t) \in Asking /\ Knows(t, "failed")
    BY <1>4 DEF Deny
  <2> QED
    BY <1>2, <2>1
<1>5. CASE AskModel(t)
  <2>1. CASE actor[t].story \in analysed
    <3>1. /\ Phase(t) \in Asking /\ Knows(t, "succeeded")
          /\ actor[t].story \in analysed'
      BY <1>5, <2>1 DEF AskModel
    <3> QED
      BY <1>2, <3>1
  <2>2. CASE actor[t].story \notin analysed
    <3>1. actor'[t] = [actor[t] EXCEPT !.phase = "asking"]
      BY <1>1, <1>5, <2>2, Going DEF AskModel
    <3>2. actor[t] \in [phase : Asking, story : Stories, grant : Nat]
      BY <1>1, <1>5, Shapes DEF AskModel
    <3> QED
      BY <3>1, <3>2
  <2> QED
    BY <2>1, <2>2
<1>6. CASE Answer(t)
  <2>1. CASE Knows(t, "failed") \/ Knows(t, "retry")
    <3>1. Phase(t) \in Asking
      BY <1>6 DEF Answer
    <3> QED
      BY <1>2, <2>1, <3>1
  <2>2. CASE Goes(t, [actor[t] EXCEPT !.phase = "persisting"])
    <3>1. actor'[t] = [actor[t] EXCEPT !.phase = "persisting"]
      BY <1>1, <2>2, Going
    <3>2. actor[t] \in [phase : Asking, story : Stories, grant : Nat]
      BY <1>1, <1>6, Shapes DEF Answer
    <3> QED
      BY <3>1, <3>2
  <2> QED
    BY <1>6, <2>1, <2>2 DEF Answer
<1>7. CASE Persist(t)
  <2>1. Phase(t) \in Asking
    BY <1>7 DEF Persist
  <2>2. \/ Knows(t, "succeeded") /\ actor[t].story \in analysed'
        \/ Knows(t, "failed")
    BY <1>7 DEF Persist
  <2> QED
    BY <1>2, <2>1, <2>2
<1>8. CASE FinishJob(t)
  <2>1. actor'[t] = [actor[t] EXCEPT !.phase = "reporting"]
    BY <1>1, <1>8, Going DEF FinishJob
  <2>2. actor[t] \in [phase : Ending, story : Stories, grant : Nat,
                      outcome : {"succeeded", "failed", "retry"}]
    BY <1>1, <1>8, Shapes DEF FinishJob
  <2> QED
    BY <1>8, <2>1, <2>2 DEF FinishJob
<1>9. CASE Report(t)
  BY <1>1, <1>9, Going DEF Report, Idle
<1> QED
  BY <1>3, <1>4, <1>5, <1>6, <1>7, <1>8, <1>9 DEF TaskStep

LEMMA RowsInit == Init => RowsInv
<1> SUFFICES ASSUME Init PROVE RowsInv
  OBVIOUS
<1>1. TypeOK
  BY TypeInit
<1>2. SucceededHasAnalysis /\ PublishedHasAnalysis
  BY DEF Init, Queue!LedgerInit, SucceededHasAnalysis, PublishedHasAnalysis
<1>3. OutcomesAreStored
  BY DEF Init, OutcomesAreStored, Actors, Phase, Idle
<1> QED
  BY <1>1, <1>2, <1>3 DEF RowsInv, RowsAgree

LEMMA RowsStep == RowsInv /\ [Next]_vars => RowsInv'
<1> SUFFICES ASSUME RowsInv, [Next]_vars PROVE RowsInv'
  OBVIOUS
<1>1. TypeOK /\ SucceededHasAnalysis /\ PublishedHasAnalysis /\ OutcomesAreStored
  BY DEF RowsInv, RowsAgree
<1>2. TypeOK'
  BY <1>1, TypeStep
<1> SUFFICES SucceededHasAnalysis' /\ PublishedHasAnalysis' /\ OutcomesAreStored'
  BY <1>2 DEF RowsInv, RowsAgree
<1> USE DEF SucceededHasAnalysis, PublishedHasAnalysis
<1>3. ASSUME NEW c \in Collectors, ClaimRun(c) \/ CollectorStep(c)
      PROVE  SucceededHasAnalysis' /\ PublishedHasAnalysis' /\ OutcomesAreStored'
  <2>1. SucceededHasAnalysis' /\ PublishedHasAnalysis'
    BY <1>1, <1>3, CollectorFrame DEF ActiveStatuses
  <2>2. OutcomesAreStored'
    BY <1>1, <1>3, CollectorFrame DEF OutcomesAreStored, Phase
  <2> QED
    BY <2>1, <2>2
<1>4. ASSUME NEW t \in Tasks, TakeJob(t) \/ TaskStep(t)
      PROVE  SucceededHasAnalysis' /\ PublishedHasAnalysis' /\ OutcomesAreStored'
  <2>1. /\ analysed \subseteq analysed'
        /\ \A u \in Tasks \ {t} : actor'[u] = actor[u]
    BY <1>1, <1>4, TaskFrame DEF Actors
  <2>2. SucceededHasAnalysis'
    BY <1>1, <1>4, <2>1, TaskFrame DEF OutcomesAreStored
  <2>3. PublishedHasAnalysis'
    BY <1>1, <1>4, TaskFrame
  <2>4. OutcomesAreStored'
    <3> SUFFICES ASSUME NEW u \in Tasks,
                        Phase(u)' \in Ending, actor'[u].outcome = "succeeded"
                 PROVE  actor'[u].story \in analysed'
      BY DEF OutcomesAreStored, Ending
    <3>1. CASE u # t
      BY <1>1, <2>1, <3>1 DEF OutcomesAreStored, Phase, Ending
    <3>2. CASE u = t
      BY <1>1, <1>4, <2>1, <3>2, TaskOutcome DEF OutcomesAreStored
    <3> QED
      BY <3>1, <3>2
  <2> QED
    BY <2>2, <2>3, <2>4
<1>5. ASSUME NEW a \in Actors, ReconcilerStep(a) \/ Stop(a)
      PROVE  SucceededHasAnalysis' /\ PublishedHasAnalysis' /\ OutcomesAreStored'
  <2>1. UNCHANGED <<story, analysed, result>>
    BY <1>1, <1>5, ReconcilerFrame DEF ledger
  <2>2. /\ \A t \in Tasks \ {a} : actor'[t] = actor[t]
        /\ Phase(a)' \notin {"finishing", "reporting"}
    BY <1>1, <1>5, ReconcilerFrame, ReconcilerMoves
       DEF ReconcilerMove, Actors, Deciding
  <2> QED
    BY <1>1, <2>1, <2>2 DEF OutcomesAreStored, Phase
<1>6. CASE UNCHANGED vars
  BY <1>1, <1>6 DEF vars, ledger, OutcomesAreStored, Phase
<1> QED
  BY <1>3, <1>4, <1>5, <1>6 DEF Next

\* The rows are of their types, a job that succeeded has an analysis, and so
\* has a story that is shown as complete (persistAnalysis, reuseAnalysis).
THEOREM RowsAreRight == Spec => []RowsAgree
<1>1. RowsInv => RowsAgree
  BY DEF RowsInv
<1> QED
  BY <1>1, RowsInit, RowsStep, PTL DEF Spec

-----------------------------------------------------------------------------
(* What collectors and tasks go through.                                   *)

KeepsTodo(c) == actor'[c].todo = actor[c].todo

KeepsStory(c) == actor'[c].story = actor[c].story /\ KeepsTodo(c)

CollectorMove(c) ==
    \/ Phase(c) = "idle" /\ Phase(c)' = "claimed"
    \/ Phase(c) = "claimed" /\ Phase(c)' \in {"starting", "listing"}
    \/ Phase(c) \in {"starting", "saving"} /\ Phase(c)' \in {"saving", "listing", "failing"}
    \/ /\ Phase(c) = "listing" /\ Phase(c)' = "preparing"
       /\ actor'[c].todo = Present
    \/ /\ Phase(c) = "preparing" /\ Phase(c)' = "preparing"
       /\ actor'[c].todo \subseteq actor[c].todo
    \/ /\ Phase(c) = "preparing" /\ Phase(c)' = "marking"
       /\ actor'[c].story \in actor[c].todo \ posted
       /\ actor'[c].todo = actor[c].todo \ {actor'[c].story}
    \/ Phase(c) = "preparing" /\ Phase(c)' = "reading"
    \/ /\ Phase(c) = "marking" /\ Phase(c)' = "fetching" /\ KeepsStory(c)
       /\ story'[actor[c].story].status \in ActiveStatuses
    \/ /\ Phase(c) = "fetching" /\ Phase(c)' = "inserted" /\ KeepsStory(c)
       /\ UNCHANGED story
    \/ /\ Phase(c) = "fetching" /\ Phase(c)' = "broken" /\ KeepsStory(c)
       /\ UNCHANGED <<story, posted>>
    \/ Phase(c) = "fetching" /\ Phase(c)' = "preparing" /\ KeepsTodo(c)
    \/ /\ Phase(c) = "inserted" /\ Phase(c)' = "broken" /\ KeepsStory(c)
       /\ "error" \in mishaps'
    \/ Phase(c) \in {"inserted", "broken"} /\ Phase(c)' = "preparing" /\ KeepsTodo(c)

\* What a collector goes through before it reconciles.
LEMMA CollectorMoves ==
    ASSUME TypeOK, NEW c \in Collectors, ClaimRun(c) \/ CollectorStep(c)
    PROVE  CollectorMove(c)
<1>1. /\ c \in Actors /\ actor \in [Actors -> ActorStates]
      /\ actor[c] \in ActorStates
      /\ story \in [Stories -> StoryRow]
  BY DEF Actors, TypeOK
<1>2. Phase(c) \in WithStory =>
         actor[c] \in [phase : WithStory, story : Stories, todo : SUBSET Stories]
  BY <1>1, Shapes
<1>3. ASSUME NEW p \in WithStory, Phase(c) \in WithStory,
             Goes(c, [actor[c] EXCEPT !.phase = p])
      PROVE  Phase(c)' = p /\ KeepsStory(c)
  <2>1. actor'[c] = [actor[c] EXCEPT !.phase = p]
    BY <1>1, <1>3, Going
  <2> QED
    BY <1>2, <1>3, <2>1 DEF Phase, KeepsStory, KeepsTodo
<1>4. ASSUME NEW todo, Goes(c, [phase |-> "preparing", todo |-> todo])
      PROVE  Phase(c)' = "preparing" /\ actor'[c].todo = todo
  BY <1>1, <1>4 DEF Goes, Phase
<1>5. CASE ClaimRun(c) \/ ReadRunToCollect(c) \/ AllPrepared(c)
  <2>1. \/ Phase(c) = "idle" /\ Phase(c)' = "claimed"
        \/ Phase(c) = "claimed" /\ Phase(c)' \in {"starting", "listing"}
        \/ Phase(c) = "preparing" /\ Phase(c)' = "reading"
    <3>1. \A p : Goes(c, [phase |-> p]) => Phase(c)' = p
      BY <1>1 DEF Goes, Phase
    <3>2. CASE ClaimRun(c) \/ AllPrepared(c)
      BY <3>1, <3>2 DEF ClaimRun, AllPrepared
    <3>3. CASE ReadRunToCollect(c)
      BY <3>1, <3>3 DEF ReadRunToCollect
    <3> QED
      BY <1>5, <3>2, <3>3
  <2> QED
    BY <2>1 DEF CollectorMove
<1>6. CASE StartRun(c) \/ EndIngestion(c) \/ IngestionFails(c)
  BY <1>1, <1>6 DEF StartRun, EndIngestion, IngestionFails, Goes, Phase, CollectorMove
<1>7. CASE \E s \in Stories : SaveStory(c, s)
  BY <1>1, <1>7 DEF SaveStory, Goes, Phase, CollectorMove
<1>8. CASE ListStories(c)
  BY <1>4, <1>8 DEF ListStories, CollectorMove
<1>9. CASE NextStory(c)
  <2>1. Phase(c) = "preparing"
    BY <1>9 DEF NextStory
  <2>2. PICK s \in actor[c].todo :
           Goes(c, IF s \in posted
                   THEN [phase |-> "preparing", todo |-> actor[c].todo \ {s}]
                   ELSE [phase |-> "marking", story |-> s, todo |-> actor[c].todo \ {s}])
    BY <1>9 DEF NextStory
  <2>3. CASE s \in posted
    BY <1>4, <2>1, <2>2, <2>3 DEF CollectorMove
  <2>4. CASE s \notin posted
    <3>1. actor'[c] = [phase |-> "marking", story |-> s, todo |-> actor[c].todo \ {s}]
      BY <1>1, <2>2, <2>4 DEF Goes
    <3>2. /\ Phase(c)' = "marking" /\ actor'[c].story = s
          /\ actor'[c].todo = actor[c].todo \ {s}
      BY <3>1 DEF Phase
    <3> QED
      BY <2>1, <2>4, <3>2 DEF CollectorMove
  <2> QED
    BY <2>3, <2>4
<1>10. CASE MarkCollecting(c)
  <2>1. Phase(c) = "marking" /\ SetsStory(actor[c].story, "collecting")
    BY <1>10 DEF MarkCollecting
  <2>2. Phase(c)' = "fetching" /\ KeepsStory(c)
    BY <1>3, <1>10, <2>1 DEF MarkCollecting, WithStory
  <2>3. story'[actor[c].story].status = "collecting"
    BY <1>1, <1>2, <2>1, SettingStatus DEF WithStory, StoryStatuses, ActiveStatuses
  <2> QED
    BY <2>1, <2>2, <2>3 DEF CollectorMove, ActiveStatuses
<1>11. CASE PreparationFails(c) \/ InsertJob(c)
  <2>1. Phase(c) = "fetching" /\ UNCHANGED story
    BY <1>11 DEF PreparationFails, InsertJob
  <2>2. CASE Goes(c, [actor[c] EXCEPT !.phase = "inserted"])
    BY <1>3, <2>1, <2>2 DEF CollectorMove, WithStory
  <2>3. CASE Goes(c, [actor[c] EXCEPT !.phase = "broken"]) /\ UNCHANGED ledger
    BY <1>3, <2>1, <2>3 DEF CollectorMove, WithStory, ledger
  <2> QED
    BY <1>11, <2>2, <2>3 DEF PreparationFails, InsertJob
<1>12. CASE ReuseAnalysis(c)
  <2>1. Phase(c) = "fetching"
    BY <1>12 DEF ReuseAnalysis
  <2>2. CASE Goes(c, [phase |-> "preparing", todo |-> actor[c].todo])
    BY <1>4, <2>1, <2>2 DEF CollectorMove, KeepsTodo
  <2>3. CASE /\ Goes(c, [actor[c] EXCEPT !.phase = "broken"])
             /\ UNCHANGED <<analysed, story, ledger>>
    BY <1>3, <2>1, <2>3 DEF CollectorMove, WithStory, ledger
  <2> QED
    BY <1>12, <2>2, <2>3 DEF ReuseAnalysis
<1>13. CASE MarkAnalyzing(c)
  <2>1. Phase(c) = "inserted"
    BY <1>13 DEF MarkAnalyzing
  <2>2. CASE Goes(c, [phase |-> "preparing", todo |-> actor[c].todo])
    BY <1>4, <2>1, <2>2 DEF CollectorMove, KeepsTodo
  <2>3. CASE GoesWrong("error") /\ Goes(c, [actor[c] EXCEPT !.phase = "broken"])
    BY <1>3, <2>1, <2>3 DEF CollectorMove, WithStory, GoesWrong
  <2> QED
    BY <1>13, <2>2, <2>3 DEF MarkAnalyzing
<1>14. CASE MarkUnprepared(c)
  BY <1>4, <1>14 DEF MarkUnprepared, CollectorMove, KeepsTodo
<1> QED
  BY <1>5, <1>6, <1>7, <1>8, <1>9, <1>10, <1>11, <1>12, <1>13, <1>14 DEF CollectorStep

\* A task takes a job of the queue, works on it, and reports it.
TaskMove(t) ==
    \/ /\ Phase(t) = "idle" /\ Phase(t)' = "taken"
       /\ actor'[t].story \in posted /\ actor'[t].grant = grants'[actor'[t].story]
    \/ /\ Phase(t) \in Asking /\ Phase(t)' \in Asking \cup {"finishing"}
       /\ actor'[t].story = actor[t].story /\ actor'[t].grant = actor[t].grant
    \/ /\ Phase(t) = "finishing" /\ Phase(t)' = "reporting"
       /\ actor'[t].story = actor[t].story /\ actor'[t].outcome = actor[t].outcome
    \/ Phase(t) = "reporting" /\ Phase(t)' \in {"idle", "reading"}

LEMMA TaskMoves ==
    ASSUME TypeOK, NEW t \in Tasks, TakeJob(t) \/ TaskStep(t)
    PROVE  TaskMove(t)
<1>1. /\ t \in Actors /\ actor \in [Actors -> ActorStates]
      /\ actor[t] \in ActorStates
  BY DEF Actors, TypeOK
<1>2. CASE Phase(t)' \in Ending
  <2>1. /\ Phase(t) \in Asking \cup {"finishing"}
        /\ Phase(t)' = "finishing" <=> Phase(t) \in Asking
        /\ actor'[t].story = actor[t].story /\ actor'[t].grant = actor[t].grant
        /\ Phase(t) = "finishing" => actor'[t].outcome = actor[t].outcome
    BY <1>2, TaskOutcome
  <2> QED
    BY <1>2, <2>1 DEF TaskMove, Ending, Asking
<1>3. CASE TakeJob(t)
  <2>1. PICK s \in Stories :
           /\ Queue!Grant(s, t)
           /\ Goes(t, [phase |-> "taken", story |-> s, grant |-> grants[s] + 1])
    BY <1>3 DEF TakeJob
  <2>2. actor'[t] = [phase |-> "taken", story |-> s, grant |-> grants[s] + 1]
    BY <1>1, <2>1 DEF Goes
  <2>3. Queue!Grant(s, t)
    BY <2>1
  <2>4. s \in posted /\ grants'[s] = grants[s] + 1
    BY <2>3 DEF Queue!Grant, TypeOK
  <2>5. Phase(t)' = "taken" /\ actor'[t].story = s /\ actor'[t].grant = grants[s] + 1
    BY <2>2 DEF Phase
  <2>6. Phase(t) = "idle"
    BY <1>3 DEF TakeJob
  <2> QED
    BY <2>4, <2>5, <2>6 DEF TaskMove
<1>4. CASE AskModel(t) \/ Answer(t)
  <2>1. Phase(t) \in Asking
    BY <1>4 DEF AskModel, Answer, Asking
  <2>2. actor[t] \in [phase : Asking, story : Stories, grant : Nat]
    BY <1>1, <2>1, Shapes
  <2>3. CASE \E p \in Asking : Goes(t, [actor[t] EXCEPT !.phase = p])
    <3>1. PICK p \in Asking : actor'[t] = [actor[t] EXCEPT !.phase = p]
      BY <1>1, <2>3, Going
    <3>2. /\ Phase(t)' \in Asking
          /\ actor'[t].story = actor[t].story /\ actor'[t].grant = actor[t].grant
      BY <2>2, <3>1 DEF Phase
    <3> QED
      BY <2>1, <3>2 DEF TaskMove
  <2>4. CASE \E o : Knows(t, o)
    <3>1. Phase(t)' = "finishing"
      BY <1>1, <2>4 DEF Knows, Goes, Phase
    <3> QED
      BY <1>2, <3>1 DEF Ending
  <2> QED
    BY <1>4, <2>3, <2>4 DEF AskModel, Answer, Asking
<1>5. CASE Deny(t) \/ Persist(t)
  <2>1. Phase(t)' = "finishing"
    BY <1>1, <1>5 DEF Deny, Persist, Knows, Goes, Phase
  <2> QED
    BY <1>2, <2>1 DEF Ending
<1>6. CASE FinishJob(t)
  <2>1. actor[t] \in [phase : Ending, story : Stories, grant : Nat,
                      outcome : {"succeeded", "failed", "retry"}]
    BY <1>1, <1>6, Shapes DEF FinishJob, Ending
  <2>2. Phase(t)' = "reporting"
    BY <1>1, <1>6, <2>1 DEF FinishJob, Goes, Phase
  <2> QED
    BY <1>2, <2>2 DEF Ending
<1>7. CASE Report(t)
  <2>1. Phase(t) = "reporting" /\ Phase(t)' \in {"idle", "reading"}
    BY <1>1, <1>7 DEF Report, Goes, Idle, Phase
  <2> QED
    BY <2>1 DEF TaskMove
<1> QED
  BY <1>3, <1>4, <1>5, <1>6, <1>7 DEF TaskStep

-----------------------------------------------------------------------------
(* What actors know of stories and jobs.                                   *)

\* Stories, jobs and analyses stay, and so does what went wrong.
LEMMA Growing ==
    TypeOK /\ [Next]_vars =>
        /\ Present \subseteq Present' /\ posted \subseteq posted'
        /\ analysed \subseteq analysed' /\ mishaps \subseteq mishaps'
<1> SUFFICES ASSUME TypeOK, [Next]_vars
             PROVE  /\ Present \subseteq Present' /\ posted \subseteq posted'
                    /\ analysed \subseteq analysed' /\ mishaps \subseteq mishaps'
  OBVIOUS
<1> USE DEF Present
<1>1. ASSUME NEW c \in Collectors, ClaimRun(c) \/ CollectorStep(c)
      PROVE  /\ Present \subseteq Present' /\ posted \subseteq posted'
             /\ analysed \subseteq analysed' /\ mishaps \subseteq mishaps'
  BY <1>1, CollectorFrame DEF ActiveStatuses
<1>2. ASSUME NEW t \in Tasks, TakeJob(t) \/ TaskStep(t)
      PROVE  /\ Present \subseteq Present' /\ posted \subseteq posted'
             /\ analysed \subseteq analysed' /\ mishaps \subseteq mishaps'
  BY <1>2, TaskFrame
<1>3. ASSUME NEW a \in Actors, ReconcilerStep(a) \/ Stop(a)
      PROVE  /\ Present \subseteq Present' /\ posted \subseteq posted'
             /\ analysed \subseteq analysed' /\ mishaps \subseteq mishaps'
  BY <1>3, ReconcilerFrame DEF ledger
<1>4. CASE UNCHANGED vars
  BY <1>4 DEF vars, ledger
<1> QED
  BY <1>1, <1>2, <1>3, <1>4 DEF Next

LEMMA KnowInit == Init => ActorsKnow
<1> SUFFICES ASSUME Init PROVE ActorsKnow
  OBVIOUS
<1>1. \A a \in Actors : Phase(a) = "idle"
  BY DEF Init, Phase, Idle
<1>2. posted = {}
  BY DEF Init, Queue!LedgerInit
<1> QED
  BY <1>1, <1>2 DEF ActorsKnow, Actors, WithTodo, WithStory, WithJob, Working, Deciding

LEMMA KnowStep == TypeOK /\ ActorsKnow /\ [Next]_vars => ActorsKnow'
<1> SUFFICES ASSUME TypeOK, ActorsKnow, [Next]_vars PROVE ActorsKnow'
  OBVIOUS
<1>1. Present \subseteq Present' /\ posted \subseteq posted'
  BY Growing
<1> DEFINE Collector(c) ==
             /\ Phase(c) \in WithTodo => actor[c].todo \subseteq Present
             /\ Phase(c) \in WithStory => actor[c].story \in Present
           Task(t) == Phase(t) \in WithJob => actor[t].story \in posted
           Reader(a) ==
             /\ Phase(a) = "has stories" /\ actor[a].statuses = {}
                  => actor[a].count = 0
             /\ Phase(a) \in Deciding =>
                  actor[a].status \notin {"pending", "collecting"}
<1>2. /\ posted \subseteq Present
      /\ \A c \in Collectors : Collector(c)
      /\ \A t \in Tasks : Task(t)
      /\ \A a \in Actors : Reader(a)
  BY DEF ActorsKnow
<1>3. /\ Tasks \cap Collectors = {}
      /\ Tasks \subseteq Actors /\ Collectors \subseteq Actors
  BY PipelineAssumption DEF Actors
<1>4. ASSUME NEW a \in Actors, actor'[a] = actor[a]
      PROVE  /\ a \in Collectors => Collector(a)'
             /\ a \in Tasks => Task(a)'
             /\ Reader(a)'
  BY <1>1, <1>2, <1>4 DEF Phase
<1>5. ASSUME posted' \subseteq Present', NEW a \in Actors,
             \A b \in Actors \ {a} : actor'[b] = actor[b],
             a \in Collectors => Collector(a)',
             a \in Tasks => Task(a)',
             Reader(a)'
      PROVE  ActorsKnow'
  <2>1. \A b \in Actors : /\ b \in Collectors => Collector(b)'
                          /\ b \in Tasks => Task(b)'
                          /\ Reader(b)'
    BY <1>4, <1>5
  <2> QED
    BY <1>3, <1>5, <2>1 DEF ActorsKnow
<1>6. ASSUME NEW c \in Collectors, ClaimRun(c) \/ CollectorStep(c)
      PROVE  ActorsKnow'
  <2>1. CollectorMove(c)
    BY <1>6, CollectorMoves
  <2>2. posted' \subseteq Present'
    <3>1. \/ UNCHANGED posted
          \/ Phase(c) = "fetching" /\ posted' = posted \cup {actor[c].story}
      BY <1>6, CollectorFrame
    <3>2. Phase(c) = "fetching" => actor[c].story \in Present
      BY <1>2 DEF WithStory
    <3> QED
      BY <1>1, <1>2, <3>1, <3>2
  <2>3. Reader(c)'
    BY <2>1 DEF CollectorMove, Deciding
  <2>4. Collector(c)'
    <3>1. Phase(c)' \in WithTodo =>
             \/ actor'[c].todo = Present
             \/ Phase(c) \in WithTodo /\ actor'[c].todo \subseteq actor[c].todo
      BY <2>1 DEF CollectorMove, KeepsStory, KeepsTodo, WithTodo, WithStory
    <3>2. Phase(c)' \in WithStory =>
             \/ Phase(c) \in WithTodo /\ actor'[c].story \in actor[c].todo
             \/ Phase(c) \in WithStory /\ actor'[c].story = actor[c].story
      BY <2>1 DEF CollectorMove, KeepsStory, WithTodo, WithStory
    <3>3. Collector(c)
      BY <1>2
    <3> QED
      BY <1>1, <3>1, <3>2, <3>3
  <2>5. \A b \in Actors \ {c} : actor'[b] = actor[b]
    BY <1>6, CollectorFrame
  <2> HIDE DEF Collector, Task, Reader
  <2> QED
    BY <1>3, <1>5, <2>2, <2>3, <2>4, <2>5
<1>7. ASSUME NEW t \in Tasks, TakeJob(t) \/ TaskStep(t)
      PROVE  ActorsKnow'
  <2>1. TaskMove(t)
    BY <1>7, TaskMoves
  <2>2. /\ UNCHANGED posted
        /\ \A b \in Actors \ {t} : actor'[b] = actor[b]
    BY <1>7, TaskFrame
  <2>3. Reader(t)'
    BY <2>1 DEF TaskMove, Deciding, Asking
  <2>4. Task(t)'
    BY <1>2, <2>1, <2>2 DEF TaskMove, WithJob, Working, Asking
  <2> HIDE DEF Collector, Task, Reader
  <2> QED
    BY <1>1, <1>2, <1>3, <1>5, <2>2, <2>3, <2>4
<1>8. ASSUME NEW a \in Actors, ReconcilerStep(a) \/ Stop(a)
      PROVE  ActorsKnow'
  <2>1. ReconcilerMove(a)
    BY <1>8, ReconcilerMoves
  <2>2. /\ UNCHANGED posted
        /\ \A b \in Actors \ {a} : actor'[b] = actor[b]
    BY <1>8, ReconcilerFrame DEF ledger
  <2>3. Collector(a)' /\ Task(a)'
    BY <2>1 DEF ReconcilerMove, Deciding, WithTodo, WithStory, WithJob, Working
  <2>4. Reader(a)'
    <3>1. SeenStatuses \in SUBSET StoryStatuses /\ (SeenStatuses = {} => SeenCount = 0)
      BY PresentStories DEF SeenStatuses, SeenCount
    <3>2. actor[a] \in ActorStates
      BY DEF TypeOK
    <3>3. Phase(a) = "has stories" => actor[a].statuses \in SUBSET StoryStatuses
      BY <3>2, Shapes
    <3>4. \A statuses \in SUBSET StoryStatuses : \A n, error :
             RunStatus(statuses, n, error) \notin {"pending", "collecting"}
      BY RunStatusCases
    <3>5. Phase(a)' = "has stories" =>
             actor'[a].statuses = SeenStatuses /\ actor'[a].count = SeenCount
      BY <2>1 DEF ReconcilerMove, Deciding
    <3>6. Phase(a)' \in Deciding => actor'[a].status \notin {"pending", "collecting"}
      BY <1>2, <2>1, <3>1, <3>3, <3>4 DEF ReconcilerMove, Deciding
    <3> QED
      BY <3>1, <3>5, <3>6
  <2> HIDE DEF Collector, Task, Reader
  <2> QED
    BY <1>1, <1>2, <1>5, <2>2, <2>3, <2>4
<1>9. CASE UNCHANGED vars
  BY <1>9 DEF vars, ledger, ActorsKnow, Phase, Present
<1> QED
  BY <1>6, <1>7, <1>8, <1>9 DEF Next

-----------------------------------------------------------------------------
(* The run is collected once.                                              *)

LEMMA CollectionInit == Init => OneCollection
<1> SUFFICES ASSUME Init PROVE AloneBeforeListing
  BY DEF OneCollection
<1>1. \A a \in Actors : Phase(a) = "idle"
  BY DEF Init, Phase, Idle
<1>2. posted = {} /\ Present = {}
  BY DEF Init, Queue!LedgerInit, Present
<1>3. run.status = "pending" /\ ~run.ready
  BY DEF Init
<1> QED
  BY <1>1, <1>2, <1>3 DEF AloneBeforeListing, Actors, Early

\* A collector that ends leaves a run that is not to be collected.
LEMMA CollectionStep ==
    TypeOK /\ ActorsKnow /\ OneCollection /\ [Next]_vars => OneCollection'
<1> SUFFICES ASSUME TypeOK, ActorsKnow, OneCollection, [Next]_vars, CollectedOnce'
             PROVE  AloneBeforeListing'
  BY DEF OneCollection
<1>1. CollectedOnce /\ "late collector" \notin mishaps' /\ "collector stops" \notin mishaps'
  BY Growing DEF CollectedOnce
<1>2. AloneBeforeListing
  BY <1>1 DEF OneCollection
<1>3. /\ Tasks \cap Collectors = {}
      /\ Tasks \subseteq Actors /\ Collectors \subseteq Actors
  BY PipelineAssumption DEF Actors
<1>4. run \in RunRow
  BY DEF TypeOK
<1>5. ASSUME NEW a \in Actors, Phase(a) \notin Early \cup {"idle"}
      PROVE  /\ run.status # "pending"
             /\ \A c \in Collectors : Phase(c) \notin Early
  BY <1>2, <1>5 DEF AloneBeforeListing
<1>6. ASSUME NEW c \in Collectors, ClaimRun(c) \/ CollectorStep(c)
      PROVE  AloneBeforeListing'
  <2>1. CollectorMove(c) /\ \A a \in Actors \ {c} : actor'[a] = actor[a]
    BY <1>6, CollectorMoves, CollectorFrame
  <2>2. Phase(c)' # "idle"
    BY <2>1 DEF CollectorMove
  <2>3. \A a \in Actors \ {c} : Phase(a)' = Phase(a)
    BY <2>1 DEF Phase
  <2>4. ASSUME \A a \in Actors \ {c} : Phase(a)' = "idle",
               run'.status = "collecting", posted' = {}, ~run'.ready,
               \A s \in Present' : story'[s].status = "pending"
        PROVE  AloneBeforeListing'
    <3>1. \A d \in Collectors : Phase(d)' # "idle" => d = c
      BY <1>3, <2>4
    <3>2. \A d \in Collectors : Phase(d)' \in Early => d = c
      BY <3>1 DEF Early
    <3>3. \E d \in Collectors : Phase(d)' # "idle"
      BY <2>2
    <3> QED
      BY <2>4, <3>1, <3>2, <3>3 DEF AloneBeforeListing
  <2>5. CASE ClaimRun(c)
    <3>1. run.status = "pending" \/ (run.status = "collecting" /\ Abandoned)
      BY <1>1, <1>6, <2>5 DEF ClaimRun, GoesWrong
    <3>2. run.status = "pending"
      BY <1>2, <3>1 DEF AloneBeforeListing, Abandoned
    <3>3. \A a \in Actors : Phase(a) = "idle"
      BY <1>2, <3>2 DEF AloneBeforeListing
    <3>4. /\ posted' = {} /\ ~run'.ready /\ run'.status = "collecting"
          /\ UNCHANGED story
          /\ \A s \in Present : story[s].status = "pending"
      BY <1>2, <1>4, <2>5, <3>2 DEF ClaimRun, ledger, AloneBeforeListing, RunRow
    <3> QED
      BY <2>3, <2>4, <3>3, <3>4 DEF Present
  <2>6. CASE Phase(c) \in Early /\ ~ClaimRun(c)
    <3>1. /\ run.status = "collecting" /\ posted = {} /\ ~run.ready
          /\ \A a \in Actors \ {c} : Phase(a) = "idle"
          /\ \A s \in Present : story[s].status = "pending"
      BY <1>2, <2>6 DEF AloneBeforeListing
    <3>2. UNCHANGED posted
      BY <1>6, <2>6, CollectorFrame DEF Early
    <3>3. \A s \in Present' : story'[s].status = "pending"
      <4>1. \A s \in Stories :
               \/ story'[s].status = story[s].status
               \/ story'[s].status = "pending"
        BY <1>6, <2>6, CollectorFrame DEF Early, WithStory
      <4> QED
        BY <3>1, <4>1 DEF Present
    <3>4. CASE UNCHANGED run
      BY <2>3, <2>4, <3>1, <3>2, <3>3, <3>4
    <3>5. CASE StartRun(c)
      BY <3>1, <3>4, <3>5 DEF StartRun
    <3>6. CASE EndIngestion(c)
      <4>1. run'.status = "collecting" /\ ~run'.ready
        BY <1>4, <3>1, <3>6 DEF EndIngestion, RunRow
      <4> QED
        BY <2>3, <2>4, <3>1, <3>2, <3>3, <4>1
    <3>7. CASE IngestionFails(c) /\ run' # run
      <4>1. run'.status = "failed"
        BY <1>4, <3>7 DEF IngestionFails, RunRow
      <4>2. Phase(c)' = "failing"
        BY <1>3, <3>7 DEF IngestionFails, Goes, Phase, TypeOK
      <4> QED
        BY <1>3, <2>2, <2>3, <3>1, <4>1, <4>2 DEF AloneBeforeListing, Early, Actors
    <3> QED
      BY <1>6, <2>6, <3>4, <3>5, <3>6, <3>7
         DEF CollectorStep, ReadRunToCollect, SaveStory, ListStories, NextStory,
             MarkCollecting, PreparationFails, InsertJob, ReuseAnalysis,
             MarkAnalyzing, MarkUnprepared, AllPrepared
  <2>7. CASE Phase(c) \notin Early /\ ~ClaimRun(c)
    <3>1. Phase(c) # "idle" /\ UNCHANGED run
      BY <1>6, <2>7
         DEF CollectorStep, ReadRunToCollect, StartRun, SaveStory, EndIngestion,
             IngestionFails, ListStories, NextStory, MarkCollecting,
             PreparationFails, InsertJob, ReuseAnalysis, MarkAnalyzing,
             MarkUnprepared, AllPrepared, Early
    <3>2. Phase(c)' \notin Early
      BY <2>1, <2>7, <3>1 DEF CollectorMove, Early
    <3>3. run.status # "pending" /\ \A d \in Collectors : Phase(d) \notin Early
      BY <1>3, <1>5, <2>7, <3>1
    <3> QED
      BY <1>2, <1>3, <2>2, <2>3, <3>1, <3>2, <3>3 DEF AloneBeforeListing
  <2> QED
    BY <2>5, <2>6, <2>7
<1>7. ASSUME NEW t \in Tasks, TakeJob(t) \/ TaskStep(t)
      PROVE  AloneBeforeListing'
  <2>1. TaskMove(t)
    BY <1>7, TaskMoves
  <2>2. UNCHANGED run /\ \A c \in Collectors : actor'[c] = actor[c]
    BY <1>7, TaskFrame
  <2>3. \A c \in Collectors : Phase(c)' = Phase(c)
    BY <2>2 DEF Phase
  <2>4. run.status # "pending" /\ \A c \in Collectors : Phase(c) \notin Early
    <3>1. CASE TakeJob(t)
      <4>1. posted # {}
        BY <3>1 DEF TakeJob, Queue!Grant
      <4> QED
        BY <1>2, <4>1 DEF AloneBeforeListing
    <3>2. CASE Phase(t) \in Asking \cup Ending
      BY <1>3, <1>5, <3>2 DEF Asking, Ending, Early
    <3> QED
      BY <1>7, <3>1, <3>2
         DEF TaskStep, Deny, AskModel, Answer, Persist, FinishJob, Report, Asking, Ending
  <2> QED
    BY <1>2, <2>2, <2>3, <2>4 DEF AloneBeforeListing
<1>8. ASSUME NEW a \in Actors, ReconcilerStep(a) \/ Stop(a)
      PROVE  AloneBeforeListing'
  <2>1. a \in Collectors => ~Stop(a)
    BY <1>1, <1>3 DEF Stop, GoesWrong
  <2>2. run.status # "pending" /\ \A c \in Collectors : Phase(c) \notin Early
    <3>1. CASE Phase(a) \notin Early \cup {"idle"}
      BY <1>5, <3>1
    <3>2. CASE Stop(a)
      <4>1. Phase(a) # "idle" /\ a \notin Collectors
        BY <2>1, <3>2 DEF Stop
      <4> QED
        BY <1>2, <4>1 DEF AloneBeforeListing
    <3> QED
      BY <1>8, <3>1, <3>2
         DEF ReconcilerStep, ReadStories, ReadRun, Humanize, Humanized, WriteRun,
             FailRun, Early
  <2>3. /\ \A b \in Actors \ {a} : actor'[b] = actor[b]
        /\ ReconcilerMove(a)
    BY <1>8, ReconcilerFrame, ReconcilerMoves
  <2>4. \A b \in Actors \ {a} : Phase(b)' = Phase(b)
    BY <2>3 DEF Phase
  <2>5. Phase(a)' \notin Early /\ (Phase(a) = "idle" => ~ReconcilerStep(a))
    BY <2>3
       DEF ReconcilerMove, Early, Deciding, ReconcilerStep, ReadStories, ReadRun,
           Humanize, Humanized, WriteRun, FailRun
  <2>6. Phase(a) # "idle"
    BY <1>8, <2>5 DEF Stop
  <2>7. \A c \in Collectors : Phase(c)' \notin Early
    BY <1>3, <2>2, <2>4, <2>5
  <2>8. run'.status # "pending" /\ (run'.status = "collecting" => UNCHANGED run.status)
    <3>1. Phase(a) = "writing" => actor[a].status \notin {"pending", "collecting"}
      BY DEF ActorsKnow, Deciding
    <3>2. run' = [run EXCEPT !.humanized = TRUE] => run'.status = run.status
      BY <1>4 DEF RunRow
    <3> QED
      BY <1>8, <2>2, <3>1, <3>2, ReconcilerFrame
  <2>9. run'.status = "collecting" /\ a \in Collectors => Phase(a)' # "idle"
    <3>1. Phase(a) = "writing" => actor[a].status \notin {"pending", "collecting"}
      BY DEF ActorsKnow, Deciding
    <3> QED
      BY <1>8, <2>1, <3>1, ReconcilerFrame
  <2> QED
    BY <1>2, <1>3, <2>4, <2>6, <2>7, <2>8, <2>9 DEF AloneBeforeListing
<1>9. CASE UNCHANGED vars
  BY <1>2, <1>9 DEF vars, ledger, AloneBeforeListing, Phase, Present
<1> QED
  BY <1>6, <1>7, <1>8, <1>9 DEF Next

-----------------------------------------------------------------------------
(* A complete run has an analysis of every story.                          *)

\* Only while stories are saved are there new ones.
LEMMA CollectorsKeepPresent ==
    ASSUME TypeOK, ActorsKnow, NEW c \in Collectors, ClaimRun(c) \/ CollectorStep(c),
           Phase(c) # "saving"
    PROVE  Present' = Present
<1>1. \A s \in Stories :
         \/ story'[s].status = story[s].status
         \/ /\ Phase(c) \in WithStory /\ s = actor[c].story
            /\ story'[s].status # "absent"
  BY CollectorFrame DEF ActiveStatuses
<1>2. Phase(c) \in WithStory => actor[c].story \in Present
  BY DEF ActorsKnow
<1> QED
  BY <1>1, <1>2 DEF Present

LEMMA TasksKeepPresent ==
    ASSUME TypeOK, ActorsKnow, NEW t \in Tasks, TakeJob(t) \/ TaskStep(t)
    PROVE  Present' = Present
<1>1. \A s \in Stories :
         \/ story'[s].status = story[s].status
         \/ /\ Phase(t) \in WithJob /\ s = actor[t].story
            /\ story'[s].status # "absent"
  BY TaskFrame
<1>2. Phase(t) \in WithJob => actor[t].story \in Present
  BY DEF ActorsKnow
<1> QED
  BY <1>1, <1>2 DEF Present

\* A collector never decides on the run.
LEMMA CollectorsRun ==
    ASSUME TypeOK, NEW c \in Collectors, ClaimRun(c) \/ CollectorStep(c)
    PROVE  /\ run'.status \in {run.status, "collecting", "failed"}
           /\ run'.ready = run.ready
<1>1. run \in RunRow
  BY DEF TypeOK
<1>2. CASE ClaimRun(c) \/ StartRun(c) \/ EndIngestion(c) \/ IngestionFails(c)
  BY <1>1, <1>2 DEF ClaimRun, StartRun, EndIngestion, IngestionFails, RunRow
<1>3. CASE UNCHANGED run
  BY <1>3
<1> QED
  BY <1>2, <1>3
     DEF CollectorStep, ReadRunToCollect, SaveStory, ListStories, NextStory,
         MarkCollecting, PreparationFails, InsertJob, ReuseAnalysis,
         MarkAnalyzing, MarkUnprepared, AllPrepared

CompleteInv == CompleteIsAnalysed /\ ReadsLast

LEMMA CompleteInit == Init => CompleteInv
<1> SUFFICES ASSUME Init PROVE CompleteInv
  OBVIOUS
<1>1. /\ run.status = "pending"
      /\ \A a \in Actors : Phase(a) = "idle"
  BY DEF Init, Phase, Idle
<1> QED
  BY <1>1 DEF CompleteInv, CompleteIsAnalysed, ReadsLast, ReadsAreTrue,
              SawComplete, Deciding

LEMMA CompleteStep ==
    RowsInv /\ ActorsKnow /\ OneCollection /\ CompleteInv /\ [Next]_vars
        => CompleteInv'
<1> SUFFICES ASSUME RowsInv, ActorsKnow, OneCollection, CompleteInv, [Next]_vars,
                    CollectedOnce'
             PROVE  /\ (run.status = "complete" => Present \subseteq analysed)'
                    /\ ReadsAreTrue'
  BY DEF CompleteInv, CompleteIsAnalysed, ReadsLast
<1>1. TypeOK /\ PublishedHasAnalysis
  BY DEF RowsInv, RowsAgree
<1>2. CollectedOnce
  BY <1>1, Growing DEF CollectedOnce
<1>3. /\ run.status = "complete" => Present \subseteq analysed
      /\ AloneBeforeListing /\ ReadsAreTrue
  BY <1>2 DEF CompleteInv, CompleteIsAnalysed, ReadsLast, OneCollection
<1>4. analysed \subseteq analysed'
  BY <1>1, Growing
<1>5. /\ Tasks \cap Collectors = {}
      /\ Tasks \subseteq Actors /\ Collectors \subseteq Actors
  BY PipelineAssumption DEF Actors
<1>6. ASSUME Present' = Present, NEW a \in Actors, actor'[a] = actor[a],
             SawComplete(a)'
      PROVE  Present' \subseteq analysed'
  <2>1. SawComplete(a)
    BY <1>6 DEF SawComplete, Phase
  <2> QED
    BY <1>3, <1>4, <1>6, <2>1 DEF ReadsAreTrue
<1>7. ASSUME NEW c \in Collectors, ClaimRun(c) \/ CollectorStep(c)
      PROVE  /\ (run.status = "complete" => Present \subseteq analysed)'
             /\ ReadsAreTrue'
  <2>1. /\ CollectorMove(c)
        /\ \A a \in Actors \ {c} : actor'[a] = actor[a]
    BY <1>1, <1>7, CollectorMoves, CollectorFrame
  <2>2. ~SawComplete(c)'
    BY <2>1 DEF CollectorMove, Deciding, SawComplete
  <2>3. run'.status = "complete" => run.status = "complete"
    BY <1>1, <1>7, CollectorsRun
  <2>4. CASE Phase(c) = "saving"
    <3>1. /\ run.status = "collecting"
          /\ \A a \in Actors \ {c} : Phase(a) = "idle"
      BY <1>3, <2>4 DEF AloneBeforeListing, Early
    <3>2. \A a \in Actors \ {c} : Phase(a)' = "idle"
      BY <2>1, <3>1 DEF Phase
    <3>3. run'.status # "complete"
      BY <2>3, <3>1
    <3>4. \A a \in Actors : ~SawComplete(a)'
      BY <2>2, <3>2 DEF SawComplete, Deciding
    <3> QED
      BY <3>3, <3>4 DEF ReadsAreTrue
  <2>5. CASE Present' = Present
    <3>1. ReadsAreTrue'
      BY <1>6, <2>1, <2>2, <2>5 DEF ReadsAreTrue
    <3> QED
      BY <1>3, <1>4, <2>3, <2>5, <3>1
  <2>6. Phase(c) # "saving" => Present' = Present
    BY <1>1, <1>7, CollectorsKeepPresent
  <2> QED
    BY <2>4, <2>5, <2>6
<1>8. ASSUME NEW t \in Tasks, TakeJob(t) \/ TaskStep(t)
      PROVE  /\ (run.status = "complete" => Present \subseteq analysed)'
             /\ ReadsAreTrue'
  <2>1. /\ TaskMove(t) /\ UNCHANGED run
        /\ \A a \in Actors \ {t} : actor'[a] = actor[a]
    BY <1>1, <1>8, TaskMoves, TaskFrame
  <2>2. ~SawComplete(t)'
    BY <2>1 DEF TaskMove, Deciding, Asking, SawComplete
  <2>3. Present' = Present
    BY <1>1, <1>8, TasksKeepPresent
  <2>4. ReadsAreTrue'
    BY <1>6, <2>1, <2>2, <2>3 DEF ReadsAreTrue
  <2> QED
    BY <1>3, <1>4, <2>1, <2>3, <2>4
<1>9. ASSUME NEW a \in Actors, ReconcilerStep(a) \/ Stop(a)
      PROVE  /\ (run.status = "complete" => Present \subseteq analysed)'
             /\ ReadsAreTrue'
  <2>1. /\ ReconcilerMove(a)
        /\ UNCHANGED <<story, analysed>>
        /\ \A b \in Actors \ {a} : actor'[b] = actor[b]
    BY <1>1, <1>9, ReconcilerMoves, ReconcilerFrame
  <2>2. Present' = Present
    BY <2>1 DEF Present
  <2>3. /\ SeenStatuses \in SUBSET StoryStatuses
        /\ SeenStatuses = {} => SeenCount = 0
        /\ SeenStatuses = {"complete"} => Present \subseteq analysed
    BY <1>1, PresentStories DEF SeenStatuses, SeenCount, Present, PublishedHasAnalysis
  <2>4. Phase(a)' \in {"idle", "failing", "has run"} => ~SawComplete(a)'
    BY DEF SawComplete, Deciding
  <2>5. SawComplete(a)' => Present \subseteq analysed
    <3>1. actor[a] \in ActorStates
      BY <1>1 DEF TypeOK
    <3>2. Phase(a) = "has stories" =>
             /\ actor[a].statuses \in SUBSET StoryStatuses
             /\ actor[a].statuses = {} => actor[a].count = 0
      BY <3>1, Shapes DEF ActorsKnow
    <3>3. SawComplete(a) => Present \subseteq analysed
      BY <1>3 DEF ReadsAreTrue
    <3>4. CASE Phase(a)' = "has stories"
      BY <2>1, <2>3, <3>4 DEF ReconcilerMove, Deciding, SawComplete
    <3>5. CASE Phase(a) = "has run" /\ Phase(a)' \in Deciding
      <4>1. /\ SeenCount # 0
            /\ actor'[a].status
                  = RunStatus(SeenStatuses, SeenCount, actor[a].row.error)
        BY <2>1, <3>5 DEF ReconcilerMove, Deciding
      <4>2. SawComplete(a)' => actor'[a].status = "complete"
        BY <3>5 DEF SawComplete, Deciding
      <4>3. actor'[a].status = "complete" => SeenStatuses \in {{}, {"complete"}}
        <5>1. SeenStatuses \in SUBSET StoryStatuses
          BY <2>3
        <5>2. RunStatus(SeenStatuses, SeenCount, actor[a].row.error) = "complete"
                 => SeenStatuses \in {{}, {"complete"}}
          BY <5>1, RunStatusCases
        <5> QED
          BY <4>1, <5>2
      <4> QED
        BY <2>3, <4>1, <4>2, <4>3
    <3>6. CASE Phase(a) = "has stories" /\ Phase(a)' \in Deciding
      <4>1. /\ actor[a].count # 0
            /\ actor'[a].status
                  = RunStatus(actor[a].statuses, actor[a].count, run.error)
        BY <2>1, <3>6 DEF ReconcilerMove, Deciding
      <4>2. SawComplete(a)' => actor'[a].status = "complete"
        BY <3>6 DEF SawComplete, Deciding
      <4>3. actor'[a].status = "complete"
               => actor[a].statuses \in {{}, {"complete"}}
        <5>1. actor[a].statuses \in SUBSET StoryStatuses
          BY <3>2, <3>6
        <5>2. RunStatus(actor[a].statuses, actor[a].count, run.error) = "complete"
                 => actor[a].statuses \in {{}, {"complete"}}
          BY <5>1, RunStatusCases
        <5> QED
          BY <4>1, <5>2
      <4>4. actor[a].statuses = {"complete"} => SawComplete(a)
        BY <3>6 DEF SawComplete
      <4> QED
        BY <3>2, <3>3, <3>6, <4>1, <4>2, <4>3, <4>4
    <3>7. CASE Phase(a) \in Deciding /\ Phase(a)' \in Deciding
      <4>1. actor'[a].status = actor[a].status
        BY <2>1, <3>7 DEF ReconcilerMove, Deciding
      <4>2. SawComplete(a)' => SawComplete(a)
        BY <3>7, <4>1 DEF SawComplete, Deciding
      <4> QED
        BY <3>3, <4>2
    <3> QED
      BY <2>1, <2>4, <3>4, <3>5, <3>6, <3>7 DEF ReconcilerMove
  <2>6. ReadsAreTrue'
    BY <1>6, <2>1, <2>2, <2>5 DEF ReadsAreTrue
  <2>7. run'.status = "complete" => Present \subseteq analysed
    <3>1. run \in RunRow
      BY <1>1 DEF TypeOK
    <3>2. Phase(a) = "writing" /\ actor[a].status = "complete"
             => Present \subseteq analysed
      BY <1>3 DEF ReadsAreTrue, SawComplete, Deciding
    <3>3. run' = [run EXCEPT !.humanized = TRUE] => run'.status = run.status
      BY <3>1 DEF RunRow
    <3> QED
      BY <1>1, <1>3, <1>9, <3>2, <3>3, ReconcilerFrame
  <2> QED
    BY <2>1, <2>2, <2>6, <2>7
<1>10. CASE UNCHANGED vars
  BY <1>3, <1>10 DEF vars, ReadsAreTrue, SawComplete, Phase, Present
<1> QED
  BY <1>7, <1>8, <1>9, <1>10 DEF Next

\* A complete run that is collected once has an analysis of every story,
\* whichever reconciliation wrote it and however late (reconcileRun).
THEOREM CompleteRunsAreAnalysed == Spec => []CompleteIsAnalysed
<1> DEFINE Inv == RowsInv /\ ActorsKnow /\ OneCollection /\ CompleteInv
<1>1. Init => Inv
  BY RowsInit, KnowInit, CollectionInit, CompleteInit
<1>2. Inv /\ [Next]_vars => Inv'
  <2> SUFFICES ASSUME Inv, [Next]_vars PROVE Inv'
    OBVIOUS
  <2>1. TypeOK
    BY DEF RowsInv, RowsAgree
  <2> QED
    BY <2>1, RowsStep, KnowStep, CollectionStep, CompleteStep
<1>3. Inv => CompleteIsAnalysed
  BY DEF CompleteInv
<1> QED
  BY <1>1, <1>2, <1>3, PTL DEF Spec

-----------------------------------------------------------------------------
(* The holder of a job is the task that works on it.                       *)

\* What a task does to its job.
LEMMA TaskLedger ==
    ASSUME TypeOK, NEW t \in Tasks, TakeJob(t) \/ TaskStep(t)
    PROVE  \/ UNCHANGED <<holder, grants>> /\ Phase(t)' # "taken"
           \/ \E s \in Stories :
                 /\ Phase(t)' = "taken"
                 /\ actor'[t].story = s /\ actor'[t].grant = grants'[s]
                 /\ holder'[s] = t
                 /\ \A o \in Stories \ {s} :
                       holder'[o] = holder[o] /\ grants'[o] = grants[o]
                 /\ Tended(s) => "late task" \in mishaps'
           \/ /\ Phase(t) = "finishing" /\ Phase(t)' = "reporting"
              /\ UNCHANGED grants
              /\ \A o \in Stories \ {actor[t].story} : holder'[o] = holder[o]
<1>1. /\ t \in Actors /\ actor \in [Actors -> ActorStates]
      /\ actor[t] \in ActorStates
      /\ holder \in [Stories -> Tasks \cup {NoTask}] /\ grants \in [Stories -> Nat]
  BY DEF Actors, TypeOK
<1>2. CASE TakeJob(t)
  <2>1. PICK s \in Stories :
           /\ Queue!Grant(s, t)
           /\ Tended(s) => GoesWrong("late task")
           /\ Goes(t, [phase |-> "taken", story |-> s, grant |-> grants[s] + 1])
    BY <1>2 DEF TakeJob
  <2>2. actor'[t] = [phase |-> "taken", story |-> s, grant |-> grants[s] + 1]
    BY <1>1, <2>1 DEF Goes
  <2>3. Phase(t)' = "taken" /\ actor'[t].story = s /\ actor'[t].grant = grants[s] + 1
    BY <2>2 DEF Phase
  <2>4. Queue!Grant(s, t)
    BY <2>1
  <2>5. /\ grants'[s] = grants[s] + 1 /\ holder'[s] = t
        /\ \A o \in Stories \ {s} : holder'[o] = holder[o] /\ grants'[o] = grants[o]
    BY <1>1, <2>4 DEF Queue!Grant
  <2>6. Tended(s) => "late task" \in mishaps'
    BY <2>1 DEF GoesWrong
  <2> QED
    BY <2>3, <2>5, <2>6
<1>3. CASE FinishJob(t)
  <2>1. Phase(t) = "finishing"
    BY <1>3 DEF FinishJob
  <2>2. Phase(t)' = "reporting"
    BY <1>3, <2>1, TaskMoves DEF TaskMove, Asking, TaskStep
  <2>3. CASE UNCHANGED ledger
    BY <2>2, <2>3 DEF ledger
  <2>4. CASE Queue!Return(actor[t].story)
    BY <1>1, <2>1, <2>2, <2>4 DEF Queue!Return
  <2>5. CASE \E o : Queue!Settle(actor[t].story, o)
    BY <1>1, <2>1, <2>2, <2>5 DEF Queue!Settle
  <2> QED
    BY <1>3, <2>3, <2>4, <2>5 DEF FinishJob
<1>4. CASE ~TakeJob(t) /\ ~FinishJob(t)
  <2>1. UNCHANGED <<holder, grants>>
    BY <1>4 DEF TaskStep, Deny, AskModel, Answer, Persist, Report, ledger
  <2>2. Phase(t) # "idle"
    BY <1>4 DEF TaskStep, Deny, AskModel, Answer, Persist, Report
  <2>3. Phase(t)' # "taken"
    <3>1. CASE Phase(t)' \in Ending
      BY <3>1 DEF Ending
    <3>2. CASE AskModel(t) \/ Answer(t) \/ Deny(t) \/ Persist(t)
      <4>1. Phase(t) \in Asking
        BY <3>2 DEF AskModel, Answer, Deny, Persist, Asking
      <4>2. actor[t] \in [phase : Asking, story : Stories, grant : Nat]
        BY <1>1, <4>1, Shapes
      <4>3. \/ \E o : Knows(t, o)
            \/ \E p \in {"asking", "persisting"} : Goes(t, [actor[t] EXCEPT !.phase = p])
        BY <3>2 DEF AskModel, Answer, Deny, Persist
      <4>4. CASE \E o : Knows(t, o)
        BY <1>1, <4>4 DEF Knows, Goes, Phase
      <4>5. CASE \E p \in {"asking", "persisting"} : Goes(t, [actor[t] EXCEPT !.phase = p])
        <5>1. PICK p \in {"asking", "persisting"} : actor'[t] = [actor[t] EXCEPT !.phase = p]
          BY <1>1, <4>5 DEF Goes
        <5> QED
          BY <4>2, <5>1 DEF Phase
      <4> QED
        BY <4>3, <4>4, <4>5
    <3>3. CASE Report(t)
      BY <1>1, <3>3 DEF Report, Goes, Idle, Phase
    <3> QED
      BY <1>4, <3>2, <3>3 DEF TaskStep
  <2> QED
    BY <2>1, <2>3
<1> QED
  BY <1>2, <1>3, <1>4

LEMMA HoldInit == Init => TasksHold
BY DEF Init, TasksHold, Phase, Idle, Actors, Working

LEMMA HoldStep == TypeOK /\ TasksHold /\ [Next]_vars => TasksHold'
<1> SUFFICES ASSUME TypeOK, TasksHold, [Next]_vars, "late task" \notin mishaps',
                    NEW u \in Tasks, Phase(u)' \in Working
             PROVE  /\ holder'[actor'[u].story] = u
                    /\ grants'[actor'[u].story] = actor'[u].grant
  BY DEF TasksHold
<1>1. "late task" \notin mishaps
  BY Growing
<1>2. \A t \in Tasks : Phase(t) \in Working =>
         holder[actor[t].story] = t /\ grants[actor[t].story] = actor[t].grant
  BY <1>1 DEF TasksHold
<1>3. /\ Tasks \cap Collectors = {} /\ NoTask \notin Tasks
      /\ Tasks \subseteq Actors /\ Collectors \subseteq Actors
  BY PipelineAssumption DEF Actors
<1>4. \A t \in Tasks : Phase(t) \in Working => actor[t].story \in Stories
  <2>1. \A t \in Tasks : actor[t] \in ActorStates
    BY <1>3 DEF TypeOK
  <2> QED
    BY <2>1, Shapes DEF WithJob
<1>5. ASSUME actor'[u] = actor[u]
      PROVE  /\ Phase(u) \in Working /\ actor[u].story \in Stories
             /\ holder[actor'[u].story] = u
             /\ grants[actor'[u].story] = actor'[u].grant
  BY <1>2, <1>4, <1>5 DEF Phase
<1>6. ASSUME NEW c \in Collectors, ClaimRun(c) \/ CollectorStep(c)
      PROVE  /\ holder'[actor'[u].story] = u
             /\ grants'[actor'[u].story] = actor'[u].grant
  <2>1. UNCHANGED <<holder, grants>> /\ actor'[u] = actor[u]
    BY <1>6, CollectorFrame
  <2> QED
    BY <1>5, <2>1
<1>7. ASSUME NEW t \in Tasks, TakeJob(t) \/ TaskStep(t)
      PROVE  /\ holder'[actor'[u].story] = u
             /\ grants'[actor'[u].story] = actor'[u].grant
  <2>1. u # t => actor'[u] = actor[u]
    BY <1>3, <1>7, TaskFrame
  <2>2. TaskMove(t)
    BY <1>7, TaskMoves
  <2>3. CASE UNCHANGED <<holder, grants>> /\ Phase(t)' # "taken"
    <3>1. u = t => /\ Phase(t) \in Working
                   /\ actor'[t].story = actor[t].story
                   /\ actor'[t].grant = actor[t].grant
      BY <2>2, <2>3 DEF TaskMove, Working, Asking
    <3> QED
      BY <1>2, <1>5, <2>1, <2>3, <3>1
  <2>4. ASSUME NEW s \in Stories,
               actor'[t].story = s, actor'[t].grant = grants'[s], holder'[s] = t,
               \A o \in Stories \ {s} : holder'[o] = holder[o] /\ grants'[o] = grants[o],
               ~Tended(s)
        PROVE  /\ holder'[actor'[u].story] = u
               /\ grants'[actor'[u].story] = actor'[u].grant
    <3>1. CASE u = t
      BY <2>4, <3>1
    <3>2. CASE u # t
      <4>1. /\ Phase(u) \in Working /\ actor[u].story \in Stories
            /\ actor'[u] = actor[u]
            /\ holder[actor[u].story] = u
            /\ grants[actor[u].story] = actor[u].grant
        BY <1>5, <2>1, <3>2
      <4>2. actor[u].story # s
        <5> SUFFICES ASSUME actor[u].story = s PROVE FALSE
          OBVIOUS
        <5>1. Fenced(u)
          BY <1>3, <4>1 DEF Fenced
        <5>2. Tended(s)
          BY <4>1, <5>1 DEF Tended, Working
        <5> QED
          BY <2>4, <5>2
      <4> QED
        BY <2>4, <4>1, <4>2
    <3> QED
      BY <3>1, <3>2
  <2>5. CASE /\ Phase(t) = "finishing" /\ Phase(t)' = "reporting"
             /\ UNCHANGED grants
             /\ \A o \in Stories \ {actor[t].story} : holder'[o] = holder[o]
    <3>1. u # t
      BY <2>5 DEF Working
    <3>2. holder[actor[t].story] = t
      BY <1>2, <2>5 DEF Working
    <3> QED
      BY <1>5, <2>1, <2>5, <3>1, <3>2
  <2> QED
    BY <1>7, <2>3, <2>4, <2>5, TaskLedger
<1>8. ASSUME NEW a \in Actors, ReconcilerStep(a) \/ Stop(a)
      PROVE  /\ holder'[actor'[u].story] = u
             /\ grants'[actor'[u].story] = actor'[u].grant
  <2>1. /\ UNCHANGED <<holder, grants>>
        /\ \A b \in Actors \ {a} : actor'[b] = actor[b]
    BY <1>8, ReconcilerFrame DEF ledger
  <2>2. Phase(a)' \notin Working
    BY <1>8, ReconcilerMoves DEF ReconcilerMove, Working, Deciding
  <2> QED
    BY <1>3, <1>5, <2>1, <2>2
<1>9. CASE UNCHANGED vars
  BY <1>5, <1>9 DEF vars, ledger
<1> QED
  BY <1>6, <1>7, <1>8, <1>9 DEF Next

-----------------------------------------------------------------------------
(* The newsletter is released when every job is decided.                   *)

\* What is decided stays decided.
LEMMA DecidedStays ==
    TypeOK /\ [Next]_vars => \A s \in Stories : Decided(s) => Decided(s)'
<1> SUFFICES ASSUME TypeOK, [Next]_vars, NEW s \in Stories, Decided(s)
             PROVE  Decided(s)'
  OBVIOUS
<1>1. analysed \subseteq analysed'
  BY Growing
<1>2. result[s] = "failed" => result'[s] = "failed" \/ s \in analysed'
  <2>1. ASSUME NEW c \in Collectors, ClaimRun(c) \/ CollectorStep(c)
        PROVE  result'[s] = result[s] \/ s \in analysed'
    BY <2>1, CollectorFrame
  <2>2. ASSUME NEW t \in Tasks, TakeJob(t) \/ TaskStep(t)
        PROVE  result'[s] = result[s] \/ result[s] = "none"
    BY <2>2, TaskFrame
  <2>3. ASSUME NEW a \in Actors, ReconcilerStep(a) \/ Stop(a)
        PROVE  result'[s] = result[s]
    BY <2>3, ReconcilerFrame DEF ledger
  <2>4. CASE UNCHANGED vars
    BY <2>4 DEF vars, ledger
  <2> QED
    BY <2>1, <2>2, <2>3, <2>4 DEF Next
<1> QED
  BY <1>1, <1>2 DEF Decided

\* Who reports a failure, while no task is slow, has settled the job so.
LEMMA ReportedIsSettled ==
    ASSUME TypeOK, TasksHold, "late task" \notin mishaps,
           NEW t \in Tasks, TaskStep(t),
           Phase(t) = "finishing", actor[t].outcome = "failed"
    PROVE  result'[actor[t].story] = "failed"
<1>1. FinishJob(t)
  BY DEF TaskStep, Deny, AskModel, Answer, Persist, Report
<1>2. /\ actor[t] \in ActorStates
      /\ result \in [Stories -> {"none", "succeeded", "failed"}]
  BY DEF TypeOK, Actors
<1>3. actor[t].story \in Stories
  BY <1>2, Shapes DEF WithJob, Working
<1>4. holder[actor[t].story] = t /\ grants[actor[t].story] = actor[t].grant
  BY DEF TasksHold, Working
<1>5. Fenced(t)
  BY <1>4, PipelineAssumption DEF Fenced
<1>6. Queue!Settle(actor[t].story, "failed")
  BY <1>1, <1>5 DEF FinishJob
<1> QED
  BY <1>2, <1>3, <1>6 DEF Queue!Settle

\* What a collector has still to prepare is as it was when it was listed.
LEMMA FreshStep ==
    ASSUME TypeOK, ActorsKnow, AloneBeforeListing, AloneBeforeListing',
           "error" \notin mishaps',
           \A d \in Collectors : TodoIsFresh(d), [Next]_vars,
           NEW c \in Collectors
    PROVE  TodoIsFresh(c)'
<1>1. /\ Tasks \cap Collectors = {}
      /\ Tasks \subseteq Actors /\ Collectors \subseteq Actors
  BY PipelineAssumption DEF Actors
<1>2. TodoIsFresh(c)
  OBVIOUS
<1>3. /\ Phase(c) \in WithTodo => actor[c].todo \subseteq Stories
      /\ Phase(c) \in WithStory => actor[c].story \in Stories
  <2>1. actor[c] \in ActorStates
    BY <1>1 DEF TypeOK
  <2> QED
    BY <2>1, Shapes DEF WithTodo
<1>4. ASSUME actor'[c] = actor[c],
             \A s \in Stories \ posted :
                s \notin posted' /\ story'[s].status = story[s].status
      PROVE  TodoIsFresh(c)'
  <2>1. Phase(c)' = Phase(c)
    BY <1>4 DEF Phase
  <2>2. Phase(c)' \in WithTodo =>
           \A s \in actor'[c].todo : s \notin posted' /\ story'[s].status = "pending"
    BY <1>2, <1>3, <1>4, <2>1 DEF TodoIsFresh
  <2>3. Phase(c)' \in {"marking", "fetching", "broken"} =>
           /\ actor'[c].story \notin posted'
           /\ story'[actor'[c].story].status \in ActiveStatuses
    BY <1>2, <1>3, <1>4, <2>1 DEF TodoIsFresh, WithStory
  <2>4. Phase(c)' \in WithStory => actor'[c].story \notin actor'[c].todo
    BY <1>2, <1>4, <2>1 DEF TodoIsFresh
  <2> QED
    BY <2>2, <2>3, <2>4 DEF TodoIsFresh
<1>5. CASE ClaimRun(c) \/ CollectorStep(c)
  <2>1. CollectorMove(c)
    BY <1>5, CollectorMoves
  <2>2. /\ posted' \subseteq posted \cup {actor[c].story}
        /\ Phase(c) # "fetching" => UNCHANGED posted
    BY <1>5, CollectorFrame
  <2>3. \A s \in Stories :
           \/ story'[s].status = story[s].status
           \/ Phase(c) = "saving"
           \/ Phase(c) \in WithStory /\ s = actor[c].story
    BY <1>5, CollectorFrame
  <2>4. CASE Phase(c) = "listing"
    <3>1. Phase(c)' = "preparing" /\ actor'[c].todo = Present
      BY <2>1, <2>4 DEF CollectorMove
    <3>2. posted' = {} /\ \A s \in Present : story[s].status = "pending"
      BY <2>2, <2>4 DEF AloneBeforeListing, Early
    <3>3. \A s \in Present : story'[s].status = "pending"
      BY <2>3, <2>4, <3>2 DEF Present, WithStory
    <3> QED
      BY <3>1, <3>2, <3>3 DEF TodoIsFresh, WithStory
  <2>5. CASE Phase(c) = "preparing"
    <3>1. \A s \in actor[c].todo :
             /\ s \in Stories /\ s \notin posted /\ s \notin posted'
             /\ story[s].status = "pending" /\ story'[s].status = "pending"
      BY <1>2, <1>3, <2>2, <2>3, <2>5 DEF TodoIsFresh, WithTodo, WithStory
    <3>2. \/ Phase(c)' = "preparing" /\ actor'[c].todo \subseteq actor[c].todo
          \/ /\ Phase(c)' = "marking"
             /\ actor'[c].story \in actor[c].todo
             /\ actor'[c].todo = actor[c].todo \ {actor'[c].story}
          \/ Phase(c)' = "reading"
      BY <2>1, <2>5 DEF CollectorMove
    <3> QED
      BY <3>1, <3>2 DEF TodoIsFresh, WithTodo, WithStory, ActiveStatuses
  <2>6. CASE Phase(c) \in WithStory
    <3>1. \A s \in actor[c].todo :
             /\ s \notin posted /\ s \notin posted'
             /\ story'[s].status = "pending"
      BY <1>2, <1>3, <2>2, <2>3, <2>6 DEF TodoIsFresh, WithTodo, WithStory
    <3>2. actor[c].story \notin actor[c].todo /\ actor'[c].todo = actor[c].todo
      BY <1>2, <2>1, <2>6
         DEF TodoIsFresh, CollectorMove, WithStory, KeepsStory, KeepsTodo
    <3>3. Phase(c)' \in WithTodo
      BY <2>1, <2>6 DEF CollectorMove, WithTodo, WithStory
    <3>4. Phase(c)' \in WithStory => actor'[c].story = actor[c].story
      BY <2>1, <2>6 DEF CollectorMove, WithStory, KeepsStory
    <3>5. Phase(c)' \in {"marking", "fetching", "broken"} =>
             /\ actor[c].story \notin posted'
             /\ story'[actor[c].story].status \in ActiveStatuses
      <4>1. Phase(c) \in {"marking", "fetching"}
               => /\ actor[c].story \notin posted
                  /\ story[actor[c].story].status \in ActiveStatuses
        BY <1>2 DEF TodoIsFresh
      <4>2. Phase(c)' \in {"marking", "fetching", "broken"} =>
               \/ /\ Phase(c) = "marking"
                  /\ story'[actor[c].story].status \in ActiveStatuses
               \/ Phase(c) = "fetching" /\ UNCHANGED <<story, posted>>
        BY <2>1, <2>6 DEF CollectorMove, WithStory
      <4> QED
        BY <2>2, <4>1, <4>2
    <3> QED
      BY <3>1, <3>2, <3>3, <3>4, <3>5 DEF TodoIsFresh, WithStory
  <2>7. CASE Phase(c) \notin WithTodo \cup {"listing"}
    <3>1. Phase(c)' \notin WithTodo
      BY <2>1, <2>7 DEF CollectorMove, WithTodo, WithStory
    <3> QED
      BY <3>1 DEF TodoIsFresh, WithTodo, WithStory
  <2> QED
    BY <2>4, <2>5, <2>6, <2>7 DEF WithTodo
<1>6. ASSUME NEW d \in Collectors \ {c}, ClaimRun(d) \/ CollectorStep(d)
      PROVE  TodoIsFresh(c)'
  <2>1. Phase(d)' # "idle"
    BY <1>6, CollectorMoves DEF CollectorMove
  <2>2. Phase(c)' = "idle"
    BY <1>6, <2>1 DEF AloneBeforeListing
  <2> QED
    BY <2>2 DEF TodoIsFresh, WithTodo, WithStory
<1>7. ASSUME NEW t \in Tasks, TakeJob(t) \/ TaskStep(t)
      PROVE  TodoIsFresh(c)'
  <2>1. actor'[c] = actor[c] /\ UNCHANGED posted
    BY <1>7, TaskFrame
  <2>2. Phase(t) \in WithJob => actor[t].story \in posted
    BY DEF ActorsKnow
  <2>3. \A s \in Stories \ posted : story'[s].status = story[s].status
    BY <1>7, <2>2, TaskFrame
  <2> QED
    BY <1>4, <2>1, <2>3
<1>8. ASSUME NEW a \in Actors, ReconcilerStep(a) \/ Stop(a)
      PROVE  TodoIsFresh(c)'
  <2>1. UNCHANGED <<story, posted>>
    BY <1>8, ReconcilerFrame DEF ledger
  <2>2. CASE c # a
    <3>1. actor'[c] = actor[c]
      BY <1>1, <1>8, <2>2, ReconcilerFrame
    <3> QED
      BY <1>4, <2>1, <3>1
  <2>3. CASE c = a
    <3>1. Phase(c)' \notin WithTodo
      BY <1>8, <2>3, ReconcilerMoves
         DEF ReconcilerMove, WithTodo, WithStory, Deciding
    <3> QED
      BY <3>1 DEF TodoIsFresh, WithTodo, WithStory
  <2> QED
    BY <2>2, <2>3
<1>9. CASE UNCHANGED vars
  BY <1>4, <1>9 DEF vars, ledger
<1> QED
  BY <1>5, <1>6, <1>7, <1>8, <1>9 DEF Next

\* A story that is marked failed, or will be, has its job decided.
LEMMA FailuresStep ==
    ASSUME TypeOK, ActorsKnow, AloneBeforeListing, AloneBeforeListing', TasksHold,
           "error" \notin mishaps', "late task" \notin mishaps',
           FailuresAreDecided, [Next]_vars
    PROVE  FailuresAreDecided'
<1>1. /\ Tasks \cap Collectors = {}
      /\ Tasks \subseteq Actors /\ Collectors \subseteq Actors
  BY PipelineAssumption DEF Actors
<1>2. /\ \A s \in posted : story[s].status = "failed" => Decided(s)
      /\ \A t \in Tasks :
            Phase(t) = "reporting" /\ actor[t].outcome = "failed"
                => Decided(actor[t].story)
      /\ \A c \in Collectors : TodoIsFresh(c)
  BY DEF FailuresAreDecided
<1>3. \A c \in Collectors : TodoIsFresh(c)'
  BY <1>2, FreshStep
<1>4. posted \subseteq Stories /\ posted' \subseteq Stories
  <2>1. TypeOK'
    BY TypeStep
  <2> QED
    BY <2>1 DEF TypeOK
<1>5. \A s \in Stories : Decided(s) => Decided(s)'
  BY DecidedStays
<1>6. \A t \in Tasks : Phase(t) \in WithJob => actor[t].story \in posted
  BY DEF ActorsKnow
<1>7. ASSUME NEW t \in Tasks, actor'[t] = actor[t],
             Phase(t)' = "reporting", actor'[t].outcome = "failed"
      PROVE  Decided(actor[t].story)'
  <2>1. Phase(t) = "reporting" /\ actor[t].outcome = "failed"
    BY <1>7 DEF Phase
  <2>2. actor[t].story \in Stories /\ Decided(actor[t].story)
    BY <1>2, <1>4, <1>6, <2>1 DEF WithJob
  <2>3. Decided(actor[t].story)'
    <3>1. \A s \in Stories : Decided(s) => s \in analysed' \/ result'[s] = "failed"
      BY <1>5 DEF Decided
    <3> QED
      BY <1>7, <2>2, <3>1 DEF Decided
  <2> QED
    BY <1>7, <2>3 DEF Decided
<1>8. CASE UNCHANGED vars
  BY <1>2, <1>3, <1>8 DEF vars, ledger, FailuresAreDecided, Decided, Phase
<1>9. ASSUME NEW c \in Collectors, ClaimRun(c) \/ CollectorStep(c)
      PROVE  FailuresAreDecided'
  <2>1. \A t \in Tasks : actor'[t] = actor[t]
    BY <1>9, CollectorFrame
  <2>2. ASSUME NEW s \in posted', story'[s].status = "failed"
        PROVE  Decided(s)'
    <3>1. s \in Stories
      BY <1>4
    <3>2. TodoIsFresh(c)
      BY <1>2
    <3>3. \/ story'[s].status = story[s].status
          \/ s = actor[c].story /\ Phase(c) = "broken"
      BY <1>9, <2>2, <3>1, CollectorFrame DEF ActiveStatuses
    <3>4. s \in posted \/ (Phase(c) = "fetching" /\ s = actor[c].story)
      BY <1>9, <2>2, CollectorFrame
    <3>5. CASE Phase(c) = "fetching" /\ s = actor[c].story
      BY <2>2, <3>2, <3>3, <3>5 DEF TodoIsFresh, ActiveStatuses
    <3>6. CASE s \in posted
      <4>1. ~(s = actor[c].story /\ Phase(c) = "broken")
        BY <3>2, <3>6 DEF TodoIsFresh
      <4>2. Decided(s)
        BY <1>2, <2>2, <3>3, <3>6, <4>1
      <4> QED
        BY <1>5, <3>1, <4>2
    <3> QED
      BY <3>4, <3>5, <3>6
  <2>3. \A t \in Tasks : Phase(t)' = "reporting" /\ actor'[t].outcome = "failed"
           => Decided(actor[t].story)'
    BY <1>7, <2>1
  <2> QED
    BY <1>3, <2>2, <2>3 DEF FailuresAreDecided
<1>10. ASSUME NEW t \in Tasks, TakeJob(t) \/ TaskStep(t)
      PROVE  FailuresAreDecided'
  <2>1. /\ UNCHANGED posted
        /\ \A u \in Tasks \ {t} : actor'[u] = actor[u]
    BY <1>1, <1>10, TaskFrame
  <2>2. ASSUME NEW s \in posted', story'[s].status = "failed"
        PROVE  Decided(s)'
    <3>1. s \in Stories /\ s \in posted
      BY <1>4, <2>1
    <3>2. \/ story'[s].status = story[s].status
          \/ s = actor[t].story /\ Phase(t) = "reporting" /\ actor[t].outcome = "failed"
      BY <1>10, <2>2, <3>1, TaskFrame
    <3>3. Decided(s)
      BY <1>2, <2>2, <3>1, <3>2
    <3> QED
      BY <1>5, <3>1, <3>3
  <2>3. ASSUME Phase(t)' = "reporting", actor'[t].outcome = "failed"
        PROVE  Decided(actor[t].story)'
    <3>1. TaskMove(t) /\ "late task" \notin mishaps
      BY <1>10, Growing, TaskMoves
    <3>2. /\ Phase(t) = "finishing"
          /\ actor'[t].story = actor[t].story /\ actor[t].outcome = "failed"
      BY <2>3, <3>1 DEF TaskMove, Asking
    <3>3. TaskStep(t)
      BY <1>10, <3>2 DEF TakeJob
    <3>4. result'[actor[t].story] = "failed"
      BY <3>1, <3>2, <3>3, ReportedIsSettled
    <3> QED
      BY <3>2, <3>4 DEF Decided
  <2>4. \A u \in Tasks : Phase(u)' = "reporting" /\ actor'[u].outcome = "failed"
           => Decided(actor[u].story)'
    BY <1>7, <2>1, <2>3
  <2> QED
    BY <1>3, <2>2, <2>4 DEF FailuresAreDecided
<1>11. ASSUME NEW a \in Actors, ReconcilerStep(a) \/ Stop(a)
      PROVE  FailuresAreDecided'
  <2>1. /\ UNCHANGED <<story, analysed, result, posted>>
        /\ \A t \in Tasks \ {a} : actor'[t] = actor[t]
    BY <1>1, <1>11, ReconcilerFrame DEF ledger
  <2>2. Phase(a)' # "reporting"
    BY <1>11, ReconcilerMoves DEF ReconcilerMove, Deciding
  <2>3. \A t \in Tasks : Phase(t)' = "reporting" /\ actor'[t].outcome = "failed"
           => Decided(actor[t].story)'
    BY <1>7, <2>1, <2>2
  <2>4. \A s \in posted' : story'[s].status = "failed" => Decided(s)'
    BY <1>2, <2>1 DEF Decided
  <2> QED
    BY <1>3, <2>3, <2>4 DEF FailuresAreDecided
<1> QED
  BY <1>8, <1>9, <1>10, <1>11 DEF Next

\* When no story is active, every job is decided.
LEMMA NothingActive ==
    ASSUME RowsInv, ActorsKnow, AloneBeforeListing, FailuresAreDecided,
           SeenStatuses \cap ActiveStatuses = {}, SeenStatuses # {}
    PROVE  AllDecided
<1>1. TypeOK /\ PublishedHasAnalysis
  BY DEF RowsInv, RowsAgree
<1>2. /\ SeenStatuses \in SUBSET StoryStatuses
      /\ \A s \in Present : story[s].status \in SeenStatuses
      /\ Present # {} /\ Present \subseteq Stories
  BY <1>1, PresentStories DEF SeenStatuses, Present
<1>3. \A s \in Present : story[s].status \in {"complete", "failed"}
  BY <1>2 DEF StoryStatuses
<1>4. ASSUME NEW s \in posted PROVE Decided(s)
  <2>1. s \in Present
    BY DEF ActorsKnow
  <2>2. CASE story[s].status = "complete"
    BY <1>1, <1>2, <2>1, <2>2 DEF PublishedHasAnalysis, Decided
  <2>3. CASE story[s].status = "failed"
    BY <2>3 DEF FailuresAreDecided
  <2> QED
    BY <1>3, <2>1, <2>2, <2>3
<1>5. ASSUME NEW c \in Collectors
      PROVE  /\ Phase(c) \notin Early \cup {"marking", "fetching", "broken"}
             /\ Phase(c) \in {"preparing", "inserted"} => actor[c].todo = {}
  <2>1. TodoIsFresh(c)
    BY DEF FailuresAreDecided
  <2>2. Phase(c) \notin Early
    BY <1>2, <1>3 DEF AloneBeforeListing
  <2>3. Phase(c) \notin {"marking", "fetching", "broken"}
    <3> SUFFICES ASSUME Phase(c) \in {"marking", "fetching", "broken"} PROVE FALSE
      OBVIOUS
    <3>1. actor[c].story \in Present
      BY DEF ActorsKnow, WithStory
    <3>2. story[actor[c].story].status \in ActiveStatuses
      BY <2>1 DEF TodoIsFresh
    <3> QED
      BY <1>3, <3>1, <3>2 DEF ActiveStatuses
  <2>4. ASSUME Phase(c) \in {"preparing", "inserted"}, NEW s \in actor[c].todo
        PROVE  FALSE
    <3>1. s \in Present
      BY <2>4 DEF ActorsKnow, WithTodo, WithStory
    <3>2. story[s].status = "pending"
      BY <2>1, <2>4 DEF TodoIsFresh, WithTodo, WithStory
    <3> QED
      BY <1>3, <3>1, <3>2
  <2> QED
    BY <2>2, <2>3, <2>4
<1> QED
  BY <1>4, <1>5 DEF AllDecided

\* Before a collector takes the run up, nobody has released it.
LEMMA ClaimedUnreleased ==
    ASSUME AloneBeforeListing, "late collector" \notin mishaps',
           NEW c \in Collectors, ClaimRun(c)
    PROVE  ~Released
<1>1. run.status = "pending" \/ (run.status = "collecting" /\ Abandoned)
  BY DEF ClaimRun, GoesWrong
<1>2. run.status = "pending"
  BY <1>1 DEF AloneBeforeListing, Abandoned
<1> QED
  BY <1>2 DEF AloneBeforeListing, Released, MayRelease, Deciding

\* When every job is decided, only a collector that takes up the run changes
\* that.
LEMMA AllDecidedStays ==
    ASSUME TypeOK, AllDecided, "error" \notin mishaps', [Next]_vars,
           \A c \in Collectors : ~ClaimRun(c)
    PROVE  AllDecided'
<1>1. /\ Tasks \cap Collectors = {}
      /\ Tasks \subseteq Actors /\ Collectors \subseteq Actors
  BY PipelineAssumption DEF Actors
<1>2. \A c \in Collectors :
         /\ Phase(c) \notin Early \cup {"marking", "fetching", "broken"}
         /\ Phase(c) \in {"preparing", "inserted"} => actor[c].todo = {}
  BY DEF AllDecided
<1>3. UNCHANGED posted => \A s \in posted' : Decided(s)'
  <2>1. \A s \in posted : s \in Stories /\ Decided(s)
    BY DEF AllDecided, TypeOK
  <2> QED
    BY <2>1, DecidedStays
<1>4. ASSUME NEW c \in Collectors, actor'[c] = actor[c]
      PROVE  /\ Phase(c)' \notin Early \cup {"marking", "fetching", "broken"}
             /\ Phase(c)' \in {"preparing", "inserted"} => actor'[c].todo = {}
  BY <1>2, <1>4 DEF Phase
<1>5. ASSUME NEW c \in Collectors, CollectorStep(c)
      PROVE  AllDecided'
  <2>1. Phase(c) \notin Early \cup {"idle", "marking", "fetching", "broken"}
    <3>1. Phase(c) # "idle"
      BY <1>5
         DEF CollectorStep, ReadRunToCollect, StartRun, SaveStory, EndIngestion,
             IngestionFails, ListStories, NextStory, MarkCollecting,
             PreparationFails, InsertJob, ReuseAnalysis, MarkAnalyzing,
             MarkUnprepared, AllPrepared
    <3> QED
      BY <1>2, <3>1
  <2>2. /\ UNCHANGED posted
        /\ \A d \in Collectors \ {c} : actor'[d] = actor[d]
    BY <1>1, <1>5, <2>1, CollectorFrame
  <2>3. CollectorMove(c)
    BY <1>5, CollectorMoves
  <2>4. /\ Phase(c)' \notin Early \cup {"marking", "fetching", "broken"}
        /\ Phase(c)' \in {"preparing", "inserted"} => actor'[c].todo = {}
    BY <1>2, <2>1, <2>3 DEF CollectorMove, Early, KeepsTodo
  <2> QED
    BY <1>3, <1>4, <2>2, <2>4 DEF AllDecided
<1>6. ASSUME NEW t \in Tasks, TakeJob(t) \/ TaskStep(t)
      PROVE  AllDecided'
  <2>1. UNCHANGED posted /\ \A c \in Collectors : actor'[c] = actor[c]
    BY <1>6, TaskFrame
  <2> QED
    BY <1>3, <1>4, <2>1 DEF AllDecided
<1>7. ASSUME NEW a \in Actors, ReconcilerStep(a) \/ Stop(a)
      PROVE  AllDecided'
  <2>1. UNCHANGED posted /\ \A b \in Actors \ {a} : actor'[b] = actor[b]
    BY <1>7, ReconcilerFrame DEF ledger
  <2>2. Phase(a)' \notin Early \cup {"marking", "fetching", "broken", "preparing",
                                    "inserted"}
    BY <1>7, ReconcilerMoves DEF ReconcilerMove, Early, Deciding
  <2> QED
    BY <1>1, <1>3, <1>4, <2>1, <2>2 DEF AllDecided
<1>8. CASE UNCHANGED vars
  BY <1>3, <1>4, <1>8 DEF vars, ledger, AllDecided
<1> QED
  BY <1>5, <1>6, <1>7, <1>8 DEF Next

\* Whoever may release the newsletter saw that others may, or that no story is
\* active.
LEMMA ReleasedBefore ==
    ASSUME TypeOK, ActorsKnow, [Next]_vars, Released'
    PROVE  \/ Released
           \/ SeenStatuses \cap ActiveStatuses = {} /\ SeenStatuses # {}
<1>1. /\ Tasks \cap Collectors = {}
      /\ Tasks \subseteq Actors /\ Collectors \subseteq Actors
  BY PipelineAssumption DEF Actors
<1>2. ASSUME NEW b \in Actors, actor'[b] = actor[b], MayRelease(b)'
      PROVE  Released
  <2>1. MayRelease(b)
    BY <1>2 DEF MayRelease, Phase
  <2> QED
    BY <2>1 DEF Released
<1>3. ASSUME NEW c \in Collectors, ClaimRun(c) \/ CollectorStep(c)
      PROVE  Released
  <2>1. run'.ready = run.ready /\ \A b \in Actors \ {c} : actor'[b] = actor[b]
    BY <1>3, CollectorFrame, CollectorsRun
  <2>2. Phase(c)' \notin {"has run", "has stories"} \cup Deciding
    BY <1>3, CollectorMoves DEF CollectorMove, Deciding
  <2>3. ~MayRelease(c)'
    BY <2>2 DEF MayRelease
  <2> QED
    BY <1>2, <2>1, <2>3 DEF Released
<1>4. ASSUME NEW t \in Tasks, TakeJob(t) \/ TaskStep(t)
      PROVE  Released
  <2>1. UNCHANGED run /\ \A b \in Actors \ {t} : actor'[b] = actor[b]
    BY <1>4, TaskFrame
  <2>2. Phase(t)' \notin {"has run", "has stories"} \cup Deciding
    BY <1>4, TaskMoves DEF TaskMove, Deciding, Asking
  <2>3. ~MayRelease(t)'
    BY <2>2 DEF MayRelease
  <2> QED
    BY <1>2, <2>1, <2>3 DEF Released
<1>5. ASSUME NEW a \in Actors, ReconcilerStep(a) \/ Stop(a)
      PROVE  \/ Released
             \/ SeenStatuses \cap ActiveStatuses = {} /\ SeenStatuses # {}
  <2>1. /\ ReconcilerMove(a)
        /\ \A b \in Actors \ {a} : actor'[b] = actor[b]
    BY <1>5, ReconcilerMoves, ReconcilerFrame
  <2>2. actor[a] \in ActorStates /\ run \in RunRow
    BY DEF TypeOK
  <2>3. run'.ready => Released
    <3>1. run' = [run EXCEPT !.humanized = TRUE] => run'.ready = run.ready
      BY <2>2 DEF RunRow
    <3>2. \/ run'.ready = run.ready
          \/ Phase(a) = "writing" /\ run'.ready = actor[a].ready
      BY <1>5, <3>1, ReconcilerFrame
    <3> QED
      BY <3>2 DEF Released, MayRelease, Deciding
  <2>4. ASSUME MayRelease(a)'
        PROVE  \/ Released
               \/ SeenStatuses \cap ActiveStatuses = {} /\ SeenStatuses # {}
    <3>1. SeenStatuses \in SUBSET StoryStatuses /\ (SeenStatuses = {} => SeenCount = 0)
      BY PresentStories DEF SeenStatuses, SeenCount
    <3>2. CASE Phase(a) = "reading"
      BY <2>1, <2>4, <3>2 DEF ReconcilerMove, MayRelease, Released, Deciding
    <3>3. CASE Phase(a) = "has run" /\ Phase(a)' \in Deciding
      <4>1. /\ SeenCount # 0
            /\ actor'[a].status
                  = RunStatus(SeenStatuses, SeenCount, actor[a].row.error)
            /\ actor'[a].ready =
                  (actor[a].row.ready \/ actor'[a].status \in DeliverableStatuses)
        BY <2>1, <3>3 DEF ReconcilerMove, Deciding
      <4>2. actor'[a].ready
        BY <2>4, <3>3 DEF MayRelease, Deciding
      <4>3. SeenStatuses \in SUBSET StoryStatuses
        BY <3>1
      <4>4. RunStatus(SeenStatuses, SeenCount, actor[a].row.error) \in DeliverableStatuses
               => SeenStatuses \cap ActiveStatuses = {}
        BY <4>3, RunStatusCases
      <4>5. CASE actor[a].row.ready
        BY <3>3, <4>5 DEF Released, MayRelease
      <4>6. CASE actor'[a].status \in DeliverableStatuses
        BY <3>1, <4>1, <4>4, <4>6
      <4> QED
        BY <4>1, <4>2, <4>5, <4>6
    <3>4. CASE Phase(a) = "has stories" /\ Phase(a)' \in Deciding
      <4>1. /\ actor[a].count # 0
            /\ actor'[a].status
                  = RunStatus(actor[a].statuses, actor[a].count, run.error)
            /\ actor'[a].ready =
                  (run.ready \/ actor'[a].status \in DeliverableStatuses)
        BY <2>1, <3>4 DEF ReconcilerMove, Deciding
      <4>2. actor'[a].ready
        BY <2>4, <3>4 DEF MayRelease, Deciding
      <4>3. actor[a].statuses \in SUBSET StoryStatuses
        BY <2>2, <3>4, Shapes
      <4>4. RunStatus(actor[a].statuses, actor[a].count, run.error) \in DeliverableStatuses
               => actor[a].statuses \cap ActiveStatuses = {}
        BY <4>3, RunStatusCases
      <4>5. CASE run.ready
        BY <4>5 DEF Released
      <4>6. CASE actor'[a].status \in DeliverableStatuses
        <5>1. actor[a].statuses # {}
          BY <3>4, <4>1 DEF ActorsKnow
        <5>2. MayRelease(a)
          BY <3>4, <4>1, <4>4, <4>6, <5>1 DEF MayRelease
        <5> QED
          BY <5>2 DEF Released
      <4> QED
        BY <4>1, <4>2, <4>5, <4>6
    <3>5. CASE Phase(a) \in Deciding /\ Phase(a)' \in Deciding
      <4>1. actor'[a].ready = actor[a].ready
        BY <2>1, <3>5 DEF ReconcilerMove, Deciding
      <4>2. actor'[a].ready
        BY <2>4, <3>5 DEF MayRelease, Deciding
      <4> QED
        BY <3>5, <4>1, <4>2 DEF MayRelease, Released
    <3>6. Phase(a)' \notin {"failing", "idle"}
      BY <2>4 DEF MayRelease, Deciding
    <3> QED
      BY <2>1, <3>2, <3>3, <3>4, <3>5, <3>6 DEF ReconcilerMove
  <2> QED
    BY <1>2, <2>1, <2>3, <2>4 DEF Released
<1>6. CASE UNCHANGED vars
  BY <1>2, <1>6 DEF vars, Released
<1> QED
  BY <1>3, <1>4, <1>5, <1>6 DEF Next

LEMMA ReleaseInit == Init => ReleaseInv
<1> SUFFICES ASSUME Init PROVE FailuresAreDecided /\ ~Released
  BY DEF ReleaseInv
<1>1. \A a \in Actors : Phase(a) = "idle"
  BY DEF Init, Phase, Idle
<1>2. posted = {} /\ ~run.ready
  BY DEF Init, Queue!LedgerInit
<1>3. FailuresAreDecided
  BY <1>1, <1>2 DEF FailuresAreDecided, TodoIsFresh, Actors, WithTodo, WithStory
<1>4. ~Released
  BY <1>1, <1>2 DEF Released, MayRelease, Deciding
<1> QED
  BY <1>3, <1>4

LEMMA ReleaseStep ==
    RowsInv /\ ActorsKnow /\ OneCollection /\ TasksHold /\ ReleaseInv /\ [Next]_vars
        => ReleaseInv'
<1> SUFFICES ASSUME RowsInv, ActorsKnow, OneCollection, TasksHold, ReleaseInv,
                    [Next]_vars, Orderly'
             PROVE  FailuresAreDecided' /\ (Released' => AllDecided')
  BY DEF ReleaseInv
<1>1. TypeOK
  BY DEF RowsInv, RowsAgree
<1>2. /\ mishaps \subseteq mishaps'
      /\ "error" \notin mishaps' /\ "late task" \notin mishaps'
      /\ "late collector" \notin mishaps'
      /\ CollectedOnce' /\ CollectedOnce /\ Orderly
  BY <1>1, Growing DEF Orderly, CollectedOnce
<1>3. AloneBeforeListing
  BY <1>2 DEF OneCollection
<1>4. AloneBeforeListing'
  <2>1. OneCollection'
    BY <1>1, CollectionStep
  <2> QED
    BY <1>2, <2>1 DEF OneCollection
<1>5. FailuresAreDecided /\ (Released => AllDecided)
  BY <1>2 DEF ReleaseInv
<1>6. FailuresAreDecided'
  BY <1>1, <1>2, <1>3, <1>4, <1>5, FailuresStep
<1>7. ASSUME Released' PROVE AllDecided'
  <2>1. AllDecided
    BY <1>1, <1>3, <1>5, <1>7, ReleasedBefore, NothingActive
  <2>2. CASE \A c \in Collectors : ~ClaimRun(c)
    BY <1>1, <1>2, <2>1, <2>2, AllDecidedStays
  <2>3. ASSUME NEW c \in Collectors, ClaimRun(c) PROVE FALSE
    <3>1. ~Released
      BY <1>2, <1>3, <2>3, ClaimedUnreleased
    <3>2. run.ready = run'.ready
      BY <1>1, <2>3, CollectorsRun
    <3>3. \A b \in Actors \ {c} : actor'[b] = actor[b]
      BY <1>1, <2>3, CollectorFrame
    <3>4. Phase(c)' \notin {"has run", "has stories"} \cup Deciding
      BY <1>1, <2>3, CollectorMoves DEF CollectorMove, Deciding
    <3>5. \A b \in Actors \ {c} : MayRelease(b)' = MayRelease(b)
      BY <3>3 DEF MayRelease, Phase
    <3>6. ~MayRelease(c)'
      BY <3>4 DEF MayRelease
    <3> QED
      BY <1>7, <3>1, <3>2, <3>5, <3>6 DEF Released
  <2> QED
    BY <2>2, <2>3
<1> QED
  BY <1>6, <1>7

\* While the run is collected once, no attempt outlasts its lease and no story
\* is marked failed after its job was inserted, the newsletter is released
\* only when every job is decided, by whatever interleaving of the
\* reconciliations (reconcileRun).
THEOREM ReleasesAreDecided == Spec => []ReleasedIsDecided
<1> DEFINE Inv == /\ RowsInv /\ ActorsKnow /\ OneCollection
                  /\ TasksHold /\ ReleaseInv
<1>1. Init => Inv
  BY RowsInit, KnowInit, CollectionInit, HoldInit, ReleaseInit
<1>2. Inv /\ [Next]_vars => Inv'
  <2> SUFFICES ASSUME Inv, [Next]_vars PROVE Inv'
    OBVIOUS
  <2>1. TypeOK
    BY DEF RowsInv, RowsAgree
  <2> QED
    BY <2>1, RowsStep, KnowStep, CollectionStep, HoldStep, ReleaseStep
<1>3. Inv => ReleasedIsDecided
  BY DEF ReleaseInv, Released, ReleasedIsDecided, Orderly, AllDecided
<1> QED
  BY <1>1, <1>2, <1>3, PTL DEF Spec

=============================================================================
