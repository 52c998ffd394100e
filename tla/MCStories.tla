------------------------------- MODULE MCStories -------------------------------
(***************************************************************************)
(* The parts around the pipeline, which share no state with each other:    *)
(* which editions there are, a story's comments, the choice of what the    *)
(* model reads, its article, the model's answers and their reuse, and the  *)
(* limits on requests.  A behaviour is one of a single part; the others    *)
(* stay in an initial state.                                               *)
(***************************************************************************)
EXTENDS CommentThread, ContextSelection, ArticleAcquisition, AnalysisReuse,
        AnalysisAnswers, EditionSchedule, RequestLimits, TLC

ASSUME ClocksAssumption == SteadyClocks

VARIABLE part

Parts == {"schedule", "demand", "thread", "selection", "acquisition", "reuse",
          "answers", "limits"}

vars == <<part, threadVars, selectionVars, acquisitionVars, reuseVars, answerVars,
          scheduleVars, limitVars>>

\* a chain, a fork, and a thread in which the ids form a circle
SomeThreads ==
    {0 :> <<1>> @@ 1 :> <<2>> @@ 2 :> <<3>> @@ 3 :> <<>>,
     0 :> <<1, 2>> @@ 1 :> <<3>> @@ 2 :> <<>> @@ 3 :> <<>>,
     0 :> <<1, 2, 1>> @@ 1 :> <<2, 3>> @@ 2 :> <<1>> @@ 3 :> <<>>}

\* every discussion of four comments, and one with a circle
AnsweredBy == {p \in [1 .. 4 -> 0 .. 3] : \A c \in 1 .. 4 : p[c] < c} \cup {<<2, 1, 2, 0>>}

SomeDiscussions ==
    {[c \in 1 .. 4 |-> [parent |-> p[c], text |-> t[c]]] :
        p \in AnsweredBy, t \in [1 .. 4 -> {"short", "long", "quote", "none"}]}

SomeArticles == UNION {[1 .. n -> [tokens : {1, 2, 4}, heading : BOOLEAN]] : n \in 0 .. 4}

SomeSizes == UNION {[1 .. n -> 1 .. 3] : n \in 0 .. 4}

SomePages ==
    {[type |-> "html", texts |-> <<"full", None, None>>],
     [type |-> "html", texts |-> <<None, None, "brief">>],
     [type |-> "text", texts |-> <<"full">>]}

\* 9 stands for a comment that was not selected
SomeClaims == {<<>>, <<1>>, <<9>>, <<1, 1, 2, 9>>, <<9, 8, 1>>}

Few(n) == UNION {[1 .. k -> SomeClaims] : k \in 0 .. n}

SomeAnswers ==
    [consensus : Few(3), viewpoints : Few(1), insights : {<<>>, <<1>>, <<9, 1>>},
     thesis : {TRUE}, notes : {0, 2}, prose : {"whole"}]
    \cup [consensus : {<<>>}, viewpoints : {<<>>}, insights : {<<>>},
          thesis : {TRUE}, notes : {0}, prose : {"cut", "foreign"}]

SomeHours == -12 .. 12

\* the clocks go forward past no edition's time and past one, and back over one
SomeZones ==
    {[h \in SomeHours |-> IF h < change[1] THEN -1 ELSE -1 + change[2]] :
        change \in {<<1, 1>>, <<2, 1>>, <<3, -1>>}}

Ranking == <<1, 2, 3>>

Unavailable == {{2}}

\* a sign-up with two identities, and others with the first of them
Identified == [r \in Requests |-> IF r = "r1" THEN <<"client", "email">> ELSE <<"client">>]

Init ==
    /\ part \in Parts
    /\ part = "thread" \/ kids = CHOOSE t \in Threads : TRUE
    /\ part = "selection" \/ input = [of |-> "request", value |-> <<>>]
    /\ part = "acquisition" \/ source = [kind |-> "page", normal |-> TRUE]
    /\ part = "reuse" \/ content = [s \in Stories |->
                            [document |-> FALSE, article |-> Nothing, comments |-> Nothing]]
    /\ part = "schedule" \/ zone = CHOOSE z \in Zones : TRUE
    /\ ThreadInit /\ SelectionInit /\ AcquisitionInit /\ ReuseInit
    /\ AnswerInit /\ ScheduleInit /\ LimitsInit

Schedule == part = "schedule" /\ ScheduleNext
            /\ UNCHANGED <<part, threadVars, selectionVars, acquisitionVars, reuseVars,
                           answerVars, limitVars>>

Demand == part = "demand" /\ DemandNext
          /\ UNCHANGED <<part, threadVars, selectionVars, acquisitionVars, reuseVars,
                         answerVars, limitVars>>

Thread == part = "thread" /\ ThreadNext
          /\ UNCHANGED <<part, selectionVars, acquisitionVars, reuseVars, answerVars,
                         scheduleVars, limitVars>>

Selection == part = "selection" /\ SelectionNext
             /\ UNCHANGED <<part, threadVars, acquisitionVars, reuseVars, answerVars,
                            scheduleVars, limitVars>>

Acquisition == part = "acquisition" /\ AcquisitionNext
               /\ UNCHANGED <<part, threadVars, selectionVars, reuseVars, answerVars,
                              scheduleVars, limitVars>>

Reuse == part = "reuse" /\ ReuseNext
         /\ UNCHANGED <<part, threadVars, selectionVars, acquisitionVars, answerVars,
                        scheduleVars, limitVars>>

Answering == part = "answers" /\ AnswerNext
             /\ UNCHANGED <<part, threadVars, selectionVars, acquisitionVars, reuseVars,
                            scheduleVars, limitVars>>

Limits == part = "limits" /\ LimitsNext
          /\ UNCHANGED <<part, threadVars, selectionVars, acquisitionVars, reuseVars,
                         answerVars, scheduleVars>>

Next == Schedule \/ Demand \/ Thread \/ Selection \/ Acquisition \/ Reuse
        \/ Answering \/ Limits

\* a part that has to end does not stop while there is something it can do
Spec ==
    /\ Init /\ [][Next]_vars
    /\ WF_threadVars(part = "thread" /\ ThreadNext)
    /\ WF_acquisitionVars(part = "acquisition" /\ AcquisitionNext)
    /\ WF_limitVars(part = "limits" /\ LimitsNext)

\* Whatever is begun around the pipeline comes to an end: the walk of a thread
\* (getCommentDescendants), the acquisition of an article (acquireArticle), and
\* a transaction on a limit (consumeSignupRateLimit).
PartsEnd == WalkEnds /\ AcquisitionEnds /\ RequestsAreAnswered

==============================================================================
