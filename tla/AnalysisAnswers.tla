---------------------------- MODULE AnalysisAnswers ----------------------------
(***************************************************************************)
(* What becomes of the LLM's answer about one story: the contract it is    *)
(* brought into (src/src/analysis/contract.ts), the comments it may cite   *)
(* (citations.ts), the check and the retries of processClaimedJob          *)
(* (src/src/pipeline/digest-pipeline.ts) and workerErrorOutcome            *)
(* (src/src/worker/runner.ts), and the rewriting of what readers see by    *)
(* the humanizer.                                                          *)
(*                                                                         *)
(* Of a claim the ids that support it are kept and whether its wording is  *)
(* the humanizer's; consensus and viewpoints stand for all lists of        *)
(* claims, the second for the open questions, too.                         *)
(***************************************************************************)
EXTENDS Integers, Sequences, FiniteSets, SequencesExt, Subsequences

CONSTANTS
    CitedIds,            \* ids an answer may cite
    SelectedComments,
    LlmAnswers,          \* answers that fit the provider's schema
    MaxClaims, MaxInsights, MaxSupport, MaxNotes,
    MaxCitationAttempts,
    MaxAttempts          \* bound: attempts, those lost with their worker included

ASSUME AnswerAssumption ==
    /\ {MaxClaims, MaxInsights, MaxSupport, MaxNotes, MaxCitationAttempts, MaxAttempts}
          \subseteq Nat \ {0}
    /\ \A a \in LlmAnswers :
          /\ a.prose \in {"whole", "cut", "foreign"} /\ a.thesis \in BOOLEAN
          /\ a.notes \in Nat
          /\ {a.consensus, a.viewpoints} \subseteq Seq(Seq(CitedIds))
          /\ a.insights \in Seq(CitedIds)

VARIABLES
    analysisState,   \* of the job: queued, running, succeeded, failed, incomplete
    attempts, answered,
    answer,          \* the answer that was stored
    output           \* the analysis that was stored, or what the humanizer made of it

answerVars == <<analysisState, attempts, answered, answer, output>>

NoOutput == [stored |-> FALSE]

NoAnswer == [prose |-> "none"]

-----------------------------------------------------------------------------
(* normalizeAnalysisOutputCandidate and the schema                         *)

AtMost(seq, n) == SubSeq(seq, 1, IF n < Len(seq) THEN n ELSE Len(seq))

Deduplicated(ids) ==
    EntriesAt(ids, {i \in DOMAIN ids : \A j \in 1 .. i - 1 : ids[j] # ids[i]})

\* claims without support are dropped before the list is cut
NormalizedClaims(claims) ==
    LET all == [i \in DOMAIN claims |->
                   [ids |-> AtMost(Deduplicated(claims[i]), MaxSupport), own |-> TRUE]]
    IN  AtMost(EntriesAt(all, {i \in DOMAIN all : all[i].ids # <<>>}), MaxClaims)

NormalizedAnswer(a) ==
    [consensus |-> NormalizedClaims(a.consensus),
     viewpoints |-> NormalizedClaims(a.viewpoints),
     insights |-> AtMost(a.insights, MaxInsights),
     thesis |-> a.thesis, notes |-> IF a.notes < MaxNotes THEN a.notes ELSE MaxNotes,
     warned |-> FALSE, confidence |-> "given", summary |-> "given", stored |-> TRUE]

-----------------------------------------------------------------------------
(* citations.ts                                                            *)

SelectedOf(ids) == EntriesAt(ids, {i \in DOMAIN ids : ids[i] \in SelectedComments})

\* a claim that would lose all its support is left for the check
PrunedClaims(claims) ==
    [i \in DOMAIN claims |->
        IF SelectedOf(claims[i].ids) = <<>> THEN claims[i]
        ELSE [claims[i] EXCEPT !.ids = SelectedOf(@)]]

Pruned(o) == [o EXCEPT !.consensus = PrunedClaims(@), !.viewpoints = PrunedClaims(@)]

Cited(o) == (UNION {ToSet(o.consensus[i].ids) : i \in DOMAIN o.consensus})
                \cup (UNION {ToSet(o.viewpoints[i].ids) : i \in DOMAIN o.viewpoints})
                \cup ToSet(o.insights)

CitesSelected(o) == Cited(o) \subseteq SelectedComments

Grounded(claims) ==
    PrunedClaims(EntriesAt(claims, {i \in DOMAIN claims : SelectedOf(claims[i].ids) # <<>>}))

\* mutant: the note is appended and the oldest ones stay
DegradedNoteLost(o) ==
    [o EXCEPT !.consensus = Grounded(@), !.viewpoints = Grounded(@),
              !.insights = SelectedOf(@),
              !.notes = IF @ < MaxNotes THEN @ + 1 ELSE MaxNotes,
              !.warned = o.notes < MaxNotes,
              !.confidence = "low", !.summary = "limited"]

\* the note about it is the last and pushes out the first; the summary is the
\* thesis, if there is one, and a warning
Degraded(o) ==
    [o EXCEPT !.consensus = Grounded(@), !.viewpoints = Grounded(@),
              !.insights = SelectedOf(@),
              !.notes = IF @ < MaxNotes THEN @ + 1 ELSE MaxNotes, !.warned = TRUE,
              !.confidence = "low", !.summary = "limited"]

-----------------------------------------------------------------------------

AnswerInit ==
    /\ analysisState = "queued"
    /\ attempts = 0 /\ answered = 0
    /\ answer = NoAnswer
    /\ output = NoOutput

\* claimed for the first time, to be retried, or after its worker was lost
ClaimAnalysis ==
    /\ analysisState \in {"queued", "running"} /\ attempts < MaxAttempts
    /\ analysisState' = "running"
    /\ attempts' = attempts + 1
    /\ UNCHANGED <<answered, answer, output>>

MayAskAgain == attempts < MaxCitationAttempts

Stores(a, o) == analysisState' = "succeeded" /\ answer' = a /\ output' = o

\* the error is thrown, and workerErrorOutcome looks at the attempt
Throws(last) ==
    /\ analysisState' = IF MayAskAgain THEN "queued" ELSE last
    /\ UNCHANGED <<answer, output>>

\* prose that ends within a sentence first, then the language, then citations
ProcessAnswer ==
    /\ analysisState = "running"
    /\ answered' = answered + 1
    /\ \E a \in LlmAnswers :
          LET o == Pruned(NormalizedAnswer(a)) IN
          CASE a.prose = "cut"     -> Throws("incomplete")
            [] a.prose = "foreign" -> Throws("failed")
            [] a.prose = "whole"   ->
                 IF CitesSelected(o) THEN Stores(a, o)
                 ELSE IF attempts >= MaxCitationAttempts THEN Stores(a, Degraded(o))
                 ELSE Throws("failed")
    /\ UNCHANGED attempts

\* selectDisplayedDiscussionClaim, patchHumanizedAnalysis
Humanized(o) ==
    IF o.consensus # <<>> THEN [o EXCEPT !.consensus[1].own = FALSE]
    ELSE IF o.viewpoints # <<>> THEN [o EXCEPT !.viewpoints[1].own = FALSE]
    ELSE o

\* once the run is over; the discussion may be left as it is
Humanize ==
    /\ analysisState = "succeeded" /\ output.summary # "rewritten"
    /\ \/ output' = [Humanized(output) EXCEPT !.summary = "rewritten"]
       \/ output' = [output EXCEPT !.summary = "rewritten"]
    /\ UNCHANGED <<analysisState, attempts, answered, answer>>

AnswerNext == ClaimAnalysis \/ ProcessAnswer \/ Humanize

AnswerSpec == AnswerInit /\ [][AnswerNext]_answerVars

-----------------------------------------------------------------------------

AnswerTypeOK ==
    /\ analysisState \in {"queued", "running", "succeeded", "failed", "incomplete"}
    /\ attempts \in 0 .. MaxAttempts /\ answered \in 0 .. attempts
    /\ answer \in LlmAnswers \cup {NoAnswer}
    /\ output.stored <=> analysisState = "succeeded"
    /\ output.stored =>
          /\ Len(output.consensus) <= MaxClaims /\ Len(output.viewpoints) <= MaxClaims
          /\ Len(output.insights) <= MaxInsights /\ output.notes <= MaxNotes

ClaimsOf(o) == {o.consensus[i] : i \in DOMAIN o.consensus}
                   \cup {o.viewpoints[i] : i \in DOMAIN o.viewpoints}

\* A stored analysis, humanized or not, cites only comments the LLM was given,
\* and every claim of the discussion has the support of at least one.
CitationsAreSelected ==
    output.stored =>
        /\ Cited(output) \subseteq SelectedComments
        /\ \A c \in ClaimsOf(output) : c.ids # <<>> /\ Len(c.ids) <= MaxSupport

\* Nothing of the discussion is lost for its citations, but for claims beyond
\* the limits of the contract, without the analysis saying so: it is of low
\* confidence and has a note, and the answer was not the first one asked for.
LossIsSaid ==
    output.stored =>
        LET before == NormalizedAnswer(answer)
            lost   == \/ Len(output.consensus) < Len(before.consensus)
                      \/ Len(output.viewpoints) < Len(before.viewpoints)
                      \/ Len(output.insights) < Len(before.insights)
        IN  lost => /\ output.confidence = "low" /\ output.warned
                    /\ attempts >= MaxCitationAttempts

\* The humanizer rewrites the claim that is shown, and no other.
OnlyTheShownIsRewritten ==
    output.stored =>
        /\ \A i \in DOMAIN output.consensus : ~output.consensus[i].own => i = 1
        /\ \A i \in DOMAIN output.viewpoints :
              ~output.viewpoints[i].own => i = 1 /\ output.consensus = <<>>

\* An analysis is asked for at most as often as there are attempts at citing,
\* however many attempts were lost with their workers.
RetriesAreBounded == answered <= MaxCitationAttempts

\* What readers get of an answer is supported, says what it lost, is rewritten
\* where it is shown only, and took no more attempts than allowed.
AnswersAreSound ==
    /\ AnswerTypeOK
    /\ CitationsAreSelected
    /\ LossIsSaid
    /\ OnlyTheShownIsRewritten
    /\ RetriesAreBounded

==============================================================================
