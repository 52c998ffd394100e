------------------------------ MODULE LlmSpending ------------------------------
(***************************************************************************)
(* Requests to the language model and what they cost: the gate of          *)
(* src/src/worker/concurrency.ts, authorizeLlmSubmission of                *)
(* operations/observability.ts, the retries and the watchdog of            *)
(* analysis/llm-analysis-client.ts and llm-humanizer-client.ts, and the    *)
(* usage records of analysis/usage.ts, as the tasks of worker/runner.ts    *)
(* and the reconciliation of digest-pipeline.ts go through them.           *)
(*                                                                         *)
(* Money is counted in small units: a request may cost up to Estimate, the *)
(* most that was allowed for it, and one limit stands for those of the day *)
(* and the month.  AnalysisQueue has the leases and fences of the jobs.    *)
(***************************************************************************)
EXTENDS Integers, FiniteSets, Sequences

CONSTANTS
    Processes, Tasks,
    HomeOf,              \* the process of each task
    Jobs,                \* bound: analysis jobs of the period
    GateLimit,           \* llmConcurrency
    Estimate, HardLimit, \* maximum cost of a request, limit of the period
    MaximumRetries,      \* LLM_MAX_RETRIES
    MaxAnswers,          \* MAX_CITATION_ATTEMPTS
    Mishaps, MaxMishaps  \* bound: what may go wrong (see MishapKinds), how often

\* a claim is committed after one with a later time; a lease runs out while
\* its task works; a process stops; a statement fails; an answer comes without
\* usage or a failed request costs money; a run is humanized
MishapKinds == {"backdated", "late", "stop", "broken", "unbilled", "humanizer"}

NoJob == "none"

ASSUME SpendingAssumption ==
    /\ IsFiniteSet(Tasks) /\ IsFiniteSet(Jobs)
    /\ HomeOf \in [Tasks -> Processes]
    /\ {GateLimit, Estimate, MaxAnswers} \subseteq Nat \ {0}
    /\ {HardLimit, MaximumRetries} \subseteq Nat
    /\ NoJob \notin Jobs /\ "none" \notin Tasks
    /\ Mishaps \subseteq MishapKinds /\ MaxMishaps \in Nat

VARIABLES
    gate,       \* ConcurrencyGate of each process
    earlier,    \* the running jobs whose started_at is before that of each job
    job,        \* analysis_jobs
    task,       \* what each task is doing
    recorded,   \* the sum of llm_usage
    billed,     \* what the provider has charged
    untold,     \* what decisions could not know of: see OverrunExplained
    mishaps     \* how often something has gone wrong

vars == <<gate, earlier, job, task, recorded, billed, untold, mishaps>>

-----------------------------------------------------------------------------
(* The gate *)

Gate == [active : Nat, waiting : Seq(Tasks), woken : Seq(Tasks)]

EmptyGate == [active |-> 0, waiting |-> <<>>, woken |-> <<>>]

Passes(g) == g.active < GateLimit

\* acquire(): a waiter that was woken goes on before anything else happens in
\* its process, so nobody comes in between
Acquired(g, t) ==
    IF Passes(g) THEN [g EXCEPT !.active = @ + 1]
    ELSE [g EXCEPT !.waiting = Append(@, t)]

\* the rest of acquire() once the waiter's promise is resolved
Resumed(g) == [g EXCEPT !.active = @ + 1, !.woken = Tail(@)]

\* mutant: waiters are not woken
ReleasedOnly(g) == [g EXCEPT !.active = @ - 1]

\* release()
Released(g) ==
    IF g.waiting = <<>> THEN [g EXCEPT !.active = @ - 1]
    ELSE [g EXCEPT !.active = @ - 1, !.waiting = Tail(@),
                   !.woken = Append(@, Head(g.waiting))]

-----------------------------------------------------------------------------
(* Jobs and tasks *)

JobRow == [status : {"queued", "running", "settled"}, answers : 0 .. MaxAnswers,
           holder : Tasks \cup {"none"}]

Running == {j \in Jobs : job[j].status = "running"}

Stages == {"idle", "claimed", "waiting", "entered", "stamped", "asking",
           "answered", "finishing", "finished"}

\* seen: recorded usage when the decision under way took its time; request:
\* which attempt of the client is; owed: cost of the answer in hand; verdict:
\* what it led to.  Each is 0 or "none" again when it is over.
TaskState == [stage : Stages, job : Jobs \cup {NoJob}, seen : Nat,
              request : 0 .. MaximumRetries + 1, owed : 0 .. Estimate,
              verdict : {"none", "succeeded", "retry", "failed", "skipped_budget"}]

Idle == [stage |-> "idle", job |-> NoJob, seen |-> 0, request |-> 0,
         owed |-> 0, verdict |-> "none"]

GateOf(t) == gate[HomeOf[t]]

At(t, stage) == task[t].stage = stage

\* the process runs its woken waiter first
MayRun(t) == GateOf(t).woken = <<>>

Goes(t, stage) == task' = [task EXCEPT ![t].stage = stage]

Happens(kind) ==
    /\ kind \in Mishaps /\ mishaps < MaxMishaps
    /\ mishaps' = mishaps + 1

Holds(t) == task[t].job # NoJob /\ job[task[t].job].holder = t

\* j starts now, but before the running jobs of later
Started(j, later) ==
    [k \in Jobs |->
        IF k = j THEN Running \ (later \cup {j})
        ELSE (earlier[k] \ {j}) \cup (IF k \in later THEN {j} ELSE {})]

\* claimAnalysisJob, from its time on
ClaimedBy(t, j, later) ==
    /\ At(t, "idle") /\ MayRun(t)
    /\ job' = [job EXCEPT ![j].status = "running", ![j].holder = t]
    /\ earlier' = Started(j, later)
    /\ task' = [task EXCEPT ![t] = [Idle EXCEPT !.stage = "claimed", !.job = j]]
    /\ UNCHANGED <<gate, recorded, billed>>

\* a queued job, or one whose lease has run out
IsClaimable(j) ==
    \/ job[j].status = "queued"
    \/ job[j].status = "running" /\ job[j].holder = "none"

Claim(t, j) ==
    /\ IsClaimable(j)
    /\ ClaimedBy(t, j, {})
    /\ UNCHANGED <<mishaps, untold>>

\* the lease of a task that works on has run out
ClaimLate(t, j) ==
    /\ job[j].status = "running" /\ job[j].holder \notin {"none", t}
    /\ Happens("late")
    /\ untold' = untold + Estimate
    /\ ClaimedBy(t, j, {})

\* the last of the running jobs but j, from one of them on
IsLatest(later, j) ==
    /\ later \subseteq Running \ {j} /\ later # {}
    /\ \A k \in later, m \in Running \ {j} : k \in earlier[m] => m \in later

\* the claim took its time before some that are there already
ClaimBackdated(t, j) ==
    /\ IsClaimable(j)
    /\ Happens("backdated")
    /\ untold' = untold + Estimate
    /\ \E later \in SUBSET Running :
          IsLatest(later, j) /\ ClaimedBy(t, j, later)

\* ConcurrencyGate.run, up to the operation
Enter(t) ==
    /\ At(t, "claimed") /\ MayRun(t)
    /\ gate' = [gate EXCEPT ![HomeOf[t]] = Acquired(@, t)]
    /\ Goes(t, IF Passes(GateOf(t)) THEN "entered" ELSE "waiting")
    /\ UNCHANGED <<earlier, job, recorded, billed, untold, mishaps>>

Resume(t) ==
    /\ At(t, "waiting")
    /\ GateOf(t).woken # <<>> /\ Head(GateOf(t).woken) = t
    /\ gate' = [gate EXCEPT ![HomeOf[t]] = Resumed(@)]
    /\ Goes(t, "entered")
    /\ UNCHANGED <<earlier, job, recorded, billed, untold, mishaps>>

-----------------------------------------------------------------------------
(* authorizeLlmSubmission *)

\* the time that bounds the sum is taken before the lock is waited for
Stamp(t) ==
    /\ At(t, "entered") /\ MayRun(t)
    /\ task' = [task EXCEPT ![t].stage = "stamped", ![t].seen = recorded]
    /\ UNCHANGED <<gate, earlier, job, recorded, billed, untold, mishaps>>

\* mutant: running jobs are not counted
NothingReserved(j) == 0

\* estimates of the running jobs before j, or of all of them for a request
\* that belongs to no job
Reserved(j) ==
    Estimate * Cardinality(IF j = NoJob THEN Running ELSE earlier[j])

\* evaluateSpendBudget
IsAllowed(spend) == spend + Estimate <= HardLimit

Decide(t) ==
    LET spend == task[t].seen + Reserved(task[t].job)
    IN  /\ At(t, "stamped") /\ MayRun(t)
        /\ IF IsAllowed(spend)
           THEN /\ task' = [task EXCEPT ![t].stage = "asking", ![t].seen = 0,
                                        ![t].request = 1]
                /\ untold' = untold + recorded - task[t].seen
           ELSE /\ task' = [task EXCEPT ![t].stage = "finishing", ![t].seen = 0,
                                        ![t].verdict = "skipped_budget"]
                /\ UNCHANGED untold
        /\ UNCHANGED <<gate, earlier, job, recorded, billed, mishaps>>

-----------------------------------------------------------------------------
(* analyze() and humanize() *)

Costs == 0 .. Estimate

\* an answer that is complete, with its usage
Answer(t, cost) ==
    /\ At(t, "asking") /\ MayRun(t)
    /\ billed' = billed + cost
    /\ task' = [task EXCEPT ![t].stage = "answered", ![t].request = 0,
                            ![t].owed = cost]
    /\ UNCHANGED <<gate, earlier, job, recorded, untold, mishaps>>

\* an answer without usage: the cost is never known
AnswerUnbilled(t, cost) ==
    /\ At(t, "asking") /\ MayRun(t)
    /\ Happens("unbilled")
    /\ billed' = billed + cost /\ untold' = untold + cost
    /\ task' = [task EXCEPT ![t].stage = "answered", ![t].request = 0]
    /\ UNCHANGED <<gate, earlier, job, recorded>>

MayRetry(t) == task[t].request <= MaximumRetries

AfterError(t, retryable) ==
    IF retryable /\ MayRetry(t)
    THEN task' = [task EXCEPT ![t].request = @ + 1]
    ELSE task' = [task EXCEPT ![t].stage = "finishing", ![t].request = 0,
                              ![t].verdict = "failed"]

\* a request fails, by itself or because its answer is no valid output: that
\* one may have been charged
Error(t, retryable) ==
    /\ At(t, "asking") /\ MayRun(t)
    /\ AfterError(t, retryable)
    /\ UNCHANGED <<gate, earlier, job, recorded, billed, untold, mishaps>>

ErrorBilled(t, cost) ==
    /\ At(t, "asking") /\ MayRun(t)
    /\ Happens("unbilled")
    /\ billed' = billed + cost /\ untold' = untold + cost
    /\ AfterError(t, TRUE)
    /\ UNCHANGED <<gate, earlier, job, recorded>>

\* mutant: no watchdog
Unwatched(t) == FALSE

\* invokeWithWatchdog: a request that never settles is given up; humanize()
\* has no watchdog
Watchdog(t) ==
    /\ task[t].job # NoJob
    /\ Error(t, TRUE)

-----------------------------------------------------------------------------
(* What becomes of an answer *)

\* recordUsage, before anything is asked of the answer
RecordedCost(t, verdict) == task[t].owed

Verdicts == {"succeeded", "retry", "failed"}

\* a rejected answer may be asked for again, within the limit of answers
Record(t, verdict) ==
    /\ At(t, "answered") /\ MayRun(t)
    /\ verdict = "retry" =>
          task[t].job # NoJob /\ job[task[t].job].answers + 1 < MaxAnswers
    /\ recorded' = recorded + RecordedCost(t, verdict)
    /\ task' = [task EXCEPT ![t].stage = "finishing", ![t].owed = 0,
                            ![t].verdict = verdict]
    /\ UNCHANGED <<gate, earlier, job, billed, untold, mishaps>>

\* the usage cannot be stored: the attempt fails, the cost is not known
RecordBroken(t) ==
    /\ At(t, "answered") /\ MayRun(t)
    /\ Happens("broken")
    /\ untold' = untold + task[t].owed
    /\ task' = [task EXCEPT ![t].stage = "finishing", ![t].owed = 0,
                            ![t].verdict = "failed"]
    /\ UNCHANGED <<gate, earlier, job, recorded, billed>>

\* finishAnalysisJobAttempt: of its holder only
Finish(t) ==
    /\ At(t, "finishing") /\ task[t].job # NoJob /\ MayRun(t)
    /\ IF Holds(t)
       THEN LET j == task[t].job
                again == task[t].verdict = "retry"
            IN  /\ job' = [job EXCEPT ![j] =
                    [status |-> IF again THEN "queued" ELSE "settled",
                     answers |-> @.answers + (IF again THEN 1 ELSE 0),
                     holder |-> "none"]]
                /\ earlier' = [k \in Jobs |-> earlier[k] \ {j}]
       ELSE UNCHANGED <<job, earlier>>
    /\ task' = [task EXCEPT ![t] = [Idle EXCEPT !.stage = "finished"]]
    /\ UNCHANGED <<gate, recorded, billed, untold, mishaps>>

\* the outcome cannot be stored: the job waits for the end of its lease
FinishBroken(t) ==
    /\ At(t, "finishing") /\ task[t].job # NoJob /\ MayRun(t)
    /\ Happens("broken")
    /\ job' = IF Holds(t) THEN [job EXCEPT ![task[t].job].holder = "none"] ELSE job
    /\ task' = [task EXCEPT ![t] = [Idle EXCEPT !.stage = "finished"]]
    /\ UNCHANGED <<gate, earlier, recorded, billed, untold>>

\* onFinished: the run is complete and is humanized, in the task's turn at
\* the gate and with nothing reserved
Humanize(t) ==
    /\ At(t, "finished") /\ MayRun(t)
    /\ Happens("humanizer")
    /\ untold' = untold + Estimate
    /\ task' = [task EXCEPT ![t] = [Idle EXCEPT !.stage = "entered"]]
    /\ UNCHANGED <<gate, earlier, job, recorded, billed>>

\* the operation of the gate ends
Leave(t) ==
    /\ \/ At(t, "finished")
       \/ At(t, "finishing") /\ task[t].job = NoJob
    /\ MayRun(t)
    /\ gate' = [gate EXCEPT ![HomeOf[t]] = Released(@)]
    /\ task' = [task EXCEPT ![t] = Idle]
    /\ UNCHANGED <<earlier, job, recorded, billed, untold, mishaps>>

\* the cost of the answers that tasks have in hand, unit by unit
UnitsOf(tasks) == {u \in tasks \X (1 .. Estimate) : u[2] <= task[u[1]].owed}

Owed(tasks) == Cardinality(UnitsOf(tasks))

TasksOf(p) == {t \in Tasks : HomeOf[t] = p}

\* a process stops; the requests it had sent may be charged
Stop(p) ==
    /\ Happens("stop")
    /\ \E extra \in Costs :
          /\ (\A t \in Tasks : HomeOf[t] = p => ~At(t, "asking")) => extra = 0
          /\ billed' = billed + extra
          /\ untold' = untold + extra + Owed(TasksOf(p))
    /\ task' = [t \in Tasks |-> IF HomeOf[t] = p THEN Idle ELSE task[t]]
    /\ job' = [j \in Jobs |->
                  IF job[j].holder # "none" /\ HomeOf[job[j].holder] = p
                  THEN [job[j] EXCEPT !.holder = "none"] ELSE job[j]]
    /\ gate' = [gate EXCEPT ![p] = EmptyGate]
    /\ UNCHANGED <<earlier, recorded>>

-----------------------------------------------------------------------------
(* The system *)

Init ==
    /\ gate = [p \in Processes |-> EmptyGate]
    /\ earlier = [j \in Jobs |-> {}]
    /\ job = [j \in Jobs |-> [status |-> "queued", answers |-> 0, holder |-> "none"]]
    /\ task = [t \in Tasks |-> Idle]
    /\ recorded = 0 /\ billed = 0 /\ untold = 0
    /\ mishaps = 0

Work(t) ==
    \/ Enter(t) \/ Resume(t) \/ Stamp(t) \/ Decide(t) \/ Watchdog(t)
    \/ \E verdict \in Verdicts : Record(t, verdict)
    \/ Finish(t) \/ Leave(t)

Request(t) ==
    \/ \E cost \in Costs : Answer(t, cost) \/ AnswerUnbilled(t, cost) \/ ErrorBilled(t, cost)
    \/ \E retryable \in BOOLEAN : Error(t, retryable)

Next ==
    \/ \E t \in Tasks :
          \/ \E j \in Jobs : Claim(t, j) \/ ClaimLate(t, j) \/ ClaimBackdated(t, j)
          \/ Work(t) \/ Request(t)
          \/ RecordBroken(t) \/ FinishBroken(t) \/ Humanize(t)
    \/ \E p \in Processes : Stop(p)

\* a process goes on while one of its tasks can; the SDK's timeout settles the
\* humanizer's requests, which have no watchdog
Fairness ==
    \A p \in Processes :
        WF_vars(\E t \in Tasks : /\ HomeOf[t] = p
                                 /\ Work(t) \/ (task[t].job = NoJob /\ Request(t)))

Spec == Init /\ [][Next]_vars

FairSpec == Spec /\ Fairness

-----------------------------------------------------------------------------
(* Properties *)

\* The variables keep their types.  No task makes more requests than the
\* first and its retries.
TypeOK ==
    /\ gate \in [Processes -> Gate]
    /\ job \in [Jobs -> JobRow]
    /\ earlier \in [Jobs -> SUBSET Jobs]
    /\ task \in [Tasks -> TaskState]
    /\ {recorded, billed, untold} \subseteq Nat
    /\ mishaps \in Nat

InGate(p) ==
    {t \in Tasks : HomeOf[t] = p /\ task[t].stage \notin {"idle", "claimed", "waiting"}}

\* No process has more tasks in its gate than the limit, and those who are
\* woken find their place: a waiter that is woken counts itself only when it
\* goes on.
GateHolds ==
    \A p \in Processes :
        /\ Cardinality(InGate(p)) = gate[p].active
        /\ gate[p].active + Len(gate[p].woken) <= GateLimit

\* Nobody waits at a gate that has room: release() wakes one waiter for each
\* place that becomes free, whether its task ended well or threw.
NoLostWakeup ==
    \A p \in Processes :
        gate[p].waiting # <<>> => gate[p].active + Len(gate[p].woken) = GateLimit

\* What the provider has charged exceeds the hard limit by no more than what
\* the decisions could not see: usage that was recorded between the time a
\* decision took and its lock, claims that were committed out of order, late
\* tasks, the humanizer's requests, and costs that were never recorded.
\* Everything else, retries, reclaims and any order of decisions included, is
\* held by reserving for the running jobs before one's own.
OverrunExplained == billed <= HardLimit + untold

\* What is recorded was charged, and what was charged is recorded when its
\* attempt is over or is one of the costs no decision could see.
CostsAreRecorded ==
    /\ recorded <= billed
    /\ billed <= recorded + untold + Owed(Tasks)

\* tasks of processes that have more of them than places in the gate
MayWait == {t \in Tasks : Cardinality(TasksOf(HomeOf[t])) > GateLimit}

\* Who waits at a gate gets in, or its process stops: requests that never
\* settle are given up, and every way out of the gate releases it.
WaitersEnter == \A t \in MayWait : At(t, "waiting") ~> ~At(t, "waiting")

\* The gate (ConcurrencyGate) keeps its limit and its waiters, whichever way
\* tasks come and leave.
GateInv == TypeOK /\ GateHolds /\ NoLostWakeup

\* Every cost is authorised or explained, and recorded or owed
\* (authorizeLlmSubmission, recordLlmUsage).
BudgetHolds == OverrunExplained /\ CostsAreRecorded

==============================================================================
