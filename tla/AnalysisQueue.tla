---------------------------- MODULE AnalysisQueue ----------------------------
(***************************************************************************)
(* The analysis-job queue of src/src/worker/queue.ts and the worker of     *)
(* src/src/worker/runner.ts that drains it.                                *)
(*                                                                         *)
(* PostgreSQL holds one row per job and one row per attempt; every         *)
(* statement of queue.ts is one atomic step on those rows.  Each worker    *)
(* process polls: a batch starts several tasks, a task claims at most one  *)
(* job, waits for the process's LLM gate, runs the attempt, writes its     *)
(* outcome and calls back.  Nothing a task holds in memory survives a      *)
(* crash, and a task may be arbitrarily slow: while it works its lease may *)
(* run out and the job may be handed to somebody else.                     *)
(*                                                                         *)
(* The clock is a small integer; `at' is the value of `new Date()' a task  *)
(* read before the claiming transaction, which may be late.                *)
(***************************************************************************)
EXTENDS Integers, Sequences, FiniteSets

CONSTANTS
    Jobs,            \* rows of analysis_jobs that may be inserted
    Workers,         \* worker ids: one per process
    NoWorker,        \* the NULL of lease_owner
    Slots,           \* tasks one process can have in flight
    LlmConcurrency,  \* tasks per batch, and the limit of the LLM gate
    LeaseTicks,      \* leaseMs
    MaxCitationAttempts,  \* MAX_CITATION_ATTEMPTS
    MaxTime,         \* bound of the clock
    MaxFaults,       \* bound on crashes and failed transactions
    Heartbeats,      \* whether tasks call extendAnalysisJobLease (none does)
    Prompt           \* assume an attempt ends before its lease does

ASSUME WorkersAssumption == NoWorker \notin Workers

ASSUME NumbersAssumption ==
    /\ LlmConcurrency \in Nat \ {0}
    /\ LeaseTicks \in Nat \ {0}
    /\ MaxCitationAttempts \in Nat \ {0}
    /\ MaxTime \in Nat
    /\ MaxFaults \in Nat

ASSUME SwitchesAssumption == Heartbeats \in BOOLEAN /\ Prompt \in BOOLEAN

VARIABLES
    now,       \* the clock
    job,       \* analysis_jobs
    attempts,  \* analysis_job_attempts: attempts[j][k] is attempt k of job j
    task,      \* what each task of each process holds in memory
    batch,     \* per process, the slots the current processAvailable awaits
    faults     \* crashes and failed transactions so far

vars == <<now, job, attempts, task, batch, faults>>

-----------------------------------------------------------------------------

Tasks == Workers \X Slots

WorkerOf(t) == t[1]

\* lease times start after 0, so 0 stands for the NULL of leased_until
NoLease == 0

\* outcomes that end a job, and the one that sends it back to the queue
FinalOutcomes ==
    {"succeeded", "failed", "refused", "incomplete", "skipped_budget"}

Outcomes == FinalOutcomes \cup {"retry"}

JobStatus == {"absent", "queued", "running"} \cup FinalOutcomes

AttemptStatus == {"running", "abandoned", "succeeded", "failed"}

JobRow == [status      : JobStatus,
           availableAt : Nat,
           owner       : Workers \cup {NoWorker},
           leasedUntil : Nat,
           attempts    : Nat]

AttemptRow == [worker : Workers, status : AttemptStatus]

AbsentJob == [status |-> "absent", availableAt |-> 0, owner |-> NoWorker,
              leasedUntil |-> NoLease, attempts |-> 0]

\* A task is idle, is about to claim with the time it read, or holds a claim.
TaskPhases == {"idle", "claiming", "waiting", "processing", "finishing",
               "reporting"}

IdleTask == [phase |-> "idle"]

ClaimingTask == [phase : {"claiming"}, at : Nat]

ClaimedTask ==
    [phase       : {"waiting", "processing"},
     job         : Jobs,
     attempt     : Nat \ {0},
     leasedUntil : Nat]

EndedTask ==
    [phase       : {"finishing"},
     job         : Jobs,
     attempt     : Nat \ {0},
     leasedUntil : Nat,
     outcome     : Outcomes,
     retryAt     : Nat]

ReportingTask ==
    [phase    : {"reporting"},
     job      : Jobs,
     attempt  : Nat \ {0},
     outcome  : Outcomes,
     accepted : BOOLEAN]

TaskState == {IdleTask} \cup ClaimingTask \cup ClaimedTask \cup EndedTask
                 \cup ReportingTask

TypeOK ==
    /\ now \in Nat
    /\ job \in [Jobs -> JobRow]
    /\ attempts \in [Jobs -> Seq(AttemptRow)]
    /\ task \in [Tasks -> TaskState]
    /\ batch \in [Workers -> SUBSET Slots]
    /\ faults \in Nat

-----------------------------------------------------------------------------

Phase(t) == task[t].phase

\* the task has a claim it has not yet tried to finish
Working(t) == Phase(t) \in {"waiting", "processing", "finishing"}

\* faulty: the fence forgets the attempt
FencedByOwner(t) ==
    LET c == task[t] IN
    /\ job[c.job].status = "running"
    /\ job[c.job].owner = WorkerOf(t)

\* faulty: the update matches the job's id only
NotFenced(t) == job[task[t].job].status # "absent"

\* WHERE clause of the fenced updates: the claim is still the current one
Fenced(t) ==
    LET c == task[t] IN
    /\ job[c.job].status = "running"
    /\ job[c.job].owner = WorkerOf(t)
    /\ job[c.job].attempts = c.attempt

Expired(j, at) ==
    job[j].leasedUntil = NoLease \/ job[j].leasedUntil <= at

\* faulty: jobs whose lease ran out are not taken up again
ClaimableQueued(j, at) == job[j].status = "queued" /\ job[j].availableAt <= at

\* the candidate rows of the claiming statement, as of the time the task read
Claimable(j, at) ==
    \/ job[j].status = "queued" /\ job[j].availableAt <= at
    \/ job[j].status = "running" /\ Expired(j, at)

\* a finishing transaction holds the row, so SKIP LOCKED may pass over it
MaybeLocked(j) ==
    \E t \in Tasks : Phase(t) = "finishing" /\ task[t].job = j /\ Fenced(t)

\* ORDER BY available_at, among the rows that are not locked; the order of
\* rows with equal available_at is left open
Claimed(j, at) ==
    /\ Claimable(j, at)
    /\ \A k \in Jobs : Claimable(k, at) /\ job[k].availableAt < job[j].availableAt
                          => MaybeLocked(k)

NothingToClaim(at) == \A j \in Jobs : Claimable(j, at) => MaybeLocked(j)

\* the task's slot no longer counts for the batch its process awaits
LeaveBatch(t) ==
    batch' = [batch EXCEPT ![WorkerOf(t)] = @ \ {t[2]}]

\* Promise.all rejects with the first task that throws, and the poll loop goes
\* on to the next batch while the other tasks still run
RejectBatch(t) ==
    batch' = [batch EXCEPT ![WorkerOf(t)] = IF t[2] \in @ THEN {} ELSE @]

-----------------------------------------------------------------------------

Init ==
    /\ now = 0
    /\ job = [j \in Jobs |-> AbsentJob]
    /\ attempts = [j \in Jobs |-> <<>>]
    /\ task = [t \in Tasks |-> IdleTask]
    /\ batch = [w \in Workers |-> {}]
    /\ faults = 0

\* prepareStory inserts the job of a story: queued, available at once
Enqueue(j) ==
    /\ job[j].status = "absent"
    /\ job' = [job EXCEPT ![j].status = "queued", ![j].availableAt = now]
    /\ UNCHANGED <<now, attempts, task, batch, faults>>

\* reuseAnalysis inserts the job of a story whose analysis is copied: it has
\* succeeded already, without an attempt
Reuse(j) ==
    /\ job[j].status = "absent"
    /\ job' = [job EXCEPT ![j].status = "succeeded", ![j].availableAt = now]
    /\ UNCHANGED <<now, attempts, task, batch, faults>>

\* processAvailable starts its tasks together; each reads the clock at once
BeginBatch(w) ==
    /\ batch[w] = {}
    /\ \E S \in SUBSET Slots :
          /\ Cardinality(S) = LlmConcurrency
          /\ \A s \in S : Phase(<<w, s>>) = "idle"
          /\ batch' = [batch EXCEPT ![w] = S]
          /\ task' = [t \in Tasks |->
                         IF t[1] = w /\ t[2] \in S
                         THEN [phase |-> "claiming", at |-> now]
                         ELSE task[t]]
    /\ UNCHANGED <<now, job, attempts, faults>>

\* faulty: every earlier attempt is marked abandoned
AfterClaimAbandonAll(rows, w) ==
    Append([k \in 1..Len(rows) |->
               [worker |-> rows[k].worker, status |-> "abandoned"]],
           [worker |-> w, status |-> "running"])

\* the attempt rows after a claim by w: the attempt still running is abandoned
\* and a new one is recorded
AfterClaim(rows, w) ==
    Append([k \in 1..Len(rows) |->
               IF rows[k].status = "running"
               THEN [worker |-> rows[k].worker, status |-> "abandoned"]
               ELSE rows[k]],
           [worker |-> w, status |-> "running"])

\* faulty: a reclaim is not counted
ClaimedJobUncounted(row, w, at) ==
    [row EXCEPT !.status = "running",
                !.owner = w,
                !.leasedUntil = at + LeaseTicks,
                !.attempts = IF row.status = "queued" THEN @ + 1 ELSE @]

\* the row a claim by w, who read the time at, leaves
ClaimedJob(row, w, at) ==
    [row EXCEPT !.status = "running",
                !.owner = w,
                !.leasedUntil = at + LeaseTicks,
                !.attempts = @ + 1]

\* the claiming statement takes a row
Claim(t) ==
    /\ Phase(t) = "claiming"
    /\ \E j \in Jobs :
          LET w  == WorkerOf(t)
              at == task[t].at
          IN  /\ Claimed(j, at)
              /\ job' = [job EXCEPT ![j] = ClaimedJob(@, w, at)]
              /\ attempts' = [attempts EXCEPT ![j] = AfterClaim(@, w)]
              /\ task' = [task EXCEPT ![t] =
                             [phase |-> "waiting", job |-> j,
                              attempt |-> job[j].attempts + 1,
                              leasedUntil |-> at + LeaseTicks]]
    /\ UNCHANGED <<now, batch, faults>>

\* the claiming statement finds no row and the task is over
FindNothing(t) ==
    /\ Phase(t) = "claiming"
    /\ NothingToClaim(task[t].at)
    /\ task' = [task EXCEPT ![t] = IdleTask]
    /\ LeaveBatch(t)
    /\ UNCHANGED <<now, job, attempts, faults>>

\* behind the gate the submission is authorised and the attempt begins
Start(t) ==
    /\ Phase(t) = "waiting"
    /\ task' = [task EXCEPT ![t].phase = "processing"]
    /\ UNCHANGED <<now, job, attempts, batch, faults>>

\* the task knows how its attempt ended
Ends(t, outcome) ==
    task' = [task EXCEPT ![t] =
                [phase |-> "finishing", job |-> @.job, attempt |-> @.attempt,
                 leasedUntil |-> @.leasedUntil, outcome |-> outcome,
                 retryAt |-> IF outcome = "retry" THEN now ELSE 0]]

\* the budget denies the submission, or reading the job throws
Refuse(t) ==
    /\ Phase(t) = "waiting"
    /\ \E o \in {"skipped_budget", "failed"} : Ends(t, o)
    /\ UNCHANGED <<now, job, attempts, batch, faults>>

\* faulty: one retry too many
MayEndWithOneMore(t, outcome) ==
    /\ outcome # "skipped_budget"
    /\ outcome = "retry" => task[t].attempt <= MaxCitationAttempts

\* process(claim) returns an outcome or throws; workerErrorOutcome grants a
\* retry only below MAX_CITATION_ATTEMPTS
MayEndWith(t, outcome) ==
    /\ outcome # "skipped_budget"
    /\ outcome = "retry" => task[t].attempt < MaxCitationAttempts

EndAttempt(t) ==
    /\ Phase(t) = "processing"
    /\ \E o \in Outcomes : MayEndWith(t, o) /\ Ends(t, o)
    /\ UNCHANGED <<now, job, attempts, batch, faults>>

\* faulty: a job sent back to the queue keeps its lease
FinishedJobLeased(row, c) ==
    [row EXCEPT !.status = IF c.outcome = "retry" THEN "queued" ELSE c.outcome,
                !.availableAt = IF c.outcome = "retry" THEN c.retryAt
                                                       ELSE c.leasedUntil,
                !.owner = IF c.outcome = "retry" THEN @ ELSE NoWorker,
                !.leasedUntil = IF c.outcome = "retry" THEN @ ELSE NoLease]

\* finishAnalysisJobAttempt on the job row
FinishedJob(row, c) ==
    [row EXCEPT !.status = IF c.outcome = "retry" THEN "queued" ELSE c.outcome,
                !.availableAt = IF c.outcome = "retry" THEN c.retryAt
                                                       ELSE c.leasedUntil,
                !.owner = NoWorker,
                !.leasedUntil = NoLease]

\* faulty: the attempt row takes the job's status as it is
FinishedAttemptVerbatim(outcome) ==
    IF outcome = "retry" THEN "failed" ELSE outcome

\* ... and on the attempt row
FinishedAttempt(outcome) ==
    IF outcome = "succeeded" THEN "succeeded" ELSE "failed"

AfterFinish(rows, c) ==
    [rows EXCEPT ![c.attempt] =
        [worker |-> @.worker, status |-> FinishedAttempt(c.outcome)]]

\* The outcome is written if the claim is still the current one and dropped
\* if it is not; the runner ignores which of the two happened.
Finish(t) ==
    LET c == task[t] IN
    /\ Phase(t) = "finishing"
    /\ \/ /\ Fenced(t)
          /\ job' = [job EXCEPT ![c.job] = FinishedJob(@, c)]
          /\ attempts' = [attempts EXCEPT ![c.job] = AfterFinish(@, c)]
       \/ /\ ~Fenced(t)
          /\ UNCHANGED <<job, attempts>>
    /\ task' = [task EXCEPT ![t] =
                   [phase |-> "reporting", job |-> c.job, attempt |-> c.attempt,
                    outcome |-> c.outcome, accepted |-> Fenced(t)]]
    /\ UNCHANGED <<now, batch, faults>>

\* onFinished has run and processOne returns
Report(t) ==
    /\ Phase(t) = "reporting"
    /\ task' = [task EXCEPT ![t] = IdleTask]
    /\ LeaveBatch(t)
    /\ UNCHANGED <<now, job, attempts, faults>>

\* extendAnalysisJobLease, by a task that holds a claim
Extend(t) ==
    /\ Heartbeats
    /\ Working(t)
    /\ Fenced(t)
    /\ job' = [job EXCEPT ![task[t].job].leasedUntil = now + LeaseTicks]
    /\ UNCHANGED <<now, attempts, task, batch, faults>>

\* A database error escapes processOne: the claim or its reply is lost, the
\* outcome is not written, or the callback does not run.
Throw(t) ==
    /\ faults < MaxFaults
    /\ Phase(t) \in {"claiming", "waiting", "finishing", "reporting"}
    /\ task' = [task EXCEPT ![t] = IdleTask]
    /\ RejectBatch(t)
    /\ faults' = faults + 1
    /\ UNCHANGED <<now, job, attempts>>

\* the process stops; its successor has the same worker id
Crash(w) ==
    /\ faults < MaxFaults
    /\ \E s \in Slots : Phase(<<w, s>>) # "idle"
    /\ task' = [t \in Tasks |-> IF t[1] = w THEN IdleTask ELSE task[t]]
    /\ batch' = [batch EXCEPT ![w] = {}]
    /\ faults' = faults + 1
    /\ UNCHANGED <<now, job, attempts>>

\* somebody still works on the job with the current claim
Tended(j) == \E t \in Tasks : Working(t) /\ task[t].job = j /\ Fenced(t)

\* Under Prompt no task lets its lease run out, before or after it is granted.
InTime ==
    /\ \A t \in Tasks : Phase(t) = "claiming" => now + 1 < task[t].at + LeaseTicks
    /\ \A j \in Jobs : Tended(j) => now + 1 < job[j].leasedUntil

\* Under Prompt the clock may pass MaxTime while a lost lease is outstanding.
LostLease ==
    \E j \in Jobs : /\ job[j].status = "running"
                    /\ now < job[j].leasedUntil
                    /\ ~Tended(j)

Tick ==
    /\ now < MaxTime \/ (Prompt /\ LostLease)
    /\ Prompt => InTime
    /\ now' = now + 1
    /\ UNCHANGED <<job, attempts, task, batch, faults>>

\* what a process does for a task, faults apart
TaskStep(t) ==
    \/ Claim(t)
    \/ FindNothing(t)
    \/ Start(t)
    \/ Refuse(t)
    \/ EndAttempt(t)
    \/ Finish(t)
    \/ Report(t)

Next ==
    \/ \E j \in Jobs : Enqueue(j) \/ Reuse(j)
    \/ \E w \in Workers : BeginBatch(w)
    \/ \E t \in Tasks : TaskStep(t)
    \/ \E t \in Tasks : Extend(t)
    \/ \E t \in Tasks : Throw(t)
    \/ \E w \in Workers : Crash(w)
    \/ Tick

Spec == Init /\ [][Next]_vars

\* The poll loops run for ever, a started task goes on, and time passes.
Fairness ==
    /\ \A w \in Workers : WF_vars(BeginBatch(w))
    /\ \A t \in Tasks : WF_vars(TaskStep(t))
    /\ SF_vars(Tick)

FairSpec == Spec /\ Fairness

-----------------------------------------------------------------------------

Settled(j) == job[j].status \in FinalOutcomes

\* The job row and its attempt rows tell one story: attempt_count counts the
\* attempt rows, an attempt is running exactly when it is the last one of a
\* running job, the lease belongs to its worker, and nothing else has a lease.
RowsAgree ==
    \A j \in Jobs :
        LET n == Len(attempts[j]) IN
        /\ job[j].attempts = n
        /\ job[j].status = "running" =>
              /\ n > 0
              /\ job[j].owner = attempts[j][n].worker
              /\ job[j].leasedUntil # NoLease
        /\ job[j].status # "running" =>
              job[j].owner = NoWorker /\ job[j].leasedUntil = NoLease
        /\ \A k \in 1..n : attempts[j][k].status = "running"
                              <=> k = n /\ job[j].status = "running"

\* the task has claimed a job and is not yet rid of it
HasClaim(t) == Phase(t) \notin {"idle", "claiming"}

\* A claim is in the hands of one task: no two tasks ever hold, or report on,
\* the same attempt of the same job, across slow tasks, reclaims and restarts
\* of a process under its old worker id.
OneTaskPerAttempt ==
    \A t, u \in Tasks :
        /\ HasClaim(t)
        /\ HasClaim(u)
        /\ task[t].job = task[u].job
        /\ task[t].attempt = task[u].attempt
        => t = u

\* From the last retry that workerErrorOutcome allows on, only a lost lease
\* gives a job one more attempt, and a success is never tried again.
RetriesBounded ==
    \A j \in Jobs : \A k \in 1..Len(attempts[j]) :
        /\ k >= MaxCitationAttempts /\ k < Len(attempts[j])
              => attempts[j][k].status = "abandoned"
        /\ attempts[j][k].status = "succeeded"
              => k = Len(attempts[j]) /\ job[j].status = "succeeded"

\* An outcome the queue accepted is the one on record for that attempt, and
\* while no later attempt exists, for the job.
AcceptedIsRecorded ==
    \A t \in Tasks : Phase(t) = "reporting" /\ task[t].accepted =>
        LET c == task[t] IN
        /\ attempts[c.job][c.attempt].status = FinishedAttempt(c.outcome)
        /\ c.outcome # "retry" => job[c.job].status = c.outcome

\* What the tasks remember of their claims fits the attempts on record, and a
\* job back in the queue has attempts left: with the invariants above, what
\* makes them inductive.
ClaimsKnown ==
    /\ \A t \in Tasks : HasClaim(t) =>
          LET c == task[t] IN
          /\ c.attempt \in 1..Len(attempts[c.job])
          /\ attempts[c.job][c.attempt].worker = WorkerOf(t)
          /\ Phase(t) = "finishing" /\ c.outcome = "retry"
                => c.attempt < MaxCitationAttempts
    /\ \A j \in Jobs : job[j].status \in {"absent", "queued"}
                          => Len(attempts[j]) < MaxCitationAttempts

QueueInv == RowsAgree /\ OneTaskPerAttempt /\ RetriesBounded
                /\ AcceptedIsRecorded /\ ClaimsKnown

\* A job that has ended stays as it ended, whoever is still working on it.
SettledIsFinal ==
    [][\A j \in Jobs : Settled(j) =>
          job'[j] = job[j] /\ attempts'[j] = attempts[j]]_vars

\* The fence: a running attempt comes to an end only by the task that holds
\* it, or by a claim made after the lease on record ran out.
OnlyHolderOrExpiry ==
    [][\A j \in Jobs :
          LET n == job[j].attempts IN
          job[j].status = "running" /\ attempts'[j] # attempts[j] =>
             \/ \E t \in Tasks :
                   /\ Phase(t) = "finishing"
                   /\ task[t].job = j
                   /\ task[t].attempt = n
                   /\ WorkerOf(t) = attempts[j][n].worker
             \/ /\ job[j].leasedUntil <= now
                /\ job'[j].attempts = n + 1]_vars

\* Every job that was enqueued reaches an outcome, if attempts end before
\* their lease and faults are finitely many.
EveryJobSettles ==
    \A j \in Jobs : job[j].status # "absent" ~> Settled(j)

-----------------------------------------------------------------------------

\* The queue implements the ledger of grants: the latest attempt of a running
\* job is the outstanding grant, the final status is the result.
Ledger == INSTANCE JobLedger WITH
    Results    <- FinalOutcomes,
    NoResult   <- "none",
    MaxReturns <- MaxCitationAttempts - 1,
    holder     <- [j \in Jobs |-> job[j].owner],
    grants     <- [j \in Jobs |-> Len(attempts[j])],
    result     <- [j \in Jobs |-> IF Settled(j) THEN job[j].status ELSE "none"],
    posted     <- {j \in Jobs : job[j].status # "absent"}

\* No interleaving of processes, slow tasks, reclaims and crashes is visible
\* to somebody who sees only who was granted what and how it was settled.
ImplementsLedger == Ledger!LedgerSpec

=============================================================================
