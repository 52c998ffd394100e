------------------------ MODULE AnalysisQueue_proofs ------------------------
(***************************************************************************)
(* Theorems about the analysis queue, for any set of jobs, processes and   *)
(* tasks, any lease length and any bound of the clock and of the faults.   *)
(*                                                                         *)
(* Type correctness is inductive by itself.  The other invariants are not: *)
(* they are proved together, as QueueInv, which adds what the tasks        *)
(* remember (ClaimsKnown).  The action properties and the refinement of    *)
(* the ledger follow from it step by step.                                 *)
(***************************************************************************)
EXTENDS AnalysisQueue, TLAPS

-----------------------------------------------------------------------------
(* Lemmas about the operators on rows.                                     *)

\* A claim appends a running attempt of the claiming worker and keeps the
\* other rows, except that a running one is abandoned.
LEMMA AfterClaimRows ==
    ASSUME NEW rows \in Seq(AttemptRow), NEW w \in Workers
    PROVE  /\ AfterClaim(rows, w) \in Seq(AttemptRow)
           /\ Len(AfterClaim(rows, w)) = Len(rows) + 1
           /\ AfterClaim(rows, w)[Len(rows) + 1]
                 = [worker |-> w, status |-> "running"]
           /\ \A k \in 1..Len(rows) :
                 /\ AfterClaim(rows, w)[k].worker = rows[k].worker
                 /\ AfterClaim(rows, w)[k].status =
                       IF rows[k].status = "running" THEN "abandoned"
                                                     ELSE rows[k].status
<1> DEFINE kept == [k \in 1..Len(rows) |->
                       IF rows[k].status = "running"
                       THEN [worker |-> rows[k].worker, status |-> "abandoned"]
                       ELSE rows[k]]
           new  == [worker |-> w, status |-> "running"]
<1>1. \A k \in 1..Len(rows) : rows[k] \in AttemptRow
  OBVIOUS
<1>2. kept \in Seq(AttemptRow) /\ Len(kept) = Len(rows)
  <2>1. \A k \in 1..Len(rows) : kept[k] \in AttemptRow
    BY <1>1 DEF AttemptRow, AttemptStatus
  <2>2. kept \in [1..Len(rows) -> AttemptRow]
    BY <2>1
  <2>3. Len(rows) \in Nat
    OBVIOUS
  <2> QED
    BY <2>2, <2>3
<1>3. new \in AttemptRow
  BY DEF AttemptRow, AttemptStatus
<1>4. AfterClaim(rows, w) = Append(kept, new)
  BY DEF AfterClaim
<1> HIDE DEF kept, new
<1>5. /\ Append(kept, new) \in Seq(AttemptRow)
      /\ Len(Append(kept, new)) = Len(rows) + 1
      /\ Append(kept, new)[Len(rows) + 1] = new
      /\ \A k \in 1..Len(rows) : Append(kept, new)[k] = kept[k]
  BY <1>2, <1>3
<1>6. \A k \in 1..Len(rows) :
         /\ kept[k].worker = rows[k].worker
         /\ kept[k].status = IF rows[k].status = "running" THEN "abandoned"
                                                           ELSE rows[k].status
  BY DEF kept
<1> QED
  BY <1>4, <1>5, <1>6 DEF new

\* Finishing changes the status of the finished attempt and nothing else.
LEMMA AfterFinishRows ==
    ASSUME NEW rows \in Seq(AttemptRow), NEW c,
           c.attempt \in 1..Len(rows)
    PROVE  /\ AfterFinish(rows, c) \in Seq(AttemptRow)
           /\ Len(AfterFinish(rows, c)) = Len(rows)
           /\ \A k \in 1..Len(rows) :
                 AfterFinish(rows, c)[k].worker = rows[k].worker
           /\ AfterFinish(rows, c)[c.attempt].status
                 = FinishedAttempt(c.outcome)
           /\ \A k \in 1..Len(rows) : k # c.attempt
                 => AfterFinish(rows, c)[k] = rows[k]
<1> DEFINE row == [worker |-> rows[c.attempt].worker,
                   status |-> FinishedAttempt(c.outcome)]
<1>1. row \in AttemptRow
  <2>1. rows[c.attempt] \in AttemptRow
    OBVIOUS
  <2> QED
    BY <2>1 DEF AttemptRow, AttemptStatus, FinishedAttempt
<1>2. AfterFinish(rows, c) = [rows EXCEPT ![c.attempt] = row]
  BY DEF AfterFinish
<1>3. row.worker = rows[c.attempt].worker
      /\ row.status = FinishedAttempt(c.outcome)
  OBVIOUS
<1> HIDE DEF row
<1> QED
  BY <1>1, <1>2, <1>3

-----------------------------------------------------------------------------
(* Type correctness.                                                       *)

\* What the phase of a task says about the record it is.
LEMMA TaskShapes ==
    ASSUME NEW t \in Tasks, task[t] \in TaskState
    PROVE  /\ Phase(t) = "claiming" => task[t].at \in Nat
           /\ HasClaim(t) => /\ task[t].job \in Jobs
                             /\ task[t].attempt \in Nat \ {0}
           /\ Phase(t) \in {"waiting", "processing", "finishing"}
                => task[t].leasedUntil \in Nat
           /\ Phase(t) = "finishing" => task[t] \in EndedTask
           /\ Phase(t) = "reporting" => task[t] \in ReportingTask
           /\ Phase(t) \in {"waiting", "processing"} => task[t] \in ClaimedTask
BY DEF TaskState, IdleTask, ClaimingTask, ClaimedTask, EndedTask,
       ReportingTask, Phase, HasClaim

\* Each step keeps the variables in their types.
LEMMA TypeStep == TypeOK /\ [Next]_vars => TypeOK'
<1> SUFFICES ASSUME TypeOK, [Next]_vars
             PROVE  TypeOK'
  OBVIOUS
<1> USE DEF TypeOK
<1> USE NumbersAssumption
<1>1. ASSUME NEW j \in Jobs, Enqueue(j) \/ Reuse(j) PROVE TypeOK'
  <2> PICK new \in {"queued", "succeeded"} :
        job' = [job EXCEPT ![j].status = new, ![j].availableAt = now]
    BY <1>1 DEF Enqueue, Reuse
  <2>1. new \in JobStatus
    BY DEF JobStatus, FinalOutcomes
  <2>2. [job[j] EXCEPT !.status = new, !.availableAt = now] \in JobRow
    BY <2>1 DEF JobRow
  <2>3. job' = [job EXCEPT ![j] = [@ EXCEPT !.status = new, !.availableAt = now]]
    OBVIOUS
  <2>4. job' \in [Jobs -> JobRow]
    BY <2>2, <2>3
  <2>5. UNCHANGED <<now, attempts, task, batch, faults>>
    BY <1>1 DEF Enqueue, Reuse
  <2> QED
    BY <2>4, <2>5
<1>2. ASSUME NEW w \in Workers, BeginBatch(w) PROVE TypeOK'
  BY <1>2 DEF BeginBatch, TaskState, ClaimingTask
<1>3. ASSUME NEW t \in Tasks, Claim(t) PROVE TypeOK'
  <2> PICK j \in Jobs :
         /\ job' = [job EXCEPT ![j] = ClaimedJob(@, WorkerOf(t), task[t].at)]
         /\ attempts' = [attempts EXCEPT ![j] = AfterClaim(@, WorkerOf(t))]
         /\ task' = [task EXCEPT ![t] =
                        [phase |-> "waiting", job |-> j,
                         attempt |-> job[j].attempts + 1,
                         leasedUntil |-> task[t].at + LeaseTicks]]
    BY <1>3 DEF Claim
  <2>1. WorkerOf(t) \in Workers /\ task[t].at \in Nat
    BY <1>3, TaskShapes DEF Claim, Tasks, WorkerOf
  <2>2. ClaimedJob(job[j], WorkerOf(t), task[t].at) \in JobRow
    <3>1. job[j] \in JobRow
      OBVIOUS
    <3>2. job[j].attempts + 1 \in Nat /\ task[t].at + LeaseTicks \in Nat
      BY <2>1, <3>1 DEF JobRow
    <3>3. "running" \in JobStatus
      BY DEF JobStatus
    <3> QED
      BY <2>1, <3>1, <3>2, <3>3 DEF ClaimedJob, JobRow
  <2>3. AfterClaim(attempts[j], WorkerOf(t)) \in Seq(AttemptRow)
    BY <2>1, AfterClaimRows
  <2>4. [phase |-> "waiting", job |-> j, attempt |-> job[j].attempts + 1,
         leasedUntil |-> task[t].at + LeaseTicks] \in TaskState
    BY <2>1 DEF TaskState, ClaimedTask, JobRow
  <2> QED
    BY <1>3, <2>2, <2>3, <2>4 DEF Claim
<1>4. ASSUME NEW t \in Tasks, FindNothing(t) PROVE TypeOK'
  BY <1>4 DEF FindNothing, LeaveBatch, TaskState, WorkerOf, Tasks
<1>5. ASSUME NEW t \in Tasks, Start(t) PROVE TypeOK'
  <2>1. [task[t] EXCEPT !.phase = "processing"] \in ClaimedTask
    BY <1>5, TaskShapes DEF Start, ClaimedTask
  <2> QED
    BY <1>5, <2>1 DEF Start, TaskState
<1>6. ASSUME NEW t \in Tasks, NEW o \in Outcomes, Ends(t, o),
             Phase(t) \in {"waiting", "processing"}
      PROVE  task' \in [Tasks -> TaskState]
  <2>1. task[t] \in ClaimedTask
    BY <1>6, TaskShapes
  <2>2. [phase |-> "finishing", job |-> task[t].job,
         attempt |-> task[t].attempt, leasedUntil |-> task[t].leasedUntil,
         outcome |-> o, retryAt |-> IF o = "retry" THEN now ELSE 0]
           \in EndedTask
    BY <2>1 DEF ClaimedTask, EndedTask
  <2> QED
    BY <1>6, <2>2 DEF Ends, TaskState
<1>7. ASSUME NEW t \in Tasks, Refuse(t) PROVE TypeOK'
  BY <1>6, <1>7 DEF Refuse, Outcomes, FinalOutcomes
<1>8. ASSUME NEW t \in Tasks, EndAttempt(t) PROVE TypeOK'
  BY <1>6, <1>8 DEF EndAttempt
<1>9. ASSUME NEW t \in Tasks, Throw(t) PROVE TypeOK'
  BY <1>9 DEF Throw, RejectBatch, TaskState, WorkerOf, Tasks
<1>10. ASSUME NEW t \in Tasks, Report(t) PROVE TypeOK'
  BY <1>10 DEF Report, LeaveBatch, TaskState, WorkerOf, Tasks
<1>11. ASSUME NEW t \in Tasks, Extend(t) PROVE TypeOK'
  <2>1. task[t].job \in Jobs
    BY <1>11, TaskShapes DEF Extend, Working, HasClaim
  <2>2. [job[task[t].job] EXCEPT !.leasedUntil = now + LeaseTicks] \in JobRow
    <3>1. job[task[t].job] \in JobRow /\ now + LeaseTicks \in Nat
      BY <2>1
    <3> QED
      BY <3>1 DEF JobRow
  <2>3. job' = [job EXCEPT ![task[t].job] =
                   [@ EXCEPT !.leasedUntil = now + LeaseTicks]]
    BY <1>11, <2>1 DEF Extend
  <2> QED
    BY <1>11, <2>1, <2>2, <2>3 DEF Extend
<1>12. ASSUME NEW w \in Workers, Crash(w) PROVE TypeOK'
  BY <1>12 DEF Crash, TaskState
<1>13. CASE Tick
  BY <1>13 DEF Tick
<1>14. ASSUME NEW t \in Tasks, Finish(t) PROVE TypeOK'
  <2> DEFINE c == task[t]
  <2>1. c \in EndedTask
    BY <1>14, TaskShapes DEF Finish
  <2>2. FinishedJob(job[c.job], c) \in JobRow
    <3>1. job[c.job] \in JobRow
      BY <2>1 DEF EndedTask
    <3>2. (IF c.outcome = "retry" THEN "queued" ELSE c.outcome) \in JobStatus
      BY <2>1 DEF EndedTask, Outcomes, JobStatus
    <3>3. (IF c.outcome = "retry" THEN c.retryAt ELSE c.leasedUntil) \in Nat
      BY <2>1 DEF EndedTask
    <3> HIDE DEF c
    <3> QED
      BY <3>1, <3>2, <3>3 DEF FinishedJob, JobRow, NoLease
  <2>3. AfterFinish(attempts[c.job], c) \in Seq(AttemptRow)
    <3>1. attempts[c.job] \in Seq(AttemptRow)
      BY <2>1 DEF EndedTask
    <3>2. CASE c.attempt \in 1..Len(attempts[c.job])
      BY <3>1, <3>2, AfterFinishRows
    <3>3. CASE c.attempt \notin 1..Len(attempts[c.job])
      <4>1. AfterFinish(attempts[c.job], c) = attempts[c.job]
        BY <3>1, <3>3 DEF AfterFinish
      <4> QED
        BY <3>1, <4>1
    <3> QED
      BY <3>2, <3>3
  <2>4. [phase |-> "reporting", job |-> c.job, attempt |-> c.attempt,
         outcome |-> c.outcome, accepted |-> Fenced(t)] \in ReportingTask
    <3>1. Fenced(t) \in BOOLEAN
      BY DEF Fenced
    <3> QED
      BY <2>1, <3>1 DEF EndedTask, ReportingTask
  <2>5. c.job \in Jobs
    BY <2>1 DEF EndedTask
  <2>6. task' \in [Tasks -> TaskState]
    BY <1>14, <2>4 DEF Finish, TaskState
  <2>7. job' \in [Jobs -> JobRow] /\ attempts' \in [Jobs -> Seq(AttemptRow)]
    BY <1>14, <2>2, <2>3, <2>5 DEF Finish
  <2> QED
    BY <1>14, <2>6, <2>7 DEF Finish
<1>15. CASE UNCHANGED vars
  BY <1>15 DEF vars
<1> QED
  BY <1>1, <1>2, <1>3, <1>4, <1>5, <1>7, <1>8, <1>9, <1>10, <1>11, <1>12,
     <1>13, <1>14, <1>15 DEF Next, TaskStep

\* At the start everything has its type.
LEMMA TypeInit == Init => TypeOK
BY DEF Init, TypeOK, AbsentJob, JobRow, JobStatus, NoLease, TaskState

\* Type correctness of the queue: the rows, the claims in memory and the
\* clock stay in their types.
THEOREM TypeCorrect == Spec => []TypeOK
<1>1. Init => TypeOK
  BY TypeInit
<1>2. TypeOK /\ [Next]_vars => TypeOK'
  BY TypeStep
<1> QED
  BY <1>1, <1>2, PTL DEF Spec

-----------------------------------------------------------------------------
(* The inductive invariant.                                                *)

\* A step that leaves the rows alone keeps the invariant if every task keeps
\* its claim, drops it, or learns how its attempt ended.
LEMMA SameRows ==
    ASSUME TypeOK, TypeOK', QueueInv, UNCHANGED <<job, attempts>>,
           \A t \in Tasks :
              \/ task'[t] = task[t]
              \/ ~HasClaim(t)'
              \/ /\ HasClaim(t)
                 /\ task'[t].job = task[t].job
                 /\ task'[t].attempt = task[t].attempt
                 /\ Phase(t)' = "finishing" /\ task'[t].outcome = "retry"
                       => task[t].attempt < MaxCitationAttempts
                 /\ Phase(t)' = "reporting" => ~task'[t].accepted
    PROVE  QueueInv'
<1> USE DEF QueueInv
<1>1. RowsAgree'
  BY DEF RowsAgree
<1>2. RetriesBounded'
  BY DEF RetriesBounded
<1>3. \A t \in Tasks : HasClaim(t)' =>
         /\ HasClaim(t)
         /\ task'[t].job = task[t].job
         /\ task'[t].attempt = task[t].attempt
  BY DEF HasClaim, Phase
<1>4. OneTaskPerAttempt'
  BY <1>3 DEF OneTaskPerAttempt
<1>5. AcceptedIsRecorded'
  <2> SUFFICES ASSUME NEW t \in Tasks, Phase(t)' = "reporting",
                      task'[t].accepted
               PROVE  task'[t] = task[t]
    BY DEF AcceptedIsRecorded, Phase
  <2>1. HasClaim(t)'
    BY DEF HasClaim
  <2> QED
    BY <2>1
<1>6. ClaimsKnown'
  <2>1. \A t \in Tasks : HasClaim(t)' =>
           /\ task'[t].attempt \in 1..Len(attempts[task'[t].job])
           /\ attempts[task'[t].job][task'[t].attempt].worker = WorkerOf(t)
    BY <1>3 DEF ClaimsKnown
  <2>2. \A t \in Tasks :
           HasClaim(t)' /\ Phase(t)' = "finishing" /\ task'[t].outcome = "retry"
              => task'[t].attempt < MaxCitationAttempts
    BY <1>3 DEF ClaimsKnown, Phase
  <2> QED
    BY <2>1, <2>2 DEF ClaimsKnown
<1> QED
  BY <1>1, <1>2, <1>4, <1>5, <1>6

\* A claim keeps the invariant: the new attempt number is above every number
\* a task remembers, and the attempt it overtakes is abandoned.
LEMMA ClaimKeepsInv ==
    ASSUME TypeOK, TypeOK', QueueInv, NEW t \in Tasks, Claim(t)
    PROVE  QueueInv'
<1> USE DEF QueueInv, TypeOK
<1> PICK j \in Jobs :
       /\ Claimed(j, task[t].at)
       /\ job' = [job EXCEPT ![j] = ClaimedJob(@, WorkerOf(t), task[t].at)]
       /\ attempts' = [attempts EXCEPT ![j] = AfterClaim(@, WorkerOf(t))]
       /\ task' = [task EXCEPT ![t] =
                      [phase |-> "waiting", job |-> j,
                       attempt |-> job[j].attempts + 1,
                       leasedUntil |-> task[t].at + LeaseTicks]]
  BY DEF Claim
<1> DEFINE w == WorkerOf(t)
           n == Len(attempts[j])
<1>1. w \in Workers /\ task[t].at \in Nat /\ task[t].at + LeaseTicks # NoLease
  BY TaskShapes, NumbersAssumption DEF Claim, Tasks, WorkerOf, NoLease
<1>2. /\ Len(attempts'[j]) = n + 1
      /\ attempts'[j][n + 1] = [worker |-> w, status |-> "running"]
      /\ \A k \in 1..n :
            /\ attempts'[j][k].worker = attempts[j][k].worker
            /\ attempts'[j][k].status =
                  IF attempts[j][k].status = "running" THEN "abandoned"
                                                  ELSE attempts[j][k].status
  BY <1>1, AfterClaimRows
<1>3. n \in Nat /\ job[j].attempts = n
  BY DEF RowsAgree
<1>4. /\ job'[j].status = "running"
      /\ job'[j].owner = w
      /\ job'[j].leasedUntil = task[t].at + LeaseTicks
      /\ job'[j].attempts = n + 1
  BY <1>3 DEF ClaimedJob, JobRow
<1>5. \A i \in Jobs : i # j => job'[i] = job[i] /\ attempts'[i] = attempts[i]
  OBVIOUS
<1>6. job[j].status \in {"queued", "running"}
  BY DEF Claimed, Claimable
<1>7. /\ \A u \in Tasks : u # t => task'[u] = task[u]
      /\ HasClaim(t)' /\ Phase(t)' = "waiting"
      /\ task'[t].job = j /\ task'[t].attempt = n + 1
  BY <1>3 DEF HasClaim, Phase
<1>8. RowsAgree'
  <2> SUFFICES ASSUME NEW i \in Jobs
               PROVE  RowsAgree!(i)'
    BY DEF RowsAgree
  <2>1. CASE i # j
    BY <1>5, <2>1 DEF RowsAgree
  <2>2. CASE i = j
    <3>1. \A k \in 1..(n + 1) : attempts'[j][k].status = "running" <=> k = n + 1
      <4>1. \A k \in 1..n : attempts'[j][k].status # "running"
        BY <1>2, Zenon
      <4>2. attempts'[j][n + 1].status = "running"
        BY <1>2
      <4>3. \A k \in 1..(n + 1) : k \in 1..n \/ k = n + 1
        BY <1>3
      <4>4. n + 1 \notin 1..n
        BY <1>3
      <4> QED
        BY <4>1, <4>2, <4>3, <4>4, Zenon
    <3> QED
      BY <1>1, <1>2, <1>3, <1>4, <2>2, <3>1
  <2> QED
    BY <2>1, <2>2
<1>9. OneTaskPerAttempt'
  <2>1. \A u \in Tasks : u # t /\ HasClaim(u)' /\ task'[u].job = j
           => task'[u].attempt # n + 1
    BY <1>3, <1>7 DEF ClaimsKnown, HasClaim, Phase
  <2> QED
    BY <1>7, <2>1 DEF OneTaskPerAttempt, HasClaim, Phase
<1>10. RetriesBounded'
  <2> SUFFICES ASSUME NEW i \in Jobs, NEW k \in 1..Len(attempts'[i])
               PROVE  RetriesBounded!(i)!(k)'
    BY DEF RetriesBounded
  <2>1. CASE i # j
    BY <1>5, <2>1 DEF RetriesBounded
  <2>2. CASE i = j
    <3>1. \A l \in 1..n : attempts[j][l].status # "succeeded"
      BY <1>6 DEF RetriesBounded
    <3>2. ASSUME k >= MaxCitationAttempts, k < n + 1
          PROVE  attempts'[j][k].status = "abandoned"
      <4>1. k \in 1..n
        BY <1>2, <1>3, <2>2, <3>2
      <4>2. CASE k < n
        <5>1. attempts[j][k].status = "abandoned"
          BY <3>2, <4>1, <4>2 DEF RetriesBounded
        <5> QED
          BY <1>2, <4>1, <5>1, Zenon
      <4>3. CASE k = n
        <5>1. job[j].status = "running"
          BY <1>6, <3>2, <4>3, <1>3, NumbersAssumption DEF ClaimsKnown
        <5>2. attempts[j][k].status = "running"
          BY <5>1, <4>1, <4>3 DEF RowsAgree
        <5> QED
          BY <5>2, <1>2, <4>1, Zenon
      <4> QED
        BY <4>1, <4>2, <4>3, <1>3
    <3>3. attempts'[j][k].status # "succeeded"
      <4>1. k \in 1..n \/ k = n + 1
        BY <1>2, <1>3, <2>2
      <4>2. \A l \in 1..n : attempts'[j][l].status # "succeeded"
        BY <1>2, <3>1, Zenon
      <4>3. attempts'[j][n + 1].status = "running"
        BY <1>2
      <4> QED
        BY <4>1, <4>2, <4>3
    <3> QED
      BY <1>2, <2>2, <3>2, <3>3
  <2> QED
    BY <2>1, <2>2
<1>11. AcceptedIsRecorded'
  <2> SUFFICES ASSUME NEW u \in Tasks, Phase(u)' = "reporting",
                      task'[u].accepted
               PROVE  AcceptedIsRecorded!(u)!2'
    BY DEF AcceptedIsRecorded
  <2>1. u # t /\ task'[u] = task[u] /\ Phase(u) = "reporting" /\ HasClaim(u)
    BY <1>7 DEF Phase, HasClaim
  <2>2. CASE task[u].job # j
    BY <1>5, <2>1, <2>2, TaskShapes DEF AcceptedIsRecorded
  <2>3. CASE task[u].job = j
    <3>1. /\ attempts[j][task[u].attempt].status
                = FinishedAttempt(task[u].outcome)
          /\ task[u].outcome # "retry" => job[j].status = task[u].outcome
          /\ task[u].attempt \in 1..n
      BY <2>1, <2>3 DEF AcceptedIsRecorded, ClaimsKnown
    <3>2. task[u].outcome \in Outcomes
      BY <2>1, TaskShapes DEF ReportingTask
    <3>3. task[u].outcome = "retry"
      BY <1>6, <3>1, <3>2 DEF Outcomes, FinalOutcomes
    <3>4. attempts'[j][task[u].attempt].status
             = FinishedAttempt(task[u].outcome)
      <4>1. attempts[j][task[u].attempt].status = "failed"
        BY <3>1, <3>3 DEF FinishedAttempt
      <4> QED
        BY <1>2, <3>1, <3>3, <4>1, Zenon DEF FinishedAttempt
    <3> QED
      BY <2>1, <2>3, <3>3, <3>4
  <2> QED
    BY <2>2, <2>3
<1>12. ClaimsKnown'
  <2>1. ASSUME NEW u \in Tasks, HasClaim(u)'
        PROVE  /\ task'[u].attempt \in 1..Len(attempts'[task'[u].job])
               /\ attempts'[task'[u].job][task'[u].attempt].worker = WorkerOf(u)
               /\ Phase(u)' = "finishing" /\ task'[u].outcome = "retry"
                     => task'[u].attempt < MaxCitationAttempts
    <3>1. CASE u = t
      BY <1>2, <1>3, <1>7, <3>1
    <3>2. CASE u # t
      <4>1. task'[u] = task[u] /\ HasClaim(u) /\ Phase(u)' = Phase(u)
        BY <1>7, <2>1, <3>2 DEF HasClaim, Phase
      <4>2. task[u].job \in Jobs
        BY <4>1, TaskShapes
      <4> QED
        BY <1>2, <1>3, <1>5, <4>1, <4>2 DEF ClaimsKnown
    <3> QED
      BY <3>1, <3>2
  <2>2. ASSUME NEW i \in Jobs, job'[i].status \in {"absent", "queued"}
        PROVE  Len(attempts'[i]) < MaxCitationAttempts
    BY <1>4, <1>5, <2>2 DEF ClaimsKnown
  <2> QED
    BY <2>1, <2>2 DEF ClaimsKnown
<1> QED
  BY <1>8, <1>9, <1>10, <1>11, <1>12

\* A finish keeps the invariant: it either touches nothing or ends the attempt
\* that is running.
LEMMA FinishKeepsInv ==
    ASSUME TypeOK, TypeOK', QueueInv, NEW t \in Tasks, Finish(t)
    PROVE  QueueInv'
<1> USE DEF QueueInv, TypeOK
<1> DEFINE c == task[t]
           j == c.job
           n == Len(attempts[j])
<1>1. /\ c \in EndedTask /\ j \in Jobs /\ c.outcome \in Outcomes
      /\ Phase(t) = "finishing" /\ HasClaim(t)
  BY TaskShapes DEF Finish, HasClaim, EndedTask
<1>2. /\ \A u \in Tasks : u # t => task'[u] = task[u]
      /\ Phase(t)' = "reporting" /\ HasClaim(t)'
      /\ task'[t].job = j /\ task'[t].attempt = c.attempt
      /\ task'[t].outcome = c.outcome
      /\ task'[t].accepted = Fenced(t)
  BY DEF Finish, HasClaim, Phase
<1>3. c.attempt \in 1..n
  BY <1>1 DEF ClaimsKnown
<1>4. CASE ~Fenced(t)
  <2>1. UNCHANGED <<job, attempts>>
    BY <1>4 DEF Finish
  <2>2. \A u \in Tasks :
           \/ task'[u] = task[u]
           \/ /\ HasClaim(u)
              /\ task'[u].job = task[u].job
              /\ task'[u].attempt = task[u].attempt
              /\ Phase(u)' = "reporting"
              /\ ~task'[u].accepted
    BY <1>1, <1>2, <1>4
  <2> QED
    BY <2>1, <2>2, SameRows
<1>5. CASE Fenced(t)
  <2>1. /\ job[j].status = "running" /\ c.attempt = n
        /\ job' = [job EXCEPT ![j] = FinishedJob(@, c)]
        /\ attempts' = [attempts EXCEPT ![j] = AfterFinish(@, c)]
    BY <1>1, <1>5 DEF Finish, Fenced, RowsAgree
  <2>2. /\ Len(attempts'[j]) = n
        /\ \A k \in 1..n : attempts'[j][k].worker = attempts[j][k].worker
        /\ attempts'[j][n].status = FinishedAttempt(c.outcome)
        /\ \A k \in 1..n : k # n => attempts'[j][k] = attempts[j][k]
    <3>1. attempts[j] \in Seq(AttemptRow) /\ c.attempt \in 1..Len(attempts[j])
      BY <1>1, <1>3
    <3>2. attempts'[j] = AfterFinish(attempts[j], c)
      BY <1>1, <2>1
    <3>3. /\ Len(AfterFinish(attempts[j], c)) = n
          /\ \A k \in 1..n :
                AfterFinish(attempts[j], c)[k].worker = attempts[j][k].worker
          /\ AfterFinish(attempts[j], c)[c.attempt].status
                = FinishedAttempt(c.outcome)
          /\ \A k \in 1..n : k # c.attempt
                => AfterFinish(attempts[j], c)[k] = attempts[j][k]
      <4> HIDE DEF c, j
      <4> QED
        BY ONLY <3>1, AfterFinishRows DEF n
    <3>4. c.attempt = n
      BY <2>1
    <3> HIDE DEF c, j, n
    <3> QED
      BY <3>2, <3>3, <3>4
  <2>3. job[j] \in JobRow /\ job[j].attempts = n /\ n \in Nat
    BY <1>1 DEF RowsAgree
  <2>4. /\ job'[j].status = IF c.outcome = "retry" THEN "queued" ELSE c.outcome
        /\ job'[j].owner = NoWorker
        /\ job'[j].leasedUntil = NoLease
        /\ job'[j].attempts = n
    BY <1>1, <2>1, <2>3 DEF FinishedJob, JobRow
  <2>5. job'[j].status # "running" /\ job'[j].status # "absent"
    BY <1>1, <2>4 DEF Outcomes, FinalOutcomes
  <2>6. \A i \in Jobs : i # j => job'[i] = job[i] /\ attempts'[i] = attempts[i]
    BY <1>1, <2>1
  <2>7. attempts'[j][n].status \in {"succeeded", "failed"}
    BY <2>2 DEF FinishedAttempt
  <2>8. \A k \in 1..n : k # n => attempts[j][k].status # "running"
    BY <1>1 DEF RowsAgree
  <2>9. RowsAgree'
    <3> SUFFICES ASSUME NEW i \in Jobs
                 PROVE  RowsAgree!(i)'
      BY DEF RowsAgree
    <3>1. CASE i # j
      BY <2>6, <3>1 DEF RowsAgree
    <3>2. CASE i = j
      <4>1. \A k \in 1..n : attempts'[j][k].status # "running"
        BY <2>2, <2>7, <2>8, Zenon
      <4> HIDE DEF j, n
      <4> QED
        BY <2>2, <2>4, <2>5, <3>2, <4>1
    <3> QED
      BY <3>1, <3>2
  <2>10. OneTaskPerAttempt'
    <3>1. \A u \in Tasks : /\ HasClaim(u)' => HasClaim(u)
                           /\ task'[u].job = task[u].job \/ ~HasClaim(u)'
                           /\ task'[u].attempt = task[u].attempt \/ ~HasClaim(u)'
      BY <1>1, <1>2 DEF HasClaim, Phase
    <3> QED
      BY <3>1 DEF OneTaskPerAttempt
  <2>11. RetriesBounded'
    <3> SUFFICES ASSUME NEW i \in Jobs, NEW k \in 1..Len(attempts'[i])
                 PROVE  RetriesBounded!(i)!(k)'
      BY DEF RetriesBounded
    <3>1. CASE i # j
      BY <2>6, <3>1 DEF RetriesBounded
    <3>2. CASE i = j
      <4>1. k \in 1..n
        BY <2>2, <3>2
      <4>2. k >= MaxCitationAttempts /\ k < n => attempts'[j][k].status = "abandoned"
        BY <1>1, <2>2, <4>1 DEF RetriesBounded
      <4>3. k # n => attempts'[j][k].status # "succeeded"
        BY <1>1, <2>2, <4>1, <2>3 DEF RetriesBounded
      <4>4. k = n /\ attempts'[j][k].status = "succeeded"
               => job'[j].status = "succeeded"
        BY <2>2, <2>4 DEF FinishedAttempt
      <4> HIDE DEF j, n
      <4> QED
        BY <2>2, <3>2, <4>2, <4>3, <4>4
    <3> QED
      BY <3>1, <3>2
  <2>12. AcceptedIsRecorded'
    <3> SUFFICES ASSUME NEW u \in Tasks, Phase(u)' = "reporting",
                        task'[u].accepted
                 PROVE  AcceptedIsRecorded!(u)!2'
      BY DEF AcceptedIsRecorded
    <3>1. CASE u = t
      BY <1>2, <2>1, <2>2, <2>4, <3>1
    <3>2. CASE u # t
      <4>1. task'[u] = task[u] /\ Phase(u) = "reporting" /\ HasClaim(u)
        BY <1>2, <3>2 DEF Phase, HasClaim
      <4>2. CASE task[u].job # j
        BY <2>6, <4>1, <4>2, TaskShapes DEF AcceptedIsRecorded
      <4>3. CASE task[u].job = j
        <5>1. /\ attempts[j][task[u].attempt].status
                    = FinishedAttempt(task[u].outcome)
              /\ task[u].outcome # "retry" => job[j].status = task[u].outcome
              /\ task[u].attempt \in 1..n
          BY <4>1, <4>3 DEF AcceptedIsRecorded, ClaimsKnown
        <5>2. task[u].outcome \in Outcomes
          BY <4>1, TaskShapes DEF ReportingTask
        <5>3. task[u].outcome = "retry"
          BY <2>1, <5>1, <5>2 DEF Outcomes, FinalOutcomes
        <5>4. task[u].attempt # n
          BY <1>1, <1>2, <2>1, <3>2, <4>1, <4>3 DEF OneTaskPerAttempt
        <5> QED
          BY <2>2, <4>1, <4>3, <5>1, <5>3, <5>4
      <4> QED
        BY <4>2, <4>3
    <3> QED
      BY <3>1, <3>2
  <2>13. ClaimsKnown'
    <3>1. ASSUME NEW u \in Tasks, HasClaim(u)'
          PROVE  /\ task'[u].attempt \in 1..Len(attempts'[task'[u].job])
                 /\ attempts'[task'[u].job][task'[u].attempt].worker
                       = WorkerOf(u)
                 /\ Phase(u)' = "finishing" /\ task'[u].outcome = "retry"
                       => task'[u].attempt < MaxCitationAttempts
      <4>1. /\ HasClaim(u)
            /\ task'[u].job = task[u].job
            /\ task'[u].attempt = task[u].attempt
            /\ task[u].job \in Jobs
        BY <1>1, <1>2, <3>1, TaskShapes DEF HasClaim, Phase
      <4>2. /\ task[u].attempt \in 1..Len(attempts[task[u].job])
            /\ attempts[task[u].job][task[u].attempt].worker = WorkerOf(u)
        BY <4>1 DEF ClaimsKnown
      <4>3. Phase(u)' = "finishing" /\ task'[u].outcome = "retry"
               => task'[u].attempt < MaxCitationAttempts
        BY <1>2, <4>1 DEF ClaimsKnown, Phase
      <4>4. CASE task[u].job # j
        BY <2>6, <4>1, <4>2, <4>3, <4>4
      <4>5. CASE task[u].job = j
        BY <2>2, <4>1, <4>2, <4>3, <4>5
      <4> QED
        BY <4>4, <4>5
    <3>2. ASSUME NEW i \in Jobs, job'[i].status \in {"absent", "queued"}
          PROVE  Len(attempts'[i]) < MaxCitationAttempts
      <4>1. CASE i # j
        BY <2>6, <3>2, <4>1 DEF ClaimsKnown
      <4>2. CASE i = j
        <5>1. c.outcome = "retry"
          BY <1>1, <2>4, <3>2, <4>2 DEF Outcomes, FinalOutcomes
        <5> QED
          BY <1>1, <2>1, <2>2, <4>2, <5>1 DEF ClaimsKnown
      <4> QED
        BY <4>1, <4>2
    <3> QED
      BY <3>1, <3>2 DEF ClaimsKnown
  <2> QED
    BY <2>9, <2>10, <2>11, <2>12, <2>13
<1> QED
  BY <1>4, <1>5

\* Every step keeps the invariant.
LEMMA InvStep == TypeOK /\ TypeOK' /\ QueueInv /\ [Next]_vars => QueueInv'
<1> SUFFICES ASSUME TypeOK, TypeOK', QueueInv, [Next]_vars
             PROVE  QueueInv'
  OBVIOUS
<1> USE DEF TypeOK
<1>1. ASSUME NEW j \in Jobs, Enqueue(j) \/ Reuse(j) PROVE QueueInv'
  <2> PICK new \in {"queued", "succeeded"} :
        job' = [job EXCEPT ![j].status = new, ![j].availableAt = now]
    BY <1>1 DEF Enqueue, Reuse
  <2>1. job[j].status = "absent" /\ UNCHANGED <<attempts, task>>
    BY <1>1 DEF Enqueue, Reuse
  <2>2. \A i \in Jobs : /\ job'[i].attempts = job[i].attempts
                        /\ job'[i].owner = job[i].owner
                        /\ job'[i].leasedUntil = job[i].leasedUntil
                        /\ i # j => job'[i].status = job[i].status
    BY <2>1 DEF JobRow
  <2>3. job'[j].status \in {"queued", "succeeded"}
    BY <2>1 DEF JobRow
  <2>4. RowsAgree'
    <3> SUFFICES ASSUME NEW i \in Jobs
                 PROVE  RowsAgree!(i)'
      BY DEF RowsAgree
    <3>1. RowsAgree!(i)
      BY DEF QueueInv, RowsAgree
    <3>2. CASE i = j
      BY <2>1, <2>2, <2>3, <3>1, <3>2
    <3>3. CASE i # j
      BY <2>1, <2>2, <3>1, <3>3
    <3> QED
      BY <3>2, <3>3
  <2>5. OneTaskPerAttempt'
    BY <2>1 DEF QueueInv, OneTaskPerAttempt, HasClaim, Phase
  <2>6. RetriesBounded'
    <3>1. \A k \in 1..Len(attempts[j]) : attempts[j][k].status # "succeeded"
      BY <2>1 DEF QueueInv, RetriesBounded
    <3> QED
      BY <2>1, <2>2, <3>1 DEF QueueInv, RetriesBounded
  <2>7. AcceptedIsRecorded'
    <3> SUFFICES ASSUME NEW u \in Tasks, Phase(u) = "reporting",
                        task[u].accepted
                 PROVE  AcceptedIsRecorded!(u)!2'
      BY <2>1 DEF AcceptedIsRecorded, Phase
    <3>1. task[u].job \in Jobs /\ task[u].outcome \in Outcomes
      BY TaskShapes DEF ReportingTask
    <3>2. task[u].job = j => task[u].outcome = "retry"
      BY <2>1, <3>1 DEF QueueInv, AcceptedIsRecorded, Outcomes, FinalOutcomes
    <3> QED
      BY <2>1, <2>2, <3>1, <3>2 DEF QueueInv, AcceptedIsRecorded
  <2>8. ClaimsKnown'
    BY <2>1, <2>2 DEF QueueInv, ClaimsKnown, HasClaim, Phase
  <2> QED
    BY <2>4, <2>5, <2>6, <2>7, <2>8 DEF QueueInv
<1>2. ASSUME NEW w \in Workers, BeginBatch(w) PROVE QueueInv'
  <2>1. \A t \in Tasks : task'[t] = task[t] \/ ~HasClaim(t)'
    BY <1>2 DEF BeginBatch, HasClaim, Phase
  <2> QED
    BY <1>2, <2>1, SameRows DEF BeginBatch
<1>3. ASSUME NEW t \in Tasks, Claim(t) PROVE QueueInv'
  BY <1>3, ClaimKeepsInv
<1>4. ASSUME NEW t \in Tasks, FindNothing(t) \/ Report(t) \/ Throw(t)
      PROVE  QueueInv'
  <2>1. \A u \in Tasks : task'[u] = task[u] \/ ~HasClaim(u)'
    BY <1>4 DEF FindNothing, Report, Throw, HasClaim, Phase, IdleTask
  <2> QED
    BY <1>4, <2>1, SameRows DEF FindNothing, Report, Throw
<1>5. ASSUME NEW t \in Tasks, Start(t) PROVE QueueInv'
  <2>1. \A u \in Tasks :
           \/ task'[u] = task[u]
           \/ /\ HasClaim(u)
              /\ task'[u].job = task[u].job
              /\ task'[u].attempt = task[u].attempt
              /\ Phase(u)' = "processing"
    <3>1. task[t] \in ClaimedTask
      BY <1>5, TaskShapes DEF Start
    <3> QED
      BY <1>5, <3>1 DEF Start, HasClaim, Phase, ClaimedTask
  <2> QED
    BY <1>5, <2>1, SameRows DEF Start
<1>6. ASSUME NEW t \in Tasks, NEW o \in Outcomes, Ends(t, o), HasClaim(t),
             o = "retry" => task[t].attempt < MaxCitationAttempts,
             UNCHANGED <<job, attempts>>
      PROVE  QueueInv'
  <2>1. \A u \in Tasks :
           \/ task'[u] = task[u]
           \/ /\ HasClaim(u)
              /\ task'[u].job = task[u].job
              /\ task'[u].attempt = task[u].attempt
              /\ Phase(u)' = "finishing"
              /\ task'[u].outcome = "retry"
                    => task[u].attempt < MaxCitationAttempts
    BY <1>6 DEF Ends, Phase
  <2> QED
    BY <1>6, <2>1, SameRows
<1>7. ASSUME NEW t \in Tasks, Refuse(t) PROVE QueueInv'
  <2>1. PICK o \in {"skipped_budget", "failed"} : Ends(t, o)
    BY <1>7 DEF Refuse
  <2>2. o \in Outcomes /\ o # "retry" /\ HasClaim(t)
    BY <1>7 DEF Refuse, Outcomes, FinalOutcomes, HasClaim
  <2> QED
    BY <1>6, <1>7, <2>1, <2>2 DEF Refuse
<1>8. ASSUME NEW t \in Tasks, EndAttempt(t) PROVE QueueInv'
  <2>1. PICK o \in Outcomes : MayEndWith(t, o) /\ Ends(t, o)
    BY <1>8 DEF EndAttempt
  <2>2. HasClaim(t)
    BY <1>8 DEF EndAttempt, HasClaim
  <2> QED
    BY <1>6, <1>8, <2>1, <2>2 DEF EndAttempt, MayEndWith
<1>9. ASSUME NEW t \in Tasks, Finish(t) PROVE QueueInv'
  BY <1>9, FinishKeepsInv
<1>10. ASSUME NEW t \in Tasks, Extend(t) PROVE QueueInv'
  <2>1. task[t].job \in Jobs /\ job[task[t].job].status = "running"
    BY <1>10, TaskShapes DEF Extend, Working, HasClaim, Fenced
  <2>2. \A i \in Jobs :
           /\ job'[i].status = job[i].status
           /\ job'[i].owner = job[i].owner
           /\ job'[i].attempts = job[i].attempts
           /\ job'[i].leasedUntil = IF i = task[t].job THEN now + LeaseTicks
                                    ELSE job[i].leasedUntil
    BY <1>10, <2>1 DEF Extend, JobRow
  <2>3. UNCHANGED <<attempts, task>> /\ now + LeaseTicks # NoLease
    BY <1>10, NumbersAssumption DEF Extend, NoLease
  <2>4. RowsAgree'
    <3> SUFFICES ASSUME NEW i \in Jobs
                 PROVE  RowsAgree!(i)'
      BY DEF RowsAgree
    <3>1. RowsAgree!(i)
      BY DEF QueueInv, RowsAgree
    <3>2. CASE i = task[t].job
      BY <2>1, <2>2, <2>3, <3>1, <3>2
    <3>3. CASE i # task[t].job
      BY <2>2, <2>3, <3>1, <3>3
    <3> QED
      BY <3>2, <3>3
  <2>5. OneTaskPerAttempt' /\ RetriesBounded'
    BY <2>2, <2>3 DEF QueueInv, OneTaskPerAttempt, RetriesBounded, HasClaim, Phase
  <2>6. AcceptedIsRecorded'
    <3>1. \A u \in Tasks : Phase(u) = "reporting" => task[u].job \in Jobs
      BY TaskShapes DEF HasClaim
    <3> QED
      BY <2>2, <2>3, <3>1 DEF QueueInv, AcceptedIsRecorded, Phase
  <2>7. ClaimsKnown'
    BY <2>2, <2>3 DEF QueueInv, ClaimsKnown, HasClaim, Phase
  <2> QED
    BY <2>4, <2>5, <2>6, <2>7 DEF QueueInv
<1>11. ASSUME NEW w \in Workers, Crash(w) PROVE QueueInv'
  <2>1. \A t \in Tasks : task'[t] = task[t] \/ ~HasClaim(t)'
    BY <1>11 DEF Crash, HasClaim, Phase, IdleTask
  <2> QED
    BY <1>11, <2>1, SameRows DEF Crash
<1>12. CASE Tick \/ UNCHANGED vars
  BY <1>12, SameRows DEF Tick, vars
<1> QED
  BY <1>1, <1>2, <1>3, <1>4, <1>5, <1>7, <1>8, <1>9, <1>10, <1>11, <1>12
     DEF Next, TaskStep

\* At the start there are no attempts and no claims.
LEMMA InvInit == Init => QueueInv
<1> SUFFICES ASSUME Init PROVE QueueInv
  OBVIOUS
<1>1. \A j \in Jobs : job[j] = AbsentJob /\ attempts[j] = <<>>
  BY DEF Init
<1>2. \A t \in Tasks : ~HasClaim(t) /\ Phase(t) = "idle"
  BY DEF Init, HasClaim, Phase, IdleTask
<1>3. RowsAgree /\ RetriesBounded
  BY <1>1 DEF RowsAgree, RetriesBounded, AbsentJob, NoLease
<1>4. OneTaskPerAttempt /\ AcceptedIsRecorded
  BY <1>2 DEF OneTaskPerAttempt, AcceptedIsRecorded
<1>5. ClaimsKnown
  BY <1>1, <1>2, NumbersAssumption DEF ClaimsKnown
<1> QED
  BY <1>3, <1>4, <1>5 DEF QueueInv

\* The inductive invariant holds in every reachable state.
THEOREM QueueInvariant == Spec => [](TypeOK /\ QueueInv)
<1>1. Init => TypeOK /\ QueueInv
  BY TypeInit, InvInit
<1>2. TypeOK /\ QueueInv /\ [Next]_vars => (TypeOK /\ QueueInv)'
  BY TypeStep, InvStep
<1> QED
  BY <1>1, <1>2, PTL DEF Spec

\* The job row and its attempt rows agree, whatever processes, slow tasks and
\* crashes do.
THEOREM RowsAlwaysAgree == Spec => []RowsAgree
BY QueueInvariant, PTL DEF QueueInv

\* No attempt is ever in the hands of two tasks.
THEOREM AttemptsAreExclusive == Spec => []OneTaskPerAttempt
BY QueueInvariant, PTL DEF QueueInv

\* Beyond the bounded retries only lost leases make attempts.
THEOREM RetriesAreBounded == Spec => []RetriesBounded
BY QueueInvariant, PTL DEF QueueInv

\* What the queue accepted is what it has on record.
THEOREM AcceptedOutcomesStand == Spec => []AcceptedIsRecorded
BY QueueInvariant, PTL DEF QueueInv

\* What a task remembers of its claim is on record: the attempt exists and was
\* made by its worker; a queued job has attempts left.
THEOREM ClaimsAreOnRecord == Spec => []ClaimsKnown
BY QueueInvariant, PTL DEF QueueInv

-----------------------------------------------------------------------------
(* What a step may never do.                                               *)

\* Only Claim, Finish, Extend, Enqueue and Reuse touch the rows of a job, and each
\* of them one job only.
LEMMA RowSteps ==
    ASSUME TypeOK, [Next]_vars, NEW j \in Jobs
    PROVE  \/ job'[j] = job[j] /\ attempts'[j] = attempts[j]
           \/ /\ job[j].status = "absent"
              /\ attempts'[j] = attempts[j]
              /\ \E new \in {"queued", "succeeded"} :
                    job'[j] = [job[j] EXCEPT !.status = new, !.availableAt = now]
           \/ \E t \in Tasks :
                 /\ Extend(t)
                 /\ job[j].status = "running"
                 /\ job'[j] = [job[j] EXCEPT !.leasedUntil = now + LeaseTicks]
                 /\ attempts'[j] = attempts[j]
           \/ \E t \in Tasks :
                 /\ Phase(t) = "claiming"
                 /\ Claimable(j, task[t].at)
                 /\ job'[j] = ClaimedJob(job[j], WorkerOf(t), task[t].at)
                 /\ attempts'[j] = AfterClaim(attempts[j], WorkerOf(t))
           \/ \E t \in Tasks :
                 /\ Phase(t) = "finishing"
                 /\ task[t].job = j
                 /\ Fenced(t)
                 /\ job'[j] = FinishedJob(job[j], task[t])
                 /\ attempts'[j] = AfterFinish(attempts[j], task[t])
<1> USE DEF TypeOK
<1>1. ASSUME NEW i \in Jobs, Enqueue(i) \/ Reuse(i), i # j
      PROVE  job'[j] = job[j]
  BY <1>1 DEF Enqueue, Reuse
<1>2. ASSUME NEW i \in Jobs, Enqueue(i) \/ Reuse(i)
      PROVE  attempts'[j] = attempts[j]
  BY <1>2 DEF Enqueue, Reuse
<1>3. ASSUME NEW t \in Tasks, Extend(t)
      PROVE  /\ attempts'[j] = attempts[j]
             /\ \/ job'[j] = job[j]
                \/ /\ job[j].status = "running"
                   /\ job'[j] = [job[j] EXCEPT !.leasedUntil = now + LeaseTicks]
  <2>1. task[t].job \in Jobs /\ job[task[t].job].status = "running"
    BY <1>3, TaskShapes DEF Extend, Working, HasClaim, Fenced
  <2>2. /\ job' = [job EXCEPT ![task[t].job] =
                      [@ EXCEPT !.leasedUntil = now + LeaseTicks]]
        /\ attempts' = attempts
    BY <1>3, <2>1 DEF Extend
  <2> QED
    BY <2>1, <2>2
<1>4. ASSUME NEW t \in Tasks, Claim(t)
      PROVE  \/ job'[j] = job[j] /\ attempts'[j] = attempts[j]
             \/ /\ Phase(t) = "claiming"
                /\ Claimable(j, task[t].at)
                /\ job'[j] = ClaimedJob(job[j], WorkerOf(t), task[t].at)
                /\ attempts'[j] = AfterClaim(attempts[j], WorkerOf(t))
  <2> PICK i \in Jobs :
         /\ Claimable(i, task[t].at)
         /\ job' = [job EXCEPT ![i] = ClaimedJob(@, WorkerOf(t), task[t].at)]
         /\ attempts' = [attempts EXCEPT ![i] = AfterClaim(@, WorkerOf(t))]
    BY <1>4 DEF Claim, Claimed
  <2>1. Phase(t) = "claiming"
    BY <1>4 DEF Claim
  <2> QED
    BY <2>1
<1>5. ASSUME NEW t \in Tasks, Finish(t)
      PROVE  \/ job'[j] = job[j] /\ attempts'[j] = attempts[j]
             \/ /\ Phase(t) = "finishing"
                /\ task[t].job = j
                /\ Fenced(t)
                /\ job'[j] = FinishedJob(job[j], task[t])
                /\ attempts'[j] = AfterFinish(attempts[j], task[t])
  BY <1>5 DEF Finish
<1>6. ASSUME NEW t \in Tasks, \/ FindNothing(t) \/ Start(t) \/ Refuse(t)
                              \/ EndAttempt(t) \/ Report(t) \/ Throw(t)
      PROVE  job'[j] = job[j] /\ attempts'[j] = attempts[j]
  BY <1>6 DEF FindNothing, Start, Refuse, EndAttempt, Report, Throw
<1>7. ASSUME NEW w \in Workers, BeginBatch(w) \/ Crash(w)
      PROVE  job'[j] = job[j] /\ attempts'[j] = attempts[j]
  BY <1>7 DEF BeginBatch, Crash
<1>8. ASSUME Tick \/ UNCHANGED vars
      PROVE  job'[j] = job[j] /\ attempts'[j] = attempts[j]
  BY <1>8 DEF Tick, vars
<1>9. ASSUME Enqueue(j) \/ Reuse(j)
      PROVE  /\ job[j].status = "absent"
             /\ \E new \in {"queued", "succeeded"} :
                   job'[j] = [job[j] EXCEPT !.status = new, !.availableAt = now]
  BY <1>9 DEF Enqueue, Reuse
<1> QED
  BY <1>1, <1>2, <1>3, <1>4, <1>5, <1>6, <1>7, <1>8, <1>9, Zenon
     DEF Next, TaskStep

\* A task that is about to claim read the clock in the past.
ReadsThePast == \A t \in Tasks : Phase(t) = "claiming" => task[t].at <= now

\* A step keeps that so: new readings are of the current time.
LEMMA ReadsStep == TypeOK /\ ReadsThePast /\ [Next]_vars => ReadsThePast'
<1> SUFFICES ASSUME TypeOK, ReadsThePast, [Next]_vars,
                    NEW t \in Tasks, Phase(t)' = "claiming"
             PROVE  task'[t].at <= now'
  BY DEF ReadsThePast
<1> USE DEF TypeOK, Phase
<1>1. now' >= now
  <2>1. ASSUME NEW u \in Tasks, TaskStep(u) \/ Extend(u) \/ Throw(u)
        PROVE  now' = now
    BY <2>1 DEF TaskStep, Claim, FindNothing, Start, Refuse, EndAttempt, Finish,
                Report, Extend, Throw
  <2>2. ASSUME NEW w \in Workers, BeginBatch(w) \/ Crash(w) PROVE now' = now
    BY <2>2 DEF BeginBatch, Crash
  <2>3. ASSUME NEW j \in Jobs, Enqueue(j) \/ Reuse(j) PROVE now' = now
    BY <2>3 DEF Enqueue, Reuse
  <2>4. Tick \/ UNCHANGED vars => now' = now + 1 \/ now' = now
    BY DEF Tick, vars
  <2>5. now' = now + 1 \/ now' = now
    BY <2>1, <2>2, <2>3, <2>4, Zenon DEF Next
  <2> QED
    BY <2>5
<1>2. task'[t] = task[t] \/ task'[t] = [phase |-> "claiming", at |-> now]
  <2>1. ASSUME NEW u \in Tasks, TaskStep(u) \/ Throw(u)
        PROVE  task'[t] = task[t]
    <3>1. u # t => task'[t] = task[t]
      BY <2>1 DEF TaskStep, Claim, FindNothing, Start, Refuse, EndAttempt, Ends,
                  Finish, Report, Throw
    <3>2. CASE u = t
      <4>1. CASE Start(t)
        <5>1. task[t] \in ClaimedTask
          BY <4>1, TaskShapes DEF Start
        <5> QED
          BY <4>1, <5>1 DEF Start, ClaimedTask
      <4>2. CASE FindNothing(t) \/ Report(t) \/ Throw(t)
        BY <4>2 DEF FindNothing, Report, Throw, IdleTask
      <4>3. CASE Refuse(t) \/ EndAttempt(t)
        BY <4>3 DEF Refuse, EndAttempt, Ends
      <4>4. CASE Claim(t)
        BY <4>4 DEF Claim
      <4>5. CASE Finish(t)
        BY <4>5 DEF Finish
      <4> QED
        BY <2>1, <3>2, <4>1, <4>2, <4>3, <4>4, <4>5 DEF TaskStep
    <3> QED
      BY <3>1, <3>2
  <2>2. ASSUME NEW w \in Workers, BeginBatch(w) \/ Crash(w)
        PROVE  \/ task'[t] = task[t]
               \/ task'[t] = [phase |-> "claiming", at |-> now]
    BY <2>2 DEF BeginBatch, Crash, IdleTask
  <2>3. ASSUME NEW u \in Tasks, Extend(u) PROVE task'[t] = task[t]
    BY <2>3 DEF Extend
  <2>4. ASSUME NEW j \in Jobs, Enqueue(j) \/ Reuse(j)
        PROVE  task'[t] = task[t]
    BY <2>4 DEF Enqueue, Reuse
  <2>5. Tick \/ UNCHANGED vars => task'[t] = task[t]
    BY DEF Tick, vars
  <2> QED
    BY <2>1, <2>2, <2>3, <2>4, <2>5, Zenon DEF Next
<1>3. CASE task'[t] = task[t]
  <2>1. task[t].at \in Nat /\ task[t].at <= now
    BY <1>3, TaskShapes DEF ReadsThePast
  <2>2. now' \in Nat
    BY TypeStep
  <2> QED
    BY <1>1, <1>3, <2>1, <2>2
<1>4. CASE task'[t] = [phase |-> "claiming", at |-> now]
  BY <1>1, <1>4
<1> QED
  BY <1>2, <1>3, <1>4

LEMMA ReadsInvariant == Spec => []ReadsThePast
<1>1. Init => ReadsThePast
  BY DEF Init, ReadsThePast, Phase, IdleTask
<1> QED
  BY <1>1, ReadsStep, TypeCorrect, PTL DEF Spec

\* A settled job stays as it was settled: no late answer, reclaim or restart
\* can reopen it or rewrite its attempts.
THEOREM SettledJobsStand == Spec => SettledIsFinal
<1>1. ASSUME TypeOK, [Next]_vars, NEW j \in Jobs, Settled(j)
      PROVE  job'[j] = job[j] /\ attempts'[j] = attempts[j]
  <2>1. job[j].status \notin {"absent", "queued", "running"}
    BY <1>1 DEF Settled, FinalOutcomes
  <2>2. \A t \in Tasks : ~Claimable(j, task[t].at)
    BY <2>1 DEF Claimable
  <2>3. \A t \in Tasks : task[t].job = j => ~Fenced(t)
    BY <2>1 DEF Fenced
  <2> QED
    BY <1>1, <2>1, <2>2, <2>3, RowSteps, Zenon
<1>2. TypeOK /\ [Next]_vars
         => [\A j \in Jobs : Settled(j) =>
                job'[j] = job[j] /\ attempts'[j] = attempts[j]]_vars
  BY <1>1
<1> QED
  BY <1>2, TypeCorrect, PTL DEF Spec, SettledIsFinal

\* The fence: a running attempt is ended by its holder, or by a claim after
\* its lease ran out; never by a stale worker.
THEOREM FenceHolds == Spec => OnlyHolderOrExpiry
<1>1. ASSUME TypeOK, QueueInv, ReadsThePast, [Next]_vars, NEW j \in Jobs,
             job[j].status = "running", attempts'[j] # attempts[j]
      PROVE  \/ \E t \in Tasks :
                   /\ Phase(t) = "finishing"
                   /\ task[t].job = j
                   /\ task[t].attempt = job[j].attempts
                   /\ WorkerOf(t) = attempts[j][job[j].attempts].worker
             \/ /\ job[j].leasedUntil <= now
                /\ job'[j].attempts = job[j].attempts + 1
  <2>1. /\ job[j] \in JobRow
        /\ job[j].attempts = Len(attempts[j])
        /\ job[j].owner = attempts[j][Len(attempts[j])].worker
        /\ job[j].leasedUntil # NoLease
    BY <1>1 DEF QueueInv, RowsAgree, TypeOK
  <2>2. \/ \E t \in Tasks :
              /\ Phase(t) = "claiming"
              /\ Claimable(j, task[t].at)
              /\ job'[j] = ClaimedJob(job[j], WorkerOf(t), task[t].at)
        \/ \E t \in Tasks :
              /\ Phase(t) = "finishing"
              /\ task[t].job = j
              /\ Fenced(t)
    BY <1>1, RowSteps, Zenon
  <2>3. ASSUME NEW t \in Tasks, Phase(t) = "finishing", task[t].job = j,
               Fenced(t)
        PROVE  /\ task[t].attempt = job[j].attempts
               /\ WorkerOf(t) = attempts[j][job[j].attempts].worker
    BY <2>1, <2>3 DEF Fenced
  <2>4. ASSUME NEW t \in Tasks, Phase(t) = "claiming", Claimable(j, task[t].at),
               job'[j] = ClaimedJob(job[j], WorkerOf(t), task[t].at)
        PROVE  /\ job[j].leasedUntil <= now
               /\ job'[j].attempts = job[j].attempts + 1
    <3>1. task[t].at \in Nat /\ task[t].at <= now /\ now \in Nat
      BY <1>1, <2>4, TaskShapes DEF ReadsThePast, TypeOK
    <3>2. job[j].leasedUntil <= task[t].at /\ job[j].leasedUntil \in Nat
      BY <1>1, <2>1, <2>4 DEF Claimable, Expired, JobRow
    <3>3. job'[j].attempts = job[j].attempts + 1
      BY <2>1, <2>4 DEF ClaimedJob, JobRow
    <3> QED
      BY <3>1, <3>2, <3>3
  <2> QED
    BY <2>2, <2>3, <2>4
<1>2. TypeOK /\ QueueInv /\ ReadsThePast /\ [Next]_vars
         => [\A j \in Jobs :
               LET n == job[j].attempts IN
               job[j].status = "running" /\ attempts'[j] # attempts[j] =>
                  \/ \E t \in Tasks :
                        /\ Phase(t) = "finishing"
                        /\ task[t].job = j
                        /\ task[t].attempt = n
                        /\ WorkerOf(t) = attempts[j][n].worker
                  \/ /\ job[j].leasedUntil <= now
                     /\ job'[j].attempts = n + 1]_vars
  BY <1>1
<1> QED
  BY <1>2, QueueInvariant, ReadsInvariant, PTL DEF Spec, OnlyHolderOrExpiry

-----------------------------------------------------------------------------
(* The queue implements the ledger.                                        *)

\* A step changes the rows of one job at most.
LEMMA OneJobAtATime ==
    ASSUME TypeOK, [Next]_vars
    PROVE  \/ UNCHANGED <<job, attempts>>
           \/ \E j \in Jobs : \A i \in Jobs \ {j} :
                 job'[i] = job[i] /\ attempts'[i] = attempts[i]
<1> USE DEF TypeOK
<1>1. ASSUME NEW j \in Jobs, Enqueue(j) \/ Reuse(j)
      PROVE  \A i \in Jobs \ {j} :
                job'[i] = job[i] /\ attempts'[i] = attempts[i]
  BY <1>1 DEF Enqueue, Reuse
<1>2. ASSUME NEW t \in Tasks, Extend(t)
      PROVE  \A i \in Jobs \ {task[t].job} :
                job'[i] = job[i] /\ attempts'[i] = attempts[i]
  BY <1>2 DEF Extend
<1>3. ASSUME NEW t \in Tasks, Finish(t)
      PROVE  \A i \in Jobs \ {task[t].job} :
                job'[i] = job[i] /\ attempts'[i] = attempts[i]
  BY <1>3 DEF Finish
<1>4. ASSUME NEW t \in Tasks, Extend(t) \/ Finish(t)
      PROVE  task[t].job \in Jobs
  BY <1>4, TaskShapes DEF Extend, Finish, Working, HasClaim
<1>5. ASSUME NEW t \in Tasks, Claim(t)
      PROVE  \E j \in Jobs : \A i \in Jobs \ {j} :
                job'[i] = job[i] /\ attempts'[i] = attempts[i]
  BY <1>5 DEF Claim
<1>6. ASSUME NEW t \in Tasks, \/ FindNothing(t) \/ Start(t) \/ Refuse(t)
                              \/ EndAttempt(t) \/ Report(t) \/ Throw(t)
      PROVE  UNCHANGED <<job, attempts>>
  BY <1>6 DEF FindNothing, Start, Refuse, EndAttempt, Report, Throw
<1>7. ASSUME NEW w \in Workers, BeginBatch(w) \/ Crash(w)
      PROVE  UNCHANGED <<job, attempts>>
  BY <1>7 DEF BeginBatch, Crash
<1>8. Tick \/ UNCHANGED vars => UNCHANGED <<job, attempts>>
  BY DEF Tick, vars
<1> QED
  BY <1>1, <1>2, <1>3, <1>4, <1>5, <1>6, <1>7, <1>8, Zenon DEF Next, TaskStep

\* What the ledger sees of one job: who holds it, how often it was granted,
\* how it was settled.
LedgerHolder(j) == job[j].owner
LedgerGrants(j) == Len(attempts[j])
LedgerResult(j) == IF Settled(j) THEN job[j].status ELSE "none"
LedgerPosted(j) == job[j].status # "absent"

\* For the job a step changes, the step is one of the ledger's.
LEMMA LedgerMoves ==
    ASSUME TypeOK, QueueInv, [Next]_vars, NEW j \in Jobs
    PROVE  \/ /\ LedgerHolder(j)' = LedgerHolder(j)
              /\ LedgerGrants(j)' = LedgerGrants(j)
              /\ LedgerResult(j)' = LedgerResult(j)
              /\ LedgerPosted(j)' = LedgerPosted(j)
           \/ /\ ~LedgerPosted(j)
              /\ LedgerPosted(j)'
              /\ LedgerHolder(j)' = LedgerHolder(j)
              /\ LedgerGrants(j)' = LedgerGrants(j)
              /\ \/ LedgerResult(j)' = LedgerResult(j)
                 \/ LedgerResult(j)' \in FinalOutcomes
           \/ /\ LedgerPosted(j) /\ LedgerPosted(j)'
              /\ LedgerResult(j) = "none" /\ LedgerResult(j)' = "none"
              /\ LedgerHolder(j)' \in Workers
              /\ LedgerGrants(j)' = LedgerGrants(j) + 1
           \/ /\ LedgerPosted(j) /\ LedgerPosted(j)'
              /\ LedgerHolder(j) # NoWorker /\ LedgerHolder(j)' = NoWorker
              /\ LedgerGrants(j)' = LedgerGrants(j)
              /\ LedgerResult(j) = "none"
              /\ \/ LedgerResult(j)' \in FinalOutcomes
                 \/ /\ LedgerResult(j)' = "none"
                    /\ LedgerGrants(j) <= MaxCitationAttempts - 1
<1> USE DEF LedgerHolder, LedgerGrants, LedgerResult, LedgerPosted, Settled
<1>1. /\ job[j] \in JobRow /\ attempts[j] \in Seq(AttemptRow)
      /\ job[j].attempts = Len(attempts[j])
      /\ job[j].status = "running" =>
            /\ job[j].owner = attempts[j][Len(attempts[j])].worker
            /\ Len(attempts[j]) > 0
      /\ job[j].status # "running" => job[j].owner = NoWorker
  BY DEF TypeOK, QueueInv, RowsAgree
<1>2. CASE job'[j] = job[j] /\ attempts'[j] = attempts[j]
  BY <1>2
<1>3. ASSUME job[j].status = "absent", attempts'[j] = attempts[j],
             NEW new \in {"queued", "succeeded"},
             job'[j] = [job[j] EXCEPT !.status = new, !.availableAt = now]
      PROVE  /\ ~LedgerPosted(j)
             /\ LedgerPosted(j)'
             /\ LedgerHolder(j)' = LedgerHolder(j)
             /\ LedgerGrants(j)' = LedgerGrants(j)
             /\ \/ LedgerResult(j)' = LedgerResult(j)
                \/ LedgerResult(j)' \in FinalOutcomes
  <2>1. job'[j].status = new /\ job'[j].owner = job[j].owner
    BY <1>1, <1>3 DEF JobRow
  <2> QED
    BY <1>3, <2>1 DEF FinalOutcomes
<1>4. ASSUME NEW t \in Tasks, Extend(t),
             job'[j] = [job[j] EXCEPT !.leasedUntil = now + LeaseTicks],
             attempts'[j] = attempts[j]
      PROVE  /\ LedgerHolder(j)' = LedgerHolder(j)
             /\ LedgerGrants(j)' = LedgerGrants(j)
             /\ LedgerResult(j)' = LedgerResult(j)
             /\ LedgerPosted(j)' = LedgerPosted(j)
  BY <1>1, <1>4 DEF JobRow
<1>5. ASSUME NEW t \in Tasks, Phase(t) = "claiming", Claimable(j, task[t].at),
             job'[j] = ClaimedJob(job[j], WorkerOf(t), task[t].at),
             attempts'[j] = AfterClaim(attempts[j], WorkerOf(t))
      PROVE  /\ LedgerPosted(j) /\ LedgerPosted(j)'
             /\ LedgerResult(j) = "none" /\ LedgerResult(j)' = "none"
             /\ LedgerHolder(j)' \in Workers
             /\ LedgerGrants(j)' = LedgerGrants(j) + 1
  <2>1. WorkerOf(t) \in Workers
    BY DEF Tasks, WorkerOf
  <2>2. Len(attempts'[j]) = Len(attempts[j]) + 1
    BY <1>1, <1>5, <2>1, AfterClaimRows
  <2>3. job'[j].status = "running" /\ job'[j].owner = WorkerOf(t)
    BY <1>1, <1>5 DEF ClaimedJob, JobRow
  <2>4. job[j].status \in {"queued", "running"}
    BY <1>5 DEF Claimable
  <2> QED
    BY <2>1, <2>2, <2>3, <2>4 DEF FinalOutcomes
<1>6. ASSUME NEW t \in Tasks, Phase(t) = "finishing", task[t].job = j, Fenced(t),
             job'[j] = FinishedJob(job[j], task[t]),
             attempts'[j] = AfterFinish(attempts[j], task[t])
      PROVE  /\ LedgerPosted(j) /\ LedgerPosted(j)'
             /\ LedgerHolder(j) # NoWorker /\ LedgerHolder(j)' = NoWorker
             /\ LedgerGrants(j)' = LedgerGrants(j)
             /\ LedgerResult(j) = "none"
             /\ \/ LedgerResult(j)' \in FinalOutcomes
                \/ /\ LedgerResult(j)' = "none"
                   /\ LedgerGrants(j) <= MaxCitationAttempts - 1
  <2>1. /\ task[t] \in EndedTask /\ task[t].outcome \in Outcomes
        /\ task[t].attempt \in 1..Len(attempts[j])
        /\ task[t].outcome = "retry" => task[t].attempt < MaxCitationAttempts
        /\ HasClaim(t)
    BY <1>6, TaskShapes DEF TypeOK, QueueInv, ClaimsKnown, HasClaim, EndedTask
  <2>2. /\ job[j].status = "running" /\ job[j].owner = WorkerOf(t)
        /\ task[t].attempt = Len(attempts[j])
    BY <1>1, <1>6 DEF Fenced
  <2>3. WorkerOf(t) \in Workers /\ WorkerOf(t) # NoWorker
    BY WorkersAssumption DEF Tasks, WorkerOf
  <2>4. Len(attempts'[j]) = Len(attempts[j])
    <3> DEFINE c == task[t]
               rows == attempts[j]
    <3>1. rows \in Seq(AttemptRow) /\ c.attempt \in 1..Len(rows)
      BY <1>1, <2>1
    <3>2. attempts'[j] = AfterFinish(rows, c)
      BY <1>6
    <3> HIDE DEF c, rows
    <3>3. Len(AfterFinish(rows, c)) = Len(rows)
      BY <3>1, AfterFinishRows
    <3> QED
      BY <3>2, <3>3 DEF rows
  <2>5. /\ job'[j].status
             = IF task[t].outcome = "retry" THEN "queued" ELSE task[t].outcome
        /\ job'[j].owner = NoWorker
    BY <1>1, <1>6 DEF FinishedJob, JobRow
  <2>6. task[t].outcome = "retry" => Len(attempts[j]) <= MaxCitationAttempts - 1
    BY <2>1, <2>2, NumbersAssumption
  <2> QED
    BY <2>1, <2>2, <2>3, <2>4, <2>5, <2>6 DEF FinalOutcomes, Outcomes
<1> QED
  BY <1>2, <1>3, <1>4, <1>5, <1>6, RowSteps, Zenon

\* Every behaviour of the queue is one of the ledger: nothing any process
\* does shows a job granted twice at once, settled twice, or granted after
\* it was settled.
THEOREM QueueImplementsLedger == Spec => ImplementsLedger
<1> DEFINE Holder  == [j \in Jobs |-> job[j].owner]
           Grants  == [j \in Jobs |-> Len(attempts[j])]
           Outcome == [j \in Jobs |-> IF Settled(j) THEN job[j].status ELSE "none"]
           Posted  == {j \in Jobs : job[j].status # "absent"}
<1>1. Init => Ledger!LedgerInit
  BY DEF Init, Ledger!LedgerInit, AbsentJob, Settled, FinalOutcomes
<1>2. TypeOK /\ QueueInv /\ [Next]_vars => [Ledger!LedgerNext]_(Ledger!ledger)
  <2> SUFFICES ASSUME TypeOK, QueueInv, [Next]_vars
               PROVE  [Ledger!LedgerNext]_(Ledger!ledger)
    OBVIOUS
  <2>1. CASE UNCHANGED <<job, attempts>>
    BY <2>1 DEF Ledger!ledger, Settled
  <2>2. ASSUME NEW j \in Jobs,
               \A i \in Jobs \ {j} : job'[i] = job[i] /\ attempts'[i] = attempts[i]
        PROVE  [Ledger!LedgerNext]_(Ledger!ledger)
    <3>1. /\ Holder' = [Holder EXCEPT ![j] = LedgerHolder(j)']
          /\ Grants' = [Grants EXCEPT ![j] = LedgerGrants(j)']
          /\ Outcome' = [Outcome EXCEPT ![j] = LedgerResult(j)']
          /\ Posted' = IF LedgerPosted(j)' THEN Posted \cup {j} ELSE Posted \ {j}
      BY <2>2 DEF LedgerHolder, LedgerGrants, LedgerResult, LedgerPosted, Settled
    <3>2. /\ Holder[j] = LedgerHolder(j) /\ Grants[j] = LedgerGrants(j)
          /\ Outcome[j] = LedgerResult(j)
          /\ j \in Posted <=> LedgerPosted(j)
      BY DEF LedgerHolder, LedgerGrants, LedgerResult, LedgerPosted
    <3>3. /\ Holder = [i \in Jobs |-> Holder[i]]
          /\ Grants = [i \in Jobs |-> Grants[i]]
          /\ Outcome = [i \in Jobs |-> Outcome[i]]
      OBVIOUS
    <3>4. /\ Ledger!Post(j) <=>
                /\ j \notin Posted /\ Posted' = Posted \cup {j}
                /\ UNCHANGED <<Holder, Grants, Outcome>>
          /\ \A r : Ledger!Import(j, r) <=>
                /\ j \notin Posted /\ Posted' = Posted \cup {j}
                /\ Outcome' = [Outcome EXCEPT ![j] = r]
                /\ UNCHANGED <<Holder, Grants>>
          /\ \A w : Ledger!Grant(j, w) <=>
                /\ j \in Posted /\ Outcome[j] = "none"
                /\ Holder' = [Holder EXCEPT ![j] = w]
                /\ Grants' = [Grants EXCEPT ![j] = @ + 1]
                /\ UNCHANGED <<Outcome, Posted>>
          /\ Ledger!Return(j) <=>
                /\ Holder[j] # NoWorker /\ Grants[j] <= MaxCitationAttempts - 1
                /\ Holder' = [Holder EXCEPT ![j] = NoWorker]
                /\ UNCHANGED <<Grants, Outcome, Posted>>
          /\ \A r : Ledger!Settle(j, r) <=>
                /\ Holder[j] # NoWorker /\ Outcome[j] = "none"
                /\ Holder' = [Holder EXCEPT ![j] = NoWorker]
                /\ Outcome' = [Outcome EXCEPT ![j] = r]
                /\ UNCHANGED <<Grants, Posted>>
          /\ Ledger!ledger = <<Holder, Grants, Outcome, Posted>>
          /\ Ledger!ledger' = <<Holder', Grants', Outcome', Posted'>>
      BY DEF Ledger!Post, Ledger!Import, Ledger!Grant, Ledger!Return, Ledger!Settle,
             Ledger!ledger
    <3> HIDE DEF Holder, Grants, Outcome, Posted
    <3>5. CASE /\ LedgerHolder(j)' = LedgerHolder(j)
               /\ LedgerGrants(j)' = LedgerGrants(j)
               /\ LedgerResult(j)' = LedgerResult(j)
               /\ LedgerPosted(j)' = LedgerPosted(j)
      <4>1. UNCHANGED <<Holder, Grants, Outcome, Posted>>
        BY <3>1, <3>2, <3>3, <3>5
      <4> QED
        BY <3>4, <4>1
    <3>6. CASE /\ ~LedgerPosted(j) /\ LedgerPosted(j)'
               /\ LedgerHolder(j)' = LedgerHolder(j)
               /\ LedgerGrants(j)' = LedgerGrants(j)
               /\ \/ LedgerResult(j)' = LedgerResult(j)
                  \/ LedgerResult(j)' \in FinalOutcomes
      <4>1. UNCHANGED <<Holder, Grants>> /\ Posted' = Posted \cup {j}
        BY <3>1, <3>2, <3>3, <3>6
      <4>2. CASE LedgerResult(j)' = LedgerResult(j)
        <5>1. UNCHANGED Outcome
          BY <3>1, <3>2, <3>3, <4>2
        <5>2. Ledger!Post(j)
          BY <3>2, <3>4, <3>6, <4>1, <5>1
        <5> QED
          BY <5>2 DEF Ledger!LedgerNext
      <4>3. CASE LedgerResult(j)' \in FinalOutcomes
        <5>1. PICK r \in FinalOutcomes : LedgerResult(j)' = r
          BY <4>3
        <5>2. Ledger!Import(j, r)
          BY <3>1, <3>2, <3>4, <3>6, <4>1, <5>1
        <5> QED
          BY <5>2 DEF Ledger!LedgerNext
      <4> QED
        BY <3>6, <4>2, <4>3
    <3>7. CASE /\ LedgerPosted(j) /\ LedgerPosted(j)'
               /\ LedgerResult(j) = "none" /\ LedgerResult(j)' = "none"
               /\ LedgerHolder(j)' \in Workers
               /\ LedgerGrants(j)' = LedgerGrants(j) + 1
      <4>1. UNCHANGED <<Outcome, Posted>>
        BY <3>1, <3>2, <3>3, <3>7
      <4>2. PICK w \in Workers : LedgerHolder(j)' = w
        BY <3>7
      <4>3. Ledger!Grant(j, w)
        BY <3>1, <3>2, <3>4, <3>7, <4>1, <4>2
      <4> QED
        BY <4>3 DEF Ledger!LedgerNext
    <3>8. CASE /\ LedgerPosted(j) /\ LedgerPosted(j)'
               /\ LedgerHolder(j) # NoWorker /\ LedgerHolder(j)' = NoWorker
               /\ LedgerGrants(j)' = LedgerGrants(j)
               /\ LedgerResult(j) = "none"
               /\ \/ LedgerResult(j)' \in FinalOutcomes
                  \/ /\ LedgerResult(j)' = "none"
                     /\ LedgerGrants(j) <= MaxCitationAttempts - 1
      <4>1. UNCHANGED <<Grants, Posted>>
        BY <3>1, <3>2, <3>3, <3>8
      <4>2. CASE LedgerResult(j)' \in FinalOutcomes
        <5>1. PICK r \in FinalOutcomes : LedgerResult(j)' = r
          BY <4>2
        <5>2. Ledger!Settle(j, r)
          BY <3>1, <3>2, <3>4, <3>8, <4>1, <5>1
        <5> QED
          BY <5>2 DEF Ledger!LedgerNext
      <4>3. CASE /\ LedgerResult(j)' = "none"
                 /\ LedgerGrants(j) <= MaxCitationAttempts - 1
        <5>1. UNCHANGED Outcome
          BY <3>1, <3>2, <3>3, <3>8, <4>3
        <5>2. Ledger!Return(j)
          BY <3>1, <3>2, <3>4, <3>8, <4>1, <4>3, <5>1
        <5> QED
          BY <5>2 DEF Ledger!LedgerNext
      <4> QED
        BY <3>8, <4>2, <4>3
    <3> QED
      BY <3>5, <3>6, <3>7, <3>8, LedgerMoves, Zenon
  <2> QED
    BY <2>1, <2>2, OneJobAtATime
<1> QED
  BY <1>1, <1>2, QueueInvariant, PTL DEF Spec, ImplementsLedger, Ledger!LedgerSpec

=============================================================================
