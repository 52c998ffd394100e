--------------------------- MODULE LlmSpending_proofs ---------------------------
(***************************************************************************)
(* Theorems about the gate and the budget, for any number of processes,    *)
(* tasks and jobs, any estimate and limit, and any number of mishaps.      *)
(***************************************************************************)
EXTENDS LlmSpending, FiniteSetTheorems, TLAPS

-----------------------------------------------------------------------------
(* What the constants are.                                                 *)

LEMMA Limits ==
    /\ IsFiniteSet(Tasks) /\ IsFiniteSet(Jobs)
    /\ GateLimit \in Nat /\ GateLimit > 0
    /\ Estimate \in Nat /\ Estimate > 0
    /\ MaxAnswers \in Nat /\ MaxAnswers > 0
    /\ HardLimit \in Nat /\ MaximumRetries \in Nat
    /\ NoJob \notin Jobs /\ "none" \notin Tasks
    /\ \A t \in Tasks : HomeOf[t] \in Processes
BY SpendingAssumption

\* A task that does nothing.
LEMMA IdleIsTask == Idle \in TaskState
BY Limits DEF Idle, TaskState, Stages

\* What a task is doing, by the columns of its state.
LEMMA TaskColumns ==
    ASSUME TypeOK, NEW t \in Tasks
    PROVE  /\ task[t] \in TaskState
           /\ task[t].stage \in Stages /\ task[t].job \in Jobs \cup {NoJob}
           /\ task[t].seen \in Nat /\ task[t].request \in 0 .. MaximumRetries + 1
           /\ task[t].owed \in 0 .. Estimate
           /\ HomeOf[t] \in Processes
<1>1. task[t] \in TaskState
  BY DEF TypeOK
<1> QED
  BY <1>1, Limits DEF TaskState

-----------------------------------------------------------------------------
(* The gate.                                                               *)

\* A gate of which columns are replaced.
LEMMA GateColumns ==
    ASSUME NEW S, NEW g \in [active : Nat, waiting : S, woken : S],
           NEW a \in Nat, NEW w \in S, NEW k \in S,
           NEW h \in {[g EXCEPT !.active = a], [g EXCEPT !.waiting = w],
                      [g EXCEPT !.active = a, !.woken = k],
                      [g EXCEPT !.active = a, !.waiting = w, !.woken = k]}
    PROVE  /\ h \in [active : Nat, waiting : S, woken : S]
           /\ h = [g EXCEPT !.active = a] =>
                 h.active = a /\ h.waiting = g.waiting /\ h.woken = g.woken
           /\ h = [g EXCEPT !.waiting = w] =>
                 h.active = g.active /\ h.waiting = w /\ h.woken = g.woken
           /\ h = [g EXCEPT !.active = a, !.woken = k] =>
                 h.active = a /\ h.waiting = g.waiting /\ h.woken = k
           /\ h = [g EXCEPT !.active = a, !.waiting = w, !.woken = k] =>
                 h.active = a /\ h.waiting = w /\ h.woken = k
<1>1. h \in [active : Nat, waiting : S, woken : S]
  <2>1. [g EXCEPT !.active = a] \in [active : Nat, waiting : S, woken : S]
    OBVIOUS
  <2>2. [g EXCEPT !.waiting = w] \in [active : Nat, waiting : S, woken : S]
    OBVIOUS
  <2>3. [g EXCEPT !.active = a, !.woken = k] \in [active : Nat, waiting : S, woken : S]
    OBVIOUS
  <2>4. [g EXCEPT !.active = a, !.waiting = w, !.woken = k] \in [active : Nat, waiting : S, woken : S]
    OBVIOUS
  <2> QED
    BY <2>1, <2>2, <2>3, <2>4
<1>2. h = [g EXCEPT !.active = a] =>
          h.active = a /\ h.waiting = g.waiting /\ h.woken = g.woken
  OBVIOUS
<1>3. h = [g EXCEPT !.waiting = w] =>
          h.active = g.active /\ h.waiting = w /\ h.woken = g.woken
  OBVIOUS
<1>4. h = [g EXCEPT !.active = a, !.woken = k] =>
          h.active = a /\ h.waiting = g.waiting /\ h.woken = k
  OBVIOUS
<1>5. h = [g EXCEPT !.active = a, !.waiting = w, !.woken = k] =>
          h.active = a /\ h.waiting = w /\ h.woken = k
  OBVIOUS
<1> QED
  BY <1>1, <1>2, <1>3, <1>4, <1>5

\* The steps of a gate lead from gate to gate.
LEMMA GateMoves ==
    ASSUME NEW g \in Gate, NEW t \in Tasks
    PROVE  /\ Acquired(g, t) \in Gate
           /\ Passes(g) => /\ Acquired(g, t).active = g.active + 1
                           /\ Acquired(g, t).waiting = g.waiting
                           /\ Acquired(g, t).woken = g.woken
           /\ ~Passes(g) => /\ Acquired(g, t).active = g.active
                            /\ Acquired(g, t).woken = g.woken
           /\ g.woken # <<>> =>
                 /\ Resumed(g) \in Gate
                 /\ Resumed(g).active = g.active + 1
                 /\ Resumed(g).waiting = g.waiting
                 /\ Len(Resumed(g).woken) = Len(g.woken) - 1
           /\ g.active > 0 =>
                 /\ Released(g) \in Gate
                 /\ Released(g).active = g.active - 1
                 /\ g.waiting = <<>> => /\ Released(g).waiting = <<>>
                                        /\ Released(g).woken = g.woken
                 /\ g.waiting # <<>> => Len(Released(g).woken) = Len(g.woken) + 1
           /\ g.active \in Nat /\ Len(g.woken) \in Nat
<1>1. /\ g \in [active : Nat, waiting : Seq(Tasks), woken : Seq(Tasks)]
      /\ g.active \in Nat /\ g.waiting \in Seq(Tasks) /\ g.woken \in Seq(Tasks)
  BY DEF Gate
<1>2. g.active + 1 \in Nat /\ Append(g.waiting, t) \in Seq(Tasks)
  BY <1>1
<1>3. /\ Acquired(g, t) \in Gate
      /\ Passes(g) => /\ Acquired(g, t).active = g.active + 1
                      /\ Acquired(g, t).waiting = g.waiting
                      /\ Acquired(g, t).woken = g.woken
      /\ ~Passes(g) => /\ Acquired(g, t).active = g.active
                       /\ Acquired(g, t).woken = g.woken
  <2> DEFINE a == g.active + 1
             w == Append(g.waiting, t)
             k == g.woken
             h == Acquired(g, t)
             S == Seq(Tasks)
  <2>1. /\ a = g.active + 1 /\ a \in Nat /\ w \in S /\ k \in S
        /\ g \in [active : Nat, waiting : S, woken : S]
        /\ g.woken \in S
    BY <1>1, <1>2
  <2>2. h = IF Passes(g) THEN [g EXCEPT !.active = a] ELSE [g EXCEPT !.waiting = w]
    BY DEF Acquired
  <2>3. Gate = [active : Nat, waiting : S, woken : S]
    BY DEF Gate
  <2> HIDE DEF a, w, k, h, S
  <2>4. h \in {[g EXCEPT !.active = a], [g EXCEPT !.waiting = w],
                      [g EXCEPT !.active = a, !.woken = k],
                      [g EXCEPT !.active = a, !.waiting = w, !.woken = k]}
    BY <2>2
  <2>5. /\ h \in Gate
        /\ Passes(g) => h.active = a /\ h.waiting = g.waiting /\ h.woken = g.woken
        /\ ~Passes(g) => h.active = g.active /\ h.woken = g.woken
    BY <2>1, <2>2, <2>3, <2>4, GateColumns
  <2> QED
    BY <2>1, <2>5 DEF h
<1>4. ASSUME g.woken # <<>>
      PROVE  /\ Resumed(g) \in Gate
             /\ Resumed(g).active = g.active + 1
             /\ Resumed(g).waiting = g.waiting
             /\ Len(Resumed(g).woken) = Len(g.woken) - 1
  <2> DEFINE a == g.active + 1
             k == Tail(g.woken)
             h == Resumed(g)
             S == Seq(Tasks)
  <2>1. /\ a = g.active + 1 /\ a \in Nat /\ k \in S
        /\ g \in [active : Nat, waiting : S, woken : S]
        /\ g.waiting \in S /\ Len(k) = Len(g.woken) - 1
    BY <1>1, <1>2, <1>4
  <2>2. h = [g EXCEPT !.active = a, !.woken = k]
    BY DEF Resumed
  <2>3. Gate = [active : Nat, waiting : S, woken : S]
    BY DEF Gate
  <2> HIDE DEF a, k, h, S
  <2>4. h \in {[g EXCEPT !.active = a], [g EXCEPT !.waiting = g.waiting],
                [g EXCEPT !.active = a, !.woken = k],
                [g EXCEPT !.active = a, !.waiting = g.waiting, !.woken = k]}
    BY <2>2
  <2>5. h \in Gate /\ h.active = a /\ h.waiting = g.waiting /\ h.woken = k
    BY <2>1, <2>2, <2>3, <2>4, GateColumns
  <2> QED
    BY <2>1, <2>5 DEF h
<1>5. ASSUME g.active > 0
      PROVE  /\ Released(g) \in Gate
             /\ Released(g).active = g.active - 1
             /\ g.waiting = <<>> => /\ Released(g).waiting = <<>>
                                    /\ Released(g).woken = g.woken
             /\ g.waiting # <<>> => Len(Released(g).woken) = Len(g.woken) + 1
  <2> DEFINE a == g.active - 1
             w == IF g.waiting = <<>> THEN <<>> ELSE Tail(g.waiting)
             k == IF g.waiting = <<>> THEN g.woken
                  ELSE Append(g.woken, Head(g.waiting))
             h == Released(g)
             S == Seq(Tasks)
  <2>1. g.waiting # <<>> => /\ Head(g.waiting) \in Tasks
                            /\ Tail(g.waiting) \in Seq(Tasks)
    BY <1>1
  <2>2. /\ a = g.active - 1 /\ a \in Nat /\ w \in S /\ k \in S
        /\ g \in [active : Nat, waiting : S, woken : S]
        /\ g.waiting = <<>> => k = g.woken
        /\ g.waiting # <<>> => Len(k) = Len(g.woken) + 1
    BY <1>1, <1>5, <2>1
  <2>3. h = IF g.waiting = <<>> THEN [g EXCEPT !.active = a]
            ELSE [g EXCEPT !.active = a, !.waiting = w, !.woken = k]
    BY DEF Released
  <2>4. Gate = [active : Nat, waiting : S, woken : S]
    BY DEF Gate
  <2> HIDE DEF a, w, k, h, S
  <2>5. h \in {[g EXCEPT !.active = a], [g EXCEPT !.waiting = w],
                      [g EXCEPT !.active = a, !.woken = k],
                      [g EXCEPT !.active = a, !.waiting = w, !.woken = k]}
    BY <2>3
  <2>6. /\ h \in Gate /\ h.active = a
        /\ g.waiting = <<>> => h.waiting = g.waiting /\ h.woken = g.woken
        /\ g.waiting # <<>> => h.woken = k
    BY <2>2, <2>3, <2>4, <2>5, GateColumns
  <2> QED
    BY <2>2, <2>6 DEF h
<1>6. Len(g.woken) \in Nat
  BY <1>1
<1> QED
  BY <1>1, <1>3, <1>4, <1>5, <1>6

-----------------------------------------------------------------------------
(* What each step does to a task.                                          *)

\* There is an answer left for the job.
MayAnswerAgain(j) == j # NoJob /\ job[j].answers + 1 < MaxAnswers

\* Task t alone goes on: to a stage, with a job and with what it owes.  It has
\* another answer as its verdict only where that may be.
Changes(t, stage, j, owed) ==
    /\ task' \in [Tasks -> TaskState]
    /\ \A u \in Tasks \ {t} : task'[u] = task[u]
    /\ task'[t].stage = stage /\ task'[t].job = j /\ task'[t].owed = owed
    /\ task'[t].seen \in {task[t].seen, 0, recorded}
    /\ task'[t].verdict = "retry" =>
          (task[t].verdict = "retry" /\ task[t].job = j) \/ MayAnswerAgain(j)

\* A task's row is replaced by another.
LEMMA RowReplaced ==
    ASSUME TypeOK, NEW t \in Tasks, NEW row \in TaskState,
           task' = [task EXCEPT ![t] = row],
           row.seen \in {task[t].seen, 0, recorded},
           row.verdict = "retry" =>
               (task[t].verdict = "retry" /\ task[t].job = row.job)
                   \/ MayAnswerAgain(row.job)
    PROVE  Changes(t, row.stage, row.job, row.owed)
BY DEF Changes, TypeOK

LEMMA ClaimMoves ==
    ASSUME TypeOK, NEW t \in Tasks, NEW j \in Jobs, NEW later, ClaimedBy(t, j, later)
    PROVE  Changes(t, "claimed", j, 0)
<1> DEFINE row == [Idle EXCEPT !.stage = "claimed", !.job = j]
<1>1. /\ row \in TaskState /\ row.stage = "claimed" /\ row.job = j
      /\ row.owed = 0 /\ row.seen = 0 /\ row.verdict = "none"
  BY IdleIsTask DEF Idle, TaskState, Stages
<1>2. task' = [task EXCEPT ![t] = row]
  BY DEF ClaimedBy
<1> HIDE DEF row
<1> QED
  BY <1>1, <1>2, RowReplaced

LEMMA GoesMoves ==
    ASSUME TypeOK, NEW t \in Tasks, NEW stage \in Stages, Goes(t, stage)
    PROVE  Changes(t, stage, task[t].job, task[t].owed)
<1> DEFINE row == [task[t] EXCEPT !.stage = stage]
<1>1. /\ row \in TaskState /\ row.stage = stage /\ row.job = task[t].job
      /\ row.owed = task[t].owed /\ row.seen = task[t].seen
      /\ row.verdict = task[t].verdict
  BY TaskColumns DEF TaskState
<1>2. task' = [task EXCEPT ![t] = row]
  BY DEF Goes
<1> HIDE DEF row
<1> QED
  BY <1>1, <1>2, RowReplaced

LEMMA EnterMoves ==
    ASSUME TypeOK, NEW t \in Tasks, Enter(t)
    PROVE  Changes(t, IF Passes(GateOf(t)) THEN "entered" ELSE "waiting",
                   task[t].job, task[t].owed)
BY GoesMoves DEF Enter, Stages

LEMMA ResumeMoves ==
    ASSUME TypeOK, NEW t \in Tasks, Resume(t)
    PROVE  Changes(t, "entered", task[t].job, task[t].owed)
BY GoesMoves DEF Resume, Stages

LEMMA StampMoves ==
    ASSUME TypeOK, NEW t \in Tasks, Stamp(t)
    PROVE  Changes(t, "stamped", task[t].job, task[t].owed)
<1> DEFINE row == [task[t] EXCEPT !.stage = "stamped", !.seen = recorded]
<1>1. recorded \in Nat
  BY DEF TypeOK
<1>2. /\ row \in TaskState /\ row.stage = "stamped" /\ row.job = task[t].job
      /\ row.owed = task[t].owed /\ row.seen = recorded
      /\ row.verdict = task[t].verdict
  BY <1>1, TaskColumns DEF TaskState, Stages
<1>3. task' = [task EXCEPT ![t] = row]
  BY DEF Stamp, TypeOK
<1> HIDE DEF row
<1> QED
  BY <1>2, <1>3, RowReplaced

\* The decision of t is positive.
Allows(t) == IsAllowed(task[t].seen + Reserved(task[t].job))

LEMMA DecideMoves ==
    ASSUME TypeOK, NEW t \in Tasks, Decide(t)
    PROVE  Changes(t, IF Allows(t) THEN "asking" ELSE "finishing",
                   task[t].job, task[t].owed)
<1>1. CASE Allows(t)
  <2> DEFINE row == [task[t] EXCEPT !.stage = "asking", !.seen = 0, !.request = 1]
  <2>1. 1 \in 0 .. MaximumRetries + 1
    BY Limits
  <2>2. /\ row \in TaskState /\ row.stage = "asking" /\ row.job = task[t].job
        /\ row.owed = task[t].owed /\ row.seen = 0
        /\ row.verdict = task[t].verdict
    BY <2>1, TaskColumns DEF TaskState, Stages
  <2>3. task' = [task EXCEPT ![t] = row]
    BY <1>1 DEF Decide, Allows, TypeOK
  <2> HIDE DEF row
  <2> QED
    BY <1>1, <2>2, <2>3, RowReplaced
<1>2. CASE ~Allows(t)
  <2> DEFINE row == [task[t] EXCEPT !.stage = "finishing", !.seen = 0,
                                    !.verdict = "skipped_budget"]
  <2>1. /\ row \in TaskState /\ row.stage = "finishing" /\ row.job = task[t].job
        /\ row.owed = task[t].owed /\ row.seen = 0
        /\ row.verdict = "skipped_budget"
    BY TaskColumns DEF TaskState, Stages
  <2>2. task' = [task EXCEPT ![t] = row]
    BY <1>2 DEF Decide, Allows, TypeOK
  <2> HIDE DEF row
  <2> QED
    BY <1>2, <2>1, <2>2, RowReplaced
<1> QED
  BY <1>1, <1>2

LEMMA AnswerMoves ==
    ASSUME TypeOK, NEW t \in Tasks, NEW cost \in Costs
    PROVE  /\ Answer(t, cost) => Changes(t, "answered", task[t].job, cost)
           /\ AnswerUnbilled(t, cost) =>
                 Changes(t, "answered", task[t].job, task[t].owed)
<1>1. 0 \in 0 .. MaximumRetries + 1
  BY Limits
<1>2. ASSUME Answer(t, cost) PROVE Changes(t, "answered", task[t].job, cost)
  <2> DEFINE row == [task[t] EXCEPT !.stage = "answered", !.request = 0, !.owed = cost]
  <2>1. /\ row \in TaskState /\ row.stage = "answered" /\ row.job = task[t].job
        /\ row.owed = cost /\ row.seen = task[t].seen
        /\ row.verdict = task[t].verdict
    BY <1>1, TaskColumns DEF TaskState, Stages, Costs
  <2>2. task' = [task EXCEPT ![t] = row]
    BY <1>2 DEF Answer, TypeOK
  <2> HIDE DEF row
  <2> QED
    BY <2>1, <2>2, RowReplaced
<1>3. ASSUME AnswerUnbilled(t, cost)
      PROVE  Changes(t, "answered", task[t].job, task[t].owed)
  <2> DEFINE row == [task[t] EXCEPT !.stage = "answered", !.request = 0]
  <2>1. /\ row \in TaskState /\ row.stage = "answered" /\ row.job = task[t].job
        /\ row.owed = task[t].owed /\ row.seen = task[t].seen
        /\ row.verdict = task[t].verdict
    BY <1>1, TaskColumns DEF TaskState, Stages
  <2>2. task' = [task EXCEPT ![t] = row]
    BY <1>3 DEF AnswerUnbilled, TypeOK
  <2> HIDE DEF row
  <2> QED
    BY <2>1, <2>2, RowReplaced
<1> QED
  BY <1>2, <1>3

LEMMA ErrorMoves ==
    ASSUME TypeOK, NEW t \in Tasks, NEW retryable \in BOOLEAN,
           AfterError(t, retryable), At(t, "asking")
    PROVE  \E stage \in {"asking", "finishing"} :
              Changes(t, stage, task[t].job, task[t].owed)
<1>1. CASE retryable /\ MayRetry(t)
  <2> DEFINE row == [task[t] EXCEPT !.request = task[t].request + 1]
  <2>1. task[t].request + 1 \in 0 .. MaximumRetries + 1
    BY <1>1, TaskColumns, Limits DEF MayRetry
  <2>2. /\ row \in TaskState /\ row.stage = "asking" /\ row.job = task[t].job
        /\ row.owed = task[t].owed /\ row.seen = task[t].seen
        /\ row.verdict = task[t].verdict
    BY <2>1, TaskColumns DEF TaskState, At
  <2>3. task' = [task EXCEPT ![t] = row]
    BY <1>1 DEF AfterError, TypeOK
  <2> HIDE DEF row
  <2> QED
    BY <2>2, <2>3, RowReplaced
<1>2. CASE ~(retryable /\ MayRetry(t))
  <2> DEFINE row == [task[t] EXCEPT !.stage = "finishing", !.request = 0,
                                    !.verdict = "failed"]
  <2>1. 0 \in 0 .. MaximumRetries + 1
    BY Limits
  <2>2. /\ row \in TaskState /\ row.stage = "finishing" /\ row.job = task[t].job
        /\ row.owed = task[t].owed /\ row.seen = task[t].seen
        /\ row.verdict = "failed"
    BY <2>1, TaskColumns DEF TaskState, Stages
  <2>3. task' = [task EXCEPT ![t] = row]
    BY <1>2 DEF AfterError, TypeOK
  <2> HIDE DEF row
  <2> QED
    BY <2>2, <2>3, RowReplaced
<1> QED
  BY <1>1, <1>2

LEMMA RecordMoves ==
    ASSUME TypeOK, NEW t \in Tasks,
           (\E verdict \in Verdicts : Record(t, verdict)) \/ RecordBroken(t)
    PROVE  Changes(t, "finishing", task[t].job, 0)
<1>1. PICK verdict \in Verdicts :
          /\ task' = [task EXCEPT ![t].stage = "finishing", ![t].owed = 0,
                                  ![t].verdict = verdict]
          /\ verdict = "retry" => MayAnswerAgain(task[t].job)
  <2>1. ASSUME NEW verdict \in Verdicts, Record(t, verdict)
        PROVE  /\ task' = [task EXCEPT ![t].stage = "finishing", ![t].owed = 0,
                                       ![t].verdict = verdict]
               /\ verdict = "retry" => MayAnswerAgain(task[t].job)
    BY <2>1 DEF Record, MayAnswerAgain
  <2>2. ASSUME RecordBroken(t)
        PROVE  task' = [task EXCEPT ![t].stage = "finishing", ![t].owed = 0,
                                    ![t].verdict = "failed"]
    BY <2>2 DEF RecordBroken
  <2>3. "failed" \in Verdicts
    BY DEF Verdicts
  <2> QED
    BY <2>1, <2>2, <2>3
<1> DEFINE row == [task[t] EXCEPT !.stage = "finishing", !.owed = 0,
                                  !.verdict = verdict]
<1>2. 0 \in 0 .. Estimate
  BY Limits
<1>3. /\ row \in TaskState /\ row.stage = "finishing" /\ row.job = task[t].job
      /\ row.owed = 0 /\ row.seen = task[t].seen /\ row.verdict = verdict
  BY <1>2, TaskColumns DEF TaskState, Stages, Verdicts
<1>4. task' = [task EXCEPT ![t] = row]
  BY <1>1 DEF TypeOK
<1> HIDE DEF row
<1> QED
  BY <1>1, <1>3, <1>4, RowReplaced

\* A job that ends is let go.
LEMMA FinishMoves ==
    ASSUME TypeOK, NEW t \in Tasks, Finish(t) \/ FinishBroken(t)
    PROVE  Changes(t, "finished", NoJob, 0)
<1> DEFINE row == [Idle EXCEPT !.stage = "finished"]
<1>1. /\ row \in TaskState /\ row.stage = "finished" /\ row.job = NoJob
      /\ row.owed = 0 /\ row.seen = 0 /\ row.verdict = "none"
  BY IdleIsTask DEF Idle, TaskState, Stages
<1>2. task' = [task EXCEPT ![t] = row]
  BY DEF Finish, FinishBroken
<1> HIDE DEF row
<1> QED
  BY <1>1, <1>2, RowReplaced

LEMMA HumanizeMoves ==
    ASSUME TypeOK, NEW t \in Tasks, Humanize(t)
    PROVE  Changes(t, "entered", NoJob, 0)
<1> DEFINE row == [Idle EXCEPT !.stage = "entered"]
<1>1. /\ row \in TaskState /\ row.stage = "entered" /\ row.job = NoJob
      /\ row.owed = 0 /\ row.seen = 0 /\ row.verdict = "none"
  BY IdleIsTask DEF Idle, TaskState, Stages
<1>2. task' = [task EXCEPT ![t] = row]
  BY DEF Humanize
<1> HIDE DEF row
<1> QED
  BY <1>1, <1>2, RowReplaced

LEMMA LeaveMoves ==
    ASSUME TypeOK, NEW t \in Tasks, Leave(t)
    PROVE  Changes(t, "idle", NoJob, 0)
<1>1. /\ Idle.stage = "idle" /\ Idle.job = NoJob /\ Idle.owed = 0
      /\ Idle.seen = 0 /\ Idle.verdict = "none"
  BY DEF Idle
<1>2. task' = [task EXCEPT ![t] = Idle]
  BY DEF Leave
<1> QED
  BY <1>1, <1>2, IdleIsTask, RowReplaced

-----------------------------------------------------------------------------
(* The gate keeps its limit and its waiters.                               *)

Outdoors == {"idle", "claimed", "waiting"}

\* The tasks in a gate are as many as may be counted.
LEMMA InGateIsFinite ==
    ASSUME NEW p \in Processes
    PROVE  IsFiniteSet(InGate(p)) /\ Cardinality(InGate(p)) \in Nat
<1>1. InGate(p) \in SUBSET Tasks
  BY DEF InGate
<1>2. IsFiniteSet(InGate(p))
  BY <1>1, Limits, FS_Subset
<1> QED
  BY <1>2, FS_CardinalityType

\* Only the gate of a task's process changes by it.
LEMMA InGateMoves ==
    ASSUME NEW t \in Tasks, NEW stage, NEW j, NEW owed, Changes(t, stage, j, owed),
           NEW p \in Processes
    PROVE  /\ HomeOf[t] # p => InGate(p)' = InGate(p)
           /\ (HomeOf[t] = p /\ stage \in Outdoors) => InGate(p)' = InGate(p) \ {t}
           /\ (HomeOf[t] = p /\ stage \notin Outdoors) => InGate(p)' = InGate(p) \cup {t}
BY DEF InGate, Changes, Outdoors

\* A task that neither comes nor goes leaves its gate as it is.
LEMMA GateKept ==
    ASSUME TypeOK, GateHolds, NoLostWakeup, UNCHANGED gate,
           NEW t \in Tasks, NEW stage, NEW j, NEW owed, Changes(t, stage, j, owed),
           stage \in Outdoors <=> task[t].stage \in Outdoors
    PROVE  GateHolds' /\ NoLostWakeup'
<1>1. \A p \in Processes : InGate(p)' = InGate(p)
  <2> SUFFICES ASSUME NEW p \in Processes, HomeOf[t] = p
               PROVE  InGate(p)' = InGate(p)
    BY InGateMoves
  <2>1. stage \in Outdoors => t \notin InGate(p)
    BY DEF InGate, Outdoors
  <2>2. stage \notin Outdoors => t \in InGate(p)
    BY DEF InGate, Outdoors
  <2> QED
    BY <2>1, <2>2, InGateMoves
<1> QED
  BY <1>1 DEF GateHolds, NoLostWakeup

\* A gate by itself holds.
Fits(g, inside) ==
    /\ Cardinality(inside) = g.active
    /\ g.active + Len(g.woken) <= GateLimit
    /\ g.waiting # <<>> => g.active + Len(g.woken) = GateLimit

LEMMA GatesFit ==
    (GateHolds /\ NoLostWakeup) <=> \A p \in Processes : Fits(gate[p], InGate(p))
BY DEF GateHolds, NoLostWakeup, Fits

\* A step at one gate leaves the others as they are.
LEMMA OneGate ==
    ASSUME TypeOK, GateHolds, NoLostWakeup,
           NEW t \in Tasks, NEW stage, NEW j, NEW owed, Changes(t, stage, j, owed),
           NEW g, gate' = [gate EXCEPT ![HomeOf[t]] = g],
           Fits(g, InGate(HomeOf[t])')
    PROVE  GateHolds' /\ NoLostWakeup'
<1> DEFINE p == HomeOf[t]
<1>1. p \in Processes
  BY Limits
<1>2. gate'[p] = g /\ \A q \in Processes : q # p => gate'[q] = gate[q]
  BY <1>1 DEF TypeOK
<1>3. \A q \in Processes : q # p => InGate(q)' = InGate(q)
  BY InGateMoves
<1>4. \A q \in Processes : Fits(gate'[q], InGate(q)')
  BY <1>2, <1>3, GatesFit
<1> HIDE DEF p
<1> QED
  BY <1>4 DEF GateHolds, NoLostWakeup, Fits

\* A gate fits by its numbers.
LEMMA FitsByNumbers ==
    ASSUME NEW h, NEW inside, NEW n \in Nat, NEW k \in Nat,
           Cardinality(inside) = n, h.active = n, Len(h.woken) = k,
           n + k <= GateLimit, h.waiting # <<>> => n + k = GateLimit
    PROVE  Fits(h, inside)
BY DEF Fits

\* One place more, or less, is one that was kept for a woken waiter, or is
\* kept for the next one.
LEMMA PlacesMove ==
    ASSUME NEW a \in Nat, NEW k \in Nat, a + k <= GateLimit
    PROVE  /\ k # 0 => /\ k - 1 \in Nat /\ (a + 1) + (k - 1) <= GateLimit
                       /\ a + k = GateLimit => (a + 1) + (k - 1) = GateLimit
           /\ a > 0 => /\ a - 1 \in Nat /\ (a - 1) + 0 <= GateLimit
                       /\ a + k = GateLimit => (a - 1) + (k + 1) = GateLimit
BY Limits

\* acquire(), release() and the rest of acquire() at one gate.
LEMMA EnterFits ==
    ASSUME TypeOK, GateHolds, NoLostWakeup, NEW t \in Tasks, Enter(t)
    PROVE  gate' \in [Processes -> Gate] /\ GateHolds' /\ NoLostWakeup'
<1> DEFINE p == HomeOf[t]
           g == gate[p]
<1>1. p \in Processes /\ g \in Gate
  BY Limits DEF TypeOK
<1>2. Fits(g, InGate(p))
  BY <1>1, GatesFit
<1>3. /\ gate' = [gate EXCEPT ![p] = Acquired(g, t)]
      /\ g.woken = <<>> /\ task[t].stage = "claimed"
  BY DEF Enter, MayRun, GateOf, At
<1>4. Changes(t, IF Passes(g) THEN "entered" ELSE "waiting", task[t].job, task[t].owed)
  BY EnterMoves DEF GateOf
<1>5. t \notin InGate(p) /\ IsFiniteSet(InGate(p))
  BY <1>1, <1>3, InGateIsFinite DEF InGate
<1>6. gate' \in [Processes -> Gate]
  BY <1>1, <1>3, GateMoves DEF TypeOK
<1>7. Len(g.woken) = 0 /\ g.active \in Nat
  BY <1>1, <1>3, GateMoves
<1>8. CASE Passes(g)
  <2>1. InGate(p)' = InGate(p) \cup {t}
    BY <1>1, <1>4, <1>8, InGateMoves DEF Outdoors
  <2>2. Cardinality(InGate(p)') = g.active + 1
    BY <1>2, <1>5, <2>1, FS_AddElement DEF Fits
  <2>3. /\ Acquired(g, t).active = g.active + 1
        /\ Acquired(g, t).waiting = g.waiting /\ Acquired(g, t).woken = g.woken
    BY <1>1, <1>8, GateMoves
  <2>4. g.active < GateLimit /\ g.waiting = <<>>
    BY <1>2, <1>7, <1>8 DEF Passes, Fits
  <2>5. /\ g.active + 1 \in Nat /\ g.active + 1 + 0 <= GateLimit
        /\ Len(Acquired(g, t).woken) = 0 /\ Acquired(g, t).waiting = <<>>
    BY <1>7, <2>3, <2>4, Limits
  <2>6. Fits(Acquired(g, t), InGate(p)')
    BY <2>2, <2>3, <2>5, FitsByNumbers
  <2> QED
    BY <1>3, <1>4, <1>6, <2>6, OneGate
<1>9. CASE ~Passes(g)
  <2>1. InGate(p)' = InGate(p)
    BY <1>1, <1>4, <1>5, <1>9, InGateMoves DEF Outdoors
  <2>2. Acquired(g, t).active = g.active /\ Acquired(g, t).woken = g.woken
    BY <1>1, <1>9, GateMoves
  <2>3. g.active = GateLimit
    BY <1>2, <1>7, <1>9, Limits DEF Passes, Fits
  <2>4. Fits(Acquired(g, t), InGate(p)')
    BY <1>2, <1>7, <2>1, <2>2, <2>3, Limits DEF Fits
  <2> QED
    BY <1>3, <1>4, <1>6, <2>4, OneGate
<1> QED
  BY <1>8, <1>9

LEMMA ResumeFits ==
    ASSUME TypeOK, GateHolds, NoLostWakeup, NEW t \in Tasks, Resume(t)
    PROVE  gate' \in [Processes -> Gate] /\ GateHolds' /\ NoLostWakeup'
<1> DEFINE p == HomeOf[t]
           g == gate[p]
<1>1. p \in Processes /\ g \in Gate
  BY Limits DEF TypeOK
<1>2. Fits(g, InGate(p))
  BY <1>1, GatesFit
<1>3. /\ gate' = [gate EXCEPT ![p] = Resumed(g)]
      /\ g.woken # <<>> /\ task[t].stage = "waiting"
  BY DEF Resume, GateOf, At
<1>4. Changes(t, "entered", task[t].job, task[t].owed)
  BY ResumeMoves
<1>5. t \notin InGate(p) /\ IsFiniteSet(InGate(p))
  BY <1>1, <1>3, InGateIsFinite DEF InGate
<1>6. /\ Resumed(g) \in Gate /\ Resumed(g).active = g.active + 1
      /\ Resumed(g).waiting = g.waiting
      /\ Len(Resumed(g).woken) = Len(g.woken) - 1
      /\ g.active \in Nat /\ Len(g.woken) \in Nat
  BY <1>1, <1>3, GateMoves
<1>7. gate' \in [Processes -> Gate]
  BY <1>1, <1>3, <1>6 DEF TypeOK
<1>8. InGate(p)' = InGate(p) \cup {t}
  BY <1>1, <1>4, InGateMoves DEF Outdoors
<1>9. Cardinality(InGate(p)') = g.active + 1
  BY <1>2, <1>5, <1>8, FS_AddElement DEF Fits
<1>10. Len(g.woken) # 0
  BY <1>1, <1>3 DEF Gate
<1>11. /\ g.active + 1 \in Nat /\ Len(g.woken) - 1 \in Nat
       /\ (g.active + 1) + (Len(g.woken) - 1) <= GateLimit
       /\ Resumed(g).waiting # <<>> =>
             (g.active + 1) + (Len(g.woken) - 1) = GateLimit
  <2>1. /\ g.active + Len(g.woken) <= GateLimit
        /\ g.waiting # <<>> => g.active + Len(g.woken) = GateLimit
    BY <1>2 DEF Fits
  <2>2. PICK a \in Nat, k \in Nat : a = g.active /\ k = Len(g.woken)
    BY <1>6
  <2>3. /\ a + 1 \in Nat /\ k - 1 \in Nat /\ (a + 1) + (k - 1) <= GateLimit
    BY <2>1, <2>2, <1>10, PlacesMove
  <2>4. g.waiting # <<>> => (a + 1) + (k - 1) = GateLimit
    BY <2>1, <2>2, <1>10, PlacesMove
  <2> QED
    BY <1>6, <2>2, <2>3, <2>4
<1>12. Fits(Resumed(g), InGate(p)')
  BY <1>6, <1>9, <1>11, FitsByNumbers
<1> QED
  BY <1>3, <1>4, <1>7, <1>12, OneGate

LEMMA LeaveFits ==
    ASSUME TypeOK, GateHolds, NoLostWakeup, NEW t \in Tasks, Leave(t)
    PROVE  gate' \in [Processes -> Gate] /\ GateHolds' /\ NoLostWakeup'
<1> DEFINE p == HomeOf[t]
           g == gate[p]
<1>1. p \in Processes /\ g \in Gate
  BY Limits DEF TypeOK
<1>2. Fits(g, InGate(p))
  BY <1>1, GatesFit
<1>3. /\ gate' = [gate EXCEPT ![p] = Released(g)]
      /\ g.woken = <<>> /\ task[t].stage \in {"finished", "finishing"}
  BY DEF Leave, MayRun, GateOf, At
<1>4. Changes(t, "idle", NoJob, 0)
  BY LeaveMoves
<1>5. t \in InGate(p) /\ IsFiniteSet(InGate(p)) /\ Cardinality(InGate(p)) \in Nat
  BY <1>1, <1>3, InGateIsFinite DEF InGate
<1>6. Cardinality(InGate(p)) # 0
  BY <1>5, FS_EmptySet
<1>7. g.active > 0 /\ g.active \in Nat /\ Len(g.woken) = 0
  BY <1>1, <1>2, <1>3, <1>5, <1>6, GateMoves DEF Fits
<1>8. /\ Released(g) \in Gate /\ Released(g).active = g.active - 1
      /\ g.waiting = <<>> => Released(g).waiting = <<>> /\ Released(g).woken = g.woken
      /\ g.waiting # <<>> => Len(Released(g).woken) = Len(g.woken) + 1
  BY <1>1, <1>7, GateMoves
<1>9. gate' \in [Processes -> Gate]
  BY <1>1, <1>3, <1>8 DEF TypeOK
<1>10. InGate(p)' = InGate(p) \ {t}
  BY <1>1, <1>4, InGateMoves DEF Outdoors
<1>11. Cardinality(InGate(p)') = g.active - 1
  BY <1>2, <1>5, <1>10, FS_RemoveElement DEF Fits
<1>12. ASSUME g.waiting = <<>> PROVE Fits(Released(g), InGate(p)')
  <2>1. /\ g.active - 1 \in Nat /\ (g.active - 1) + 0 <= GateLimit
        /\ Len(Released(g).woken) = 0 /\ Released(g).waiting = <<>>
    BY <1>2, <1>7, <1>8, <1>12, Limits DEF Fits
  <2> QED
    BY <1>8, <1>11, <2>1, FitsByNumbers
<1>13. ASSUME g.waiting # <<>> PROVE Fits(Released(g), InGate(p)')
  <2>1. /\ g.active - 1 \in Nat /\ (g.active - 1) + 1 = GateLimit
        /\ Len(Released(g).woken) = 1
    <3>1. /\ g.active + Len(g.woken) = GateLimit
          /\ Len(Released(g).woken) = Len(g.woken) + 1
      BY <1>2, <1>8, <1>13 DEF Fits
    <3> QED
      BY <1>7, <3>1, Limits
  <2>2. PICK n \in Nat, k \in Nat : n = g.active - 1 /\ k = 1
    BY <2>1
  <2>3. n + k = GateLimit /\ n + k <= GateLimit
    BY <2>1, <2>2, Limits
  <2>4. /\ Cardinality(InGate(p)') = n /\ Released(g).active = n
        /\ Len(Released(g).woken) = k
    BY <1>8, <1>11, <2>1, <2>2
  <2> QED
    BY <2>3, <2>4, FitsByNumbers
<1>14. Fits(Released(g), InGate(p)')
  BY <1>12, <1>13
<1> QED
  BY <1>3, <1>4, <1>9, <1>14, OneGate

\* The gate of a process that stops is empty.
LEMMA StopFits ==
    ASSUME TypeOK, GateHolds, NoLostWakeup, NEW p \in Processes, Stop(p)
    PROVE  gate' \in [Processes -> Gate] /\ GateHolds' /\ NoLostWakeup'
<1>1. /\ gate' = [gate EXCEPT ![p] = EmptyGate]
      /\ task' = [t \in Tasks |-> IF HomeOf[t] = p THEN Idle ELSE task[t]]
  BY DEF Stop
<1>2. EmptyGate \in Gate
  BY DEF EmptyGate, Gate
<1>3. gate'[p] = EmptyGate /\ \A q \in Processes : q # p => gate'[q] = gate[q]
  BY <1>1 DEF TypeOK
<1>4. \A t \in Tasks : HomeOf[t] = p => task'[t].stage = "idle"
  BY <1>1 DEF Idle
<1>5. \A t \in Tasks : HomeOf[t] # p => task'[t] = task[t]
  BY <1>1
<1>6. InGate(p)' = {}
  BY <1>4 DEF InGate
<1>7. \A q \in Processes : q # p => InGate(q)' = InGate(q)
  BY <1>5 DEF InGate
<1>8. Cardinality({}) = 0
  BY FS_EmptySet
<1>9. /\ EmptyGate.active = 0 /\ EmptyGate.waiting = <<>> /\ EmptyGate.woken = <<>>
  BY DEF EmptyGate
<1>10. Len(EmptyGate.woken) = 0
  BY <1>9
<1>11. Fits(EmptyGate, InGate(p)')
  BY <1>6, <1>8, <1>9, <1>10, Limits DEF Fits
<1>12. \A q \in Processes : Fits(gate'[q], InGate(q)')
  BY <1>3, <1>7, <1>11, GatesFit
<1> QED
  BY <1>1, <1>2, <1>12 DEF GateHolds, NoLostWakeup, Fits, TypeOK

-----------------------------------------------------------------------------
(* Jobs, their order and who works at them.                                *)

\* The running jobs are in the order of their claims.
JobsInOrder ==
    /\ \A k \in Jobs : earlier[k] \subseteq Running \ {k}
    /\ \A j, k \in Running : j # k => j \in earlier[k] \/ k \in earlier[j]
    /\ \A j, k \in Running : j \in earlier[k] => earlier[j] \subseteq earlier[k]

\* Whoever has the lease of a job is at work at it.
HoldersWork ==
    \A j \in Jobs : job[j].holder # "none" =>
        /\ job[j].status = "running"
        /\ task[job[j].holder].job = j
        /\ task[job[j].holder].stage \notin {"idle", "finished"}

\* A job is asked for another answer only where one is left.
RetriesHaveAnswers ==
    \A t \in Tasks : (Holds(t) /\ task[t].verdict = "retry") =>
        MayAnswerAgain(task[t].job)

\* A claim of a job, and the end of one, keep the order.
LEMMA ClaimKeepsOrder ==
    ASSUME TypeOK, JobsInOrder, NEW t \in Tasks, NEW j \in Jobs,
           NEW later \in SUBSET Running, ClaimedBy(t, j, later),
           later = {} \/ IsLatest(later, j)
    PROVE  JobsInOrder'
<1>1. /\ job' = [job EXCEPT ![j].status = "running", ![j].holder = t]
      /\ earlier' = Started(j, later)
  BY DEF ClaimedBy
<1>2. Running' = Running \cup {j}
  BY <1>1 DEF Running, TypeOK, JobRow
<1>3. /\ later \subseteq Running \ {j}
      /\ \A k \in later, m \in Running \ {j} : k \in earlier[m] => m \in later
  BY DEF IsLatest
<1>4. /\ earlier'[j] = Running \ (later \cup {j})
      /\ \A k \in Jobs \ {j} :
            earlier'[k] = (earlier[k] \ {j}) \cup (IF k \in later THEN {j} ELSE {})
  BY <1>1 DEF Started
<1>5. Running \subseteq Jobs
  BY DEF Running
<1>6. \A k \in Jobs : earlier'[k] \subseteq Running' \ {k}
  BY <1>2, <1>4, <1>5 DEF JobsInOrder
<1>7. ASSUME NEW h \in Running', NEW k \in Running', h # k
      PROVE  h \in earlier'[k] \/ k \in earlier'[h]
  <2>1. CASE h = j
    BY <1>2, <1>4, <1>5, <1>7, <2>1
  <2>2. CASE k = j
    BY <1>2, <1>4, <1>5, <1>7, <2>2
  <2>3. CASE h # j /\ k # j
    BY <1>2, <1>4, <1>5, <1>7, <2>3 DEF JobsInOrder
  <2> QED
    BY <2>1, <2>2, <2>3
<1>8. ASSUME NEW h \in Running', NEW k \in Running', h \in earlier'[k]
      PROVE  earlier'[h] \subseteq earlier'[k]
  <2>1. CASE h = j
    <3>1. k \in Running \ {j} /\ k \in later
      BY <1>2, <1>4, <1>5, <1>8, <2>1, <1>6 DEF JobsInOrder
    <3>2. \A m \in Running \ (later \cup {j}) : m \in earlier[k]
      BY <1>3, <1>5, <3>1 DEF JobsInOrder
    <3> QED
      BY <1>4, <1>5, <2>1, <3>1, <3>2
  <2>2. CASE k = j
    <3>1. h \in Running \ {j} /\ h \notin later
      BY <1>4, <1>5, <1>8, <2>2
    <3>2. \A m \in earlier[h] : m \notin later
      BY <1>3, <3>1 DEF JobsInOrder
    <3>3. earlier[h] \subseteq Running
      BY <1>5, <3>1 DEF JobsInOrder
    <3> QED
      BY <1>4, <1>5, <2>2, <3>1, <3>2, <3>3
  <2>3. CASE h # j /\ k # j
    <3>1. h \in Running \ {j} /\ k \in Running \ {j} /\ h \in earlier[k]
      BY <1>2, <1>4, <1>5, <1>8, <2>3
    <3>2. earlier[h] \subseteq earlier[k]
      BY <3>1 DEF JobsInOrder
    <3>3. h \in later => k \in later
      BY <1>3, <3>1
    <3> QED
      BY <1>4, <1>5, <3>1, <3>2, <3>3
  <2> QED
    BY <2>1, <2>2, <2>3
<1> QED
  BY <1>6, <1>7, <1>8 DEF JobsInOrder

LEMMA EndKeepsOrder ==
    ASSUME TypeOK, JobsInOrder, NEW j \in Jobs,
           earlier' = [k \in Jobs |-> earlier[k] \ {j}],
           Running' = Running \ {j}
    PROVE  JobsInOrder'
<1>1. Running \subseteq Jobs
  BY DEF Running
<1> QED
  BY <1>1 DEF JobsInOrder

LEMMA OrderKept ==
    ASSUME JobsInOrder, UNCHANGED earlier, Running' = Running
    PROVE  JobsInOrder'
BY DEF JobsInOrder

\* Who has a lease has the job that goes with it.
LEMMA HoldersHold ==
    ASSUME HoldersWork, NEW t \in Tasks, NEW j \in Jobs, job[j].holder = t
    PROVE  /\ Holds(t) /\ task[t].job = j /\ job[j].status = "running"
           /\ task[t].stage \notin {"idle", "finished"}
BY Limits DEF HoldersWork, Holds

\* What is left of the leases when task t does something.
LEMMA WorkKept ==
    ASSUME TypeOK, HoldersWork, RetriesHaveAnswers,
           NEW t \in Tasks, NEW stage, NEW j, NEW owed, Changes(t, stage, j, owed),
           UNCHANGED job,
           Holds(t) => stage \notin {"idle", "finished"} /\ j = task[t].job
    PROVE  HoldersWork' /\ RetriesHaveAnswers'
<1>1. ASSUME NEW k \in Jobs, job'[k].holder # "none"
      PROVE  /\ job'[k].status = "running" /\ task'[job'[k].holder].job = k
             /\ task'[job'[k].holder].stage \notin {"idle", "finished"}
  <2>1. job[k].holder \in Tasks
    BY <1>1 DEF TypeOK, JobRow
  <2>2. CASE job[k].holder = t
    BY <2>2, <2>1, HoldersHold DEF Changes
  <2>3. CASE job[k].holder # t
    BY <2>1, <2>3, <1>1 DEF Changes, HoldersWork
  <2> QED
    BY <2>2, <2>3
<1>2. ASSUME NEW u \in Tasks, Holds(u)', task'[u].verdict = "retry"
      PROVE  MayAnswerAgain(task[u].job)' /\ task'[u].job # NoJob
  <2>1. CASE u # t
    BY <1>2, <2>1 DEF Changes, Holds, RetriesHaveAnswers, MayAnswerAgain
  <2>2. CASE u = t
    <3>1. j # NoJob /\ job[j].holder = t /\ task'[t].job = j /\ task'[t] \in TaskState
      BY <1>2, <2>2 DEF Changes, Holds
    <3>2. j \in Jobs
      BY <3>1, Limits DEF TaskState
    <3>3. Holds(t) /\ task[t].job = j
      BY <3>1, <3>2, HoldersHold
    <3>4. MayAnswerAgain(j)
      BY <1>2, <2>2, <3>3 DEF Changes, RetriesHaveAnswers
    <3> QED
      BY <2>2, <3>1, <3>4 DEF MayAnswerAgain
  <2> QED
    BY <2>1, <2>2
<1>3. HoldersWork'
  BY <1>1 DEF HoldersWork
<1>4. RetriesHaveAnswers'
  BY <1>2 DEF RetriesHaveAnswers, MayAnswerAgain
<1> QED
  BY <1>3, <1>4

\* Leases end, that of t if it has one and perhaps others.
LEMMA WorkEnds ==
    ASSUME TypeOK, HoldersWork, RetriesHaveAnswers, task' \in [Tasks -> TaskState],
           \A k \in Jobs : \/ job'[k].holder = "none"
                           \/ /\ job'[k] = job[k]
                              /\ task'[job[k].holder] = task[job[k].holder]
    PROVE  HoldersWork' /\ RetriesHaveAnswers'
<1>1. HoldersWork'
  BY DEF HoldersWork
<1>2. ASSUME NEW u \in Tasks, Holds(u)', task'[u].verdict = "retry"
      PROVE  task'[u].job # NoJob /\ job'[task'[u].job].answers + 1 < MaxAnswers
  <2> DEFINE k == task'[u].job
  <2>1. k \in Jobs /\ job'[k].holder = u
    BY <1>2, TypeOK, Limits DEF Holds, TaskState
  <2>2. job'[k] = job[k] /\ task'[u] = task[u]
    BY <2>1, Limits
  <2>3. k = task[u].job
    BY <2>2
  <2> HIDE DEF k
  <2>4. Holds(u)
    BY <2>1, <2>2, <2>3, Limits DEF Holds
  <2>5. MayAnswerAgain(k)
    BY <1>2, <2>2, <2>3, <2>4 DEF RetriesHaveAnswers
  <2> QED
    BY <2>1, <2>2, <2>5 DEF MayAnswerAgain, k
<1> QED
  BY <1>1, <1>2 DEF RetriesHaveAnswers, MayAnswerAgain

\* A claim gives its job to a task that had none.
LEMMA ClaimGives ==
    ASSUME TypeOK, HoldersWork, RetriesHaveAnswers, NEW t \in Tasks, NEW j \in Jobs,
           NEW later, ClaimedBy(t, j, later)
    PROVE  HoldersWork' /\ RetriesHaveAnswers' /\ job' \in [Jobs -> JobRow]
<1> DEFINE row == [job[j] EXCEPT !.status = "running", !.holder = t]
<1>1. job[j] \in JobRow
  BY DEF TypeOK
<1>2. /\ row \in JobRow /\ row.status = "running" /\ row.holder = t
  BY <1>1 DEF JobRow
<1>3. job' = [job EXCEPT ![j] = row] /\ task[t].stage = "idle"
  BY DEF ClaimedBy, TypeOK, At
<1> HIDE DEF row
<1>4. job' \in [Jobs -> JobRow]
  BY <1>2, <1>3 DEF TypeOK
<1>5. Changes(t, "claimed", j, 0)
  BY ClaimMoves
<1>6. task'[t].verdict = "none"
  BY DEF ClaimedBy, Idle, TypeOK
<1>7. job'[j] = row /\ \A k \in Jobs \ {j} : job'[k] = job[k]
  BY <1>3 DEF TypeOK
<1>8. \A k \in Jobs : job[k].holder # t
  BY <1>3, HoldersHold
<1>9. HoldersWork'
  <2> SUFFICES ASSUME NEW k \in Jobs, job'[k].holder # "none"
               PROVE  /\ job'[k].status = "running" /\ task'[job'[k].holder].job = k
                      /\ task'[job'[k].holder].stage \notin {"idle", "finished"}
    BY DEF HoldersWork
  <2>1. CASE k = j
    BY <1>2, <1>5, <1>7, <2>1 DEF Changes
  <2>2. CASE k # j
    <3>1. job[k].holder \in Tasks \ {t}
      BY <1>7, <1>8, <2>2 DEF TypeOK, JobRow
    <3> QED
      BY <1>5, <1>7, <2>2, <3>1 DEF Changes, HoldersWork
  <2> QED
    BY <2>1, <2>2
<1>10. ASSUME NEW u \in Tasks, Holds(u)', task'[u].verdict = "retry"
       PROVE  task'[u].job # NoJob /\ job'[task'[u].job].answers + 1 < MaxAnswers
  <2>1. u # t
    BY <1>6, <1>10
  <2>2. task'[u] = task[u]
    BY <1>5, <2>1 DEF Changes
  <2>3. task[u].job \in Jobs /\ job'[task[u].job].holder = u
    BY <1>10, <2>2, TaskColumns, Limits DEF Holds
  <2>4. task[u].job # j
    BY <1>2, <1>7, <2>1, <2>3
  <2>5. job'[task[u].job] = job[task[u].job]
    BY <1>7, <2>3, <2>4
  <2>6. Holds(u)
    BY <2>3, <2>5, Limits DEF Holds
  <2> QED
    BY <1>10, <2>2, <2>5, <2>6 DEF RetriesHaveAnswers, MayAnswerAgain
<1> QED
  BY <1>4, <1>9, <1>10 DEF RetriesHaveAnswers, MayAnswerAgain

\* What the end of an attempt does to the jobs: to its own, if it still has it.
LEMMA FinishEnds ==
    ASSUME TypeOK, JobsInOrder, HoldersWork, RetriesHaveAnswers,
           NEW t \in Tasks, Finish(t) \/ FinishBroken(t)
    PROVE  /\ job' \in [Jobs -> JobRow] /\ earlier' \in [Jobs -> SUBSET Jobs]
           /\ \A k \in Jobs : IF job[k].holder = t THEN job'[k].holder = "none"
                              ELSE job'[k] = job[k]
           /\ JobsInOrder'
<1> DEFINE j == task[t].job
<1>1. j \in Jobs
  <2>1. j # NoJob
    BY DEF Finish, FinishBroken
  <2> QED
    BY <2>1, TaskColumns
<1>2. job[j] \in JobRow
  BY <1>1 DEF TypeOK
<1>3. \A k \in Jobs : job[k].holder = t => k = j
  BY HoldersHold
<1>4. Holds(t) <=> job[j].holder = t
  BY <1>1, Limits DEF Holds
<1>5. Holds(t) => j \in Running
  BY <1>1, <1>4, HoldersHold DEF Running
<1>6. CASE ~Holds(t)
  <2>1. UNCHANGED <<job, earlier>>
    BY <1>6 DEF Finish, FinishBroken
  <2>2. Running' = Running
    BY <2>1 DEF Running
  <2> QED
    BY <1>3, <1>4, <1>6, <2>1, <2>2, OrderKept DEF TypeOK
<1>7. CASE Holds(t) /\ Finish(t)
  <2> DEFINE again == task[t].verdict = "retry"
             row == [status |-> IF again THEN "queued" ELSE "settled",
                     answers |-> job[j].answers + (IF again THEN 1 ELSE 0),
                     holder |-> "none"]
  <2>1. job[j].answers + (IF again THEN 1 ELSE 0) \in 0 .. MaxAnswers
    <3>1. job[j].answers \in 0 .. MaxAnswers
      BY <1>2 DEF JobRow
    <3>2. again => job[j].answers + 1 < MaxAnswers
      BY <1>7 DEF RetriesHaveAnswers, MayAnswerAgain
    <3> QED
      BY <3>1, <3>2, Limits
  <2>2. /\ row \in JobRow /\ row.holder = "none"
        /\ row.status \in {"queued", "settled"}
    BY <2>1 DEF JobRow
  <2>3. /\ job' = [job EXCEPT ![j] = row]
        /\ earlier' = [k \in Jobs |-> earlier[k] \ {j}]
    BY <1>7, <1>1 DEF Finish, TypeOK
  <2> HIDE DEF row
  <2>4. job' \in [Jobs -> JobRow] /\ earlier' \in [Jobs -> SUBSET Jobs]
    BY <2>2, <2>3 DEF TypeOK
  <2>5. job'[j] = row /\ \A k \in Jobs \ {j} : job'[k] = job[k]
    BY <1>1, <2>3 DEF TypeOK
  <2>6. Running' = Running \ {j}
    BY <2>2, <2>5 DEF Running
  <2> QED
    BY <1>1, <1>3, <1>4, <1>7, <2>2, <2>3, <2>4, <2>5, <2>6, EndKeepsOrder
<1>8. CASE Holds(t) /\ FinishBroken(t)
  <2> DEFINE row == [job[j] EXCEPT !.holder = "none"]
  <2>1. /\ row \in JobRow /\ row.holder = "none" /\ row.status = job[j].status
    BY <1>2 DEF JobRow
  <2>2. job' = [job EXCEPT ![j] = row] /\ earlier' = earlier
    BY <1>8, <1>1 DEF FinishBroken, TypeOK
  <2> HIDE DEF row
  <2>3. job' \in [Jobs -> JobRow] /\ earlier' \in [Jobs -> SUBSET Jobs]
    BY <2>1, <2>2 DEF TypeOK
  <2>4. job'[j] = row /\ \A k \in Jobs \ {j} : job'[k] = job[k]
    BY <1>1, <2>2 DEF TypeOK
  <2>5. Running' = Running
    BY <2>1, <2>4 DEF Running
  <2> QED
    BY <1>1, <1>3, <1>4, <1>8, <2>1, <2>2, <2>3, <2>4, <2>5, OrderKept
<1> QED
  BY <1>6, <1>7, <1>8

\* A stop lets the jobs of the process go, which stay running.
LEMMA StopEnds ==
    ASSUME TypeOK, JobsInOrder, HoldersWork, RetriesHaveAnswers,
           NEW p \in Processes, Stop(p)
    PROVE  /\ task' \in [Tasks -> TaskState]
           /\ job' \in [Jobs -> JobRow]
           /\ \A k \in Jobs : \/ job'[k].holder = "none"
                              \/ job'[k] = job[k] /\ HomeOf[job[k].holder] # p
           /\ Running' = Running /\ JobsInOrder'
           /\ HoldersWork' /\ RetriesHaveAnswers'
<1>1. /\ task' = [t \in Tasks |-> IF HomeOf[t] = p THEN Idle ELSE task[t]]
      /\ job' = [j \in Jobs |->
                    IF job[j].holder # "none" /\ HomeOf[job[j].holder] = p
                    THEN [job[j] EXCEPT !.holder = "none"] ELSE job[j]]
      /\ earlier' = earlier
  BY DEF Stop
<1>2. task' \in [Tasks -> TaskState]
  BY <1>1, IdleIsTask DEF TypeOK
<1>3. \A j \in Jobs : /\ [job[j] EXCEPT !.holder = "none"] \in JobRow
                      /\ [job[j] EXCEPT !.holder = "none"].holder = "none"
                      /\ [job[j] EXCEPT !.holder = "none"].status = job[j].status
  <2> SUFFICES ASSUME NEW j \in Jobs
               PROVE  /\ [job[j] EXCEPT !.holder = "none"] \in JobRow
                      /\ [job[j] EXCEPT !.holder = "none"].holder = "none"
                      /\ [job[j] EXCEPT !.holder = "none"].status = job[j].status
    OBVIOUS
  <2>1. job[j] \in JobRow
    BY DEF TypeOK
  <2> QED
    BY <2>1 DEF JobRow
<1>4. job' \in [Jobs -> JobRow]
  <2>1. \A j \in Jobs : job[j] \in JobRow
    BY DEF TypeOK
  <2> QED
    BY <1>1, <1>3, <2>1
<1>5. \A j \in Jobs : job'[j].status = job[j].status
  BY <1>1, <1>3
<1>6. Running' = Running
  BY <1>5 DEF Running
<1>7. \A k \in Jobs : \/ job'[k].holder = "none"
                      \/ /\ job'[k] = job[k] /\ HomeOf[job[k].holder] # p
                         /\ job[k].holder \in Tasks
  <2> SUFFICES ASSUME NEW k \in Jobs, job'[k].holder # "none"
               PROVE  /\ job'[k] = job[k] /\ HomeOf[job[k].holder] # p
                      /\ job[k].holder \in Tasks
    OBVIOUS
  <2>1. job[k].holder \in Tasks \cup {"none"}
    BY DEF TypeOK, JobRow
  <2> QED
    BY <1>1, <1>3, <2>1
<1>8. \A k \in Jobs : \/ job'[k].holder = "none"
                      \/ /\ job'[k] = job[k]
                         /\ task'[job[k].holder] = task[job[k].holder]
  BY <1>1, <1>7
<1>9. HoldersWork' /\ RetriesHaveAnswers'
  BY <1>2, <1>8, WorkEnds
<1> QED
  BY <1>1, <1>2, <1>4, <1>6, <1>7, <1>9, OrderKept

-----------------------------------------------------------------------------
(* Tasks, jobs and gates together.                                         *)

\* Only a task with an answer in hand owes its cost.
OwedIsAnswered == \A t \in Tasks : task[t].owed # 0 => At(t, "answered")

\* Usage that was seen is on record.
SeenIsRecorded == \A t \in Tasks : task[t].seen <= recorded

\* The inductive invariant of the gates and of the jobs.
ControlInv ==
    /\ TypeOK
    /\ GateHolds /\ NoLostWakeup
    /\ JobsInOrder
    /\ HoldersWork /\ RetriesHaveAnswers
    /\ OwedIsAnswered /\ SeenIsRecorded

\* The sums stay numbers, and what is recorded stays so.
SumsGrow ==
    /\ {recorded', billed', untold'} \subseteq Nat /\ mishaps' \in Nat
    /\ recorded <= recorded'

LEMMA SumsAre ==
    ASSUME TypeOK
    PROVE  recorded \in Nat /\ billed \in Nat /\ untold \in Nat /\ mishaps \in Nat
BY DEF TypeOK

LEMMA MishapsAre ==
    ASSUME TypeOK, NEW kind, Happens(kind)
    PROVE  mishaps' \in Nat
BY DEF TypeOK, Happens

\* What is owed and what was seen, when task t does something.
LEMMA CountsKept ==
    ASSUME TypeOK, OwedIsAnswered, SeenIsRecorded, SumsGrow,
           NEW t \in Tasks, NEW stage, NEW j, NEW owed, Changes(t, stage, j, owed),
           owed # 0 => stage = "answered"
    PROVE  OwedIsAnswered' /\ SeenIsRecorded'
<1>1. \A u \in Tasks : task[u].seen \in Nat /\ task[u].seen <= recorded
  BY TaskColumns DEF SeenIsRecorded
<1>2. recorded \in Nat /\ recorded' \in Nat /\ recorded <= recorded'
  BY SumsAre DEF SumsGrow
<1>3. ASSUME NEW u \in Tasks PROVE task'[u].seen <= recorded'
  <2>1. CASE u = t
    <3>1. task'[t].seen \in {task[t].seen, 0, recorded}
      BY DEF Changes
    <3> QED
      BY <1>1, <1>2, <2>1, <3>1
  <2>2. CASE u # t
    <3>1. task'[u].seen = task[u].seen
      BY <2>2 DEF Changes
    <3> QED
      BY <1>1, <1>2, <3>1
  <2> QED
    BY <2>1, <2>2
<1>4. OwedIsAnswered'
  BY DEF OwedIsAnswered, Changes, At
<1> QED
  BY <1>3, <1>4 DEF SeenIsRecorded

\* A task goes on within its gate and with its job.
LEMMA GoesOn ==
    ASSUME ControlInv, SumsGrow,
           NEW t \in Tasks, NEW stage, NEW owed, Changes(t, stage, task[t].job, owed),
           UNCHANGED <<gate, earlier, job>>,
           task[t].stage \notin Outdoors, stage \notin Outdoors,
           stage # "finished",
           owed # 0 => stage = "answered"
    PROVE  ControlInv'
<1>1. GateHolds' /\ NoLostWakeup'
  BY GateKept DEF ControlInv
<1>2. HoldersWork' /\ RetriesHaveAnswers'
  BY WorkKept DEF ControlInv, Outdoors
<1>3. OwedIsAnswered' /\ SeenIsRecorded'
  BY CountsKept DEF ControlInv
<1>4. JobsInOrder'
  <2>1. Running' = Running
    BY DEF Running
  <2> QED
    BY <2>1, OrderKept DEF ControlInv
<1>5. TypeOK'
  BY DEF ControlInv, TypeOK, SumsGrow, Changes
<1> QED
  BY <1>1, <1>2, <1>3, <1>4, <1>5 DEF ControlInv

\* What a task owes before its answer, and after it was recorded: nothing.
LEMMA OwesNothing ==
    ASSUME OwedIsAnswered, NEW t \in Tasks, ~At(t, "answered")
    PROVE  task[t].owed = 0
BY DEF OwedIsAnswered

LEMMA StampControls ==
    ASSUME ControlInv, NEW t \in Tasks, Stamp(t)
    PROVE  ControlInv'
<1>1. Changes(t, "stamped", task[t].job, task[t].owed)
  BY StampMoves DEF ControlInv
<1>2. SumsGrow
  BY SumsAre DEF ControlInv, Stamp, SumsGrow
<1>3. /\ task[t].stage = "entered" /\ UNCHANGED <<gate, earlier, job>>
  BY DEF Stamp, At
<1>4. task[t].owed = 0
  BY <1>3, OwesNothing DEF ControlInv, At
<1> QED
  BY <1>1, <1>2, <1>3, <1>4, GoesOn DEF Outdoors

LEMMA DecideControls ==
    ASSUME ControlInv, NEW t \in Tasks, Decide(t)
    PROVE  ControlInv'
<1>1. \E stage \in {"asking", "finishing"} : Changes(t, stage, task[t].job, task[t].owed)
  BY DecideMoves DEF ControlInv
<1>2. SumsGrow
  <2>1. /\ task[t].seen \in Nat /\ task[t].seen <= recorded
    BY TaskColumns DEF ControlInv, SeenIsRecorded
  <2>2. recorded \in Nat /\ billed \in Nat /\ untold \in Nat /\ mishaps \in Nat
    BY SumsAre DEF ControlInv
  <2>3. /\ UNCHANGED <<recorded, billed, mishaps>>
        /\ untold' = untold + recorded - task[t].seen \/ untold' = untold
    BY DEF Decide
  <2> QED
    BY <2>1, <2>2, <2>3 DEF SumsGrow
<1>3. /\ task[t].stage = "stamped" /\ UNCHANGED <<gate, earlier, job>>
  BY DEF Decide, At
<1>4. task[t].owed = 0
  BY <1>3, OwesNothing DEF ControlInv, At
<1> QED
  BY <1>1, <1>2, <1>3, <1>4, GoesOn DEF Outdoors

LEMMA AnswerControls ==
    ASSUME ControlInv, NEW t \in Tasks, NEW cost \in Costs,
           Answer(t, cost) \/ AnswerUnbilled(t, cost)
    PROVE  ControlInv'
<1>1. \E owed : Changes(t, "answered", task[t].job, owed)
  BY AnswerMoves DEF ControlInv
<1>2. SumsGrow
  <2>1. cost \in Nat
    BY Limits DEF Costs
  <2>2. recorded \in Nat /\ billed \in Nat /\ untold \in Nat /\ mishaps \in Nat
    BY SumsAre DEF ControlInv
  <2>3. mishaps' \in Nat
    BY <2>2, MishapsAre DEF ControlInv, Answer, AnswerUnbilled
  <2> QED
    BY <2>1, <2>2, <2>3 DEF Answer, AnswerUnbilled, SumsGrow
<1>3. /\ task[t].stage = "asking" /\ UNCHANGED <<gate, earlier, job>>
  BY DEF Answer, AnswerUnbilled, At
<1> QED
  BY <1>1, <1>2, <1>3, GoesOn DEF Outdoors

\* A request fails, whether or not it has cost something.
LEMMA ErrorControls ==
    ASSUME ControlInv, NEW t \in Tasks,
           \/ \E retryable \in BOOLEAN : Error(t, retryable)
           \/ \E cost \in Costs : ErrorBilled(t, cost)
    PROVE  ControlInv'
<1>1. /\ task[t].stage = "asking" /\ UNCHANGED <<gate, earlier, job>>
      /\ \E retryable \in BOOLEAN : AfterError(t, retryable)
  BY DEF Error, ErrorBilled, At
<1>2. \E stage \in {"asking", "finishing"} : Changes(t, stage, task[t].job, task[t].owed)
  BY <1>1, ErrorMoves DEF ControlInv, At
<1>3. SumsGrow
  <2>1. \A cost \in Costs : cost \in Nat
    BY Limits DEF Costs
  <2>2. recorded \in Nat /\ billed \in Nat /\ untold \in Nat /\ mishaps \in Nat
    BY SumsAre DEF ControlInv
  <2>3. ASSUME NEW retryable \in BOOLEAN, Error(t, retryable) PROVE SumsGrow
    BY <2>2, <2>3 DEF Error, SumsGrow
  <2>4. ASSUME NEW cost \in Costs, ErrorBilled(t, cost) PROVE SumsGrow
    <3>1. mishaps' \in Nat
      BY <2>4, MishapsAre DEF ControlInv, ErrorBilled
    <3> QED
      BY <2>1, <2>2, <2>4, <3>1 DEF ErrorBilled, SumsGrow
  <2> QED
    BY <2>3, <2>4
<1>4. task[t].owed = 0
  BY <1>1, OwesNothing DEF ControlInv, At
<1> QED
  BY <1>1, <1>2, <1>3, <1>4, GoesOn DEF Outdoors

LEMMA RecordControls ==
    ASSUME ControlInv, NEW t \in Tasks,
           (\E verdict \in Verdicts : Record(t, verdict)) \/ RecordBroken(t)
    PROVE  ControlInv'
<1>1. /\ task[t].stage = "answered" /\ UNCHANGED <<gate, earlier, job>>
  BY DEF Record, RecordBroken, At
<1>2. Changes(t, "finishing", task[t].job, 0)
  BY RecordMoves DEF ControlInv
<1>3. SumsGrow
  <2>1. task[t].owed \in Nat
    BY TaskColumns, Limits DEF ControlInv
  <2>2. recorded \in Nat /\ billed \in Nat /\ untold \in Nat /\ mishaps \in Nat
    BY SumsAre DEF ControlInv
  <2>3. ASSUME NEW verdict \in Verdicts, Record(t, verdict) PROVE SumsGrow
    BY <2>1, <2>2, <2>3 DEF Record, RecordedCost, SumsGrow
  <2>4. ASSUME RecordBroken(t) PROVE SumsGrow
    <3>1. mishaps' \in Nat
      BY <2>4, MishapsAre DEF ControlInv, RecordBroken
    <3> QED
      BY <2>1, <2>2, <2>4, <3>1 DEF RecordBroken, SumsGrow
  <2> QED
    BY <2>3, <2>4
<1> QED
  BY <1>1, <1>2, <1>3, GoesOn DEF Outdoors

\* A task at the gate keeps its job.
LEMMA GateControls ==
    ASSUME ControlInv, NEW t \in Tasks, Enter(t) \/ Resume(t)
    PROVE  ControlInv'
<1>1. gate' \in [Processes -> Gate] /\ GateHolds' /\ NoLostWakeup'
  BY EnterFits, ResumeFits DEF ControlInv
<1>2. \E stage \in {"entered", "waiting"} : Changes(t, stage, task[t].job, task[t].owed)
  BY EnterMoves, ResumeMoves DEF ControlInv
<1>3. /\ task[t].stage \in {"claimed", "waiting"}
      /\ UNCHANGED <<earlier, job, recorded, billed, untold, mishaps>>
  BY DEF Enter, Resume, At
<1>4. task[t].owed = 0
  BY <1>3, OwesNothing DEF ControlInv, At
<1>5. SumsGrow
  BY <1>3, SumsAre DEF ControlInv, SumsGrow
<1>6. HoldersWork' /\ RetriesHaveAnswers'
  BY <1>2, <1>3, WorkKept DEF ControlInv
<1>7. OwedIsAnswered' /\ SeenIsRecorded'
  BY <1>2, <1>4, <1>5, CountsKept DEF ControlInv
<1>8. JobsInOrder'
  <2>1. Running' = Running
    BY <1>3 DEF Running
  <2> QED
    BY <1>3, <2>1, OrderKept DEF ControlInv
<1>9. TypeOK'
  BY <1>1, <1>2, <1>3, <1>5 DEF ControlInv, TypeOK, SumsGrow, Changes
<1> QED
  BY <1>1, <1>6, <1>7, <1>8, <1>9 DEF ControlInv

\* The three ways to claim a job.
Claims(t, j) == Claim(t, j) \/ ClaimLate(t, j) \/ ClaimBackdated(t, j)

LEMMA ClaimIsBy ==
    ASSUME TypeOK, NEW t \in Tasks, NEW j \in Jobs, Claims(t, j)
    PROVE  /\ \E later \in SUBSET Running :
                 (later = {} \/ IsLatest(later, j)) /\ ClaimedBy(t, j, later)
           /\ SumsGrow
<1>1. \E later \in SUBSET Running :
         (later = {} \/ IsLatest(later, j)) /\ ClaimedBy(t, j, later)
  <2>1. {} \in SUBSET Running
    OBVIOUS
  <2> QED
    BY <2>1 DEF Claims, Claim, ClaimLate, ClaimBackdated
<1>2. UNCHANGED <<recorded, billed>>
  BY <1>1 DEF ClaimedBy
<1>3. mishaps' \in Nat
  BY SumsAre, MishapsAre DEF Claims, Claim, ClaimLate, ClaimBackdated
<1>4. untold' \in {untold, untold + Estimate}
  BY DEF Claims, Claim, ClaimLate, ClaimBackdated
<1>5. SumsGrow
  BY <1>2, <1>3, <1>4, SumsAre, Limits DEF SumsGrow
<1> QED
  BY <1>1, <1>5

LEMMA ClaimControls ==
    ASSUME ControlInv, NEW t \in Tasks, NEW j \in Jobs, Claims(t, j)
    PROVE  ControlInv'
<1>1. PICK later \in SUBSET Running :
         (later = {} \/ IsLatest(later, j)) /\ ClaimedBy(t, j, later)
  BY ClaimIsBy DEF ControlInv
<1>2. SumsGrow
  BY ClaimIsBy DEF ControlInv
<1>3. /\ task[t].stage = "idle" /\ UNCHANGED gate /\ earlier' = Started(j, later)
  BY <1>1 DEF ClaimedBy, At
<1>4. Changes(t, "claimed", j, 0)
  BY <1>1, ClaimMoves DEF ControlInv
<1>5. GateHolds' /\ NoLostWakeup'
  BY <1>3, <1>4, GateKept DEF ControlInv, Outdoors
<1>6. HoldersWork' /\ RetriesHaveAnswers' /\ job' \in [Jobs -> JobRow]
  BY <1>1, ClaimGives DEF ControlInv
<1>7. JobsInOrder'
  BY <1>1, ClaimKeepsOrder DEF ControlInv
<1>8. OwedIsAnswered' /\ SeenIsRecorded'
  BY <1>2, <1>4, CountsKept DEF ControlInv
<1>9. earlier' \in [Jobs -> SUBSET Jobs]
  BY <1>3 DEF Started, ControlInv, TypeOK, Running
<1>10. TypeOK'
  BY <1>2, <1>3, <1>4, <1>6, <1>9 DEF ControlInv, TypeOK, SumsGrow, Changes
<1> QED
  BY <1>5, <1>6, <1>7, <1>8, <1>10 DEF ControlInv

LEMMA FinishControls ==
    ASSUME ControlInv, NEW t \in Tasks, Finish(t) \/ FinishBroken(t)
    PROVE  ControlInv'
<1>1. /\ task[t].stage = "finishing" /\ UNCHANGED <<gate, recorded, billed, untold>>
  BY DEF Finish, FinishBroken, At
<1>2. Changes(t, "finished", NoJob, 0)
  BY FinishMoves DEF ControlInv
<1>3. SumsGrow
  <2>1. mishaps' \in Nat
    BY SumsAre, MishapsAre DEF ControlInv, Finish, FinishBroken
  <2> QED
    BY <1>1, <2>1, SumsAre DEF ControlInv, SumsGrow
<1>4. GateHolds' /\ NoLostWakeup'
  BY <1>1, <1>2, GateKept DEF ControlInv, Outdoors
<1>5. /\ job' \in [Jobs -> JobRow] /\ earlier' \in [Jobs -> SUBSET Jobs]
      /\ \A k \in Jobs : IF job[k].holder = t THEN job'[k].holder = "none"
                         ELSE job'[k] = job[k]
      /\ JobsInOrder'
  BY FinishEnds DEF ControlInv
<1>6. \A k \in Jobs : job[k].holder \in Tasks \cup {"none"}
  BY DEF ControlInv, TypeOK, JobRow
<1>7. \A k \in Jobs : \/ job'[k].holder = "none"
                      \/ /\ job'[k] = job[k]
                         /\ task'[job[k].holder] = task[job[k].holder]
  BY <1>2, <1>5, <1>6 DEF Changes
<1>8. HoldersWork' /\ RetriesHaveAnswers'
  BY <1>2, <1>7, WorkEnds DEF ControlInv, Changes
<1>9. OwedIsAnswered' /\ SeenIsRecorded'
  BY <1>2, <1>3, CountsKept DEF ControlInv
<1>10. TypeOK'
  BY <1>1, <1>2, <1>3, <1>5 DEF ControlInv, TypeOK, SumsGrow, Changes
<1> QED
  BY <1>4, <1>5, <1>8, <1>9, <1>10 DEF ControlInv

LEMMA HumanizeControls ==
    ASSUME ControlInv, NEW t \in Tasks, Humanize(t)
    PROVE  ControlInv'
<1>1. /\ task[t].stage = "finished" /\ UNCHANGED <<gate, earlier, job, recorded, billed>>
      /\ untold' = untold + Estimate
  BY DEF Humanize, At
<1>2. Changes(t, "entered", NoJob, 0)
  BY HumanizeMoves DEF ControlInv
<1>3. SumsGrow
  <2>1. mishaps' \in Nat
    BY MishapsAre DEF ControlInv, Humanize
  <2> QED
    BY <1>1, <2>1, SumsAre, Limits DEF ControlInv, SumsGrow
<1>4. ~Holds(t)
  <2>1. task[t].job \in Jobs \cup {NoJob}
    BY TaskColumns DEF ControlInv
  <2> QED
    BY <1>1, <2>1, HoldersHold DEF ControlInv, Holds
<1>5. GateHolds' /\ NoLostWakeup'
  BY <1>1, <1>2, GateKept DEF ControlInv, Outdoors
<1>6. HoldersWork' /\ RetriesHaveAnswers'
  BY <1>1, <1>2, <1>4, WorkKept DEF ControlInv
<1>7. OwedIsAnswered' /\ SeenIsRecorded'
  BY <1>2, <1>3, CountsKept DEF ControlInv
<1>8. JobsInOrder'
  <2>1. Running' = Running
    BY <1>1 DEF Running
  <2> QED
    BY <1>1, <2>1, OrderKept DEF ControlInv
<1>9. TypeOK'
  BY <1>1, <1>2, <1>3 DEF ControlInv, TypeOK, SumsGrow, Changes
<1> QED
  BY <1>5, <1>6, <1>7, <1>8, <1>9 DEF ControlInv

LEMMA LeaveControls ==
    ASSUME ControlInv, NEW t \in Tasks, Leave(t)
    PROVE  ControlInv'
<1>1. /\ task[t].stage = "finished" \/ task[t].job = NoJob
      /\ UNCHANGED <<earlier, job, recorded, billed, untold, mishaps>>
  BY DEF Leave, At
<1>2. Changes(t, "idle", NoJob, 0)
  BY LeaveMoves DEF ControlInv
<1>3. gate' \in [Processes -> Gate] /\ GateHolds' /\ NoLostWakeup'
  BY LeaveFits DEF ControlInv
<1>4. SumsGrow
  BY <1>1, SumsAre DEF ControlInv, SumsGrow
<1>5. ~Holds(t)
  <2>1. task[t].job \in Jobs \cup {NoJob}
    BY TaskColumns DEF ControlInv
  <2> QED
    BY <1>1, <2>1, HoldersHold DEF ControlInv, Holds
<1>6. HoldersWork' /\ RetriesHaveAnswers'
  BY <1>1, <1>2, <1>5, WorkKept DEF ControlInv
<1>7. OwedIsAnswered' /\ SeenIsRecorded'
  BY <1>2, <1>4, CountsKept DEF ControlInv
<1>8. JobsInOrder'
  <2>1. Running' = Running
    BY <1>1 DEF Running
  <2> QED
    BY <1>1, <2>1, OrderKept DEF ControlInv
<1>9. TypeOK'
  BY <1>1, <1>2, <1>3, <1>4 DEF ControlInv, TypeOK, SumsGrow, Changes
<1> QED
  BY <1>3, <1>6, <1>7, <1>8, <1>9 DEF ControlInv

\* What tasks have in hand is a number.
LEMMA OwedIsNumber ==
    ASSUME NEW S, IsFiniteSet(S)
    PROVE  IsFiniteSet(UnitsOf(S)) /\ Owed(S) \in Nat
<1>1. IsFiniteSet(1 .. Estimate)
  BY Limits, FS_Interval
<1>2. IsFiniteSet(S \X (1 .. Estimate))
  BY <1>1, FS_Product
<1>3. UnitsOf(S) \in SUBSET (S \X (1 .. Estimate))
  BY DEF UnitsOf
<1>4. IsFiniteSet(UnitsOf(S))
  BY <1>2, <1>3, FS_Subset
<1> QED
  BY <1>4, FS_CardinalityType DEF Owed

LEMMA StopControls ==
    ASSUME ControlInv, NEW p \in Processes, Stop(p)
    PROVE  ControlInv'
<1>1. /\ task' = [t \in Tasks |-> IF HomeOf[t] = p THEN Idle ELSE task[t]]
      /\ UNCHANGED <<earlier, recorded>>
      /\ \E extra \in Costs : /\ billed' = billed + extra
                              /\ untold' = untold + extra + Owed(TasksOf(p))
  BY DEF Stop
<1>2. gate' \in [Processes -> Gate] /\ GateHolds' /\ NoLostWakeup'
  BY StopFits DEF ControlInv
<1>3. /\ task' \in [Tasks -> TaskState] /\ job' \in [Jobs -> JobRow]
      /\ JobsInOrder' /\ HoldersWork' /\ RetriesHaveAnswers'
  BY StopEnds DEF ControlInv
<1>4. SumsGrow
  <2>1. mishaps' \in Nat
    BY MishapsAre DEF ControlInv, Stop
  <2>2. TasksOf(p) \in SUBSET Tasks
    BY DEF TasksOf
  <2>3. Owed(TasksOf(p)) \in Nat
    BY <2>2, Limits, FS_Subset, OwedIsNumber
  <2>4. \A cost \in Costs : cost \in Nat
    BY Limits DEF Costs
  <2> QED
    BY <1>1, <2>1, <2>3, <2>4, SumsAre DEF ControlInv, SumsGrow
<1>5. \A t \in Tasks : task'[t] \in {Idle, task[t]}
  BY <1>1
<1>6. Idle.owed = 0 /\ Idle.seen = 0
  BY DEF Idle
<1>7. OwedIsAnswered'
  BY <1>5, <1>6 DEF ControlInv, OwedIsAnswered, At
<1>8. SeenIsRecorded'
  <2>1. recorded \in Nat
    BY SumsAre DEF ControlInv
  <2> QED
    BY <1>1, <1>5, <1>6, <2>1 DEF ControlInv, SeenIsRecorded
<1>9. TypeOK'
  BY <1>1, <1>2, <1>3, <1>4 DEF ControlInv, TypeOK, SumsGrow
<1> QED
  BY <1>2, <1>3, <1>7, <1>8, <1>9 DEF ControlInv

LEMMA ControlInitially ==
    ASSUME Init
    PROVE  ControlInv
<1>1. EmptyGate \in Gate /\ EmptyGate.active = 0 /\ EmptyGate.waiting = <<>>
      /\ EmptyGate.woken = <<>>
  BY DEF EmptyGate, Gate
<1>2. Len(EmptyGate.woken) = 0
  BY <1>1
<1>3. \A t \in Tasks : task[t] = Idle
  BY DEF Init
<1>4. Idle.stage = "idle" /\ Idle.owed = 0 /\ Idle.seen = 0 /\ Idle.verdict = "none"
  BY DEF Idle
<1>5. \A p \in Processes : InGate(p) = {}
  BY <1>3, <1>4 DEF InGate
<1>6. \A p \in Processes : gate[p] = EmptyGate
  BY DEF Init
<1>7. Cardinality({}) = 0
  BY FS_EmptySet
<1>8. GateHolds /\ NoLostWakeup
  <2>1. 0 + 0 <= GateLimit
    BY Limits
  <2>2. ASSUME NEW p \in Processes
        PROVE  /\ gate[p].active = 0 /\ gate[p].waiting = <<>>
               /\ Len(gate[p].woken) = 0 /\ Cardinality(InGate(p)) = 0
    <3>1. InGate(p) = {} /\ gate[p] = EmptyGate
      BY <1>5, <1>6
    <3> QED
      BY <1>1, <1>2, <1>7, <3>1
  <2> QED
    BY <2>1, <2>2 DEF GateHolds, NoLostWakeup
<1>9. \A j \in Jobs : job[j].status = "queued" /\ job[j].holder = "none"
  BY DEF Init
<1>10. Running = {}
  BY <1>9 DEF Running
<1>11. \A j \in Jobs : earlier[j] = {}
  BY DEF Init
<1>12. JobsInOrder
  BY <1>10, <1>11 DEF JobsInOrder
<1>13. HoldersWork
  BY <1>9 DEF HoldersWork
<1>14. RetriesHaveAnswers
  BY <1>3, <1>4 DEF RetriesHaveAnswers
<1>15. OwedIsAnswered /\ SeenIsRecorded
  BY <1>3, <1>4, Limits DEF OwedIsAnswered, SeenIsRecorded, Init
<1>16. TypeOK
  <2>1. [status |-> "queued", answers |-> 0, holder |-> "none"] \in JobRow
    BY Limits DEF JobRow
  <2>2. gate \in [Processes -> Gate]
    BY <1>1 DEF Init
  <2>3. job \in [Jobs -> JobRow]
    BY <2>1 DEF Init
  <2>4. task \in [Tasks -> TaskState]
    BY IdleIsTask DEF Init
  <2>5. earlier \in [Jobs -> SUBSET Jobs]
    BY DEF Init
  <2>6. {recorded, billed, untold} \subseteq Nat /\ mishaps \in Nat
    BY DEF Init
  <2> QED
    BY <2>2, <2>3, <2>4, <2>5, <2>6 DEF TypeOK
<1> QED
  BY <1>8, <1>12, <1>13, <1>14, <1>15, <1>16 DEF ControlInv

LEMMA ControlStays ==
    ASSUME ControlInv, UNCHANGED vars
    PROVE  ControlInv'
<1>1. UNCHANGED <<gate, earlier, job, task, recorded, billed, untold, mishaps>>
  BY DEF vars
<1>2. TypeOK'
  BY <1>1 DEF ControlInv, TypeOK
<1>3. GateHolds' /\ NoLostWakeup'
  BY <1>1 DEF ControlInv, GateHolds, NoLostWakeup, InGate
<1>4. JobsInOrder' /\ HoldersWork'
  BY <1>1 DEF ControlInv, JobsInOrder, HoldersWork, Running
<1>5. RetriesHaveAnswers' /\ OwedIsAnswered' /\ SeenIsRecorded'
  BY <1>1 DEF ControlInv, RetriesHaveAnswers, OwedIsAnswered, SeenIsRecorded, Holds,
              MayAnswerAgain, At
<1> QED
  BY <1>2, <1>3, <1>4, <1>5 DEF ControlInv

\* Every step is one of these.
LEMMA Steps ==
    ASSUME Next
    PROVE  \/ \E t \in Tasks :
                 \/ \E j \in Jobs : Claims(t, j)
                 \/ Enter(t) \/ Resume(t)
                 \/ Stamp(t)
                 \/ Decide(t)
                 \/ \E cost \in Costs : Answer(t, cost) \/ AnswerUnbilled(t, cost)
                 \/ \E retryable \in BOOLEAN : Error(t, retryable)
                 \/ \E cost \in Costs : ErrorBilled(t, cost)
                 \/ \E verdict \in Verdicts : Record(t, verdict)
                 \/ RecordBroken(t)
                 \/ Finish(t) \/ FinishBroken(t)
                 \/ Humanize(t)
                 \/ Leave(t)
           \/ \E p \in Processes : Stop(p)
<1>1. ASSUME NEW t \in Tasks, Watchdog(t)
      PROVE  \E retryable \in BOOLEAN : Error(t, retryable)
  BY <1>1 DEF Watchdog
<1>2. ASSUME NEW t \in Tasks, Work(t)
      PROVE  \/ Enter(t) \/ Resume(t) \/ Stamp(t) \/ Decide(t)
             \/ \E retryable \in BOOLEAN : Error(t, retryable)
             \/ \E verdict \in Verdicts : Record(t, verdict)
             \/ Finish(t) \/ Leave(t)
  BY <1>1, <1>2 DEF Work
<1>3. ASSUME NEW t \in Tasks, Request(t)
      PROVE  \/ \E cost \in Costs : Answer(t, cost) \/ AnswerUnbilled(t, cost)
             \/ \E retryable \in BOOLEAN : Error(t, retryable)
             \/ \E cost \in Costs : ErrorBilled(t, cost)
  BY <1>3 DEF Request
<1>4. \/ \E t \in Tasks : \/ \E j \in Jobs : Claims(t, j)
                         \/ Work(t)
                         \/ Request(t)
                         \/ RecordBroken(t) \/ FinishBroken(t) \/ Humanize(t)
      \/ \E p \in Processes : Stop(p)
  BY DEF Next, Claims
<1> QED
  BY <1>2, <1>3, <1>4

LEMMA ControlIsKept ==
    ASSUME ControlInv, [Next]_vars
    PROVE  ControlInv'
<1>1. CASE Next
  <2>1. ASSUME NEW t \in Tasks, NEW j \in Jobs, Claims(t, j) PROVE ControlInv'
    BY <2>1, ClaimControls
  <2>2. ASSUME NEW t \in Tasks, Enter(t) \/ Resume(t) PROVE ControlInv'
    BY <2>2, GateControls
  <2>3. ASSUME NEW t \in Tasks, Stamp(t) PROVE ControlInv'
    BY <2>3, StampControls
  <2>4. ASSUME NEW t \in Tasks, Decide(t) PROVE ControlInv'
    BY <2>4, DecideControls
  <2>5. ASSUME NEW t \in Tasks, NEW cost \in Costs,
               Answer(t, cost) \/ AnswerUnbilled(t, cost)
        PROVE  ControlInv'
    BY <2>5, AnswerControls
  <2>6. ASSUME NEW t \in Tasks,
               \/ \E retryable \in BOOLEAN : Error(t, retryable)
               \/ \E cost \in Costs : ErrorBilled(t, cost)
        PROVE  ControlInv'
    BY <2>6, ErrorControls
  <2>7. ASSUME NEW t \in Tasks,
               (\E verdict \in Verdicts : Record(t, verdict)) \/ RecordBroken(t)
        PROVE  ControlInv'
    BY <2>7, RecordControls
  <2>8. ASSUME NEW t \in Tasks, Finish(t) \/ FinishBroken(t) PROVE ControlInv'
    BY <2>8, FinishControls
  <2>9. ASSUME NEW t \in Tasks, Humanize(t) PROVE ControlInv'
    BY <2>9, HumanizeControls
  <2>10. ASSUME NEW t \in Tasks, Leave(t) PROVE ControlInv'
    BY <2>10, LeaveControls
  <2>11. ASSUME NEW p \in Processes, Stop(p) PROVE ControlInv'
    BY <2>11, StopControls
  <2> QED
    BY <1>1, <2>1, <2>2, <2>3, <2>4, <2>5, <2>6, <2>7, <2>8, <2>9, <2>10, <2>11, Steps
<1>2. CASE UNCHANGED vars
  BY <1>2, ControlStays
<1> QED
  BY <1>1, <1>2

\* Tasks, jobs and gates are in order at all times.
THEOREM ControlAlways == Spec => []ControlInv
<1>1. Init => ControlInv
  BY ControlInitially
<1>2. ControlInv /\ [Next]_vars => ControlInv'
  BY ControlIsKept
<1> QED
  BY <1>1, <1>2, PTL DEF Spec

\* A process never has more requests under way than its gate admits, no waiter
\* is forgotten, and no job is asked for more answers than it may have: the
\* ConcurrencyGate of worker/concurrency.ts with the tasks of worker/runner.ts
\* that enter and leave it, however they end, and with stops.
THEOREM GateIsKept == Spec => []GateInv
<1>1. ControlInv => GateInv
  BY DEF ControlInv, GateInv
<1> QED
  BY <1>1, ControlAlways, PTL

-----------------------------------------------------------------------------
(* Estimates and costs, counted.                                           *)

\* The estimates of n requests.
Estimates(n) == Estimate * n

LEMMA EstimatesAdd ==
    ASSUME NEW m \in Nat, NEW n \in Nat
    PROVE  /\ Estimates(n) \in Nat
           /\ Estimates(m + n) = Estimates(m) + Estimates(n)
           /\ m <= n => Estimates(m) <= Estimates(n)
           /\ Estimates(0) = 0 /\ Estimates(1) = Estimate
<1>1. Estimates(n) \in Nat /\ Estimates(m) \in Nat
  BY Limits DEF Estimates
<1>2. Estimates(m + n) = Estimates(m) + Estimates(n)
  BY Limits DEF Estimates
<1>3. m <= n => Estimates(m) <= Estimates(n)
  <2> SUFFICES ASSUME m <= n PROVE Estimates(m) <= Estimates(n)
    OBVIOUS
  <2> DEFINE d == n - m
  <2>1. d \in Nat /\ n = m + d
    OBVIOUS
  <2> HIDE DEF d
  <2>2. Estimates(m + d) = Estimates(m) + Estimates(d) /\ Estimates(d) \in Nat
    BY <2>1, Limits DEF Estimates
  <2> QED
    BY <1>1, <2>1, <2>2
<1>4. Estimates(0) = 0 /\ Estimates(1) = Estimate
  BY Limits DEF Estimates
<1> QED
  BY <1>1, <1>2, <1>3, <1>4

\* What the tasks of S owe, if f says how much each.
Units(f, S) == {u \in S \X (1 .. Estimate) : u[2] <= f[u[1]]}

Paid(f, S) == Cardinality(Units(f, S))

Purse == [t \in Tasks |-> task[t].owed]

LEMMA PurseIs ==
    ASSUME TypeOK
    PROVE  /\ Purse \in [Tasks -> 0 .. Estimate]
           /\ \A t \in Tasks : Purse[t] = task[t].owed
           /\ \A S \in SUBSET Tasks : Owed(S) = Paid(Purse, S)
<1>1. Purse \in [Tasks -> 0 .. Estimate]
  BY TaskColumns DEF Purse
<1>2. ASSUME NEW S \in SUBSET Tasks PROVE UnitsOf(S) = Units(Purse, S)
  BY DEF UnitsOf, Units, Purse
<1> QED
  BY <1>1, <1>2 DEF Purse, Owed, Paid

LEMMA UnitsAreFinite ==
    ASSUME NEW f, NEW S \in SUBSET Tasks
    PROVE  IsFiniteSet(S) /\ IsFiniteSet(Units(f, S)) /\ Paid(f, S) \in Nat
<1>1. IsFiniteSet(S)
  BY Limits, FS_Subset
<1>2. IsFiniteSet(1 .. Estimate)
  BY Limits, FS_Interval
<1>3. IsFiniteSet(S \X (1 .. Estimate))
  BY <1>1, <1>2, FS_Product
<1>4. Units(f, S) \in SUBSET (S \X (1 .. Estimate))
  BY DEF Units
<1>5. IsFiniteSet(Units(f, S))
  BY <1>3, <1>4, FS_Subset
<1> QED
  BY <1>1, <1>5, FS_CardinalityType DEF Paid

LEMMA PaidAgrees ==
    ASSUME NEW f, NEW h, NEW S, \A t \in S : f[t] = h[t]
    PROVE  Paid(f, S) = Paid(h, S)
<1>1. Units(f, S) = Units(h, S)
  BY DEF Units
<1> QED
  BY <1>1 DEF Paid

\* One of them apart.
LEMMA PaidByOne ==
    ASSUME NEW f \in [Tasks -> 0 .. Estimate], NEW S \in SUBSET Tasks, NEW t \in S
    PROVE  Paid(f, S) = Paid(f, S \ {t}) + f[t]
<1> DEFINE rest == S \ {t}
           own == {t} \X (1 .. f[t])
<1>1. rest \in SUBSET Tasks /\ f[t] \in 0 .. Estimate /\ f[t] \in Nat
  BY Limits
<1>2. Units(f, S) = Units(f, rest) \cup own
  <2>1. ASSUME NEW u \in Units(f, S) PROVE u \in Units(f, rest) \cup own
    BY <1>1 DEF Units
  <2>2. ASSUME NEW u \in own PROVE u \in Units(f, S)
    BY <1>1, <2>2, Limits DEF Units
  <2>3. ASSUME NEW u \in Units(f, rest) PROVE u \in Units(f, S)
    BY DEF Units
  <2> QED
    BY <2>1, <2>2, <2>3
<1>3. Units(f, rest) \cap own = {}
  BY DEF Units
<1>4. IsFiniteSet(own) /\ Cardinality(own) = f[t]
  <2>1. IsFiniteSet(1 .. f[t]) /\ Cardinality(1 .. f[t]) = f[t]
    BY <1>1, FS_Interval
  <2>2. IsFiniteSet({t}) /\ Cardinality({t}) = 1
    BY FS_Singleton
  <2> QED
    BY <1>1, <2>1, <2>2, FS_Product
<1>5. IsFiniteSet(Units(f, rest)) /\ Paid(f, rest) \in Nat
  BY <1>1, UnitsAreFinite
<1> HIDE DEF rest, own
<1>6. Cardinality(Units(f, rest) \cup own)
          = Cardinality(Units(f, rest)) + Cardinality(own)
             - Cardinality(Units(f, rest) \cap own)
  BY <1>4, <1>5, FS_Union
<1>7. Cardinality(Units(f, rest) \cap own) = 0
  BY <1>3, FS_EmptySet
<1> QED
  BY <1>1, <1>2, <1>4, <1>5, <1>6, <1>7 DEF Paid, rest

\* One of them changes.
LEMMA PaidMoves ==
    ASSUME NEW f \in [Tasks -> 0 .. Estimate], NEW h \in [Tasks -> 0 .. Estimate],
           NEW t \in Tasks, \A u \in Tasks \ {t} : h[u] = f[u],
           NEW S \in SUBSET Tasks
    PROVE  /\ t \in S => Paid(h, S) + f[t] = Paid(f, S) + h[t]
           /\ t \notin S => Paid(h, S) = Paid(f, S)
<1>1. CASE t \notin S
  BY <1>1, PaidAgrees
<1>2. CASE t \in S
  <2> DEFINE rest == S \ {t}
  <2>1. Paid(h, rest) = Paid(f, rest)
    BY PaidAgrees
  <2>2. Paid(h, S) = Paid(h, rest) + h[t] /\ Paid(f, S) = Paid(f, rest) + f[t]
    BY <1>2, PaidByOne
  <2>3. Paid(f, rest) \in Nat /\ f[t] \in Nat /\ h[t] \in Nat
    BY UnitsAreFinite, Limits
  <2> HIDE DEF rest
  <2> QED
    BY <1>2, <2>1, <2>2, <2>3
<1> QED
  BY <1>1, <1>2

\* No task owes more than the estimate.
LEMMA PaidIsBounded ==
    ASSUME NEW f \in [Tasks -> 0 .. Estimate], NEW S \in SUBSET Tasks,
           NEW A \in SUBSET Tasks, \A t \in S : f[t] # 0 => t \in A
    PROVE  Paid(f, S) <= Estimates(Cardinality(A))
<1>1. IsFiniteSet(A) /\ IsFiniteSet(1 .. Estimate) /\ Cardinality(1 .. Estimate) = Estimate
  <2>1. IsFiniteSet(A)
    BY Limits, FS_Subset
  <2>2. Estimate \in Int /\ 1 \in Int /\ ~ 1 > Estimate /\ Estimate - 1 + 1 = Estimate
    BY Limits
  <2>3. IsFiniteSet(1 .. Estimate) /\ Cardinality(1 .. Estimate) = Estimate
    BY <2>2, FS_Interval
  <2> QED
    BY <2>1, <2>3
<1>2. /\ IsFiniteSet(A \X (1 .. Estimate))
      /\ Cardinality(A \X (1 .. Estimate)) = Cardinality(A) * Estimate
  BY <1>1, FS_Product
<1>3. Units(f, S) \in SUBSET (A \X (1 .. Estimate))
  BY Limits DEF Units
<1>4. Cardinality(Units(f, S)) <= Cardinality(A \X (1 .. Estimate))
  BY <1>2, <1>3, FS_Subset
<1>5. Cardinality(A) \in Nat
  BY <1>1, FS_CardinalityType
<1> QED
  BY <1>2, <1>4, <1>5, Limits DEF Paid, Estimates

\* What some owe, and with it the others.
LEMMA PaidInParts ==
    ASSUME NEW f, NEW S \in SUBSET Tasks, NEW A \in SUBSET Tasks
    PROVE  /\ Paid(f, S) <= Paid(f, S \ A) + Paid(f, A)
           /\ A \subseteq S => Paid(f, A) <= Paid(f, S)
<1> DEFINE rest == S \ A
<1>1. /\ IsFiniteSet(Units(f, S)) /\ IsFiniteSet(Units(f, A))
      /\ IsFiniteSet(Units(f, rest))
      /\ Cardinality(Units(f, S)) \in Nat /\ Cardinality(Units(f, A)) \in Nat
      /\ Cardinality(Units(f, rest)) \in Nat
  BY UnitsAreFinite DEF Paid
<1>2. Units(f, S) \in SUBSET (Units(f, rest) \cup Units(f, A))
  BY DEF Units
<1>3. A \subseteq S => Units(f, A) \in SUBSET Units(f, S)
  BY DEF Units
<1> HIDE DEF rest
<1>4. /\ IsFiniteSet(Units(f, rest) \cup Units(f, A))
      /\ Cardinality(Units(f, rest) \cup Units(f, A))
            = Cardinality(Units(f, rest)) + Cardinality(Units(f, A))
               - Cardinality(Units(f, rest) \cap Units(f, A))
  BY <1>1, FS_Union
<1>5. Cardinality(Units(f, rest) \cap Units(f, A)) \in Nat
  <2>1. Units(f, rest) \cap Units(f, A) \in SUBSET Units(f, A)
    OBVIOUS
  <2> QED
    BY <1>1, <2>1, FS_Subset, FS_CardinalityType
<1>6. Cardinality(Units(f, S)) <= Cardinality(Units(f, rest) \cup Units(f, A))
  BY <1>2, <1>4, FS_Subset
<1>7. A \subseteq S => Cardinality(Units(f, A)) <= Cardinality(Units(f, S))
  BY <1>1, <1>3, FS_Subset
<1> QED
  BY <1>1, <1>4, <1>5, <1>6, <1>7 DEF Paid, rest

-----------------------------------------------------------------------------
(* The budget.                                                             *)

\* A task with a claim may still ask.  Claims of tasks that have no lease any
\* more, and requests of the humanizer, are not reserved for: they are outside.
OpenStages == {"claimed", "waiting", "entered", "stamped", "asking"}

IsOpen(t) == task[t].stage \in OpenStages

Inside == {t \in Tasks : Holds(t)}

Outside == {t \in Tasks : IsOpen(t) /\ ~Holds(t)}

\* The jobs up to j for which a request may still be made.
OpenUpTo(j) ==
    {k \in earlier[j] \cup {j} : job[k].holder # "none" /\ IsOpen(job[k].holder)}

\* The request for j was allowed.
IsTurn(j) ==
    /\ job[j].holder # "none"
    /\ task[job[j].holder].stage \in {"asking", "answered"}

\* When a request was allowed, it and all that may be made for the jobs before
\* its own still fit in the limit, or are explained.
TurnsAreCovered ==
    \A j \in Jobs : IsTurn(j) =>
        billed + Estimates(Cardinality(OpenUpTo(j)) + Cardinality(Outside))
            <= HardLimit + untold

\* What may be asked outside is explained.
OutsideIsCovered ==
    billed + Estimates(Cardinality(Outside)) <= HardLimit + untold

\* What was charged is on record, explained, or in the hands of a task that has
\* its lease.
CostsAreInside ==
    billed + Estimates(Cardinality(Outside)) <= recorded + untold + Paid(Purse, Inside)

\* What is on record or in hand was charged.
CostsAreCharged == recorded + Paid(Purse, Tasks) <= billed

\* The inductive invariant of the budget.
BudgetInv ==
    /\ ControlInv
    /\ TurnsAreCovered /\ OutsideIsCovered
    /\ CostsAreInside /\ CostsAreCharged

\* The numbers are numbers, before a step and after it.
LEMMA CoversAre ==
    ASSUME TypeOK, TypeOK', NEW j \in Jobs
    PROVE  /\ OpenUpTo(j) \in SUBSET Jobs /\ IsFiniteSet(OpenUpTo(j))
           /\ Cardinality(OpenUpTo(j)) \in Nat
           /\ OpenUpTo(j)' \in SUBSET Jobs /\ IsFiniteSet(OpenUpTo(j)')
           /\ Cardinality(OpenUpTo(j)') \in Nat
<1>1. OpenUpTo(j) \in SUBSET Jobs /\ OpenUpTo(j)' \in SUBSET Jobs
  BY DEF TypeOK, OpenUpTo
<1>2. IsFiniteSet(OpenUpTo(j)) /\ IsFiniteSet(OpenUpTo(j)')
  BY <1>1, Limits, FS_Subset
<1> QED
  BY <1>1, <1>2, FS_CardinalityType

LEMMA OutsideIs ==
    /\ Outside \in SUBSET Tasks /\ IsFiniteSet(Outside) /\ Cardinality(Outside) \in Nat
    /\ Outside' \in SUBSET Tasks /\ IsFiniteSet(Outside') /\ Cardinality(Outside') \in Nat
<1>1. Outside \in SUBSET Tasks /\ Outside' \in SUBSET Tasks
  BY DEF Outside
<1>2. IsFiniteSet(Outside) /\ IsFiniteSet(Outside')
  BY <1>1, Limits, FS_Subset
<1> QED
  BY <1>1, <1>2, FS_CardinalityType

LEMMA PursesAre ==
    ASSUME TypeOK, TypeOK'
    PROVE  /\ Purse \in [Tasks -> 0 .. Estimate] /\ Purse' \in [Tasks -> 0 .. Estimate]
           /\ \A t \in Tasks : Purse[t] = task[t].owed /\ Purse'[t] = task'[t].owed
           /\ Inside \in SUBSET Tasks /\ Inside' \in SUBSET Tasks
           /\ Paid(Purse, Inside) \in Nat /\ Paid(Purse', Inside') \in Nat
           /\ Paid(Purse, Tasks) \in Nat /\ Paid(Purse', Tasks) \in Nat
<1>1. \A t \in Tasks : task[t].owed \in 0 .. Estimate /\ task'[t].owed \in 0 .. Estimate
  BY Limits DEF TypeOK, TaskState
<1>2. /\ Purse \in [Tasks -> 0 .. Estimate] /\ Purse' \in [Tasks -> 0 .. Estimate]
      /\ \A t \in Tasks : Purse[t] = task[t].owed /\ Purse'[t] = task'[t].owed
  BY <1>1 DEF Purse
<1>3. Inside \in SUBSET Tasks /\ Inside' \in SUBSET Tasks
  BY DEF Inside
<1>4. Tasks \in SUBSET Tasks
  OBVIOUS
<1>5. Paid(Purse, Inside) \in Nat /\ Paid(Purse, Tasks) \in Nat
  BY <1>3, <1>4, UnitsAreFinite
<1>6. Paid(Purse', Inside') \in Nat /\ Paid(Purse', Tasks) \in Nat
  BY <1>3, <1>4, UnitsAreFinite
<1> QED
  BY <1>2, <1>3, <1>5, <1>6

\* More may be asked, or less.
LEMMA EstimatesMove ==
    ASSUME NEW x \in Nat, NEW y \in Nat, NEW more \in Nat, NEW less \in Nat,
           y + less <= x + more
    PROVE  /\ Estimates(y) + Estimates(less) <= Estimates(x) + Estimates(more)
           /\ Estimates(x) \in Nat /\ Estimates(y) \in Nat
           /\ Estimates(more) \in Nat /\ Estimates(less) \in Nat
<1>1. /\ Estimates(x) \in Nat /\ Estimates(y) \in Nat
      /\ Estimates(more) \in Nat /\ Estimates(less) \in Nat
      /\ Estimates(y + less) = Estimates(y) + Estimates(less)
      /\ Estimates(x + more) = Estimates(x) + Estimates(more)
  BY EstimatesAdd
<1>2. y + less \in Nat /\ x + more \in Nat
  OBVIOUS
<1>3. Estimates(y + less) <= Estimates(x + more)
  BY <1>2, EstimatesAdd
<1> QED
  BY <1>1, <1>3

\* How a step changes what may be asked: of each request that is allowed
\* afterwards, by comparison with one that was allowed before.
LEMMA TurnsKept ==
    ASSUME TypeOK, TypeOK', TurnsAreCovered,
           NEW more \in Nat, NEW less \in Nat,
           \A k \in Jobs : IsTurn(k)' =>
               \E m \in Jobs :
                   /\ IsTurn(m)
                   /\ Cardinality(OpenUpTo(k)') + Cardinality(Outside') + less
                         <= Cardinality(OpenUpTo(m)) + Cardinality(Outside) + more,
           billed' + Estimates(more) + untold <= billed + untold' + Estimates(less)
    PROVE  TurnsAreCovered'
<1> SUFFICES ASSUME NEW k \in Jobs, IsTurn(k)'
             PROVE  billed' + Estimates(Cardinality(OpenUpTo(k)') + Cardinality(Outside'))
                       <= HardLimit + untold'
  BY DEF TurnsAreCovered
<1>1. PICK m \in Jobs :
          /\ IsTurn(m)
          /\ Cardinality(OpenUpTo(k)') + Cardinality(Outside') + less
                <= Cardinality(OpenUpTo(m)) + Cardinality(Outside) + more
  OBVIOUS
<1> DEFINE x == Cardinality(OpenUpTo(m)) + Cardinality(Outside)
           y == Cardinality(OpenUpTo(k)') + Cardinality(Outside')
<1>2. x \in Nat /\ y \in Nat
  BY CoversAre, OutsideIs
<1>3. y + less <= x + more
  BY <1>1
<1>4. billed + Estimates(x) <= HardLimit + untold
  BY <1>1 DEF TurnsAreCovered
<1>5. /\ billed \in Nat /\ billed' \in Nat /\ untold \in Nat /\ untold' \in Nat
      /\ HardLimit \in Nat
  BY Limits DEF TypeOK
<1> HIDE DEF x, y
<1>6. billed' + Estimates(y) <= HardLimit + untold'
  <2>1. /\ Estimates(y) + Estimates(less) <= Estimates(x) + Estimates(more)
        /\ Estimates(x) \in Nat /\ Estimates(y) \in Nat
        /\ Estimates(more) \in Nat /\ Estimates(less) \in Nat
    BY <1>2, <1>3, EstimatesMove
  <2> QED
    BY <1>4, <1>5, <2>1
<1> QED
  BY <1>6 DEF y

LEMMA OutsideKept ==
    ASSUME TypeOK, TypeOK', OutsideIsCovered,
           NEW more \in Nat, NEW less \in Nat,
           Cardinality(Outside') + less <= Cardinality(Outside) + more,
           billed' + Estimates(more) + untold <= billed + untold' + Estimates(less)
    PROVE  OutsideIsCovered'
<1> DEFINE x == Cardinality(Outside)
           y == Cardinality(Outside')
<1>1. x \in Nat /\ y \in Nat
  BY OutsideIs
<1>2. y + less <= x + more
  OBVIOUS
<1>3. billed + Estimates(x) <= HardLimit + untold
  BY DEF OutsideIsCovered
<1>4. /\ billed \in Nat /\ billed' \in Nat /\ untold \in Nat /\ untold' \in Nat
      /\ HardLimit \in Nat
  BY Limits DEF TypeOK
<1> HIDE DEF x, y
<1>5. billed' + Estimates(y) <= HardLimit + untold'
  <2>1. /\ Estimates(y) + Estimates(less) <= Estimates(x) + Estimates(more)
        /\ Estimates(x) \in Nat /\ Estimates(y) \in Nat
        /\ Estimates(more) \in Nat /\ Estimates(less) \in Nat
    BY <1>1, <1>2, EstimatesMove
  <2> QED
    BY <1>3, <1>4, <2>1
<1> QED
  BY <1>5 DEF OutsideIsCovered, x, y

\* The same of what was charged and is on record or in hand.
LEMMA CostsKept ==
    ASSUME TypeOK, TypeOK', CostsAreInside,
           NEW more \in Nat, NEW less \in Nat,
           Cardinality(Outside') + less <= Cardinality(Outside) + more,
           billed' + Estimates(more) + recorded + untold + Paid(Purse, Inside)
              <= billed + recorded' + untold' + Paid(Purse', Inside') + Estimates(less)
    PROVE  CostsAreInside'
<1> DEFINE x == Cardinality(Outside)
           y == Cardinality(Outside')
           u == recorded + untold + Paid(Purse, Inside)
           v == recorded' + untold' + Paid(Purse', Inside')
<1>1. x \in Nat /\ y \in Nat
  BY OutsideIs
<1>2. y + less <= x + more
  OBVIOUS
<1>3. /\ billed \in Nat /\ billed' \in Nat
      /\ recorded + untold \in Nat /\ recorded' + untold' \in Nat
  BY DEF TypeOK
<1>4. u \in Nat /\ v \in Nat
  BY <1>3, PursesAre
<1>5. billed + Estimates(x) <= 0 + u
  BY <1>4 DEF CostsAreInside
<1>6. billed' + Estimates(more) + u <= billed + v + Estimates(less)
  <2>1. Estimates(more) \in Nat /\ Estimates(less) \in Nat
    BY EstimatesAdd
  <2>2. /\ recorded \in Nat /\ untold \in Nat /\ recorded' \in Nat /\ untold' \in Nat
        /\ Paid(Purse, Inside) \in Nat /\ Paid(Purse', Inside') \in Nat
    BY PursesAre DEF TypeOK
  <2> QED
    BY <1>3, <2>1, <2>2
<1> HIDE DEF x, y, u, v
<1>7. billed' + Estimates(y) <= 0 + v
  <2>1. /\ Estimates(y) + Estimates(less) <= Estimates(x) + Estimates(more)
        /\ Estimates(x) \in Nat /\ Estimates(y) \in Nat
        /\ Estimates(more) \in Nat /\ Estimates(less) \in Nat
    BY <1>1, <1>2, EstimatesMove
  <2> QED
    BY <1>3, <1>4, <1>5, <1>6, <2>1
<1>8. billed' + Estimates(y) <= v
  BY <1>4, <1>7
<1> QED
  BY <1>8 DEF CostsAreInside, y, v

\* Nothing more, nothing less.
LEMMA NoEstimates ==
    ASSUME NEW a \in Nat, NEW b \in Nat, NEW c \in Nat, NEW d \in Nat, a + b <= c + d
    PROVE  a + Estimates(0) + b <= c + d + Estimates(0)
<1>1. Estimates(0) = 0
  BY EstimatesAdd
<1> QED
  BY <1>1

\* A step after which nothing more may be asked.
LEMMA QuietKept ==
    ASSUME TypeOK, TypeOK', TurnsAreCovered, OutsideIsCovered, CostsAreInside,
           Outside' \subseteq Outside,
           \A k \in Jobs : IsTurn(k)' =>
               IsTurn(k) /\ OpenUpTo(k)' \subseteq OpenUpTo(k),
           billed' + untold <= billed + untold',
           billed' + recorded + untold + Paid(Purse, Inside)
              <= billed + recorded' + untold' + Paid(Purse', Inside')
    PROVE  TurnsAreCovered' /\ OutsideIsCovered' /\ CostsAreInside'
<1>1. Estimates(0) = 0
  BY EstimatesAdd
<1>2. /\ Cardinality(Outside') <= Cardinality(Outside)
      /\ Cardinality(Outside') \in Nat /\ Cardinality(Outside) \in Nat
  BY OutsideIs, FS_Subset
<1>3. Cardinality(Outside') + 0 <= Cardinality(Outside) + 0
  BY <1>2
<1>4. ASSUME NEW k \in Jobs, IsTurn(k)'
      PROVE  \E m \in Jobs :
                   /\ IsTurn(m)
                   /\ Cardinality(OpenUpTo(k)') + Cardinality(Outside') + 0
                         <= Cardinality(OpenUpTo(m)) + Cardinality(Outside) + 0
  <2>1. IsTurn(k) /\ OpenUpTo(k)' \subseteq OpenUpTo(k)
    BY <1>4
  <2>2. /\ IsFiniteSet(OpenUpTo(k))
        /\ Cardinality(OpenUpTo(k)) \in Nat /\ Cardinality(OpenUpTo(k)') \in Nat
    BY CoversAre
  <2>3. Cardinality(OpenUpTo(k)') <= Cardinality(OpenUpTo(k))
    BY <2>1, <2>2, FS_Subset
  <2> QED
    BY <1>2, <2>1, <2>2, <2>3
<1>5. /\ billed \in Nat /\ billed' \in Nat /\ untold \in Nat /\ untold' \in Nat
      /\ recorded \in Nat /\ recorded' \in Nat
  BY DEF TypeOK
<1>6. Paid(Purse, Inside) \in Nat /\ Paid(Purse', Inside') \in Nat
  BY PursesAre
<1>7. billed' + Estimates(0) + untold <= billed + untold' + Estimates(0)
  <2>1. billed' + untold <= billed + untold'
    OBVIOUS
  <2> QED
    BY <1>5, <2>1, NoEstimates
<1>8. billed' + Estimates(0) + recorded + untold + Paid(Purse, Inside)
         <= billed + recorded' + untold' + Paid(Purse', Inside') + Estimates(0)
  BY <1>1, <1>5, <1>6
<1>9. 0 \in Nat
  OBVIOUS
<1>10. TurnsAreCovered'
  BY <1>4, <1>7, <1>9, TurnsKept
<1>11. OutsideIsCovered'
  BY <1>3, <1>7, <1>9, OutsideKept
<1>12. CostsAreInside'
  BY <1>3, <1>8, <1>9, CostsKept
<1> QED
  BY <1>10, <1>11, <1>12

\* What is owed when task t does something.
LEMMA PurseMoves ==
    ASSUME TypeOK, TypeOK', NEW t \in Tasks, NEW stage, NEW j, NEW owed,
           Changes(t, stage, j, owed)
    PROVE  /\ owed \in Nat /\ task[t].owed \in Nat
           /\ \A S \in SUBSET Tasks :
                 /\ t \in S => Paid(Purse', S) + task[t].owed = Paid(Purse, S) + owed
                 /\ t \notin S => Paid(Purse', S) = Paid(Purse, S)
<1>1. /\ Purse \in [Tasks -> 0 .. Estimate] /\ Purse' \in [Tasks -> 0 .. Estimate]
      /\ \A u \in Tasks : Purse[u] = task[u].owed /\ Purse'[u] = task'[u].owed
  BY PursesAre
<1>2. \A u \in Tasks \ {t} : Purse'[u] = Purse[u]
  BY <1>1 DEF Changes
<1>3. Purse[t] = task[t].owed /\ Purse'[t] = owed
  BY <1>1 DEF Changes
<1>4. Purse[t] \in Nat /\ Purse'[t] \in Nat
  BY <1>1, Limits
<1>5. ASSUME NEW S \in SUBSET Tasks
      PROVE  /\ t \in S => Paid(Purse', S) + Purse[t] = Paid(Purse, S) + Purse'[t]
             /\ t \notin S => Paid(Purse', S) = Paid(Purse, S)
  BY <1>1, <1>2, PaidMoves
<1> QED
  BY <1>3, <1>4, <1>5

\* A task goes on with its job, and the jobs stay as they are.
LEMMA StaysInside ==
    ASSUME TypeOK, NEW t \in Tasks, NEW stage, NEW owed,
           Changes(t, stage, task[t].job, owed), UNCHANGED <<earlier, job>>
    PROVE  /\ Inside' = Inside
           /\ \A k \in Jobs : IsTurn(k)' <=>
                 IF job[k].holder = t THEN stage \in {"asking", "answered"}
                 ELSE IsTurn(k)
           /\ (stage \in OpenStages => IsOpen(t)) =>
                 /\ Outside' \subseteq Outside
                 /\ \A k \in Jobs : OpenUpTo(k)' \subseteq OpenUpTo(k)
           /\ stage \notin OpenStages =>
                 /\ Outside' = Outside \ {t}
                 /\ \A k \in Jobs :
                       OpenUpTo(k)' = {h \in OpenUpTo(k) : job[h].holder # t}
<1>1. \A u \in Tasks : task'[u].job = task[u].job
  BY DEF Changes
<1>2. \A u \in Tasks : Holds(u)' <=> Holds(u)
  BY <1>1 DEF Holds
<1>3. Inside' = Inside
  BY <1>2 DEF Inside
<1>4. \A k \in Jobs : job[k].holder \in Tasks \cup {"none"}
  BY DEF TypeOK, JobRow
<1>5. \A k \in Jobs : earlier[k] \cup {k} \subseteq Jobs
  BY DEF TypeOK
<1>6. \A u \in Tasks : IsOpen(u)' <=> IF u = t THEN stage \in OpenStages ELSE IsOpen(u)
  BY DEF IsOpen, Changes
<1>7. \A k \in Jobs : IsTurn(k)' <=>
         IF job[k].holder = t THEN stage \in {"asking", "answered"} ELSE IsTurn(k)
  BY <1>4, Limits DEF IsTurn, Changes
<1>8. ASSUME NEW k \in Jobs
      PROVE  OpenUpTo(k)' = {h \in earlier[k] \cup {k} : /\ job[h].holder # "none"
                                                        /\ IsOpen(job[h].holder)'}
  BY <1>5 DEF OpenUpTo, IsOpen
<1>9. ASSUME stage \in OpenStages => IsOpen(t)
      PROVE  /\ Outside' \subseteq Outside
             /\ \A k \in Jobs : OpenUpTo(k)' \subseteq OpenUpTo(k)
  <2>1. \A u \in Tasks : IsOpen(u)' => IsOpen(u)
    BY <1>6, <1>9
  <2>2. Outside' \subseteq Outside
    BY <1>2, <2>1 DEF Outside
  <2>3. ASSUME NEW k \in Jobs PROVE OpenUpTo(k)' \subseteq OpenUpTo(k)
    BY <1>4, <1>5, <1>8, <2>1 DEF OpenUpTo
  <2> QED
    BY <2>2, <2>3
<1>10. ASSUME stage \notin OpenStages
       PROVE  /\ Outside' = Outside \ {t}
              /\ \A k \in Jobs : OpenUpTo(k)' = {h \in OpenUpTo(k) : job[h].holder # t}
  <2>1. \A u \in Tasks : IsOpen(u)' <=> IsOpen(u) /\ u # t
    BY <1>6, <1>10
  <2>2. Outside' = Outside \ {t}
    BY <1>2, <2>1 DEF Outside
  <2>3. ASSUME NEW k \in Jobs
        PROVE  OpenUpTo(k)' = {h \in OpenUpTo(k) : job[h].holder # t}
    BY <1>4, <1>5, <1>8, <2>1 DEF OpenUpTo
  <2> QED
    BY <2>2, <2>3
<1> QED
  BY <1>3, <1>7, <1>9, <1>10

\* What is charged and what is known of it, when task t does something.
LEMMA ChargesKept ==
    ASSUME TypeOK, TypeOK', CostsAreCharged,
           NEW t \in Tasks, NEW stage, NEW j, NEW owed, Changes(t, stage, j, owed),
           recorded' + owed + billed <= recorded + task[t].owed + billed'
    PROVE  CostsAreCharged'
<1>1. /\ Paid(Purse', Tasks) + task[t].owed = Paid(Purse, Tasks) + owed
      /\ owed \in Nat /\ task[t].owed \in Nat
  BY PurseMoves
<1>2. Paid(Purse, Tasks) \in Nat /\ Paid(Purse', Tasks) \in Nat
  BY PursesAre
<1>3. /\ billed \in Nat /\ billed' \in Nat /\ recorded \in Nat /\ recorded' \in Nat
  BY DEF TypeOK
<1> QED
  BY <1>1, <1>2, <1>3 DEF CostsAreCharged

\* What has a lease has the same in hand.
LEMMA SameInHand ==
    ASSUME TypeOK, TypeOK', recorded <= recorded', billed' + untold <= billed + untold',
           Paid(Purse', Inside') = Paid(Purse, Inside)
    PROVE  billed' + recorded + untold + Paid(Purse, Inside)
              <= billed + recorded' + untold' + Paid(Purse', Inside')
<1>1. Paid(Purse, Inside) \in Nat
  BY PursesAre
<1>2. /\ billed \in Nat /\ billed' \in Nat /\ untold \in Nat /\ untold' \in Nat
      /\ recorded \in Nat /\ recorded' \in Nat
  BY DEF TypeOK
<1>3. \A b, c, r, s, u, v, n \in Nat :
         r <= s /\ c + u <= b + v => c + r + u + n <= b + s + v + n
  OBVIOUS
<1>4. billed' + recorded + untold + Paid(Purse, Inside)
         <= billed + recorded' + untold' + Paid(Purse, Inside)
  BY <1>1, <1>2, <1>3
<1> QED
  BY <1>4

\* A task goes on with its job: no more may be asked, no more was allowed.
LEMMA GoesOnCovered ==
    ASSUME BudgetInv, ControlInv',
           NEW t \in Tasks, NEW stage, NEW owed, Changes(t, stage, task[t].job, owed),
           UNCHANGED <<earlier, job>>,
           stage \in OpenStages => IsOpen(t),
           stage \in {"asking", "answered"} => task[t].stage \in {"asking", "answered"},
           recorded <= recorded',
           billed' + untold <= billed + untold',
           billed' + recorded + untold + task[t].owed
              <= billed + recorded' + untold' + owed,
           recorded' + owed + billed <= recorded + task[t].owed + billed'
    PROVE  BudgetInv'
<1>1. TypeOK /\ TypeOK' /\ HoldersWork
  BY DEF BudgetInv, ControlInv
<1>2. /\ Inside' = Inside
      /\ Outside' \subseteq Outside
      /\ \A k \in Jobs : OpenUpTo(k)' \subseteq OpenUpTo(k)
      /\ \A k \in Jobs : IsTurn(k)' <=>
            IF job[k].holder = t THEN stage \in {"asking", "answered"} ELSE IsTurn(k)
  BY <1>1, StaysInside
<1>3. ASSUME NEW k \in Jobs, IsTurn(k)'
      PROVE  IsTurn(k)
  <2>1. CASE job[k].holder = t
    BY <1>2, <1>3, <2>1, Limits DEF IsTurn
  <2>2. CASE job[k].holder # t
    BY <1>2, <1>3, <2>2
  <2> QED
    BY <2>1, <2>2
<1>4. billed' + recorded + untold + Paid(Purse, Inside)
         <= billed + recorded' + untold' + Paid(Purse', Inside')
  <2>1. /\ owed \in Nat /\ task[t].owed \in Nat
        /\ t \in Inside =>
              Paid(Purse', Inside) + task[t].owed = Paid(Purse, Inside) + owed
        /\ t \notin Inside => Paid(Purse', Inside) = Paid(Purse, Inside)
    BY <1>1, PurseMoves, PursesAre
  <2>2. Paid(Purse, Inside) \in Nat /\ Paid(Purse', Inside) \in Nat
    BY <1>1, <1>2, PursesAre
  <2>3. /\ billed \in Nat /\ billed' \in Nat /\ untold \in Nat /\ untold' \in Nat
        /\ recorded \in Nat /\ recorded' \in Nat
    BY <1>1 DEF TypeOK
  <2>4. CASE t \in Inside
    BY <1>2, <2>1, <2>2, <2>3, <2>4
  <2>5. CASE t \notin Inside
    <3>1. Paid(Purse', Inside') = Paid(Purse, Inside)
      BY <1>2, <2>1, <2>5
    <3> QED
      BY <1>1, <3>1, SameInHand
  <2> QED
    BY <2>4, <2>5
<1>5. TurnsAreCovered' /\ OutsideIsCovered' /\ CostsAreInside'
  BY <1>1, <1>2, <1>3, <1>4, QuietKept DEF BudgetInv
<1>6. CostsAreCharged'
  BY <1>1, ChargesKept DEF BudgetInv
<1> QED
  BY <1>5, <1>6 DEF BudgetInv

\* Waiting, taking a time, and a decision that is negative.
LEMMA WaitsCovered ==
    ASSUME BudgetInv, ControlInv', NEW t \in Tasks,
           Enter(t) \/ Resume(t) \/ Stamp(t) \/ (Decide(t) /\ ~Allows(t))
    PROVE  BudgetInv'
<1>1. TypeOK /\ TypeOK' /\ ControlInv
  BY DEF BudgetInv, ControlInv
<1>2. UNCHANGED <<earlier, job, recorded, billed, untold>>
  BY DEF Enter, Resume, Stamp, Decide, Allows
<1>3. \E stage \in {"waiting", "entered", "stamped", "finishing"} :
         Changes(t, stage, task[t].job, task[t].owed)
  BY <1>1, EnterMoves, ResumeMoves, StampMoves, DecideMoves
<1>4. IsOpen(t)
  BY DEF Enter, Resume, Stamp, Decide, At, IsOpen, OpenStages
<1>5. /\ billed \in Nat /\ untold \in Nat /\ recorded \in Nat
      /\ task[t].owed \in Nat
  BY <1>1, TaskColumns, Limits DEF TypeOK
<1>6. /\ recorded <= recorded' /\ billed' + untold <= billed + untold'
      /\ billed' + recorded + untold + task[t].owed
            <= billed + recorded' + untold' + task[t].owed
      /\ recorded' + task[t].owed + billed <= recorded + task[t].owed + billed'
  BY <1>2, <1>5
<1> QED
  BY <1>2, <1>3, <1>4, <1>6, GoesOnCovered DEF OpenStages

\* A request fails: what it may have cost is explained.
LEMMA ErrorCovered ==
    ASSUME BudgetInv, ControlInv', NEW t \in Tasks,
           \/ \E retryable \in BOOLEAN : Error(t, retryable)
           \/ \E cost \in Costs : ErrorBilled(t, cost)
    PROVE  BudgetInv'
<1>1. TypeOK /\ TypeOK' /\ ControlInv
  BY DEF BudgetInv, ControlInv
<1>2. /\ task[t].stage = "asking" /\ UNCHANGED <<earlier, job, recorded>>
      /\ \E retryable \in BOOLEAN : AfterError(t, retryable)
  BY DEF Error, ErrorBilled, At
<1>3. \E stage \in {"asking", "finishing"} : Changes(t, stage, task[t].job, task[t].owed)
  BY <1>1, <1>2, ErrorMoves DEF At
<1>4. \E cost \in Nat : billed' = billed + cost /\ untold' = untold + cost
  <2>1. ASSUME NEW retryable \in BOOLEAN, Error(t, retryable)
        PROVE  billed' = billed + 0 /\ untold' = untold + 0
    BY <1>1, <2>1 DEF Error, TypeOK
  <2>2. ASSUME NEW cost \in Costs, ErrorBilled(t, cost)
        PROVE  cost \in Nat /\ billed' = billed + cost /\ untold' = untold + cost
    BY <2>2, Limits DEF ErrorBilled, Costs
  <2> QED
    BY <2>1, <2>2
<1>5. IsOpen(t)
  BY <1>2 DEF IsOpen, OpenStages
<1>6. /\ billed \in Nat /\ untold \in Nat /\ recorded \in Nat
      /\ task[t].owed \in Nat
  BY <1>1, TaskColumns, Limits DEF TypeOK
<1>7. /\ recorded <= recorded' /\ billed' + untold <= billed + untold'
      /\ billed' + recorded + untold + task[t].owed
            <= billed + recorded' + untold' + task[t].owed
      /\ recorded' + task[t].owed + billed <= recorded + task[t].owed + billed'
  BY <1>2, <1>4, <1>6
<1> QED
  BY <1>2, <1>3, <1>5, <1>7, GoesOnCovered DEF OpenStages

\* An answer without usage: its cost is explained.
LEMMA UnbilledCovered ==
    ASSUME BudgetInv, ControlInv', NEW t \in Tasks, NEW cost \in Costs,
           AnswerUnbilled(t, cost)
    PROVE  BudgetInv'
<1>1. TypeOK /\ TypeOK' /\ ControlInv
  BY DEF BudgetInv, ControlInv
<1>2. /\ task[t].stage = "asking" /\ UNCHANGED <<earlier, job, recorded>>
      /\ billed' = billed + cost /\ untold' = untold + cost
  BY DEF AnswerUnbilled, At
<1>3. Changes(t, "answered", task[t].job, task[t].owed)
  BY <1>1, AnswerMoves
<1>4. /\ billed \in Nat /\ untold \in Nat /\ recorded \in Nat
      /\ task[t].owed \in Nat /\ cost \in Nat
  BY <1>1, TaskColumns, Limits DEF TypeOK, Costs
<1>5. /\ recorded <= recorded' /\ billed' + untold <= billed + untold'
      /\ billed' + recorded + untold + task[t].owed
            <= billed + recorded' + untold' + task[t].owed
      /\ recorded' + task[t].owed + billed <= recorded + task[t].owed + billed'
  BY <1>2, <1>4
<1> QED
  BY <1>2, <1>3, <1>5, GoesOnCovered DEF OpenStages

\* Usage is recorded, or is lost and explained.
LEMMA RecordCovered ==
    ASSUME BudgetInv, ControlInv', NEW t \in Tasks,
           (\E verdict \in Verdicts : Record(t, verdict)) \/ RecordBroken(t)
    PROVE  BudgetInv'
<1>1. TypeOK /\ TypeOK' /\ ControlInv
  BY DEF BudgetInv, ControlInv
<1>2. /\ task[t].stage = "answered" /\ UNCHANGED <<earlier, job, billed>>
      /\ \/ recorded' = recorded + task[t].owed /\ untold' = untold
         \/ recorded' = recorded /\ untold' = untold + task[t].owed
  BY DEF Record, RecordBroken, At, RecordedCost
<1>3. Changes(t, "finishing", task[t].job, 0)
  BY <1>1, RecordMoves
<1>4. /\ billed \in Nat /\ untold \in Nat /\ recorded \in Nat
      /\ task[t].owed \in Nat
  BY <1>1, TaskColumns, Limits DEF TypeOK
<1>5. /\ recorded <= recorded' /\ billed' + untold <= billed + untold'
      /\ billed' + recorded + untold + task[t].owed
            <= billed + recorded' + untold' + 0
      /\ recorded' + 0 + billed <= recorded + task[t].owed + billed'
  BY <1>2, <1>4
<1> QED
  BY <1>2, <1>3, <1>5, GoesOnCovered DEF OpenStages

\* Who owes nothing may come and go.
LEMMA PaidWithout ==
    ASSUME NEW f \in [Tasks -> 0 .. Estimate], NEW S \in SUBSET Tasks,
           NEW R \in SUBSET Tasks, NEW t \in Tasks, f[t] = 0, S \ {t} = R \ {t}
    PROVE  Paid(f, S) = Paid(f, R)
<1>1. ASSUME NEW Q \in SUBSET Tasks
      PROVE  Paid(f, Q) = Paid(f, Q \ {t})
  <2>1. CASE t \in Q
    <3>1. Paid(f, Q) = Paid(f, Q \ {t}) + f[t]
      BY <2>1, PaidByOne
    <3>2. Paid(f, Q \ {t}) \in Nat
      BY UnitsAreFinite
    <3> QED
      BY <3>1, <3>2
  <2>2. CASE t \notin Q
    <3>1. Q \ {t} = Q
      BY <2>2
    <3> QED
      BY <3>1
  <2> QED
    BY <2>1, <2>2
<1> QED
  BY <1>1

\* A step that neither charges nor records, of a task that owes nothing.
LEMMA NothingCharged ==
    ASSUME BudgetInv, ControlInv', UNCHANGED <<recorded, billed>>,
           NEW t \in Tasks, NEW stage, NEW j, Changes(t, stage, j, 0),
           ~At(t, "answered")
    PROVE  /\ CostsAreCharged'
           /\ task[t].owed = 0 /\ Purse[t] = 0 /\ Purse'[t] = 0
           /\ \A S \in SUBSET Tasks : Paid(Purse', S) = Paid(Purse, S)
<1>1. TypeOK /\ TypeOK' /\ OwedIsAnswered
  BY DEF BudgetInv, ControlInv
<1>2. task[t].owed = 0
  BY <1>1, OwesNothing
<1>3. Purse[t] = 0 /\ Purse'[t] = 0
  BY <1>1, <1>2, PursesAre DEF Changes
<1>4. \A S \in SUBSET Tasks : Paid(Purse', S) = Paid(Purse, S)
  <2>1. \A u \in Tasks : Purse'[u] = Purse[u]
    BY <1>1, <1>3, PursesAre DEF Changes
  <2> QED
    BY <2>1, PaidAgrees
<1>5. Tasks \in SUBSET Tasks
  OBVIOUS
<1>6. CostsAreCharged'
  BY <1>4, <1>5 DEF BudgetInv, CostsAreCharged
<1> QED
  BY <1>2, <1>3, <1>4, <1>6

\* A task is done with its job, and may lose its lease with it.
LEMMA EndCovered ==
    ASSUME BudgetInv, ControlInv', NEW t \in Tasks,
           NEW stage, stage \notin OpenStages, Changes(t, stage, NoJob, 0),
           ~At(t, "answered"), UNCHANGED <<recorded, billed, untold>>,
           \A k \in Jobs : IF job[k].holder = t THEN job'[k].holder = "none"
                           ELSE job'[k] = job[k],
           \A k \in Jobs : earlier'[k] \subseteq earlier[k]
    PROVE  BudgetInv'
<1>1. TypeOK /\ TypeOK' /\ HoldersWork
  BY DEF BudgetInv, ControlInv
<1>2. \A k \in Jobs : job[k].holder \in Tasks \cup {"none"}
  BY <1>1 DEF TypeOK, JobRow
<1>3. \A u \in Tasks : task[u].job \in Jobs \cup {NoJob}
  BY <1>1, TaskColumns
<1>4. \A u \in Tasks \ {t} : Holds(u)' <=> Holds(u)
  BY <1>2, <1>3, Limits DEF Holds, Changes
<1>5. ~Holds(t)'
  BY DEF Holds, Changes
<1>6. \A u \in Tasks \ {t} : IsOpen(u)' <=> IsOpen(u)
  BY DEF IsOpen, Changes
<1>7. ~IsOpen(t)'
  BY DEF IsOpen, Changes
<1>8. Inside \ {t} = Inside' \ {t}
  BY <1>4 DEF Inside
<1>9. Outside' \subseteq Outside
  BY <1>4, <1>6, <1>7 DEF Outside
<1>10. ASSUME NEW k \in Jobs, job'[k].holder # "none"
       PROVE  /\ job'[k] = job[k] /\ job[k].holder \in Tasks \ {t}
              /\ task'[job[k].holder] = task[job[k].holder]
  <2>1. job[k].holder # t /\ job'[k] = job[k]
    BY <1>10
  <2>2. job[k].holder \in Tasks \ {t}
    BY <1>2, <1>10, <2>1
  <2> QED
    BY <2>1, <2>2 DEF Changes
<1>11. ASSUME NEW k \in Jobs, IsTurn(k)'
       PROVE  IsTurn(k) /\ OpenUpTo(k)' \subseteq OpenUpTo(k)
  <2>1. job'[k].holder # "none" /\ task'[job'[k].holder].stage \in {"asking", "answered"}
    BY <1>11 DEF IsTurn
  <2>2. IsTurn(k)
    BY <1>10, <2>1 DEF IsTurn
  <2>3. ASSUME NEW h \in OpenUpTo(k)'
        PROVE  h \in OpenUpTo(k)
    <3>1. /\ h \in earlier'[k] \cup {k} /\ job'[h].holder # "none"
          /\ task'[job'[h].holder].stage \in OpenStages
      BY <2>3 DEF OpenUpTo, IsOpen
    <3>2. h \in earlier[k] \cup {k}
      BY <3>1
    <3>3. h \in Jobs
      BY <1>1, <3>2 DEF TypeOK
    <3> QED
      BY <1>10, <3>1, <3>2, <3>3 DEF OpenUpTo, IsOpen
  <2> QED
    BY <2>2, <2>3
<1>12. /\ CostsAreCharged'
       /\ task[t].owed = 0 /\ Purse[t] = 0 /\ Purse'[t] = 0
       /\ \A S \in SUBSET Tasks : Paid(Purse', S) = Paid(Purse, S)
  BY NothingCharged
<1>13. Paid(Purse', Inside') = Paid(Purse, Inside)
  <2>1. Paid(Purse', Inside') = Paid(Purse', Inside)
    BY <1>1, <1>8, <1>12, PursesAre, PaidWithout
  <2> QED
    BY <1>1, <1>12, <2>1, PursesAre
<1>14. /\ recorded <= recorded' /\ billed' + untold <= billed + untold'
  BY <1>1 DEF TypeOK
<1>15. billed' + recorded + untold + Paid(Purse, Inside)
          <= billed + recorded' + untold' + Paid(Purse', Inside')
  BY <1>1, <1>13, <1>14, SameInHand
<1>16. TurnsAreCovered' /\ OutsideIsCovered' /\ CostsAreInside'
  BY <1>1, <1>9, <1>11, <1>14, <1>15, QuietKept DEF BudgetInv
<1> QED
  BY <1>12, <1>16 DEF BudgetInv

LEMMA FinishCovered ==
    ASSUME BudgetInv, ControlInv', NEW t \in Tasks, Finish(t) \/ FinishBroken(t)
    PROVE  BudgetInv'
<1>1. ControlInv /\ TypeOK
  BY DEF BudgetInv, ControlInv
<1>2. /\ ~At(t, "answered") /\ UNCHANGED <<recorded, billed, untold>>
  BY DEF Finish, FinishBroken, At
<1>3. Changes(t, "finished", NoJob, 0)
  BY <1>1, FinishMoves
<1>4. \A k \in Jobs : IF job[k].holder = t THEN job'[k].holder = "none"
                      ELSE job'[k] = job[k]
  BY <1>1, FinishEnds DEF ControlInv
<1>5. \A k \in Jobs : earlier'[k] \subseteq earlier[k]
  BY DEF Finish, FinishBroken
<1> QED
  BY <1>2, <1>3, <1>4, <1>5, EndCovered DEF OpenStages

LEMMA LeaveCovered ==
    ASSUME BudgetInv, ControlInv', NEW t \in Tasks, Leave(t)
    PROVE  BudgetInv'
<1>1. ControlInv /\ TypeOK
  BY DEF BudgetInv, ControlInv
<1>2. /\ ~At(t, "answered") /\ UNCHANGED <<recorded, billed, untold, job, earlier>>
      /\ task[t].stage = "finished" \/ task[t].job = NoJob
  BY DEF Leave, At
<1>3. Changes(t, "idle", NoJob, 0)
  BY <1>1, LeaveMoves
<1>4. \A k \in Jobs : job[k].holder # t
  BY <1>1, <1>2, Limits, HoldersHold DEF ControlInv
<1> QED
  BY <1>2, <1>3, <1>4, EndCovered DEF OpenStages

\* What a claim does to what may be asked: the requests that were allowed have
\* at most j before them now, if it was put before them; who had j is outside.
LEMMA ClaimCounts ==
    ASSUME BudgetInv, ControlInv', NEW t \in Tasks, NEW j \in Jobs,
           NEW later \in SUBSET Running, ClaimedBy(t, j, later)
    PROVE  /\ CostsAreCharged'
           /\ UNCHANGED <<recorded, billed>>
           /\ \A k \in Jobs : IsTurn(k)' =>
                 /\ IsTurn(k)
                 /\ OpenUpTo(k)' \subseteq OpenUpTo(k) \cup {j}
                 /\ later = {} => OpenUpTo(k)' \subseteq OpenUpTo(k)
           /\ \A u \in Outside' : u \in Outside \/ (u = job[j].holder /\ IsOpen(u))
           /\ Paid(Purse', Inside') = Paid(Purse, {u \in Inside : u # job[j].holder})
<1>1. TypeOK /\ TypeOK' /\ HoldersWork
  BY DEF BudgetInv, ControlInv
<1>2. /\ task[t].stage = "idle" /\ UNCHANGED <<recorded, billed>>
      /\ earlier' = Started(j, later)
  BY DEF ClaimedBy, At
<1>3. /\ job'[j].holder = t
      /\ \A k \in Jobs \ {j} : job'[k] = job[k]
  <2>1. job[j] \in JobRow
    BY <1>1 DEF TypeOK
  <2>2. [job[j] EXCEPT !.status = "running", !.holder = t].holder = t
    BY <2>1 DEF JobRow
  <2>3. job' = [job EXCEPT ![j] = [job[j] EXCEPT !.status = "running", !.holder = t]]
    BY DEF ClaimedBy
  <2> QED
    BY <1>1, <2>2, <2>3 DEF TypeOK
<1>4. Changes(t, "claimed", j, 0)
  BY <1>1, ClaimMoves
<1>5. \A k \in Jobs : job[k].holder # t /\ job[k].holder \in Tasks \cup {"none"}
  BY <1>1, <1>2, HoldersHold DEF TypeOK, JobRow
<1>6. \A u \in Tasks : task[u].job \in Jobs \cup {NoJob}
  BY <1>1, TaskColumns
<1>7. \A u \in Tasks \ {t} : Holds(u)' <=> (Holds(u) /\ job[j].holder # u)
  <2> SUFFICES ASSUME NEW u \in Tasks \ {t}
               PROVE  Holds(u)' <=> (Holds(u) /\ job[j].holder # u)
    OBVIOUS
  <2>1. task'[u] = task[u]
    BY <1>4 DEF Changes
  <2>2. CASE task[u].job = j
    BY <1>3, <2>1, <2>2 DEF Holds
  <2>3. CASE task[u].job \in Jobs \ {j}
    <3>1. Holds(u)' <=> Holds(u)
      BY <1>3, <2>1, <2>3 DEF Holds
    <3>2. job[j].holder # u
      BY <1>1, <2>3, HoldersHold
    <3> QED
      BY <3>1, <3>2
  <2>4. CASE task[u].job = NoJob
    BY <2>1, <2>4 DEF Holds
  <2> QED
    BY <1>6, <2>2, <2>3, <2>4
<1>8. ~Holds(t) /\ Holds(t)'
  <2>1. ~Holds(t)
    BY <1>5, <1>6 DEF Holds
  <2>2. Holds(t)'
    BY <1>3, <1>4, Limits DEF Holds, Changes
  <2> QED
    BY <2>1, <2>2
<1>9. ASSUME NEW u \in Outside' PROVE u \in Outside \/ (u = job[j].holder /\ IsOpen(u))
  <2>1. u \in Tasks /\ u # t /\ IsOpen(u)' /\ ~Holds(u)'
    BY <1>8 DEF Outside
  <2>2. IsOpen(u)
    BY <1>4, <2>1 DEF IsOpen, Changes
  <2> QED
    BY <1>7, <2>1, <2>2 DEF Outside
<1>10. ASSUME NEW k \in Jobs, IsTurn(k)'
       PROVE  /\ IsTurn(k)
              /\ OpenUpTo(k)' \subseteq OpenUpTo(k) \cup {j}
              /\ later = {} => OpenUpTo(k)' \subseteq OpenUpTo(k)
  <2>1. job'[k].holder # "none" /\ task'[job'[k].holder].stage \in {"asking", "answered"}
    BY <1>10 DEF IsTurn
  <2>2. k # j
    BY <1>3, <1>4, <2>1 DEF Changes
  <2>3. \A h \in Jobs \ {j} : job'[h] = job[h] /\ (job[h].holder # "none" =>
                                task'[job[h].holder] = task[job[h].holder])
    BY <1>3, <1>4, <1>5 DEF Changes
  <2>4. IsTurn(k)
    BY <2>1, <2>2, <2>3 DEF IsTurn
  <2>5. earlier'[k] = (earlier[k] \ {j}) \cup (IF k \in later THEN {j} ELSE {})
    BY <1>2, <2>2 DEF Started
  <2>6. ASSUME NEW h \in OpenUpTo(k)', h # j
        PROVE  h \in OpenUpTo(k)
    <3>1. /\ h \in earlier'[k] \cup {k} /\ job'[h].holder # "none"
          /\ task'[job'[h].holder].stage \in OpenStages
      BY <2>6 DEF OpenUpTo, IsOpen
    <3>2. h \in earlier[k] \cup {k}
      BY <2>5, <2>6, <3>1
    <3>3. h \in Jobs \ {j}
      BY <1>1, <2>6, <3>2 DEF TypeOK
    <3> QED
      BY <2>3, <3>1, <3>2, <3>3 DEF OpenUpTo, IsOpen
  <2>7. ASSUME later = {} PROVE j \notin OpenUpTo(k)'
    <3>1. j \notin earlier'[k] \cup {k}
      BY <2>2, <2>5, <2>7
    <3> QED
      BY <3>1 DEF OpenUpTo
  <2> QED
    BY <2>4, <2>6, <2>7
<1>11. /\ CostsAreCharged'
       /\ task[t].owed = 0 /\ Purse[t] = 0 /\ Purse'[t] = 0
       /\ \A S \in SUBSET Tasks : Paid(Purse', S) = Paid(Purse, S)
  BY <1>2, <1>4, NothingCharged DEF At
<1>12. Paid(Purse', Inside') = Paid(Purse, {u \in Inside : u # job[j].holder})
  <2> DEFINE R == {u \in Inside : u # job[j].holder}
  <2>1. R \in SUBSET Tasks /\ Inside' \in SUBSET Tasks
    BY DEF Inside
  <2>2. Inside' \ {t} = R \ {t}
    BY <1>7 DEF Inside
  <2> HIDE DEF R
  <2>3. Paid(Purse', Inside') = Paid(Purse', R)
    BY <1>1, <1>11, <2>1, <2>2, PursesAre, PaidWithout
  <2>4. Paid(Purse', R) = Paid(Purse, R)
    BY <1>11, <2>1
  <2> QED
    BY <2>3, <2>4 DEF R
<1> QED
  BY <1>2, <1>9, <1>10, <1>11, <1>12

LEMMA ClaimCovered ==
    ASSUME BudgetInv, ControlInv', NEW t \in Tasks, NEW j \in Jobs, Claim(t, j)
    PROVE  BudgetInv'
<1>1. TypeOK /\ TypeOK' /\ HoldersWork
  BY DEF BudgetInv, ControlInv
<1>2. /\ ClaimedBy(t, j, {}) /\ IsClaimable(j) /\ UNCHANGED untold
  BY DEF Claim
<1>3. job[j].holder = "none"
  BY <1>1, <1>2 DEF IsClaimable, HoldersWork
<1>4. {} \in SUBSET Running
  OBVIOUS
<1>5. /\ CostsAreCharged'
      /\ UNCHANGED <<recorded, billed>>
      /\ \A k \in Jobs : IsTurn(k)' => IsTurn(k) /\ OpenUpTo(k)' \subseteq OpenUpTo(k)
      /\ \A u \in Outside' : u \in Outside \/ (u = job[j].holder /\ IsOpen(u))
      /\ Paid(Purse', Inside') = Paid(Purse, {u \in Inside : u # job[j].holder})
  BY <1>2, <1>4, ClaimCounts
<1>6. Outside' \subseteq Outside
  BY <1>3, <1>5, Limits DEF Outside
<1>7. Paid(Purse', Inside') = Paid(Purse, Inside)
  <2>1. {u \in Inside : u # job[j].holder} = Inside
    BY <1>3, Limits DEF Inside
  <2> QED
    BY <1>5, <2>1
<1>8. recorded <= recorded' /\ billed' + untold <= billed + untold'
  BY <1>1, <1>2, <1>5 DEF TypeOK
<1>9. billed' + recorded + untold + Paid(Purse, Inside)
         <= billed + recorded' + untold' + Paid(Purse', Inside')
  BY <1>1, <1>7, <1>8, SameInHand
<1>10. TurnsAreCovered' /\ OutsideIsCovered' /\ CostsAreInside'
  BY <1>1, <1>5, <1>6, <1>8, <1>9, QuietKept DEF BudgetInv
<1> QED
  BY <1>5, <1>10 DEF BudgetInv

\* A step after which one request more may be asked, or one answer less is in
\* hand, and that is explained.
LEMMA OneMoreKept ==
    ASSUME BudgetInv, ControlInv', UNCHANGED <<recorded, billed>>,
           untold' = untold + Estimate,
           Cardinality(Outside') <= Cardinality(Outside) + 1,
           \A k \in Jobs : IsTurn(k)' =>
               /\ IsTurn(k)
               /\ Cardinality(OpenUpTo(k)') + Cardinality(Outside')
                     <= Cardinality(OpenUpTo(k)) + Cardinality(Outside) + 1,
           \/ Paid(Purse, Inside) <= Paid(Purse', Inside')
           \/ /\ Cardinality(Outside') <= Cardinality(Outside)
              /\ Paid(Purse, Inside) <= Paid(Purse', Inside') + Estimate
    PROVE  TurnsAreCovered' /\ OutsideIsCovered' /\ CostsAreInside'
<1>1. TypeOK /\ TypeOK'
  BY DEF BudgetInv, ControlInv
<1>2. Estimates(0) = 0 /\ Estimates(1) = Estimate
  BY EstimatesAdd
<1>3. /\ billed \in Nat /\ untold \in Nat /\ recorded \in Nat /\ Estimate \in Nat
  BY <1>1, Limits DEF TypeOK
<1>4. /\ Cardinality(Outside') \in Nat /\ Cardinality(Outside) \in Nat
      /\ \A k \in Jobs : /\ Cardinality(OpenUpTo(k)) \in Nat
                         /\ Cardinality(OpenUpTo(k)') \in Nat
  BY <1>1, OutsideIs, CoversAre
<1>5. Paid(Purse, Inside) \in Nat /\ Paid(Purse', Inside') \in Nat
  BY <1>1, PursesAre
<1>6. \A b, u, n \in Nat : b + n + u <= b + (u + n) + 0
  OBVIOUS
<1>7. billed' + Estimates(1) + untold <= billed + untold' + Estimates(0)
  BY <1>2, <1>3, <1>6
<1>8. \A m, n \in Nat : m <= n + 1 => m + 0 <= n + 1
  OBVIOUS
<1>9. Cardinality(Outside') + 0 <= Cardinality(Outside) + 1
  BY <1>4, <1>8
<1>10. OutsideIsCovered'
  BY <1>1, <1>7, <1>9, OutsideKept DEF BudgetInv
<1>11. ASSUME NEW k \in Jobs, IsTurn(k)'
       PROVE  \E m \in Jobs :
                 /\ IsTurn(m)
                 /\ Cardinality(OpenUpTo(k)') + Cardinality(Outside') + 0
                       <= Cardinality(OpenUpTo(m)) + Cardinality(Outside) + 1
  <2>1. \A a, b, c, d \in Nat : a + b <= c + d + 1 => a + b + 0 <= c + d + 1
    OBVIOUS
  <2> QED
    BY <1>4, <1>11, <2>1
<1>12. TurnsAreCovered'
  BY <1>1, <1>7, <1>11, TurnsKept DEF BudgetInv
<1>13. CASE Paid(Purse, Inside) <= Paid(Purse', Inside')
  <2>1. \A b, r, u, n, p, q \in Nat : p <= q =>
           b + n + r + u + p <= b + r + (u + n) + q + 0
    OBVIOUS
  <2>2. billed' + Estimates(1) + recorded + untold + Paid(Purse, Inside)
           <= billed + recorded' + untold' + Paid(Purse', Inside') + Estimates(0)
    BY <1>2, <1>3, <1>5, <1>13, <2>1
  <2>3. CostsAreInside'
    BY <1>1, <1>9, <2>2, CostsKept DEF BudgetInv
  <2> QED
    BY <1>10, <1>12, <2>3
<1>14. CASE /\ Cardinality(Outside') <= Cardinality(Outside)
            /\ Paid(Purse, Inside) <= Paid(Purse', Inside') + Estimate
  <2>1. \A b, r, u, n, p, q \in Nat : p <= q + n =>
           b + 0 + r + u + p <= b + r + (u + n) + q + 0
    OBVIOUS
  <2>2. billed' + Estimates(0) + recorded + untold + Paid(Purse, Inside)
           <= billed + recorded' + untold' + Paid(Purse', Inside') + Estimates(0)
    BY <1>2, <1>3, <1>5, <1>14, <2>1
  <2>3. Cardinality(Outside') + 0 <= Cardinality(Outside) + 0
    BY <1>4, <1>14
  <2>4. CostsAreInside'
    BY <1>1, <2>2, <2>3, CostsKept DEF BudgetInv
  <2> QED
    BY <1>10, <1>12, <2>4
<1> QED
  BY <1>13, <1>14

LEMMA OneMoreElement ==
    ASSUME NEW A, NEW B, NEW x, IsFiniteSet(B), A \subseteq B \cup {x}
    PROVE  /\ IsFiniteSet(A) /\ Cardinality(A) \in Nat /\ Cardinality(B) \in Nat
           /\ Cardinality(A) <= Cardinality(B) + 1
<1>1. /\ IsFiniteSet(B \cup {x})
      /\ Cardinality(B \cup {x})
            = IF x \in B THEN Cardinality(B) ELSE Cardinality(B) + 1
  BY FS_AddElement
<1>2. IsFiniteSet(A) /\ Cardinality(A) <= Cardinality(B \cup {x})
  BY <1>1, FS_Subset
<1>3. Cardinality(A) \in Nat /\ Cardinality(B) \in Nat
  BY <1>2, FS_CardinalityType
<1> QED
  BY <1>1, <1>2, <1>3

\* The job is taken from a task that works on: its request is explained.
LEMMA ClaimLateCovered ==
    ASSUME BudgetInv, ControlInv', NEW t \in Tasks, NEW j \in Jobs, ClaimLate(t, j)
    PROVE  BudgetInv'
<1> DEFINE u == job[j].holder
<1>1. TypeOK /\ TypeOK' /\ HoldersWork /\ OwedIsAnswered
  BY DEF BudgetInv, ControlInv
<1>2. /\ ClaimedBy(t, j, {}) /\ untold' = untold + Estimate
      /\ u # "none"
  BY DEF ClaimLate
<1>3. u \in Tasks /\ u \in Inside
  <2>1. u \in Tasks
    BY <1>1, <1>2 DEF TypeOK, JobRow
  <2> QED
    BY <1>1, <2>1, HoldersHold DEF Inside
<1>4. {} \in SUBSET Running
  OBVIOUS
<1>5. /\ CostsAreCharged'
      /\ UNCHANGED <<recorded, billed>>
      /\ \A k \in Jobs : IsTurn(k)' => IsTurn(k) /\ OpenUpTo(k)' \subseteq OpenUpTo(k)
      /\ \A v \in Outside' : v \in Outside \/ (v = u /\ IsOpen(v))
      /\ Paid(Purse', Inside') = Paid(Purse, {v \in Inside : v # u})
  BY <1>2, <1>4, ClaimCounts
<1> HIDE DEF u
<1>6. Outside' \subseteq Outside \cup {u}
  BY <1>5
<1>7. /\ Cardinality(Outside') <= Cardinality(Outside) + 1
      /\ Cardinality(Outside') \in Nat /\ Cardinality(Outside) \in Nat
  BY <1>6, OutsideIs, OneMoreElement
<1>8. ASSUME NEW k \in Jobs, IsTurn(k)'
      PROVE  /\ IsTurn(k)
             /\ Cardinality(OpenUpTo(k)') + Cardinality(Outside')
                   <= Cardinality(OpenUpTo(k)) + Cardinality(Outside) + 1
  <2>1. IsTurn(k) /\ OpenUpTo(k)' \subseteq OpenUpTo(k)
    BY <1>5, <1>8
  <2>2. /\ IsFiniteSet(OpenUpTo(k))
        /\ Cardinality(OpenUpTo(k)) \in Nat /\ Cardinality(OpenUpTo(k)') \in Nat
    BY <1>1, CoversAre
  <2>3. Cardinality(OpenUpTo(k)') <= Cardinality(OpenUpTo(k))
    BY <2>1, <2>2, FS_Subset
  <2>4. \A a, b, c, d \in Nat : a <= c /\ b <= d + 1 => a + b <= c + d + 1
    OBVIOUS
  <2> QED
    BY <1>7, <2>1, <2>2, <2>3, <2>4
<1>9. \/ Paid(Purse, Inside) <= Paid(Purse', Inside')
      \/ /\ Cardinality(Outside') <= Cardinality(Outside)
         /\ Paid(Purse, Inside) <= Paid(Purse', Inside') + Estimate
  <2> DEFINE R == {v \in Inside : v # u}
  <2>1. /\ Purse \in [Tasks -> 0 .. Estimate] /\ Purse[u] = task[u].owed
        /\ Inside \in SUBSET Tasks
    BY <1>1, <1>3, PursesAre
  <2>2. R = Inside \ {u}
    OBVIOUS
  <2>3. Paid(Purse, Inside) = Paid(Purse, R) + Purse[u]
    BY <1>3, <2>1, <2>2, PaidByOne
  <2>4. Paid(Purse, R) \in Nat /\ Purse[u] \in Nat /\ Purse[u] <= Estimate
    BY <1>3, <2>1, Limits, UnitsAreFinite
  <2>5. Paid(Purse', Inside') = Paid(Purse, R)
    BY <1>5
  <2> HIDE DEF R
  <2>6. CASE IsOpen(u)
    <3>1. Purse[u] = 0
      BY <1>1, <1>3, <2>1, <2>6, OwesNothing DEF At, IsOpen, OpenStages
    <3> QED
      BY <2>3, <2>4, <2>5, <3>1
  <2>7. CASE ~IsOpen(u)
    <3>1. Outside' \subseteq Outside
      BY <1>5, <2>7
    <3>2. Cardinality(Outside') <= Cardinality(Outside)
      BY <3>1, OutsideIs, FS_Subset
    <3>3. \A m, n, e \in Nat : n <= e => m + n <= m + e
      OBVIOUS
    <3> QED
      BY <2>3, <2>4, <2>5, <3>2, <3>3, Limits
  <2> QED
    BY <2>6, <2>7
<1>10. TurnsAreCovered' /\ OutsideIsCovered' /\ CostsAreInside'
  BY <1>2, <1>5, <1>7, <1>8, <1>9, OneMoreKept
<1> QED
  BY <1>5, <1>10 DEF BudgetInv

\* The job comes before others that were allowed without it: it is explained.
LEMMA ClaimBackdatedCovered ==
    ASSUME BudgetInv, ControlInv', NEW t \in Tasks, NEW j \in Jobs, ClaimBackdated(t, j)
    PROVE  BudgetInv'
<1>1. TypeOK /\ TypeOK' /\ HoldersWork
  BY DEF BudgetInv, ControlInv
<1>2. PICK later \in SUBSET Running : ClaimedBy(t, j, later)
  BY DEF ClaimBackdated
<1>3. untold' = untold + Estimate /\ IsClaimable(j)
  BY DEF ClaimBackdated
<1>4. job[j].holder = "none"
  BY <1>1, <1>3 DEF IsClaimable, HoldersWork
<1>5. /\ CostsAreCharged'
      /\ UNCHANGED <<recorded, billed>>
      /\ \A k \in Jobs : IsTurn(k)' =>
            IsTurn(k) /\ OpenUpTo(k)' \subseteq OpenUpTo(k) \cup {j}
      /\ \A u \in Outside' : u \in Outside \/ (u = job[j].holder /\ IsOpen(u))
      /\ Paid(Purse', Inside') = Paid(Purse, {u \in Inside : u # job[j].holder})
  BY <1>2, ClaimCounts
<1>6. Outside' \subseteq Outside
  BY <1>4, <1>5, Limits DEF Outside
<1>7. Paid(Purse', Inside') = Paid(Purse, Inside)
  <2>1. {u \in Inside : u # job[j].holder} = Inside
    BY <1>4, Limits DEF Inside
  <2> QED
    BY <1>5, <2>1
<1>8. /\ Cardinality(Outside') <= Cardinality(Outside)
      /\ Cardinality(Outside') \in Nat /\ Cardinality(Outside) \in Nat
  BY <1>6, OutsideIs, FS_Subset
<1>9. ASSUME NEW k \in Jobs, IsTurn(k)'
      PROVE  /\ IsTurn(k)
             /\ Cardinality(OpenUpTo(k)') + Cardinality(Outside')
                   <= Cardinality(OpenUpTo(k)) + Cardinality(Outside) + 1
  <2>1. IsTurn(k) /\ OpenUpTo(k)' \subseteq OpenUpTo(k) \cup {j}
    BY <1>5, <1>9
  <2>2. IsFiniteSet(OpenUpTo(k))
    BY <1>1, CoversAre
  <2>3. /\ Cardinality(OpenUpTo(k)') <= Cardinality(OpenUpTo(k)) + 1
        /\ Cardinality(OpenUpTo(k)) \in Nat /\ Cardinality(OpenUpTo(k)') \in Nat
    <3> DEFINE old == OpenUpTo(k)
               new == OpenUpTo(k)'
    <3>1. IsFiniteSet(old) /\ new \subseteq old \cup {j}
      BY <2>1, <2>2
    <3> HIDE DEF old, new
    <3>2. /\ Cardinality(new) <= Cardinality(old) + 1
          /\ Cardinality(old) \in Nat /\ Cardinality(new) \in Nat
      BY <3>1, OneMoreElement
    <3> QED
      BY <3>2 DEF old, new
  <2>4. \A a, b, c, d \in Nat : a <= c + 1 /\ b <= d => a + b <= c + d + 1
    OBVIOUS
  <2> QED
    BY <1>8, <2>1, <2>3, <2>4
<1>10. Cardinality(Outside') <= Cardinality(Outside) + 1
  BY <1>8
<1>11. Paid(Purse, Inside) <= Paid(Purse', Inside')
  <2>1. Paid(Purse, Inside) \in Nat
    BY <1>1, PursesAre
  <2> QED
    BY <1>7, <2>1
<1>12. TurnsAreCovered' /\ OutsideIsCovered' /\ CostsAreInside'
  BY <1>3, <1>5, <1>9, <1>10, <1>11, OneMoreKept
<1> QED
  BY <1>5, <1>12 DEF BudgetInv

\* The humanizer's request is not reserved for: it is explained.
LEMMA HumanizeCovered ==
    ASSUME BudgetInv, ControlInv', NEW t \in Tasks, Humanize(t)
    PROVE  BudgetInv'
<1>1. TypeOK /\ TypeOK' /\ HoldersWork
  BY DEF BudgetInv, ControlInv
<1>2. /\ task[t].stage = "finished" /\ UNCHANGED <<earlier, job, recorded, billed>>
      /\ untold' = untold + Estimate
  BY DEF Humanize, At
<1>3. Changes(t, "entered", NoJob, 0)
  BY <1>1, HumanizeMoves
<1>4. \A k \in Jobs : job[k].holder # t /\ job[k].holder \in Tasks \cup {"none"}
  BY <1>1, <1>2, HoldersHold DEF TypeOK, JobRow
<1>5. \A u \in Tasks : Holds(u)' <=> Holds(u)
  <2>1. \A u \in Tasks \ {t} : Holds(u)' <=> Holds(u)
    BY <1>2, <1>3 DEF Holds, Changes
  <2>2. ~Holds(t)'
    BY <1>3 DEF Holds, Changes
  <2>3. ~Holds(t)
    <3>1. task[t].job \in Jobs \cup {NoJob}
      BY <1>1, TaskColumns
    <3> QED
      BY <1>4, <3>1 DEF Holds
  <2> QED
    BY <2>1, <2>2, <2>3
<1>6. Inside' = Inside
  BY <1>5 DEF Inside
<1>7. \A u \in Tasks \ {t} : IsOpen(u)' <=> IsOpen(u)
  BY <1>3 DEF IsOpen, Changes
<1>8. Outside' \subseteq Outside \cup {t}
  BY <1>5, <1>7 DEF Outside
<1>9. \A k \in Jobs : job[k].holder # "none" => task'[job[k].holder] = task[job[k].holder]
  BY <1>3, <1>4 DEF Changes
<1>10. ASSUME NEW k \in Jobs, IsTurn(k)'
       PROVE  IsTurn(k) /\ OpenUpTo(k)' \subseteq OpenUpTo(k)
  <2>1. IsTurn(k)
    BY <1>2, <1>9, <1>10 DEF IsTurn
  <2>2. earlier[k] \cup {k} \subseteq Jobs
    BY <1>1 DEF TypeOK
  <2> QED
    BY <1>2, <1>9, <2>1, <2>2 DEF OpenUpTo, IsOpen
<1>11. /\ CostsAreCharged'
       /\ \A S \in SUBSET Tasks : Paid(Purse', S) = Paid(Purse, S)
  BY <1>2, <1>3, NothingCharged DEF At
<1>12. /\ Cardinality(Outside') <= Cardinality(Outside) + 1
       /\ Cardinality(Outside') \in Nat /\ Cardinality(Outside) \in Nat
  BY <1>8, OutsideIs, OneMoreElement
<1>13. ASSUME NEW k \in Jobs, IsTurn(k)'
       PROVE  /\ IsTurn(k)
              /\ Cardinality(OpenUpTo(k)') + Cardinality(Outside')
                    <= Cardinality(OpenUpTo(k)) + Cardinality(Outside) + 1
  <2>1. IsTurn(k) /\ OpenUpTo(k)' \subseteq OpenUpTo(k)
    BY <1>10, <1>13
  <2>2. /\ IsFiniteSet(OpenUpTo(k))
        /\ Cardinality(OpenUpTo(k)) \in Nat /\ Cardinality(OpenUpTo(k)') \in Nat
    BY <1>1, CoversAre
  <2>3. Cardinality(OpenUpTo(k)') <= Cardinality(OpenUpTo(k))
    BY <2>1, <2>2, FS_Subset
  <2>4. \A a, b, c, d \in Nat : a <= c /\ b <= d + 1 => a + b <= c + d + 1
    OBVIOUS
  <2> QED
    BY <1>12, <2>1, <2>2, <2>3, <2>4
<1>14. Paid(Purse, Inside) <= Paid(Purse', Inside')
  <2>1. Paid(Purse, Inside) \in Nat /\ Inside \in SUBSET Tasks
    BY <1>1, PursesAre
  <2> QED
    BY <1>6, <1>11, <2>1
<1>15. TurnsAreCovered' /\ OutsideIsCovered' /\ CostsAreInside'
  BY <1>2, <1>12, <1>13, <1>14, OneMoreKept
<1> QED
  BY <1>11, <1>15 DEF BudgetInv

\* Who owes less.
LEMMA PaidLess ==
    ASSUME NEW f \in [Tasks -> 0 .. Estimate], NEW h \in [Tasks -> 0 .. Estimate],
           NEW S \in SUBSET Tasks, \A t \in S : f[t] <= h[t]
    PROVE  Paid(f, S) <= Paid(h, S)
<1>1. ASSUME NEW u \in Units(f, S) PROVE u \in Units(h, S)
  <2>1. u \in S \X (1 .. Estimate) /\ u[1] \in S /\ u[2] \in Nat /\ u[2] <= f[u[1]]
    BY Limits DEF Units
  <2>2. f[u[1]] \in Nat /\ h[u[1]] \in Nat /\ f[u[1]] <= h[u[1]]
    BY <2>1, Limits
  <2>3. \A a, b, c \in Nat : a <= b /\ b <= c => a <= c
    OBVIOUS
  <2>4. u[2] <= h[u[1]]
    BY <2>1, <2>2, <2>3
  <2> QED
    BY <2>1, <2>4 DEF Units
<1>2. IsFiniteSet(Units(h, S))
  BY UnitsAreFinite
<1> QED
  BY <1>1, <1>2, FS_Subset DEF Paid

\* A process stops: what its tasks had in hand and had sent is explained.
LEMMA StopCovered ==
    ASSUME BudgetInv, ControlInv', NEW p \in Processes, Stop(p)
    PROVE  BudgetInv'
<1>1. /\ TypeOK /\ TypeOK' /\ JobsInOrder /\ HoldersWork /\ RetriesHaveAnswers
  BY DEF BudgetInv, ControlInv
<1>2. /\ task' = [t \in Tasks |-> IF HomeOf[t] = p THEN Idle ELSE task[t]]
      /\ UNCHANGED <<earlier, recorded>>
      /\ \E extra \in Costs : /\ billed' = billed + extra
                              /\ untold' = untold + extra + Owed(TasksOf(p))
  BY DEF Stop
<1>3. \A k \in Jobs : \/ job'[k].holder = "none"
                      \/ job'[k] = job[k] /\ HomeOf[job[k].holder] # p
  BY <1>1, StopEnds
<1>4. /\ \A t \in Tasks : HomeOf[t] = p => task'[t] = Idle
      /\ \A t \in Tasks : HomeOf[t] # p => task'[t] = task[t]
      /\ Idle.stage = "idle" /\ Idle.job = NoJob /\ Idle.owed = 0
  BY <1>2 DEF Idle
<1>5. ASSUME NEW k \in Jobs, job'[k].holder # "none"
      PROVE  /\ job'[k] = job[k] /\ job[k].holder \in Tasks
             /\ HomeOf[job[k].holder] # p
             /\ task'[job[k].holder] = task[job[k].holder]
  <2>1. job'[k] = job[k] /\ HomeOf[job[k].holder] # p
    BY <1>3, <1>5
  <2>2. job[k].holder \in Tasks
    BY <1>1, <1>5, <2>1 DEF TypeOK, JobRow
  <2> QED
    BY <1>4, <2>1, <2>2
<1>6. \A t \in Tasks : Holds(t)' <=> (Holds(t) /\ HomeOf[t] # p)
  <2> SUFFICES ASSUME NEW t \in Tasks
               PROVE  Holds(t)' <=> (Holds(t) /\ HomeOf[t] # p)
    OBVIOUS
  <2>1. CASE HomeOf[t] = p
    BY <1>4, <2>1 DEF Holds
  <2>2. CASE HomeOf[t] # p
    <3>1. task'[t] = task[t] /\ task[t].job \in Jobs \cup {NoJob}
      BY <1>1, <1>4, <2>2, TaskColumns
    <3>2. CASE task[t].job = NoJob
      BY <3>1, <3>2 DEF Holds
    <3>3. CASE task[t].job \in Jobs
      <4> DEFINE k == task[t].job
      <4>1. job'[k].holder = t => job[k].holder = t
        BY <1>5, <3>3, Limits
      <4>2. job[k].holder = t => job'[k].holder = t
        <5> SUFFICES ASSUME job[k].holder = t PROVE job'[k].holder = t
          OBVIOUS
        <5>1. job' = [j \in Jobs |->
                  IF job[j].holder # "none" /\ HomeOf[job[j].holder] = p
                  THEN [job[j] EXCEPT !.holder = "none"] ELSE job[j]]
          BY DEF Stop
        <5> QED
          BY <2>2, <3>3, <5>1
      <4> QED
        BY <2>2, <3>1, <4>1, <4>2 DEF Holds
    <3> QED
      BY <3>1, <3>2, <3>3
  <2> QED
    BY <2>1, <2>2
<1>7. Inside' = Inside \ TasksOf(p)
  BY <1>6 DEF Inside, TasksOf
<1>8. Outside' \subseteq Outside
  BY <1>4, <1>6 DEF Outside, IsOpen, OpenStages
<1>9. ASSUME NEW k \in Jobs, IsTurn(k)'
      PROVE  IsTurn(k) /\ OpenUpTo(k)' \subseteq OpenUpTo(k)
  <2>1. IsTurn(k)
    BY <1>5, <1>9 DEF IsTurn
  <2>2. earlier[k] \cup {k} \subseteq Jobs
    BY <1>1 DEF TypeOK
  <2>3. ASSUME NEW h \in OpenUpTo(k)' PROVE h \in OpenUpTo(k)
    <3>1. /\ h \in earlier[k] \cup {k} /\ job'[h].holder # "none"
          /\ task'[job'[h].holder].stage \in OpenStages
      BY <1>2 DEF OpenUpTo, IsOpen
    <3> QED
      BY <1>5, <2>2, <3>1 DEF OpenUpTo, IsOpen
  <2> QED
    BY <2>1, <2>3
<1>10. /\ Purse \in [Tasks -> 0 .. Estimate] /\ Purse' \in [Tasks -> 0 .. Estimate]
       /\ Inside \in SUBSET Tasks /\ Inside' \in SUBSET Tasks
       /\ TasksOf(p) \in SUBSET Tasks
       /\ \A t \in Tasks : HomeOf[t] = p => Purse'[t] = 0
       /\ \A t \in Tasks : HomeOf[t] # p => Purse'[t] = Purse[t]
  BY <1>1, <1>4, PursesAre DEF TasksOf
<1>11. Owed(TasksOf(p)) = Paid(Purse, TasksOf(p)) /\ Owed(TasksOf(p)) \in Nat
  BY <1>1, <1>10, PurseIs, UnitsAreFinite
<1>12. /\ Paid(Purse', Inside') = Paid(Purse, Inside')
       /\ Paid(Purse, Inside) <= Paid(Purse, Inside') + Paid(Purse, TasksOf(p))
  <2>1. \A t \in Inside' : Purse'[t] = Purse[t]
    BY <1>7, <1>10 DEF TasksOf
  <2>2. Paid(Purse, Inside) <= Paid(Purse, Inside \ TasksOf(p)) + Paid(Purse, TasksOf(p))
    BY <1>10, PaidInParts
  <2> QED
    BY <1>7, <2>1, <2>2, PaidAgrees
<1>13. PICK extra \in Nat : /\ billed' = billed + extra
                            /\ untold' = untold + extra + Owed(TasksOf(p))
  BY <1>2, Limits DEF Costs
<1>14. billed \in Nat /\ untold \in Nat /\ recorded \in Nat
  BY <1>1 DEF TypeOK
<1>15. billed' + untold <= billed + untold'
  <2>1. \A b, u, n, o \in Nat : (b + n) + u <= b + (u + n + o)
    OBVIOUS
  <2> QED
    BY <1>11, <1>13, <1>14, <2>1
<1>16. billed' + recorded + untold + Paid(Purse, Inside)
          <= billed + recorded' + untold' + Paid(Purse', Inside')
  <2>1. \A b, u, n, o, r, m, q \in Nat : m <= q + o =>
           (b + n) + r + u + m <= b + r + (u + n + o) + q
    OBVIOUS
  <2>2. Paid(Purse, Inside) \in Nat /\ Paid(Purse', Inside') \in Nat
    BY <1>1, PursesAre
  <2>3. Paid(Purse, Inside) <= Paid(Purse', Inside') + Owed(TasksOf(p))
    BY <1>11, <1>12
  <2>4. recorded' = recorded
    BY <1>2
  <2> QED
    BY <1>11, <1>13, <1>14, <2>1, <2>2, <2>3, <2>4
<1>17. TurnsAreCovered' /\ OutsideIsCovered' /\ CostsAreInside'
  BY <1>1, <1>8, <1>9, <1>15, <1>16, QuietKept DEF BudgetInv
<1>18. CostsAreCharged'
  <2>1. \A t \in Tasks : Purse[t] \in Nat /\ Purse'[t] \in Nat /\ Purse'[t] <= Purse[t]
    BY <1>10, Limits
  <2>2. Tasks \in SUBSET Tasks
    OBVIOUS
  <2>3. Paid(Purse', Tasks) <= Paid(Purse, Tasks)
    BY <1>10, <2>1, <2>2, PaidLess
  <2>4. Paid(Purse, Tasks) \in Nat /\ Paid(Purse', Tasks) \in Nat
    BY <1>1, PursesAre
  <2>5. recorded + Paid(Purse, Tasks) <= billed
    BY DEF BudgetInv, CostsAreCharged
  <2>6. \A r, m, q, b, n \in Nat : r + m <= b /\ q <= m => r + q <= b + n
    OBVIOUS
  <2>7. recorded + Paid(Purse', Tasks) <= billed'
    BY <1>13, <1>14, <2>3, <2>4, <2>5, <2>6
  <2> QED
    BY <1>2, <2>7 DEF CostsAreCharged
<1> QED
  BY <1>17, <1>18 DEF BudgetInv

\* An answer that is paid for: its request was reserved for, or was outside.
LEMMA AnswerCovered ==
    ASSUME BudgetInv, ControlInv', NEW t \in Tasks, NEW cost \in Costs, Answer(t, cost)
    PROVE  BudgetInv'
<1>1. TypeOK /\ TypeOK' /\ HoldersWork /\ JobsInOrder /\ OwedIsAnswered
  BY DEF BudgetInv, ControlInv
<1>2. /\ task[t].stage = "asking" /\ UNCHANGED <<earlier, job, recorded, untold>>
      /\ billed' = billed + cost
  BY DEF Answer, At
<1>3. Changes(t, "answered", task[t].job, cost)
  BY <1>1, AnswerMoves
<1>4. /\ Inside' = Inside
      /\ \A k \in Jobs : IsTurn(k)' => job[k].holder = t \/ IsTurn(k)
      /\ Outside' = Outside \ {t}
      /\ \A k \in Jobs : OpenUpTo(k)' = {h \in OpenUpTo(k) : job[h].holder # t}
  <2>1. "answered" \notin OpenStages
    BY DEF OpenStages
  <2>2. /\ Inside' = Inside
        /\ \A k \in Jobs : IsTurn(k)' <=>
              IF job[k].holder = t THEN "answered" \in {"asking", "answered"}
              ELSE IsTurn(k)
    BY <1>1, <1>2, <1>3, StaysInside
  <2>3. /\ Outside' = Outside \ {t}
        /\ \A k \in Jobs : OpenUpTo(k)' = {h \in OpenUpTo(k) : job[h].holder # t}
    BY <1>1, <1>2, <1>3, <2>1, StaysInside
  <2> QED
    BY <2>2, <2>3
<1>5. IsOpen(t)
  BY <1>2 DEF IsOpen, OpenStages
<1>6. task[t].owed = 0
  BY <1>1, <1>2, OwesNothing DEF At
<1>7. /\ billed \in Nat /\ untold \in Nat /\ recorded \in Nat /\ HardLimit \in Nat
      /\ cost \in Nat /\ cost <= Estimate /\ Estimate \in Nat
  BY <1>1, Limits DEF TypeOK, Costs
<1>8. Estimates(0) = 0 /\ Estimates(1) = Estimate
  BY EstimatesAdd
<1>9. /\ Cardinality(Outside) \in Nat /\ Cardinality(Outside') \in Nat
      /\ IsFiniteSet(Outside)
  BY OutsideIs
<1>10. \A k \in Jobs : IsTurn(k)' => IsTurn(k)
  BY <1>2, <1>4, Limits DEF IsTurn
<1>11. billed' + Estimates(0) + untold <= billed + untold' + Estimates(1)
  <2>1. \A b, c, u, e \in Nat : c <= e => (b + c) + 0 + u <= b + u + e
    OBVIOUS
  <2> QED
    BY <1>2, <1>7, <1>8, <2>1
<1>12. CostsAreCharged'
  <2>1. \A r, c, b \in Nat : r + c + b <= r + 0 + (b + c)
    OBVIOUS
  <2>2. recorded' + cost + billed <= recorded + task[t].owed + billed'
    BY <1>2, <1>6, <1>7, <2>1
  <2> QED
    BY <1>1, <1>3, <2>2, ChargesKept DEF BudgetInv
<1>13. /\ t \in Inside => Paid(Purse', Inside') = Paid(Purse, Inside) + cost
       /\ t \notin Inside => Paid(Purse', Inside') = Paid(Purse, Inside)
       /\ Paid(Purse, Inside) \in Nat /\ Paid(Purse', Inside') \in Nat
  <2>1. /\ Paid(Purse, Inside) \in Nat /\ Paid(Purse', Inside') \in Nat
        /\ Inside \in SUBSET Tasks
    BY <1>1, PursesAre
  <2>2. /\ t \in Inside => Paid(Purse', Inside) + 0 = Paid(Purse, Inside) + cost
        /\ t \notin Inside => Paid(Purse', Inside) = Paid(Purse, Inside)
    BY <1>1, <1>3, <1>6, <2>1, PurseMoves
  <2> QED
    BY <1>4, <2>1, <2>2
<1>14. CASE Holds(t)
  <2> DEFINE j == task[t].job
  <2>1. j \in Jobs /\ job[j].holder = t /\ t \in Inside /\ t \notin Outside
    <3>1. j \in Jobs \cup {NoJob}
      BY <1>1, TaskColumns
    <3> QED
      BY <1>14, <3>1 DEF Holds, Inside, Outside
  <2> HIDE DEF j
  <2>2. IsTurn(j) /\ j \in OpenUpTo(j) /\ j \in Running
    <3>1. job[j].status = "running"
      BY <1>1, <2>1, HoldersHold
    <3> QED
      BY <1>2, <1>5, <2>1, <3>1, Limits DEF IsTurn, OpenUpTo, Running
  <2>3. Outside' = Outside
    BY <1>4, <2>1
  <2>4. \A k \in Jobs : j \notin OpenUpTo(k)'
    BY <1>4, <2>1
  <2>5. ASSUME NEW k \in Jobs, IsTurn(k)'
        PROVE  \E m \in Jobs : IsTurn(m) /\ OpenUpTo(k)' \subseteq OpenUpTo(m)
                                       /\ j \in OpenUpTo(m)
    <3>1. IsTurn(k) /\ OpenUpTo(k)' \subseteq OpenUpTo(k)
      BY <1>4, <1>10, <2>5
    <3>2. CASE j \in OpenUpTo(k)
      BY <3>1, <3>2
    <3>3. CASE j \notin OpenUpTo(k)
      <4>1. k # j
        BY <2>2, <3>3
      <4>2. j \notin earlier[k]
        BY <1>5, <2>1, <3>3, Limits DEF OpenUpTo
      <4>3. k \in Running
        BY <1>1, <3>1 DEF IsTurn, HoldersWork, Running
      <4>4. k \in earlier[j] /\ earlier[k] \subseteq earlier[j]
        BY <1>1, <2>2, <4>1, <4>2, <4>3 DEF JobsInOrder
      <4>5. OpenUpTo(k) \subseteq OpenUpTo(j)
        BY <4>4 DEF OpenUpTo
      <4> QED
        BY <2>1, <2>2, <3>1, <4>5
    <3> QED
      BY <3>2, <3>3
  <2>6. ASSUME NEW k \in Jobs, IsTurn(k)'
        PROVE  \E m \in Jobs :
                  /\ IsTurn(m)
                  /\ Cardinality(OpenUpTo(k)') + Cardinality(Outside') + 1
                        <= Cardinality(OpenUpTo(m)) + Cardinality(Outside) + 0
    <3>1. PICK m \in Jobs : /\ IsTurn(m) /\ OpenUpTo(k)' \subseteq OpenUpTo(m)
                            /\ j \in OpenUpTo(m)
      BY <2>5, <2>6
    <3>2. /\ IsFiniteSet(OpenUpTo(m)) /\ Cardinality(OpenUpTo(m)) \in Nat
          /\ Cardinality(OpenUpTo(k)') \in Nat
      BY <1>1, CoversAre
    <3>3. /\ IsFiniteSet(OpenUpTo(m) \ {j})
          /\ Cardinality(OpenUpTo(m) \ {j}) = Cardinality(OpenUpTo(m)) - 1
      BY <3>1, <3>2, FS_RemoveElement
    <3>4. OpenUpTo(k)' \subseteq OpenUpTo(m) \ {j}
      BY <2>4, <3>1
    <3>5. Cardinality(OpenUpTo(k)') <= Cardinality(OpenUpTo(m)) - 1
      BY <3>3, <3>4, FS_Subset
    <3>6. \A a, b, c \in Nat : a <= c - 1 => a + b + 1 <= c + b + 0
      OBVIOUS
    <3>7. Cardinality(OpenUpTo(k)') + Cardinality(Outside) + 1
             <= Cardinality(OpenUpTo(m)) + Cardinality(Outside) + 0
      BY <1>9, <3>2, <3>5, <3>6
    <3> QED
      BY <2>3, <3>1, <3>7
  <2>7. TurnsAreCovered'
    BY <1>1, <1>11, <2>6, TurnsKept DEF BudgetInv
  <2>8. OutsideIsCovered'
    <3> DEFINE n == Cardinality(OpenUpTo(j))
               x == Cardinality(Outside)
    <3>1. n \in Nat /\ IsFiniteSet(OpenUpTo(j)) /\ x \in Nat
      BY <1>1, <1>9, <2>1, CoversAre
    <3>2. n # 0
      BY <2>2, <3>1, FS_EmptySet
    <3>3. billed + Estimates(n + x) <= HardLimit + untold
      BY <2>1, <2>2 DEF BudgetInv, TurnsAreCovered
    <3>4. x + 1 \in Nat /\ n + x \in Nat /\ x + 1 <= n + x
      <4> HIDE DEF n, x
      <4> QED
        BY <3>1, <3>2
    <3> HIDE DEF n, x
    <3>5. /\ Estimates(x + 1) <= Estimates(n + x)
          /\ Estimates(x + 1) = Estimates(x) + Estimates(1)
          /\ Estimates(x) \in Nat /\ Estimates(n + x) \in Nat
      BY <3>1, <3>4, EstimatesAdd
    <3>6. \A b, c, d, e, f, h : (b \in Nat /\ c \in Nat /\ d \in Nat /\ e \in Nat
                                   /\ f \in Nat /\ h \in Nat) =>
             (c <= e /\ d + e <= f /\ b + f <= h => (b + c) + d <= h)
      OBVIOUS
    <3>7. Estimates(x) + Estimate <= Estimates(n + x)
      BY <1>8, <3>5
    <3>8. HardLimit + untold \in Nat
      BY <1>7
    <3>9. (billed + cost) + Estimates(x) <= HardLimit + untold
      BY <1>7, <3>3, <3>5, <3>6, <3>7, <3>8
    <3> QED
      BY <1>2, <2>3, <3>9 DEF OutsideIsCovered, x
  <2>9. CostsAreInside'
    <3>1. \A b, c, r, u, q \in Nat :
             (b + c) + 0 + r + u + q <= b + r + u + (q + c) + 0
      OBVIOUS
    <3>2. billed' + Estimates(0) + recorded + untold + Paid(Purse, Inside)
             <= billed + recorded' + untold' + Paid(Purse', Inside') + Estimates(0)
      BY <1>2, <1>7, <1>8, <1>13, <2>1, <3>1
    <3>3. Cardinality(Outside') + 0 <= Cardinality(Outside) + 0
      BY <1>9, <2>3
    <3> QED
      BY <1>1, <3>2, <3>3, CostsKept DEF BudgetInv
  <2> QED
    BY <1>12, <2>7, <2>8, <2>9 DEF BudgetInv
<1>15. CASE ~Holds(t)
  <2>1. t \in Outside /\ t \notin Inside
    BY <1>5, <1>15 DEF Outside, Inside
  <2>2. Cardinality(Outside') = Cardinality(Outside) - 1
    BY <1>4, <1>9, <2>1, FS_RemoveElement
  <2>3. \A a, c \in Nat : a = c - 1 => a + 1 <= c + 0
    OBVIOUS
  <2>4. Cardinality(Outside') + 1 <= Cardinality(Outside) + 0
    BY <1>9, <2>2, <2>3
  <2>5. ASSUME NEW k \in Jobs, IsTurn(k)'
        PROVE  \E m \in Jobs :
                  /\ IsTurn(m)
                  /\ Cardinality(OpenUpTo(k)') + Cardinality(Outside') + 1
                        <= Cardinality(OpenUpTo(m)) + Cardinality(Outside) + 0
    <3>1. IsTurn(k) /\ OpenUpTo(k)' \subseteq OpenUpTo(k)
      BY <1>4, <1>10, <2>5
    <3>2. /\ IsFiniteSet(OpenUpTo(k)) /\ Cardinality(OpenUpTo(k)) \in Nat
          /\ Cardinality(OpenUpTo(k)') \in Nat
      BY <1>1, CoversAre
    <3>3. Cardinality(OpenUpTo(k)') <= Cardinality(OpenUpTo(k))
      BY <3>1, <3>2, FS_Subset
    <3>4. \A a, b, c, d \in Nat : a <= c /\ b = d - 1 => a + b + 1 <= c + d + 0
      OBVIOUS
    <3> QED
      BY <1>9, <2>2, <3>1, <3>2, <3>3, <3>4
  <2>6. TurnsAreCovered'
    BY <1>1, <1>11, <2>5, TurnsKept DEF BudgetInv
  <2>7. OutsideIsCovered'
    BY <1>1, <1>11, <2>4, OutsideKept DEF BudgetInv
  <2>8. CostsAreInside'
    <3>1. \A b, c, e, r, u, q \in Nat : c <= e =>
             (b + c) + 0 + r + u + q <= b + r + u + q + e
      OBVIOUS
    <3>2. billed' + Estimates(0) + recorded + untold + Paid(Purse, Inside)
             <= billed + recorded' + untold' + Paid(Purse', Inside') + Estimates(1)
      BY <1>2, <1>7, <1>8, <1>13, <2>1, <3>1
    <3> QED
      BY <1>1, <2>4, <3>2, CostsKept DEF BudgetInv
  <2> QED
    BY <1>12, <2>6, <2>7, <2>8 DEF BudgetInv
<1> QED
  BY <1>14, <1>15

\* An inequality of the budget, when it is taken over from a request that was
\* allowed before.
LEMMA TakenOver ==
    ASSUME TypeOK, TypeOK', TurnsAreCovered, UNCHANGED billed, untold <= untold',
           Outside' \subseteq Outside,
           NEW k \in Jobs, NEW m \in Jobs, IsTurn(m),
           OpenUpTo(k)' \subseteq OpenUpTo(m)
    PROVE  billed' + Estimates(Cardinality(OpenUpTo(k)') + Cardinality(Outside'))
              <= HardLimit + untold'
<1> DEFINE x == Cardinality(OpenUpTo(m)) + Cardinality(Outside)
           y == Cardinality(OpenUpTo(k)') + Cardinality(Outside')
<1>1. /\ Cardinality(OpenUpTo(k)') <= Cardinality(OpenUpTo(m))
      /\ Cardinality(OpenUpTo(k)') \in Nat /\ Cardinality(OpenUpTo(m)) \in Nat
  BY CoversAre, FS_Subset
<1>2. /\ Cardinality(Outside') <= Cardinality(Outside)
      /\ Cardinality(Outside') \in Nat /\ Cardinality(Outside) \in Nat
  BY OutsideIs, FS_Subset
<1>3. x \in Nat /\ y \in Nat /\ y <= x
  <2>1. \A a, b, c, d \in Nat : a <= c /\ b <= d =>
           a + b \in Nat /\ c + d \in Nat /\ a + b <= c + d
    OBVIOUS
  <2> QED
    BY <1>1, <1>2, <2>1
<1>4. billed + Estimates(x) <= HardLimit + untold
  BY DEF TurnsAreCovered
<1> HIDE DEF x, y
<1>5. Estimates(y) <= Estimates(x) /\ Estimates(y) \in Nat /\ Estimates(x) \in Nat
  BY <1>3, EstimatesAdd
<1>6. /\ billed \in Nat /\ untold \in Nat /\ untold' \in Nat /\ HardLimit \in Nat
  BY Limits DEF TypeOK
<1>7. \A b, e, f, h, u, v \in Nat :
         b + f <= h + u /\ e <= f /\ u <= v => b + e <= h + v
  OBVIOUS
<1>8. billed + Estimates(y) <= HardLimit + untold'
  BY <1>4, <1>5, <1>6, <1>7
<1> QED
  BY <1>8 DEF y

\* Where no request for a later job was allowed, who has an answer in hand and
\* its lease works at a job that came before: all of them and all who may still
\* ask are reserved for.
LEMMA AnswersComeBefore ==
    ASSUME BudgetInv, NEW t \in Tasks, NEW j \in Jobs, job[j].holder = t,
           ~IsTurn(j),
           \A k \in Jobs : IsTurn(k) => j \notin earlier[k]
    PROVE  /\ Paid(Purse, Inside) + Estimates(Cardinality(OpenUpTo(j)))
                 <= Estimates(Cardinality(earlier[j]) + 1)
           /\ Cardinality(earlier[j]) \in Nat
<1> DEFINE Payers == {u \in Inside : task[u].owed # 0}
           Before == {k \in earlier[j] : \E u \in Payers : task[u].job = k}
<1>1. TypeOK /\ HoldersWork /\ JobsInOrder /\ OwedIsAnswered
  BY DEF BudgetInv, ControlInv
<1>2. /\ earlier[j] \in SUBSET Jobs /\ IsFiniteSet(earlier[j])
      /\ j \notin earlier[j] /\ j \in Running
  <2>1. j \in Running
    BY <1>1, HoldersHold DEF Running
  <2>2. earlier[j] \in SUBSET Jobs /\ j \notin earlier[j]
    BY <1>1 DEF JobsInOrder, TypeOK
  <2> QED
    BY <2>1, <2>2, Limits, FS_Subset
<1>3. /\ Cardinality(earlier[j]) \in Nat
      /\ IsFiniteSet(earlier[j] \cup {j})
      /\ Cardinality(earlier[j] \cup {j}) = Cardinality(earlier[j]) + 1
  BY <1>2, FS_AddElement, FS_CardinalityType
<1>4. ASSUME NEW u \in Payers
      PROVE  /\ task[u].job \in earlier[j] /\ task[u].stage = "answered"
             /\ job[task[u].job].holder = u
  <2>1. u \in Tasks /\ Holds(u) /\ task[u].stage = "answered"
    BY <1>1 DEF Inside, OwedIsAnswered, At
  <2>2. task[u].job \in Jobs /\ job[task[u].job].holder = u
    <3>1. task[u].job \in Jobs \cup {NoJob}
      BY <1>1, <2>1, TaskColumns
    <3> QED
      BY <2>1, <3>1 DEF Holds
  <2> DEFINE k == task[u].job
  <2>3. IsTurn(k)
    BY <2>1, <2>2, Limits DEF IsTurn
  <2>4. k # j /\ j \notin earlier[k]
    BY <2>2, <2>3
  <2>5. k \in Running
    BY <1>1, <2>1, <2>2, HoldersHold DEF Running
  <2>6. k \in earlier[j]
    BY <1>1, <1>2, <2>4, <2>5 DEF JobsInOrder
  <2> QED
    BY <2>1, <2>2, <2>6
<1>5. Payers \in SUBSET Tasks /\ Inside \in SUBSET Tasks /\ IsFiniteSet(Payers)
  <2>1. Payers \in SUBSET Tasks /\ Inside \in SUBSET Tasks
    BY DEF Inside
  <2> QED
    BY <2>1, Limits, FS_Subset
<1>6. Paid(Purse, Inside) <= Estimates(Cardinality(Payers))
  <2>1. /\ Purse \in [Tasks -> 0 .. Estimate]
        /\ \A u \in Tasks : Purse[u] = task[u].owed
    BY <1>1, PurseIs
  <2>2. \A u \in Inside : Purse[u] # 0 => u \in Payers
    BY <1>5, <2>1
  <2> HIDE DEF Payers
  <2> QED
    BY <1>5, <2>1, <2>2, PaidIsBounded
<1>7. Cardinality(Payers) <= Cardinality(Before)
  <2> DEFINE f == [u \in Payers |-> task[u].job]
  <2>1. f \in [Payers -> Before]
    BY <1>4
  <2>2. \A u, v \in Payers : f[u] = f[v] => u = v
    BY <1>4
  <2>3. f \in Injection(Payers, Before)
    BY <2>1, <2>2 DEF Injection, IsInjective
  <2>4. IsFiniteSet(Before)
    BY <1>2, FS_Subset
  <2> HIDE DEF f
  <2> QED
    BY <2>3, <2>4, FS_Injection
<1>8. Before \cap OpenUpTo(j) = {}
  BY <1>4, Limits DEF OpenUpTo, IsOpen, OpenStages
<1>9. /\ Before \subseteq earlier[j] \cup {j} /\ OpenUpTo(j) \subseteq earlier[j] \cup {j}
  BY DEF OpenUpTo
<1>10. /\ IsFiniteSet(Before) /\ IsFiniteSet(OpenUpTo(j))
       /\ Cardinality(Before) \in Nat /\ Cardinality(OpenUpTo(j)) \in Nat
       /\ Cardinality(Payers) \in Nat
  BY <1>3, <1>5, <1>9, FS_Subset, FS_CardinalityType
<1> HIDE DEF Payers, Before
<1>11. Cardinality(Before) + Cardinality(OpenUpTo(j)) <= Cardinality(earlier[j]) + 1
  <2>1. Cardinality(Before \cup OpenUpTo(j))
           = Cardinality(Before) + Cardinality(OpenUpTo(j))
                - Cardinality(Before \cap OpenUpTo(j))
    BY <1>10, FS_Union
  <2>2. Cardinality(Before \cap OpenUpTo(j)) = 0
    BY <1>8, FS_EmptySet
  <2>3. Before \cup OpenUpTo(j) \subseteq earlier[j] \cup {j}
    BY <1>9
  <2>4. Cardinality(Before \cup OpenUpTo(j)) <= Cardinality(earlier[j] \cup {j})
    BY <1>3, <2>3, FS_Subset
  <2> QED
    BY <1>3, <1>10, <2>1, <2>2, <2>4
<1>12. Cardinality(Payers) + Cardinality(OpenUpTo(j)) <= Cardinality(earlier[j]) + 1
  BY <1>3, <1>7, <1>10, <1>11
<1>13. /\ Estimates(Cardinality(Payers)) + Estimates(Cardinality(OpenUpTo(j)))
             <= Estimates(Cardinality(earlier[j]) + 1)
       /\ Estimates(Cardinality(Payers)) \in Nat
       /\ Estimates(Cardinality(OpenUpTo(j))) \in Nat
       /\ Estimates(Cardinality(earlier[j]) + 1) \in Nat
  <2>1. Cardinality(Payers) + Cardinality(OpenUpTo(j)) \in Nat
        /\ Cardinality(earlier[j]) + 1 \in Nat
    BY <1>3, <1>10
  <2> QED
    BY <1>10, <1>12, <2>1, EstimatesAdd
<1>14. Paid(Purse, Inside) \in Nat
  BY <1>5, UnitsAreFinite
<1>15. \A p, a, b, c \in Nat : p <= a /\ a + b <= c => p + b <= c
  OBVIOUS
<1> QED
  BY <1>3, <1>6, <1>13, <1>14, <1>15

\* A decision that is positive: a request is allowed that fits in the limit
\* together with all that is reserved for, or one that was reserved for by a
\* request which was allowed before.
LEMMA DecideCovered ==
    ASSUME BudgetInv, ControlInv', NEW t \in Tasks, Decide(t), Allows(t)
    PROVE  BudgetInv'
<1>1. /\ TypeOK /\ TypeOK' /\ HoldersWork /\ JobsInOrder /\ OwedIsAnswered
      /\ SeenIsRecorded
  BY DEF BudgetInv, ControlInv
<1>2. /\ task[t].stage = "stamped" /\ UNCHANGED <<earlier, job, recorded, billed>>
      /\ untold' = untold + recorded - task[t].seen
  BY DEF Decide, Allows, At
<1>3. Changes(t, "asking", task[t].job, task[t].owed)
  BY <1>1, DecideMoves
<1>4. /\ billed \in Nat /\ untold \in Nat /\ untold' \in Nat /\ recorded \in Nat
      /\ task[t].seen \in Nat /\ task[t].seen <= recorded
      /\ HardLimit \in Nat /\ Estimate \in Nat
  BY <1>1, TaskColumns, Limits DEF TypeOK, SeenIsRecorded
<1>5. untold <= untold' /\ untold' + task[t].seen = untold + recorded
  BY <1>2, <1>4
<1>6. /\ Inside' = Inside /\ Outside' \subseteq Outside
      /\ \A k \in Jobs : OpenUpTo(k)' \subseteq OpenUpTo(k)
      /\ \A k \in Jobs : IsTurn(k)' => job[k].holder = t \/ IsTurn(k)
  <2>1. IsOpen(t) /\ "asking" \in OpenStages
    BY <1>2 DEF IsOpen, OpenStages
  <2> QED
    BY <1>1, <1>2, <1>3, <2>1, StaysInside
<1>7. CostsAreCharged'
  <2>1. task[t].owed \in Nat
    BY <1>1, TaskColumns, Limits
  <2>2. recorded' + task[t].owed + billed <= recorded + task[t].owed + billed'
    BY <1>2, <1>4, <2>1
  <2> QED
    BY <1>1, <1>3, <2>2, ChargesKept DEF BudgetInv
<1>8. /\ 0 \in Nat
      /\ Cardinality(Outside') + 0 <= Cardinality(Outside) + 0
      /\ Cardinality(Outside) \in Nat /\ Cardinality(Outside') \in Nat
  <2>1. /\ Cardinality(Outside') <= Cardinality(Outside)
        /\ Cardinality(Outside') \in Nat /\ Cardinality(Outside) \in Nat
    BY <1>6, OutsideIs, FS_Subset
  <2> QED
    BY <2>1
<1>9. billed' + untold <= billed + untold'
  BY <1>2, <1>4, <1>5
<1>10. OutsideIsCovered'
  <2>1. billed' + Estimates(0) + untold <= billed + untold' + Estimates(0)
    BY <1>2, <1>4, <1>9, NoEstimates
  <2> QED
    BY <1>1, <1>8, <2>1, OutsideKept DEF BudgetInv
<1>11. CostsAreInside'
  <2>1. Paid(Purse', Inside') = Paid(Purse, Inside)
    <3>1. /\ t \in Inside =>
                Paid(Purse', Inside) + task[t].owed = Paid(Purse, Inside) + task[t].owed
          /\ t \notin Inside => Paid(Purse', Inside) = Paid(Purse, Inside)
          /\ task[t].owed \in Nat
      BY <1>1, <1>3, PurseMoves, PursesAre
    <3>2. Paid(Purse, Inside) \in Nat /\ Paid(Purse', Inside) \in Nat
      BY <1>1, <1>6, PursesAre
    <3>3. Paid(Purse', Inside) = Paid(Purse, Inside)
      BY <3>1, <3>2
    <3> QED
      BY <1>6, <3>3
  <2>2. recorded <= recorded'
    BY <1>2, <1>4
  <2>3. billed' + recorded + untold + Paid(Purse, Inside)
           <= billed + recorded' + untold' + Paid(Purse', Inside')
    BY <1>1, <1>9, <2>1, <2>2, SameInHand
  <2>4. Paid(Purse, Inside) \in Nat /\ Paid(Purse', Inside') \in Nat
    BY <1>1, PursesAre
  <2>5. \A b, c, p, q, r, s, u, v : b \in Nat /\ c \in Nat /\ p \in Nat /\ q \in Nat
            /\ r \in Nat /\ s \in Nat /\ u \in Nat /\ v \in Nat
            /\ c + r + u + p <= b + s + v + q
           => c + 0 + r + u + p <= b + s + v + q + 0
    OBVIOUS
  <2>6. billed' + 0 + recorded + untold + Paid(Purse, Inside)
           <= billed + recorded' + untold' + Paid(Purse', Inside') + 0
    BY <1>2, <1>4, <2>3, <2>4, <2>5
  <2>7. Estimates(0) = 0
    BY EstimatesAdd
  <2>8. billed' + Estimates(0) + recorded + untold + Paid(Purse, Inside)
           <= billed + recorded' + untold' + Paid(Purse', Inside') + Estimates(0)
    BY <2>6, <2>7
  <2> QED
    BY <1>1, <1>8, <2>8, CostsKept DEF BudgetInv
<1>12. ASSUME NEW k \in Jobs, IsTurn(k)'
       PROVE  billed' + Estimates(Cardinality(OpenUpTo(k)') + Cardinality(Outside'))
                 <= HardLimit + untold'
  <2>1. ASSUME NEW m \in Jobs, IsTurn(m), OpenUpTo(k) \subseteq OpenUpTo(m)
        PROVE  billed' + Estimates(Cardinality(OpenUpTo(k)') + Cardinality(Outside'))
                  <= HardLimit + untold'
    <3>1. OpenUpTo(k)' \subseteq OpenUpTo(m)
      BY <1>6, <2>1
    <3> QED
      BY <1>1, <1>2, <1>5, <1>6, <2>1, <3>1, TakenOver DEF BudgetInv
  <2>2. CASE IsTurn(k)
    BY <2>1, <2>2
  <2>3. CASE ~IsTurn(k)
    <3>1. job[k].holder = t
      BY <1>6, <1>12, <2>3
    <3>2. task[t].job = k /\ k \in Running
      BY <1>1, <3>1, HoldersHold DEF Running
    <3>3. CASE \E m \in Jobs : IsTurn(m) /\ k \in earlier[m]
      <4>1. PICK m \in Jobs : IsTurn(m) /\ k \in earlier[m]
        BY <3>3
      <4>2. m \in Running
        BY <1>1, <4>1 DEF IsTurn, HoldersWork, Running
      <4>3. earlier[k] \cup {k} \subseteq earlier[m]
        BY <1>1, <3>2, <4>1, <4>2 DEF JobsInOrder
      <4>4. OpenUpTo(k) \subseteq OpenUpTo(m)
        BY <4>3 DEF OpenUpTo
      <4> QED
        BY <2>1, <4>1, <4>4
    <3>4. CASE ~\E m \in Jobs : IsTurn(m) /\ k \in earlier[m]
      <4> DEFINE paid == Paid(Purse, Inside)
                 x == Cardinality(OpenUpTo(k))
                 o == Cardinality(Outside)
                 y == Cardinality(OpenUpTo(k)')
                 w == Cardinality(Outside')
                 n == Cardinality(earlier[k])
      <4>1. paid + Estimates(x) <= Estimates(n + 1) /\ n \in Nat
        BY <2>3, <3>1, <3>4, AnswersComeBefore
      <4>2. task[t].seen + Estimates(n) + Estimate <= HardLimit
        <5>1. Reserved(k) = Estimates(n)
          BY Limits DEF Reserved, Estimates
        <5> QED
          BY <3>2, <5>1 DEF Allows, IsAllowed
      <4>3. billed + Estimates(o) <= recorded + untold + paid
        BY DEF BudgetInv, CostsAreInside
      <4>4. x \in Nat /\ y \in Nat /\ y <= x
        <5>1. /\ IsFiniteSet(OpenUpTo(k)) /\ x \in Nat /\ y \in Nat
              /\ OpenUpTo(k)' \subseteq OpenUpTo(k)
          BY <1>1, <1>6, CoversAre
        <5> QED
          BY <5>1, FS_Subset
      <4>5. o \in Nat /\ w \in Nat /\ w <= o
        BY <1>8
      <4>6. paid \in Nat
        BY <1>1, PursesAre
      <4> HIDE DEF paid, x, o, y, w, n
      <4>7. /\ Estimates(n + 1) = Estimates(n) + Estimate /\ Estimates(n) \in Nat
            /\ Estimates(x) \in Nat /\ Estimates(o) \in Nat
        BY <4>1, <4>4, <4>5, EstimatesAdd
      <4>8. Estimates(y + w) <= Estimates(x) + Estimates(o) /\ Estimates(y + w) \in Nat
        <5>1. y + w \in Nat /\ x + o \in Nat /\ y + w <= x + o
          BY <4>4, <4>5
        <5> QED
          BY <4>4, <4>5, <5>1, EstimatesAdd
      <4>9. paid + Estimates(x) + task[t].seen <= HardLimit
        BY <1>4, <4>1, <4>2, <4>6, <4>7
      <4>10. billed + Estimates(o) + Estimates(x) + task[t].seen
                <= recorded + untold + HardLimit
        BY <1>4, <4>3, <4>6, <4>7, <4>9
      <4>11. billed + Estimates(o) + Estimates(x) <= untold' + HardLimit
        <5>1. \A b, p, q, s, r, u, v, h : (b \in Nat /\ p \in Nat /\ q \in Nat
                /\ s \in Nat /\ r \in Nat /\ u \in Nat /\ v \in Nat /\ h \in Nat
                /\ b + p + q + s <= r + u + h /\ v + s = u + r)
                 => b + p + q <= v + h
          OBVIOUS
        <5> QED
          BY <1>4, <1>5, <4>7, <4>10, <5>1
      <4>12. billed + Estimates(y + w) <= HardLimit + untold'
        <5>1. \A b, p, q, e, v, h \in Nat :
                 b + p + q <= v + h /\ e <= q + p => b + e <= h + v
          OBVIOUS
        <5> QED
          BY <1>4, <4>7, <4>8, <4>11, <5>1
      <4> QED
        BY <1>2, <4>12 DEF y, w
    <3> QED
      BY <3>3, <3>4
  <2> QED
    BY <2>2, <2>3
<1>13. TurnsAreCovered'
  BY <1>12 DEF TurnsAreCovered
<1> QED
  BY <1>7, <1>10, <1>11, <1>13 DEF BudgetInv

-----------------------------------------------------------------------------
(* The budget, at all times.                                               *)

LEMMA BudgetInitially ==
    ASSUME Init
    PROVE  BudgetInv
<1>1. ControlInv /\ TypeOK
  BY ControlInitially DEF ControlInv
<1>2. \A t \in Tasks : task[t].stage = "idle" /\ task[t].job = NoJob /\ task[t].owed = 0
  BY DEF Init, Idle
<1>3. \A j \in Jobs : job[j].holder = "none"
  BY DEF Init
<1>4. recorded = 0 /\ billed = 0 /\ untold = 0 /\ HardLimit \in Nat
  BY Limits DEF Init
<1>5. Outside = {} /\ Inside = {}
  BY <1>2 DEF Outside, Inside, IsOpen, OpenStages, Holds
<1>6. Cardinality(Outside) = 0 /\ Estimates(Cardinality(Outside)) = 0
  <2>1. Cardinality(Outside) = 0
    BY <1>5, FS_EmptySet
  <2> QED
    BY <2>1, EstimatesAdd
<1>7. Paid(Purse, Inside) \in Nat
  BY <1>1, <1>5, PurseIs, UnitsAreFinite
<1>8. Paid(Purse, Tasks) = 0
  <2>1. /\ Purse \in [Tasks -> 0 .. Estimate]
        /\ \A t \in Tasks : Purse[t] = 0
    BY <1>1, <1>2, PurseIs
  <2>2. Units(Purse, Tasks) = {}
    BY <2>1, Limits DEF Units
  <2> QED
    BY <2>2, FS_EmptySet DEF Paid
<1>9. TurnsAreCovered
  BY <1>3 DEF TurnsAreCovered, IsTurn
<1>10. OutsideIsCovered
  BY <1>4, <1>6 DEF OutsideIsCovered
<1>11. CostsAreInside
  BY <1>4, <1>6, <1>7 DEF CostsAreInside
<1>12. CostsAreCharged
  BY <1>4, <1>8 DEF CostsAreCharged
<1> QED
  BY <1>1, <1>9, <1>10, <1>11, <1>12 DEF BudgetInv

LEMMA BudgetStays ==
    ASSUME BudgetInv, UNCHANGED vars
    PROVE  BudgetInv'
<1>1. UNCHANGED <<gate, earlier, job, task, recorded, billed, untold, mishaps>>
  BY DEF vars
<1>2. ControlInv'
  BY ControlStays DEF BudgetInv
<1>3. /\ \A k \in Jobs : (IsTurn(k)' <=> IsTurn(k)) /\ OpenUpTo(k)' = OpenUpTo(k)
      /\ Outside' = Outside /\ Inside' = Inside /\ Purse' = Purse
  BY <1>1 DEF IsTurn, OpenUpTo, Outside, Inside, Purse, IsOpen, Holds
<1>4. TurnsAreCovered'
  BY <1>1, <1>3 DEF BudgetInv, TurnsAreCovered
<1>5. OutsideIsCovered'
  BY <1>1, <1>3 DEF BudgetInv, OutsideIsCovered
<1>6. CostsAreInside' /\ CostsAreCharged'
  BY <1>1, <1>3 DEF BudgetInv, CostsAreInside, CostsAreCharged
<1> QED
  BY <1>2, <1>4, <1>5, <1>6 DEF BudgetInv

LEMMA BudgetIsKept ==
    ASSUME BudgetInv, [Next]_vars
    PROVE  BudgetInv'
<1>1. ControlInv'
  BY ControlIsKept DEF BudgetInv
<1>2. CASE Next
  <2>1. ASSUME NEW t \in Tasks, NEW j \in Jobs, Claims(t, j) PROVE BudgetInv'
    BY <1>1, <2>1, ClaimCovered, ClaimLateCovered, ClaimBackdatedCovered DEF Claims
  <2>2. ASSUME NEW t \in Tasks, Enter(t) \/ Resume(t) \/ Stamp(t) PROVE BudgetInv'
    BY <1>1, <2>2, WaitsCovered
  <2>3. ASSUME NEW t \in Tasks, Decide(t) PROVE BudgetInv'
    <3>1. CASE Allows(t)
      BY <1>1, <2>3, <3>1, DecideCovered
    <3>2. CASE ~Allows(t)
      BY <1>1, <2>3, <3>2, WaitsCovered
    <3> QED
      BY <3>1, <3>2
  <2>4. ASSUME NEW t \in Tasks, NEW cost \in Costs,
               Answer(t, cost) \/ AnswerUnbilled(t, cost)
        PROVE  BudgetInv'
    BY <1>1, <2>4, AnswerCovered, UnbilledCovered
  <2>5. ASSUME NEW t \in Tasks,
               \/ \E retryable \in BOOLEAN : Error(t, retryable)
               \/ \E cost \in Costs : ErrorBilled(t, cost)
        PROVE  BudgetInv'
    BY <1>1, <2>5, ErrorCovered
  <2>6. ASSUME NEW t \in Tasks,
               (\E verdict \in Verdicts : Record(t, verdict)) \/ RecordBroken(t)
        PROVE  BudgetInv'
    BY <1>1, <2>6, RecordCovered
  <2>7. ASSUME NEW t \in Tasks, Finish(t) \/ FinishBroken(t) PROVE BudgetInv'
    BY <1>1, <2>7, FinishCovered
  <2>8. ASSUME NEW t \in Tasks, Humanize(t) PROVE BudgetInv'
    BY <1>1, <2>8, HumanizeCovered
  <2>9. ASSUME NEW t \in Tasks, Leave(t) PROVE BudgetInv'
    BY <1>1, <2>9, LeaveCovered
  <2>10. ASSUME NEW p \in Processes, Stop(p) PROVE BudgetInv'
    BY <1>1, <2>10, StopCovered
  <2> QED
    BY <1>2, <2>1, <2>2, <2>3, <2>4, <2>5, <2>6, <2>7, <2>8, <2>9, <2>10, Steps
<1>3. CASE UNCHANGED vars
  BY <1>3, BudgetStays
<1> QED
  BY <1>2, <1>3

\* Every request that was allowed is covered at all times, together with all
\* that may still be asked for the jobs before its own.
THEOREM BudgetAlways == Spec => []BudgetInv
<1>1. Init => BudgetInv
  BY BudgetInitially
<1>2. BudgetInv /\ [Next]_vars => BudgetInv'
  BY BudgetIsKept
<1> QED
  BY <1>1, <1>2, PTL DEF Spec

LEMMA BudgetOfCovers ==
    ASSUME BudgetInv
    PROVE  BudgetHolds
<1> DEFINE o == Estimates(Cardinality(Outside))
           own == Paid(Purse, Inside)
           all == Paid(Purse, Tasks)
<1>1. TypeOK
  BY DEF BudgetInv, ControlInv
<1>2. /\ recorded \in Nat /\ billed \in Nat /\ untold \in Nat /\ HardLimit \in Nat
  BY <1>1, Limits DEF TypeOK
<1>3. o \in Nat
  BY OutsideIs, EstimatesAdd
<1>4. Tasks \in SUBSET Tasks /\ Inside \in SUBSET Tasks
  BY DEF Inside
<1>5. /\ own <= all /\ own \in Nat /\ all \in Nat /\ Owed(Tasks) = all
  BY <1>1, <1>4, PurseIs, PaidInParts, UnitsAreFinite
<1>6. /\ billed + o <= HardLimit + untold
      /\ billed + o <= recorded + untold + own
      /\ recorded + all <= billed
  BY DEF BudgetInv, OutsideIsCovered, CostsAreInside, CostsAreCharged
<1> HIDE DEF o, own, all
<1>7. OverrunExplained
  BY <1>2, <1>3, <1>6 DEF OverrunExplained
<1>8. CostsAreRecorded
  <2>1. recorded <= billed
    BY <1>2, <1>5, <1>6
  <2>2. billed <= recorded + untold + all
    BY <1>2, <1>3, <1>5, <1>6
  <2> QED
    BY <1>5, <2>1, <2>2 DEF CostsAreRecorded
<1> QED
  BY <1>7, <1>8 DEF BudgetHolds

\* What the provider has charged exceeds the hard limit by no more than what no
\* decision could see, and everything that was charged is on record, in hand or
\* among those costs: authorizeLlmSubmission's reservation for the running jobs
\* that were claimed before one's own suffices, in whatever order claims,
\* decisions, answers, retries and stops of any number of tasks fall.
THEOREM CostsAreExplained == Spec => []BudgetHolds
<1>1. BudgetInv => BudgetHolds
  BY BudgetOfCovers
<1> QED
  BY <1>1, BudgetAlways, PTL

=============================================================================
