----------------------- MODULE NewsletterDelivery_proofs -----------------------
(***************************************************************************)
(* Theorems about the mailing of runs, for any number of runs, subscribers *)
(* and workers, any sizes of batches and groups, any limit of attempts and *)
(* any bounds of what may go wrong.                                        *)
(***************************************************************************)
EXTENDS NewsletterDelivery, FiniteSetTheorems, TLAPS

-----------------------------------------------------------------------------
(* Type correctness.                                                       *)

\* The clock is a number.
LEMMA NowIsNat ==
    ASSUME mishaps \in [MishapKinds -> Nat]
    PROVE  Now \in Nat
<1>1. IsFiniteSet(Runs)
  BY DeliveryAssumption, FS_Interval DEF Runs
<1>2. IsFiniteSet({r \in Runs : run[r].readyAt > 0})
  BY <1>1, FS_Subset
<1>3. Cardinality({r \in Runs : run[r].readyAt > 0}) \in Nat
  BY <1>2, FS_CardinalityType
<1>4. mishaps["withdrawal"] \in Nat
  BY DEF MishapKinds
<1> QED
  BY <1>3, <1>4 DEF Now

\* The parts of a delivery's name are what they should be.
LEMMA DeliveryParts ==
    ASSUME NEW d \in Deliveries
    PROVE  /\ RunOf(d) \in Runs
           /\ SubscriberOf(d) \in Subscribers
           /\ Sequence(d) \in 1 .. MaxSequence
           /\ \A n \in 1 .. MaxSequence : Issue(d, n) \in Deliveries
BY DEF Deliveries, RunOf, SubscriberOf, Sequence, Issue

\* The statuses of the provider, without their order.
LEMMA StatusesListed ==
    {StatusOrder[i] : i \in DOMAIN StatusOrder}
       = {"none", "sent", "delivered", "complained", "unsubscribed"}
<1>1. DOMAIN StatusOrder = 1 .. 5
  BY DEF StatusOrder
<1>2. \A i \in 1 .. 5 : i = 1 \/ i = 2 \/ i = 3 \/ i = 4 \/ i = 5
  OBVIOUS
<1>3. /\ StatusOrder[1] = "none" /\ StatusOrder[2] = "sent"
      /\ StatusOrder[3] = "delivered" /\ StatusOrder[4] = "complained"
      /\ StatusOrder[5] = "unsubscribed"
  BY DEF StatusOrder
<1> QED
  BY <1>1, <1>2, <1>3

\* What a delivery row is made of, its statuses listed.
LEMMA RowType ==
    DeliveryRow =
      [status : {"absent", "pending", "sending", "retry", "sent", "failed"},
       attempts : Nat,
       hasMessageId : BOOLEAN,
       providerStatus : {"none", "sent", "delivered", "complained", "unsubscribed"}]
<1>1. {"absent", "pending", "sending", "retry"} \cup FinalStatuses
         = {"absent", "pending", "sending", "retry", "sent", "failed"}
  BY DEF FinalStatuses
<1> QED
  BY <1>1, StatusesListed DEF DeliveryRow

\* What a mishap does to the counters.
LEMMA MishapType ==
    ASSUME mishaps \in [MishapKinds -> Nat], NEW kind \in MishapKinds,
           GoesWrong(kind)
    PROVE  mishaps' \in [MishapKinds -> Nat]
BY DEF GoesWrong

\* Calls stay calls when one of them moves on.
LEMMA CallMoves ==
    ASSUME calls \subseteq Calls, NEW c \in calls,
           NEW step \in {"checking", "requesting"} \cup Outcomes,
           CallGoes(c, step)
    PROVE  calls' \subseteq Calls
BY DEF CallGoes, Calls

\* Whatever a retryable error leads to is an outcome.
LEMMA RetryIsOutcome ==
    ASSUME NEW c PROVE AfterTimeout(c) \in {"retry", "failed"}
BY DEF AfterTimeout, AfterRetryableError

\* Each step keeps the variables in their types.
LEMMA TypeStep == TypeOK /\ [Next]_vars => TypeOK'
<1> SUFFICES ASSUME TypeOK, [Next]_vars
             PROVE  TypeOK'
  OBVIOUS
<1> USE DEF TypeOK
<1>1. ASSUME NEW r \in Runs, Release(r) PROVE TypeOK'
  BY <1>1, NowIsNat DEF Release, RunRow
<1>2. ASSUME NEW r \in Runs, Withdraw(r) PROVE TypeOK'
  <2>1. mishaps' \in [MishapKinds -> Nat]
    BY <1>2, MishapType DEF Withdraw, MishapKinds
  <2> QED
    BY <1>2, <2>1, NowIsNat DEF Withdraw, RunRow
<1>3. ASSUME NEW s \in Subscribers, NEW wanted \in SUBSET Offered,
             ChangePreferences(s, wanted)
      PROVE  TypeOK'
  BY <1>3 DEF ChangePreferences, SubscriberRow, Offered
<1>4. ASSUME NEW w \in Workers, FindRun(w) PROVE TypeOK'
  BY <1>4 DEF FindRun, Goes, WorkerStates, Claiming, RunRow
<1>5. ASSUME NEW w \in Workers, ListEligible(w) PROVE TypeOK'
  <2>1. worker[w].run \in Runs
    BY <1>5 DEF ListEligible, Phase, WorkerStates
  <2> QED
    BY <1>5, <2>1 DEF ListEligible, Goes, WorkerStates, Claiming
<1>6. ASSUME NEW w \in Workers, Enqueue(w) PROVE TypeOK'
  <2>1. PendingRow \in DeliveryRow
    BY RowType DEF PendingRow, AbsentRow
  <2> QED
    BY <1>6, <2>1 DEF Enqueue, Goes, WorkerStates, Claiming
<1>7. ASSUME NEW w \in Workers, NEW batch \in SUBSET Deliveries,
             ClaimBatch(w, batch)
      PROVE  TypeOK'
  <2>1. \A d \in Deliveries :
           [row[d] EXCEPT !.status = "sending", !.attempts = @ + 1]
              \in DeliveryRow
    <3> SUFFICES ASSUME NEW d \in Deliveries
                 PROVE  [row[d] EXCEPT !.status = "sending", !.attempts = @ + 1]
                           \in DeliveryRow
      OBVIOUS
    <3>1. row[d] \in DeliveryRow /\ row[d].attempts + 1 \in Nat
      BY RowType
    <3> QED
      BY <3>1, RowType
  <2>2. row' \in [Deliveries -> DeliveryRow]
    BY <1>7, <2>1 DEF ClaimBatch
  <2>3. \A d \in batch : row'[d].attempts \in Nat
    BY <2>2 DEF DeliveryRow
  <2>4. worker' \in [Workers -> WorkerStates]
    <3>1. {<<d, row'[d].attempts>> : d \in batch} \in SUBSET (Deliveries \X Nat)
      BY <2>3
    <3>2. [phase |-> "sending", todo |-> {<<d, row'[d].attempts>> : d \in batch}]
             \in WorkerStates
      BY <3>1 DEF WorkerStates
    <3> QED
      BY <1>7, <3>2 DEF ClaimBatch, Goes
  <2>5. mishaps' \in [MishapKinds -> Nat]
    BY <1>7, MishapType DEF ClaimBatch, MishapKinds
  <2> QED
    BY <1>7, <2>2, <2>4, <2>5 DEF ClaimBatch
<1>8. ASSUME NEW w \in Workers, ClaimNothing(w) PROVE TypeOK'
  BY <1>8 DEF ClaimNothing, Goes, WorkerStates, Idle
<1>9. ASSUME NEW w \in Workers, StartGroup(w) PROVE TypeOK'
  <2> PICK group \in SUBSET worker[w].todo :
         /\ calls' = calls \cup
               {[worker |-> w, id |-> t[1], attempt |-> t[2],
                 step |-> "checking", awaited |-> TRUE] : t \in group}
         /\ worker' = [worker EXCEPT ![w] =
                         [worker[w] EXCEPT !.todo = worker[w].todo \ group]]
    BY <1>9 DEF StartGroup, Goes
  <2>1. worker[w] \in [phase : {"sending"}, todo : SUBSET (Deliveries \X Nat)]
    BY <1>9 DEF StartGroup, Phase, WorkerStates
  <2>2. [worker[w] EXCEPT !.todo = worker[w].todo \ group] \in WorkerStates
    BY <2>1 DEF WorkerStates
  <2>3. worker' \in [Workers -> WorkerStates]
    BY <2>2
  <2>4. \A t \in group : t[1] \in Deliveries /\ t[2] \in Nat
    BY <2>1
  <2>5. calls' \subseteq Calls
    <3>1. \A t \in group :
             [worker |-> w, id |-> t[1], attempt |-> t[2],
              step |-> "checking", awaited |-> TRUE] \in Calls
      BY <2>4 DEF Calls
    <3> QED
      BY <3>1
  <2> QED
    BY <1>9, <2>3, <2>5 DEF StartGroup
<1>10. ASSUME NEW w \in Workers, EndBatch(w) PROVE TypeOK'
  BY <1>10 DEF EndBatch, Goes, WorkerStates, Idle
<1>11. ASSUME NEW c \in calls, Check(c) PROVE TypeOK'
  BY <1>11, CallMoves DEF Check, Outcomes
<1>12. ASSUME NEW c \in calls, CheckFails(c) PROVE TypeOK'
  BY <1>12, CallMoves, MishapType DEF CheckFails, Outcomes, MishapKinds
<1>13. ASSUME NEW c \in calls, Accept(c) PROVE TypeOK'
  <2>1. calls' \subseteq Calls
    BY <1>13, CallMoves, RetryIsOutcome DEF Accept, Outcomes
  <2>2. c.id \in Deliveries
    BY DEF Calls
  <2> QED
    BY <1>13, <2>1, <2>2 DEF Accept
<1>14. ASSUME NEW c \in calls, Decline(c) PROVE TypeOK'
  BY <1>14, CallMoves, RetryIsOutcome DEF Decline, Outcomes
<1>15. ASSUME NEW c \in calls, Record(c) PROVE TypeOK'
  <2>1. c.id \in Deliveries /\ c.step \in Outcomes
    BY <1>15 DEF Record, Calls
  <2>2. Recorded(c.id, c.step) \in DeliveryRow
    <3>1. row[c.id] \in DeliveryRow
      BY <2>1
    <3> QED
      BY <2>1, <3>1, RowType DEF Recorded, Outcomes
  <2> QED
    BY <1>15, <2>1, <2>2 DEF Record
<1>16. ASSUME NEW c \in calls, RecordFails(c) PROVE TypeOK'
  BY <1>16, CallMoves, MishapType DEF RecordFails, Outcomes, MishapKinds
<1>17. ASSUME NEW c \in calls, Throw(c) PROVE TypeOK'
  <2>1. calls' \subseteq Calls
    <3>1. \A o \in calls : o \in Calls /\ [o EXCEPT !.awaited = FALSE] \in Calls
      BY DEF Calls
    <3> QED
      BY <1>17, <3>1 DEF Throw
  <2>2. worker' \in [Workers -> WorkerStates]
    <3>1. Idle \in WorkerStates
      BY DEF WorkerStates, Idle
    <3> QED
      BY <1>17, <3>1 DEF Throw, Goes
  <2> QED
    BY <1>17, <2>1, <2>2, MishapType DEF Throw, MishapKinds
<1>18. ASSUME NEW w \in Workers, IterationFails(w) PROVE TypeOK'
  BY <1>18, MishapType DEF IterationFails, Goes, WorkerStates, Idle, MishapKinds
<1>19. ASSUME NEW w \in Workers, Stop(w) PROVE TypeOK'
  BY <1>19, MishapType DEF Stop, Goes, WorkerStates, Idle, MishapKinds
<1>20. ASSUME NEW d \in Deliveries, Forget(d) PROVE TypeOK'
  BY <1>20, MishapType DEF Forget, MishapKinds
<1>21. ASSUME NEW d \in Deliveries, NEW kind \in EventKinds,
              ProcessEvent(d, kind)
       PROVE  TypeOK'
  <2>1. notified' \subseteq Deliveries \X SuppressingKinds
    BY <1>21 DEF ProcessEvent
  <2>2. events' \subseteq Deliveries \X EventKinds
    BY <1>21 DEF ProcessEvent
  <2>3. row' \in [Deliveries -> DeliveryRow]
    <3>1. kind \in {StatusOrder[i] : i \in DOMAIN StatusOrder}
      BY DeliveryAssumption, StatusesListed
    <3>2. [row[d] EXCEPT !.providerStatus = kind] \in DeliveryRow
      BY <3>1 DEF DeliveryRow
    <3> QED
      BY <1>21, <3>2 DEF ProcessEvent
  <2>4. subscriber' \in [Subscribers -> SubscriberRow]
    <3> DEFINE s == SubscriberOf(d)
    <3>1. s \in Subscribers
      BY DeliveryParts
    <3>2. \A e \in {{}, subscriber[s].editions} :
             [suppressed |-> TRUE, editions |-> e] \in SubscriberRow
      BY <3>1 DEF SubscriberRow
    <3> HIDE DEF s
    <3>3. [suppressed |-> TRUE,
           editions |-> IF kind = "unsubscribed" THEN {}
                        ELSE subscriber[s].editions] \in SubscriberRow
      BY <3>2
    <3>4. \/ subscriber' = subscriber
          \/ subscriber' = [subscriber EXCEPT ![s] =
                              [suppressed |-> TRUE,
                               editions |-> IF kind = "unsubscribed" THEN {}
                                            ELSE subscriber[s].editions]]
      BY <1>21 DEF ProcessEvent, s
    <3> QED
      BY <3>1, <3>3, <3>4
  <2> QED
    BY <1>21, <2>1, <2>2, <2>3, <2>4 DEF ProcessEvent
<1>22. ASSUME NEW d \in Deliveries, Reissue(d) PROVE TypeOK'
  <2>1. PendingRow \in DeliveryRow
    BY RowType DEF PendingRow, AbsentRow
  <2> QED
    BY <1>22, <2>1 DEF Reissue
<1>23. CASE UNCHANGED vars
  BY <1>23 DEF vars
<1> QED
  BY <1>1, <1>2, <1>3, <1>4, <1>5, <1>6, <1>7, <1>8, <1>9, <1>10, <1>11,
     <1>12, <1>13, <1>14, <1>15, <1>16, <1>17, <1>18, <1>19, <1>20, <1>21,
     <1>22, <1>23
     DEF Next, WorkerStep, CallStep, Claim

\* The initial state is well typed.
LEMMA InitTypeOK == Init => TypeOK
<1> SUFFICES ASSUME Init PROVE TypeOK
  OBVIOUS
<1>1. AbsentRow \in DeliveryRow
  BY RowType DEF AbsentRow
<1>2. Idle \in WorkerStates
  BY DEF Idle, WorkerStates
<1>3. [editions |-> Offered, suppressed |-> FALSE] \in SubscriberRow
  BY DEF SubscriberRow, Offered
<1> QED
  BY <1>1, <1>2, <1>3 DEF Init, TypeOK, RunRow

\* The newsletter's state is well typed in every reachable state.
THEOREM NewsletterTypeCorrect == Spec => []TypeOK
BY InitTypeOK, TypeStep, PTL DEF Spec

-----------------------------------------------------------------------------
(* What a step may do, to be used by the invariants below.                 *)

\* the deliveries a worker has claimed and not begun, with their attempts
Todo(w) == IF Phase(w) = "sending" THEN worker[w].todo ELSE {}

\* What a worker has to do is what it had to do or what it has just claimed.
LEMMA TodoComesFrom ==
    ASSUME TypeOK, [Next]_vars, NEW w \in Workers, NEW t \in Todo(w)'
    PROVE  t \in Todo(w) \/ row'[t[1]].status = "sending"
<1> USE DEF TypeOK, Todo, Phase
<1>1. CASE worker' = worker
  BY <1>1
<1>2. ASSUME NEW v \in Workers, FindRun(v) PROVE t \in Todo(w)
  BY <1>2 DEF FindRun, Goes, Claiming
<1>3. ASSUME NEW v \in Workers, ListEligible(v) PROVE t \in Todo(w)
  BY <1>3 DEF ListEligible, Goes, Claiming
<1>4. ASSUME NEW v \in Workers,
             Goes(v, Claiming) \/ Goes(v, Idle)
      PROVE  t \in Todo(w)
  BY <1>4 DEF Goes, Claiming, Idle
<1>5. ASSUME NEW v \in Workers, NEW batch \in SUBSET Deliveries,
             ClaimBatch(v, batch)
      PROVE  t \in Todo(w) \/ row'[t[1]].status = "sending"
  <2>1. CASE w = v
    <3>1. Todo(w)' = {<<d, row'[d].attempts>> : d \in batch}
      BY <1>5, <2>1 DEF ClaimBatch, Goes
    <3>2. PICK d \in batch : t = <<d, row'[d].attempts>>
      BY <3>1
    <3>3. row'[d].status = "sending"
      BY <1>5 DEF ClaimBatch, DeliveryRow
    <3> QED
      BY <3>2, <3>3
  <2>2. CASE w # v
    BY <1>5, <2>2 DEF ClaimBatch, Goes
  <2> QED
    BY <2>1, <2>2
<1>6. ASSUME NEW v \in Workers, StartGroup(v) PROVE t \in Todo(w)
  <2>1. worker[v] \in [phase : {"sending"}, todo : SUBSET (Deliveries \X Nat)]
    BY <1>6 DEF StartGroup, WorkerStates
  <2> QED
    BY <1>6, <2>1 DEF StartGroup, Goes
<1>7. ASSUME NEW c \in calls, Throw(c) PROVE t \in Todo(w)
  <2>1. c.worker \in Workers
    BY DEF Calls
  <2> QED
    BY <1>1, <1>4, <1>7, <2>1 DEF Throw
<1>8. CASE UNCHANGED vars
  BY <1>1, <1>8 DEF vars
<1> QED
  BY <1>1, <1>2, <1>3, <1>4, <1>5, <1>6, <1>7, <1>8
     DEF Next, WorkerStep, CallStep, Claim, Release, Withdraw,
         ChangePreferences, Enqueue, ClaimNothing, EndBatch, Check, CheckFails,
         Accept, Decline, Record, RecordFails, IterationFails, Stop, Forget,
         ProcessEvent, Reissue

\* The provider remembers keys of mails only.
KeysOfMails == \A d \in keys : mails[d] > 0

\* A call is there because one for the same delivery was, and has succeeded
\* only by a mail; or its worker has just begun with it.
LEMMA CallsComeFrom ==
    ASSUME TypeOK, KeysOfMails, [Next]_vars, NEW o \in calls'
    PROVE  \/ \E c \in calls : /\ c.id = o.id
                               /\ o.step = "sent" => c.step = "sent" \/ mails'[o.id] > 0
           \/ o.step # "sent" /\ \E w \in Workers : \E t \in Todo(w) : t[1] = o.id
<1> USE DEF TypeOK
<1> DEFINE Before ==
      \E c \in calls : /\ c.id = o.id
                       /\ o.step = "sent" => c.step = "sent" \/ mails'[o.id] > 0
<1>1. CASE calls' \subseteq calls
  BY <1>1
<1>2. ASSUME NEW c \in calls, NEW step, CallGoes(c, step),
             step = "sent" => mails'[c.id] > 0
      PROVE  Before
  <2>1. CASE o = [c EXCEPT !.step = step]
    <3>1. o.id = c.id /\ o.step = step
      BY <2>1 DEF Calls
    <3> QED
      BY <1>2, <3>1
  <2>2. CASE o \in calls
    BY <2>2
  <2> QED
    BY <1>2, <2>1, <2>2 DEF CallGoes
<1>3. ASSUME NEW w \in Workers, StartGroup(w)
      PROVE  \/ Before
             \/ o.step # "sent" /\ \E v \in Workers : \E t \in Todo(v) : t[1] = o.id
  <2>1. PICK group \in SUBSET worker[w].todo :
           calls' = calls \cup
             {[worker |-> w, id |-> t[1], attempt |-> t[2],
               step |-> "checking", awaited |-> TRUE] : t \in group}
    BY <1>3 DEF StartGroup
  <2>2. Todo(w) = worker[w].todo
    BY <1>3 DEF StartGroup, Todo
  <2>3. CASE o \in calls
    BY <2>3
  <2>4. CASE o \notin calls
    <3>1. PICK t \in group :
             o = [worker |-> w, id |-> t[1], attempt |-> t[2],
                  step |-> "checking", awaited |-> TRUE]
      BY <2>1, <2>4
    <3> QED
      BY <2>2, <3>1
  <2> QED
    BY <2>3, <2>4
<1>4. ASSUME NEW c \in calls, Accept(c) PROVE Before
  <2>1. c.id \in Deliveries /\ mails[c.id] \in Nat
    BY DEF Calls
  <2>2. mails'[c.id] > 0
    BY <1>4, <2>1 DEF Accept, IsDuplicate, KeysOfMails
  <2> QED
    BY <1>2, <1>4, <2>2 DEF Accept
<1>5. ASSUME NEW c \in calls, Check(c) \/ CheckFails(c) \/ Decline(c) \/ RecordFails(c)
      PROVE  Before
  BY <1>2, <1>5, RetryIsOutcome DEF Check, CheckFails, Decline, RecordFails
<1>6. ASSUME NEW c \in calls, Throw(c) PROVE Before
  <2>1. CASE c.awaited
    <3>1. PICK k \in calls : o = IF k.worker = c.worker
                                 THEN [k EXCEPT !.awaited = FALSE] ELSE k
      BY <1>6, <2>1 DEF Throw
    <3>2. o.id = k.id /\ o.step = k.step
      BY <3>1 DEF Calls
    <3> QED
      BY <3>2
  <2>2. CASE ~c.awaited
    BY <1>6, <2>2 DEF Throw
  <2> QED
    BY <2>1, <2>2
<1>7. CASE UNCHANGED vars
  BY <1>1, <1>7 DEF vars
<1> QED
  BY <1>1, <1>3, <1>4, <1>5, <1>6, <1>7
     DEF Next, WorkerStep, CallStep, Claim, ClaimBatch, Release, Withdraw,
         ChangePreferences, FindRun, ListEligible, Enqueue, ClaimNothing,
         EndBatch, Record, IterationFails, Stop, Forget, ProcessEvent, Reissue

\* A status changes because the delivery is queued or reissued, claimed, or
\* left by a call with its outcome.
LEMMA RowsMove ==
    ASSUME TypeOK, [Next]_vars, NEW d \in Deliveries
    PROVE  \/ row'[d].status = row[d].status
           \/ /\ ~Present(d)
              /\ row'[d].status = "pending"
              /\ \/ Sequence(d) = 1
                 \/ Sequence(d) > 1 /\ Reissuable(Issue(d, Sequence(d) - 1))
           \/ Claimable(d) /\ row'[d].status = "sending"
           \/ \E c \in calls : /\ c.id = d
                               /\ c.step \in Outcomes
                               /\ row'[d].status = c.step
<1> USE DEF TypeOK
<1>1. CASE row' = row
  BY <1>1
<1>2. ASSUME NEW w \in Workers, Enqueue(w)
      PROVE  \/ row'[d].status = row[d].status
             \/ ~Present(d) /\ row'[d].status = "pending" /\ Sequence(d) = 1
  BY <1>2 DEF Enqueue, Inserted, PendingRow, AbsentRow
<1>3. ASSUME NEW w \in Workers, NEW batch \in SUBSET Deliveries,
             ClaimBatch(w, batch)
      PROVE  \/ row'[d].status = row[d].status
             \/ Claimable(d) /\ row'[d].status = "sending"
  BY <1>3 DEF ClaimBatch, DeliveryRow
<1>4. ASSUME NEW c \in calls, Record(c)
      PROVE  \/ row'[d].status = row[d].status
             \/ c.id = d /\ c.step \in Outcomes /\ row'[d].status = c.step
  <2>1. c.id \in Deliveries
    BY DEF Calls
  <2>2. Recorded(c.id, c.step).status = c.step
    BY <2>1, RowType DEF Recorded
  <2> QED
    BY <1>4, <2>1, <2>2 DEF Record
<1>5. ASSUME NEW e \in Deliveries, NEW kind \in EventKinds, ProcessEvent(e, kind)
      PROVE  row'[d].status = row[d].status
  BY <1>5, RowType DEF ProcessEvent
<1>6. ASSUME NEW e \in Deliveries, Reissue(e)
      PROVE  \/ row'[d].status = row[d].status
             \/ /\ ~Present(d)
                /\ row'[d].status = "pending"
                /\ Sequence(d) > 1 /\ Reissuable(Issue(d, Sequence(d) - 1))
  <2> DEFINE next == Issue(e, Sequence(e) + 1)
  <2>1. Sequence(e) \in Nat /\ Sequence(e) >= 1
    BY DeliveryAssumption DEF Deliveries, Sequence
  <2>2. Sequence(next) = Sequence(e) + 1 /\ Issue(next, Sequence(next) - 1) = e
    BY <2>1 DEF Issue, Sequence, RunOf, SubscriberOf, Deliveries
  <2>3. CASE d = next
    <3>1. row'[d].status = "pending"
      BY <1>6, <2>3 DEF Reissue, PendingRow, AbsentRow
    <3> QED
      BY <1>6, <2>1, <2>2, <2>3, <3>1 DEF Reissue
  <2>4. CASE d # next
    BY <1>6, <2>4 DEF Reissue
  <2> QED
    BY <2>3, <2>4
<1>7. CASE UNCHANGED vars
  BY <1>1, <1>7 DEF vars
<1> QED
  BY <1>1, <1>2, <1>3, <1>4, <1>5, <1>6, <1>7
     DEF Next, WorkerStep, CallStep, Claim, Release, Withdraw,
         ChangePreferences, FindRun, ListEligible, ClaimNothing, StartGroup,
         EndBatch, Check, CheckFails, Accept, Decline, RecordFails, Throw,
         IterationFails, Stop, Forget

\* A mail is accepted only for a delivery whose key is unknown, and makes it
\* known; a key is forgotten only as a mishap; mishaps are never undone.
LEMMA MailsMove ==
    ASSUME TypeOK, [Next]_vars
    PROVE  /\ \A k \in MishapKinds : mishaps'[k] >= mishaps[k]
           /\ \A d \in Deliveries :
                 /\ \/ mails'[d] = mails[d]
                    \/ mails'[d] = mails[d] + 1 /\ d \notin keys /\ d \in keys'
                 /\ d \in keys' => d \in keys \/ mails'[d] = mails[d] + 1
                 /\ (d \in keys /\ d \notin keys')
                       => mishaps'["forgotten"] = mishaps["forgotten"] + 1
<1> USE DEF TypeOK
<1>1. ASSUME NEW k \in MishapKinds, GoesWrong(k)
      PROVE  /\ \A o \in MishapKinds : mishaps'[o] >= mishaps[o]
             /\ mishaps'[k] = mishaps[k] + 1
  BY <1>1 DEF GoesWrong
<1>2. ASSUME NEW c \in calls, Accept(c)
      PROVE  /\ UNCHANGED mishaps
             /\ keys' = keys \cup {c.id}
             /\ c.id \in Deliveries
             /\ mails' = [mails EXCEPT ![c.id] = IF c.id \in keys THEN @ ELSE @ + 1]
  BY <1>2 DEF Accept, IsDuplicate, Calls
<1>3. ASSUME NEW d \in Deliveries, Forget(d)
      PROVE  /\ GoesWrong("forgotten")
             /\ keys' = keys \ {d}
             /\ UNCHANGED mails
  BY <1>3 DEF Forget
<1>4. \/ UNCHANGED <<mails, keys, mishaps>>
      \/ UNCHANGED <<mails, keys>> /\ \E k \in MishapKinds : GoesWrong(k)
      \/ \E c \in calls : Accept(c)
      \/ \E d \in Deliveries : Forget(d)
  <2>1. \A k \in {"stop", "late", "error", "withdrawal"} : k \in MishapKinds
    BY DEF MishapKinds
  <2> QED
    BY <2>1
       DEF Next, WorkerStep, CallStep, Claim, ClaimBatch, Release, Withdraw,
           ChangePreferences, FindRun, ListEligible, Enqueue, ClaimNothing,
           StartGroup, EndBatch, Check, CheckFails, Decline, Record,
           RecordFails, Throw, IterationFails, Stop, ProcessEvent, Reissue, vars
<1>5. "forgotten" \in MishapKinds
  BY DEF MishapKinds
<1> QED
  <2>1. CASE UNCHANGED <<mails, keys>>
    <3>1. CASE UNCHANGED mishaps
      BY <2>1, <3>1
    <3>2. CASE \E k \in MishapKinds : GoesWrong(k)
      BY <1>1, <2>1, <3>2
    <3>3. CASE \E c \in calls : Accept(c)
      BY <1>2, <3>1, <3>3
    <3>4. CASE \E d \in Deliveries : Forget(d)
      BY <1>3, <1>5, <3>2, <3>4
    <3> QED
      BY <1>4, <3>1, <3>2, <3>3, <3>4
  <2>2. ASSUME NEW c \in calls, Accept(c)
        PROVE  /\ \A k \in MishapKinds : mishaps'[k] >= mishaps[k]
               /\ \A d \in Deliveries :
                     /\ \/ mails'[d] = mails[d]
                        \/ mails'[d] = mails[d] + 1 /\ d \notin keys /\ d \in keys'
                     /\ d \in keys' => d \in keys \/ mails'[d] = mails[d] + 1
                     /\ d \in keys => d \in keys'
    BY <1>2, <2>2
  <2>3. ASSUME NEW e \in Deliveries, Forget(e)
        PROVE  /\ \A k \in MishapKinds : mishaps'[k] >= mishaps[k]
               /\ mishaps'["forgotten"] = mishaps["forgotten"] + 1
               /\ UNCHANGED mails
               /\ keys' \subseteq keys
    BY <1>1, <1>3, <1>5, <2>3
  <2> QED
    BY <1>4, <2>1, <2>2, <2>3

-----------------------------------------------------------------------------
(* The inductive invariant.  A mail is counted while its key is known; a   *)
(* call that has succeeded, or a row that says so, has its mail.           *)

\* Calls, and what workers have to do, are about deliveries that are queued.
WorkIsQueued ==
    /\ \A c \in calls : Present(c.id)
    /\ \A w \in Workers : \A t \in Todo(w) : Present(t[1])

\* A call that reports success has its mail.
SuccessWasMailed == \A c \in calls : c.step = "sent" => mails[c.id] > 0

\* While a delivery's key is unknown, each of its mails has lost its key.
UnknownKeysForgotten ==
    \A d \in Deliveries :
        d \notin keys => mails[d] <= mishaps["forgotten"]

NewsletterInv ==
    /\ TypeOK
    /\ KeysOfMails
    /\ WorkIsQueued
    /\ SuccessWasMailed
    /\ SentWasMailed
    /\ UnknownKeysForgotten
    /\ MailedOnce
    /\ ReissuesFollowMails

\* Mails and keys are counted together.
LEMMA KeysStep ==
    ASSUME NewsletterInv, [Next]_vars
    PROVE  KeysOfMails' /\ UnknownKeysForgotten' /\ MailedOnce'
<1>1. TypeOK'
  BY TypeStep DEF NewsletterInv
<1>2. mishaps'["forgotten"] >= mishaps["forgotten"]
  BY MailsMove DEF NewsletterInv, MishapKinds
<1>3. mishaps["forgotten"] \in Nat /\ mishaps'["forgotten"] \in Nat
  BY <1>1 DEF NewsletterInv, TypeOK, MishapKinds
<1> SUFFICES ASSUME NEW d \in Deliveries
             PROVE  /\ d \in keys' => mails'[d] > 0
                    /\ d \notin keys' => mails'[d] <= mishaps'["forgotten"]
                    /\ mails'[d] <= 1 + mishaps'["forgotten"]
  BY <1>1, Zenon DEF KeysOfMails, UnknownKeysForgotten, MailedOnce, TypeOK
<1>4. mails[d] \in Nat /\ mails'[d] \in Nat
  BY <1>1 DEF NewsletterInv, TypeOK
<1>5. /\ d \in keys => mails[d] > 0
      /\ d \notin keys => mails[d] <= mishaps["forgotten"]
      /\ mails[d] <= 1 + mishaps["forgotten"]
  BY DEF NewsletterInv, KeysOfMails, UnknownKeysForgotten, MailedOnce
<1>6. /\ \/ mails'[d] = mails[d]
         \/ mails'[d] = mails[d] + 1 /\ d \notin keys /\ d \in keys'
      /\ d \in keys' => d \in keys \/ mails'[d] = mails[d] + 1
      /\ (d \in keys /\ d \notin keys')
            => mishaps'["forgotten"] = mishaps["forgotten"] + 1
  BY MailsMove DEF NewsletterInv
<1> QED
  BY <1>2, <1>3, <1>4, <1>5, <1>6

\* Mails stay.
LEMMA MailsStay ==
    ASSUME TypeOK, [Next]_vars, NEW d \in Deliveries, mails[d] > 0
    PROVE  mails'[d] > 0
<1>1. mails[d] \in Nat /\ mails'[d] \in Nat
  BY TypeStep DEF TypeOK
<1>2. mails'[d] = mails[d] \/ mails'[d] = mails[d] + 1
  BY MailsMove
<1> QED
  BY <1>1, <1>2

\* What is queued stays queued.
LEMMA PresentStays ==
    ASSUME TypeOK, [Next]_vars, NEW d \in Deliveries, Present(d)
    PROVE  Present(d)'
BY RowsMove DEF Present, Outcomes

\* Work is done only on what is queued.
LEMMA WorkStep ==
    ASSUME NewsletterInv, [Next]_vars
    PROVE  WorkIsQueued'
<1> USE DEF NewsletterInv
<1>1. TypeOK'
  BY TypeStep
<1>2. \A w \in Workers : \A t \in Todo(w) : t[1] \in Deliveries
  BY DEF TypeOK, Todo, Phase, WorkerStates
<1>3. ASSUME NEW o \in calls' PROVE Present(o.id)'
  <2>1. o.id \in Deliveries
    BY <1>1 DEF TypeOK, Calls
  <2>2. Present(o.id)
    BY CallsComeFrom DEF WorkIsQueued
  <2> QED
    BY <2>1, <2>2, PresentStays
<1>4. ASSUME NEW w \in Workers, NEW t \in Todo(w)' PROVE Present(t[1])'
  <2>1. CASE t \in Todo(w)
    BY <1>2, <2>1, PresentStays DEF WorkIsQueued
  <2>2. CASE row'[t[1]].status = "sending"
    BY <2>2 DEF Present
  <2> QED
    BY <2>1, <2>2, TodoComesFrom
<1> QED
  BY <1>3, <1>4 DEF WorkIsQueued

\* Success, of a call or in a row, has its mail.
LEMMA SuccessStep ==
    ASSUME NewsletterInv, [Next]_vars
    PROVE  SuccessWasMailed' /\ SentWasMailed'
<1> USE DEF NewsletterInv
<1>1. TypeOK'
  BY TypeStep
<1>2. SuccessWasMailed'
  <2> SUFFICES ASSUME NEW o \in calls', o.step = "sent"
               PROVE  mails'[o.id] > 0
    BY DEF SuccessWasMailed
  <2>1. o.id \in Deliveries
    BY <1>1 DEF TypeOK, Calls
  <2>2. mails[o.id] > 0 \/ mails'[o.id] > 0
    BY CallsComeFrom DEF SuccessWasMailed
  <2> QED
    BY <2>1, <2>2, MailsStay
<1>3. SentWasMailed'
  <2> SUFFICES ASSUME NEW d \in Deliveries, row'[d].status = "sent"
               PROVE  mails'[d] > 0
    BY DEF SentWasMailed
  <2>1. mails[d] > 0
    BY RowsMove DEF SentWasMailed, SuccessWasMailed
  <2> QED
    BY <2>1, MailsStay
<1> QED
  BY <1>2, <1>3

\* A reissue finds the delivery before it mailed.
LEMMA ReissueStep ==
    ASSUME NewsletterInv, [Next]_vars
    PROVE  ReissuesFollowMails'
<1> USE DEF NewsletterInv
<1> SUFFICES ASSUME NEW d \in Deliveries, Sequence(d) > 1, Present(d)'
             PROVE  mails'[Issue(d, Sequence(d) - 1)] > 0
  BY DEF ReissuesFollowMails
<1> DEFINE before == Issue(d, Sequence(d) - 1)
<1>1. before \in Deliveries
  <2>1. Sequence(d) \in 1 .. MaxSequence
    BY DeliveryParts
  <2>2. MaxSequence \in Nat
    BY DeliveryAssumption
  <2>3. Sequence(d) - 1 \in 1 .. MaxSequence
    BY <2>1, <2>2
  <2> QED
    BY <2>3, DeliveryParts
<1>2. Present(d) \/ Reissuable(before)
  BY RowsMove, WorkStep DEF Present, WorkIsQueued, Claimable
<1>3. mails[before] > 0
  BY <1>1, <1>2 DEF ReissuesFollowMails, Reissuable, SentWasMailed
<1> QED
  BY <1>1, <1>3, MailsStay

\* The inductive invariant holds.
THEOREM NewsletterInvariant == Spec => []NewsletterInv
<1>1. Init => NewsletterInv
  <2> SUFFICES ASSUME Init PROVE NewsletterInv
    OBVIOUS
  <2>1. TypeOK
    BY InitTypeOK
  <2>2. \A d \in Deliveries : mails[d] = 0 /\ row[d].status = "absent"
    BY DEF Init, AbsentRow
  <2>3. \A w \in Workers : Todo(w) = {}
    BY DEF Init, Todo, Phase, Idle
  <2>4. mishaps["forgotten"] = 0
    BY DEF Init, MishapKinds
  <2>5. calls = {} /\ keys = {}
    BY DEF Init
  <2>6. WorkIsQueued /\ KeysOfMails /\ SuccessWasMailed
    BY <2>3, <2>5 DEF WorkIsQueued, KeysOfMails, SuccessWasMailed
  <2>7. UnknownKeysForgotten /\ MailedOnce
    BY <2>2, <2>4 DEF UnknownKeysForgotten, MailedOnce
  <2>8. SentWasMailed /\ ReissuesFollowMails
    BY <2>2 DEF SentWasMailed, ReissuesFollowMails, Present
  <2> QED
    BY <2>1, <2>6, <2>7, <2>8 DEF NewsletterInv
<1>2. NewsletterInv /\ [Next]_vars => NewsletterInv'
  BY TypeStep, KeysStep, WorkStep, SuccessStep, ReissueStep DEF NewsletterInv
<1> QED
  BY <1>1, <1>2, PTL DEF Spec

\* However often a delivery is claimed, it is mailed once while the provider
\* remembers its key.
THEOREM OneMailPerKey == Spec => []MailedOnce
BY NewsletterInvariant, PTL DEF NewsletterInv

\* What is recorded as sent has been mailed.
THEOREM SentIsMailed == Spec => []SentWasMailed
BY NewsletterInvariant, PTL DEF NewsletterInv

\* A run is sent again only to a reader whom it has reached.
THEOREM ReissuesAreOfMails == Spec => []ReissuesFollowMails
BY NewsletterInvariant, PTL DEF NewsletterInv

-----------------------------------------------------------------------------
(* Complaints.                                                             *)

\* No step lifts a suppression, and an event is stored with its effect.
LEMMA ComplaintsStep ==
    ASSUME TypeOK, ComplaintsOnRecordSuppress, [Next]_vars
    PROVE  ComplaintsOnRecordSuppress'
<1> USE DEF TypeOK
<1>1. \A e \in events : SubscriberOf(e[1]) \in Subscribers
  BY DeliveryParts
<1>2. ASSUME NEW s \in Subscribers, NEW wanted \in SUBSET Offered,
             ChangePreferences(s, wanted)
      PROVE  ComplaintsOnRecordSuppress'
  <2>1. \A o \in Subscribers : subscriber'[o].suppressed = subscriber[o].suppressed
    BY <1>2 DEF ChangePreferences, SubscriberRow
  <2> QED
    BY <1>1, <1>2, <2>1 DEF ChangePreferences, ComplaintsOnRecordSuppress, SubscriberOf
<1>3. ASSUME NEW d \in Deliveries, NEW kind \in EventKinds, ProcessEvent(d, kind)
      PROVE  ComplaintsOnRecordSuppress'
  <2> DEFINE s == SubscriberOf(d)
  <2>1. s \in Subscribers
    BY DeliveryParts
  <2>2. \A o \in Subscribers :
           subscriber[o].suppressed => subscriber'[o].suppressed
    BY <1>3, <2>1 DEF ProcessEvent, SubscriberRow
  <2>3. events' \subseteq events \cup {<<d, kind>>}
    BY <1>3 DEF ProcessEvent
  <2>4. (<<d, kind>> \in events' /\ <<d, kind>> \notin events /\ kind \in SuppressingKinds)
           => subscriber'[s].suppressed
    BY <1>3, <2>1 DEF ProcessEvent
  <2> QED
    BY <1>1, <2>2, <2>3, <2>4 DEF ComplaintsOnRecordSuppress, SubscriberOf
<1>4. CASE UNCHANGED <<subscriber, events>>
  BY <1>4 DEF ComplaintsOnRecordSuppress, SubscriberOf
<1> QED
  BY <1>2, <1>3, <1>4
     DEF Next, WorkerStep, CallStep, Claim, ClaimBatch, Release, Withdraw,
         FindRun, ListEligible, Enqueue, ClaimNothing, StartGroup, EndBatch,
         Check, CheckFails, Accept, Decline, Record, RecordFails, Throw,
         IterationFails, Stop, Forget, Reissue, vars

\* Complaints on record suppress their subscribers, in whatever order, and how
\* often, the provider reports them.
THEOREM ComplaintsSuppress == Spec => []ComplaintsOnRecordSuppress
<1>1. Init => ComplaintsOnRecordSuppress
  BY DEF Init, ComplaintsOnRecordSuppress
<1> QED
  BY <1>1, NewsletterTypeCorrect, ComplaintsStep, PTL DEF Spec

-----------------------------------------------------------------------------
(* As long as no claim is outlasted, a delivery in "sending" has one holder: *)
(* that is why outcomes are final although rows are written by their id.     *)

OneCall == \A c, o \in calls : c.id = o.id => c = o

HeldIsSending ==
    /\ \A c \in calls : row[c.id].status = "sending"
    /\ \A w \in Workers : \A t \in Todo(w) : row[t[1]].status = "sending"

TodoIsFree ==
    \A w \in Workers : \A t \in Todo(w) :
        /\ \A c \in calls : c.id # t[1]
        /\ \A v \in Workers : \A u \in Todo(v) : u[1] = t[1] => v = w /\ u = t

OneHolder ==
    mishaps["late"] = 0 => OneCall /\ HeldIsSending /\ TodoIsFree

\* Nobody is disturbed when work ends or moves on, each call by itself, and
\* what is being sent stays so.
LEMMA HoldersKept ==
    ASSUME OneCall, HeldIsSending, TodoIsFree,
           \A o \in calls' : \E c \in calls : c.id = o.id,
           OneCall',
           \A w \in Workers : Todo(w)' \subseteq Todo(w),
           \A c \in calls' : row[c.id].status = "sending"
                                => row'[c.id].status = "sending",
           \A w \in Workers : \A t \in Todo(w)' :
              row[t[1]].status = "sending" => row'[t[1]].status = "sending"
    PROVE  OneCall' /\ HeldIsSending' /\ TodoIsFree'
<1>1. HeldIsSending'
  BY DEF HeldIsSending
<1>2. TodoIsFree'
  BY DEF TodoIsFree
<1> QED
  BY <1>1, <1>2

\* One holder stays one holder.
LEMMA OneHolderStep ==
    ASSUME TypeOK, OneHolder, [Next]_vars
    PROVE  OneHolder'
<1> USE DEF TypeOK
<1> SUFFICES ASSUME mishaps'["late"] = 0
             PROVE  OneCall' /\ HeldIsSending' /\ TodoIsFree'
  BY DEF OneHolder
<1>1. mishaps["late"] = 0
  <2>1. mishaps["late"] \in Nat /\ mishaps'["late"] >= mishaps["late"]
    BY MailsMove DEF MishapKinds
  <2> QED
    BY <2>1
<1>2. OneCall /\ HeldIsSending /\ TodoIsFree
  BY <1>1 DEF OneHolder
<1>3. \A c \in calls : c.id \in Deliveries
  BY DEF Calls
<1>4. \A w \in Workers : \A t \in Todo(w) : t[1] \in Deliveries
  BY DEF Todo, Phase, WorkerStates
<1>5. TypeOK'
  BY TypeStep
\* what leaves rows and calls alone, or ends calls
<1>6. CASE /\ calls' \subseteq calls
           /\ \A w \in Workers : Todo(w)' \subseteq Todo(w)
           /\ \A d \in Deliveries :
                 row[d].status = "sending" => row'[d].status = "sending"
  <2>1. OneCall'
    BY <1>2, <1>6 DEF OneCall
  <2> QED
    BY <1>2, <1>3, <1>4, <1>6, <2>1, HoldersKept
<1>7. ASSUME NEW c \in calls, NEW step, CallGoes(c, step), UNCHANGED <<row, worker>>
      PROVE  OneCall' /\ HeldIsSending' /\ TodoIsFree'
  <2>1. [c EXCEPT !.step = step].id = c.id
    BY DEF Calls
  <2>2. \A o \in calls' : o \in calls \ {c} \/ o = [c EXCEPT !.step = step]
    BY <1>7 DEF CallGoes
  <2>3. OneCall'
    BY <1>2, <2>1, <2>2 DEF OneCall
  <2>4. \A o \in calls' : \E k \in calls : k.id = o.id
    BY <2>1, <2>2
  <2>5. \A w \in Workers : Todo(w)' = Todo(w)
    BY <1>7 DEF Todo, Phase
  <2> QED
    BY <1>2, <1>7, <2>3, <2>4, <2>5, HoldersKept
<1>8. ASSUME NEW w \in Workers, UNCHANGED row, calls' \subseteq calls,
             \/ Goes(w, Idle) \/ Goes(w, Claiming)
             \/ FindRun(w) \/ ListEligible(w)
      PROVE  OneCall' /\ HeldIsSending' /\ TodoIsFree'
  <2>1. \A v \in Workers : Todo(v)' \subseteq Todo(v)
    BY <1>8 DEF FindRun, ListEligible, Goes, Todo, Phase, Idle, Claiming
  <2> QED
    BY <1>6, <1>8, <2>1
<1>9. ASSUME NEW w \in Workers, Enqueue(w)
      PROVE  OneCall' /\ HeldIsSending' /\ TodoIsFree'
  <2>1. \A v \in Workers : Todo(v)' \subseteq Todo(v)
    BY <1>9 DEF Enqueue, Goes, Todo, Phase, Claiming
  <2>2. \A d \in Deliveries :
           row[d].status = "sending" => row'[d].status = "sending"
    BY <1>9 DEF Enqueue, Inserted, Present
  <2> QED
    BY <1>6, <1>9, <2>1, <2>2 DEF Enqueue
<1>10. ASSUME NEW w \in Workers, NEW batch \in SUBSET Deliveries,
              ClaimBatch(w, batch)
       PROVE  OneCall' /\ HeldIsSending' /\ TodoIsFree'
  <2>1. \A d \in batch : ~Held(d)
    <3>1. \A d \in batch : row[d].status = "sending" => ~Held(d)
      <4>1. ~GoesWrong("late")
        BY <1>1 DEF GoesWrong, MishapKinds
      <4> QED
        BY <1>10, <4>1 DEF ClaimBatch
    <3>2. \A d \in batch : Held(d) => row[d].status = "sending"
      BY <1>2 DEF Held, HeldIsSending, Todo
    <3> QED
      BY <3>1, <3>2
  <2>2. Todo(w)' = {<<d, row'[d].attempts>> : d \in batch}
    BY <1>10 DEF ClaimBatch, Goes, Todo, Phase
  <2>3. \A v \in Workers : v # w => Todo(v)' = Todo(v)
    BY <1>10 DEF ClaimBatch, Goes, Todo, Phase
  <2>4. calls' = calls
    BY <1>10 DEF ClaimBatch
  <2>5. \A d \in Deliveries :
           d \in batch \/ row[d].status = "sending" => row'[d].status = "sending"
    BY <1>10 DEF ClaimBatch, DeliveryRow
  <2>6. \A v \in Workers : \A t \in Todo(v) : Held(t[1])
    BY DEF Held, Todo
  <2>7. \A c \in calls : Held(c.id)
    BY DEF Held
  <2>8. OneCall'
    BY <1>2, <2>4 DEF OneCall
  <2>9. HeldIsSending'
    BY <1>2, <1>3, <1>4, <2>2, <2>3, <2>4, <2>5 DEF HeldIsSending
  <2>10. TodoIsFree'
    <3> SUFFICES ASSUME NEW v \in Workers, NEW t \in Todo(v)'
                 PROVE  /\ \A c \in calls : c.id # t[1]
                        /\ \A u \in Workers : \A r \in Todo(u)' :
                              r[1] = t[1] => u = v /\ r = t
      BY <2>4 DEF TodoIsFree
    <3>1. \A u \in Workers : \A r \in Todo(u)' :
             \/ u = w /\ r = <<r[1], row'[r[1]].attempts>> /\ ~Held(r[1])
             \/ u # w /\ r \in Todo(u) /\ Held(r[1])
      BY <2>1, <2>2, <2>3, <2>6
    <3> QED
      BY <1>2, <2>7, <3>1 DEF TodoIsFree
  <2> QED
    BY <2>8, <2>9, <2>10
<1>11. ASSUME NEW w \in Workers, StartGroup(w)
       PROVE  OneCall' /\ HeldIsSending' /\ TodoIsFree'
  <2> PICK group \in SUBSET worker[w].todo :
         /\ calls' = calls \cup
               {[worker |-> w, id |-> t[1], attempt |-> t[2],
                 step |-> "checking", awaited |-> TRUE] : t \in group}
         /\ Goes(w, [worker[w] EXCEPT !.todo = worker[w].todo \ group])
    BY <1>11 DEF StartGroup
  <2>1. worker[w] \in [phase : {"sending"}, todo : SUBSET (Deliveries \X Nat)]
    BY <1>11 DEF StartGroup, Phase, WorkerStates
  <2>2. /\ Todo(w) = worker[w].todo
        /\ Todo(w)' = Todo(w) \ group
        /\ \A v \in Workers : v # w => Todo(v)' = Todo(v)
    BY <2>1 DEF Goes, Todo, Phase
  <2>3. \A o \in calls' :
           o \in calls \/ \E t \in group :
              o = [worker |-> w, id |-> t[1], attempt |-> t[2],
                   step |-> "checking", awaited |-> TRUE]
    OBVIOUS
  <2>4. row' = row
    BY <1>11 DEF StartGroup
  <2>5. \A t, u \in group : t[1] = u[1] => t = u
    BY <1>2, <2>2 DEF TodoIsFree
  <2>6. \A t \in group : \A c \in calls : c.id # t[1]
    BY <1>2, <2>2 DEF TodoIsFree
  <2>7. OneCall'
    <3> SUFFICES ASSUME NEW o \in calls', NEW p \in calls', o.id = p.id
                 PROVE  o = p
      BY DEF OneCall
    <3>1. \A c \in calls' \ calls : \E t \in group : c.id = t[1]
      BY <2>3
    <3>2. CASE o \in calls
      <4>1. p \in calls
        BY <2>6, <3>1, <3>2
      <4> QED
        BY <1>2, <3>2, <4>1 DEF OneCall
    <3>3. CASE o \notin calls
      <4>1. p \notin calls
        BY <2>6, <3>1, <3>3
      <4>2. PICK t \in group :
               o = [worker |-> w, id |-> t[1], attempt |-> t[2],
                    step |-> "checking", awaited |-> TRUE]
        BY <2>3, <3>3
      <4>3. PICK u \in group :
               p = [worker |-> w, id |-> u[1], attempt |-> u[2],
                    step |-> "checking", awaited |-> TRUE]
        BY <2>3, <4>1
      <4>4. t = u
        BY <2>5, <4>2, <4>3
      <4> QED
        BY <4>2, <4>3, <4>4
    <3> QED
      BY <3>2, <3>3
  <2>8. HeldIsSending'
    BY <1>2, <2>2, <2>3, <2>4 DEF HeldIsSending
  <2>9. TodoIsFree'
    <3>1. \A v \in Workers : \A t \in Todo(v)' :
             t \in Todo(v) /\ \A g \in group : g[1] # t[1]
      <4> SUFFICES ASSUME NEW v \in Workers, NEW t \in Todo(v)', NEW g \in group
                   PROVE  t \in Todo(v) /\ g[1] # t[1]
        BY <2>2
      <4>1. t \in Todo(v) /\ ~(v = w /\ t = g)
        BY <2>2
      <4>2. g \in Todo(w)
        BY <2>2
      <4> QED
        BY <1>2, <4>1, <4>2 DEF TodoIsFree
    <3>2. \A o \in calls' : o \in calls \/ \E g \in group : o.id = g[1]
      BY <2>3
    <3> QED
      BY <1>2, <3>1, <3>2 DEF TodoIsFree
  <2> QED
    BY <2>7, <2>8, <2>9
<1>12. ASSUME NEW c \in calls, Record(c)
       PROVE  OneCall' /\ HeldIsSending' /\ TodoIsFree'
  <2>1. /\ calls' = calls \ {c}
        /\ UNCHANGED worker
        /\ \A d \in Deliveries : d # c.id => row'[d] = row[d]
    BY <1>12 DEF Record
  <2>2. \A w \in Workers : Todo(w)' = Todo(w)
    BY <2>1 DEF Todo, Phase
  <2>3. \A o \in calls' : o.id # c.id
    BY <1>2, <2>1 DEF OneCall
  <2>4. \A w \in Workers : \A t \in Todo(w) : t[1] # c.id
    BY <1>2 DEF TodoIsFree
  <2>5. OneCall'
    BY <1>2, <2>1 DEF OneCall
  <2> QED
    BY <1>2, <1>3, <1>4, <2>1, <2>2, <2>3, <2>4, <2>5, HoldersKept
<1>13. ASSUME NEW c \in calls, Throw(c)
       PROVE  OneCall' /\ HeldIsSending' /\ TodoIsFree'
  <2>1. CASE ~c.awaited
    <3>1. calls' \subseteq calls /\ UNCHANGED <<row, worker>>
      BY <1>13, <2>1 DEF Throw
    <3> QED
      BY <1>6, <3>1 DEF Todo, Phase
  <2>2. CASE c.awaited
    <3>1. c.worker \in Workers
      BY DEF Calls
    <3>2. \A w \in Workers : Todo(w)' \subseteq Todo(w)
      BY <1>13, <2>2, <3>1 DEF Throw, Goes, Todo, Phase, Idle
    <3>3. \A o \in calls' : \E k \in calls :
             o = IF k.worker = c.worker THEN [k EXCEPT !.awaited = FALSE] ELSE k
      BY <1>13, <2>2 DEF Throw
    <3>4. \A k \in calls : [k EXCEPT !.awaited = FALSE].id = k.id
      BY DEF Calls
    <3>5. OneCall'
      <4> SUFFICES ASSUME NEW o \in calls', NEW p \in calls', o.id = p.id
                   PROVE  o = p
        BY DEF OneCall
      <4>1. PICK k \in calls :
               o = IF k.worker = c.worker THEN [k EXCEPT !.awaited = FALSE] ELSE k
        BY <3>3
      <4>2. PICK l \in calls :
               p = IF l.worker = c.worker THEN [l EXCEPT !.awaited = FALSE] ELSE l
        BY <3>3
      <4>3. o.id = k.id /\ p.id = l.id
        BY <3>4, <4>1, <4>2
      <4>4. k = l
        BY <1>2, <4>3 DEF OneCall
      <4> QED
        BY <4>1, <4>2, <4>4
    <3>6. \A o \in calls' : \E k \in calls : k.id = o.id
      <4> SUFFICES ASSUME NEW o \in calls'
                   PROVE  \E k \in calls : k.id = o.id
        OBVIOUS
      <4>1. PICK k \in calls :
               o = IF k.worker = c.worker THEN [k EXCEPT !.awaited = FALSE] ELSE k
        BY <3>3
      <4> QED
        BY <3>4, <4>1
    <3>7. row' = row
      BY <1>13 DEF Throw
    <3> QED
      BY <1>2, <3>2, <3>5, <3>6, <3>7, HoldersKept
  <2> QED
    BY <2>1, <2>2
<1>14. CASE UNCHANGED <<worker, calls>> /\ \A d \in Deliveries :
               row[d].status = "sending" => row'[d].status = "sending"
  BY <1>6, <1>14 DEF Todo, Phase
<1>15. ASSUME NEW d \in Deliveries, NEW kind \in EventKinds, ProcessEvent(d, kind)
       PROVE  OneCall' /\ HeldIsSending' /\ TodoIsFree'
  <2>1. \A e \in Deliveries : row'[e].status = row[e].status
    BY <1>15, RowType DEF ProcessEvent
  <2> QED
    BY <1>14, <1>15, <2>1 DEF ProcessEvent
<1>16. ASSUME NEW d \in Deliveries, Reissue(d)
       PROVE  OneCall' /\ HeldIsSending' /\ TodoIsFree'
  <2>1. \A e \in Deliveries :
           row[e].status = "sending" => row'[e].status = "sending"
    BY <1>16 DEF Reissue, Present
  <2> QED
    BY <1>14, <1>16, <2>1 DEF Reissue
<1> QED
  BY <1>7, <1>8, <1>9, <1>10, <1>11, <1>12, <1>13, <1>14, <1>15, <1>16
     DEF Next, WorkerStep, CallStep, Claim, Release, Withdraw,
         ChangePreferences, FindRun, ListEligible, ClaimNothing, EndBatch,
         Check, CheckFails, Accept, Decline, RecordFails, IterationFails,
         Stop, Forget, vars

\* As long as no claim is outlasted, a delivery has at most one holder, and is
\* "sending" while it has one.
THEOREM OneHolderAtATime == Spec => []OneHolder
<1>1. Init => OneHolder
  BY DEF Init, OneHolder, OneCall, HeldIsSending, TodoIsFree, Todo, Phase, Idle
<1> QED
  BY <1>1, NewsletterTypeCorrect, OneHolderStep, PTL DEF Spec

\* As long as no claim is outlasted, final outcomes are final.
THEOREM OutcomesAreFinal == Spec => FinalOutcomesStand
<1>1. ASSUME TypeOK, OneHolder, [Next]_vars, NEW d \in Deliveries,
             row[d].status \in FinalStatuses, mishaps'["late"] = 0
      PROVE  row'[d].status = row[d].status
  <2>1. mishaps["late"] = 0
    <3>1. mishaps["late"] \in Nat /\ mishaps'["late"] >= mishaps["late"]
      BY <1>1, MailsMove DEF MishapKinds, TypeOK
    <3> QED
      BY <1>1, <3>1
  <2>2. row[d].status # "sending"
    BY <1>1 DEF FinalStatuses
  <2>3. \A c \in calls : c.id # d
    BY <1>1, <2>1, <2>2 DEF OneHolder, HeldIsSending
  <2> QED
    BY <1>1, <2>3, RowsMove DEF Present, Claimable, FinalStatuses
<1>2. TypeOK /\ OneHolder /\ [Next]_vars
        => [\A d \in Deliveries :
               (row[d].status \in FinalStatuses /\ mishaps'["late"] = 0)
                   => row'[d].status = row[d].status]_vars
  BY <1>1
<1> QED
  BY <1>2, NewsletterTypeCorrect, OneHolderAtATime, PTL
     DEF Spec, FinalOutcomesStand

-----------------------------------------------------------------------------
(* The status shown is the last event's: only a row that says "sent" has a *)
(* message id, and only a row with a message id has events, so that no     *)
(* call in time writes over the status that events have brought.           *)

\* The place of a status in the order is a number.
LEMMA RankIsNat ==
    ASSUME NEW s \in {"none", "sent", "delivered", "complained", "unsubscribed"}
    PROVE  Rank(s) \in Nat
<1>1. \E i \in DOMAIN StatusOrder : StatusOrder[i] = s
  BY StatusesListed
<1>2. Rank(s) \in DOMAIN StatusOrder
  BY <1>1 DEF Rank
<1>3. DOMAIN StatusOrder = 1 .. 5
  BY DEF StatusOrder
<1> QED
  BY <1>2, <1>3

\* As long as no claim is outlasted: a message id is kept by a delivery that
\* was sent, and events are on record for rows with one, none later than what
\* the row shows.
LatestShown ==
    mishaps["late"] = 0 =>
       /\ \A d \in Deliveries : row[d].hasMessageId => row[d].status = "sent"
       /\ \A e \in events : /\ row[e[1]].hasMessageId
                            /\ Rank(e[2]) <= Rank(row[e[1]].providerStatus)

\* What a step does to the message id and the status shown of a delivery.
LEMMA ShownMoves ==
    ASSUME TypeOK, [Next]_vars, NEW d \in Deliveries
    PROVE  \/ row'[d] = row[d] /\ (\A k : <<d, k>> \in events' => <<d, k>> \in events)
           \/ /\ row[d].status \in {"absent", "pending", "retry", "sending"}
              /\ \A k : <<d, k>> \in events' => <<d, k>> \in events
              /\ \/ ~row'[d].hasMessageId
                 \/ row[d].hasMessageId
                 \/ row'[d].status = "sent"
           \/ /\ \E c \in calls : c.id = d
              /\ \A k : <<d, k>> \in events' => <<d, k>> \in events
              /\ ~row[d].hasMessageId => (row'[d].hasMessageId => row'[d].status = "sent")
           \/ /\ row[d].hasMessageId /\ row'[d].hasMessageId
              /\ row'[d].status = row[d].status
              /\ \E kind \in EventKinds :
                    /\ \A k : <<d, k>> \in events' => <<d, k>> \in events \/ k = kind
                    /\ IF IsNews(d, kind) THEN row'[d].providerStatus = kind
                       ELSE row'[d] = row[d]
<1> USE DEF TypeOK
<1>1. ASSUME NEW w \in Workers, Enqueue(w)
      PROVE  /\ events' = events
             /\ \/ row'[d] = row[d]
                \/ row[d].status = "absent" /\ ~row'[d].hasMessageId
  BY <1>1 DEF Enqueue, Inserted, PendingRow, AbsentRow, Present
<1>2. ASSUME NEW w \in Workers, NEW batch \in SUBSET Deliveries, ClaimBatch(w, batch)
      PROVE  /\ events' = events
             /\ \/ row'[d] = row[d]
                \/ /\ row[d].status \in {"pending", "retry", "sending"}
                   /\ row'[d].hasMessageId = row[d].hasMessageId
  <2>1. row[d] \in DeliveryRow
    OBVIOUS
  <2> QED
    BY <1>2, <2>1, RowType DEF ClaimBatch, Claimable
<1>3. ASSUME NEW c \in calls, Record(c)
      PROVE  /\ events' = events
             /\ \/ row'[d] = row[d]
                \/ /\ c.id = d
                   /\ ~row[d].hasMessageId => (row'[d].hasMessageId => row'[d].status = "sent")
  <2>1. c.id \in Deliveries
    BY DEF Calls
  <2>2. CASE c.id = d
    <3>1. row'[d] = Recorded(d, c.step)
      BY <1>3, <2>2 DEF Record
    <3>2. row[d] \in DeliveryRow
      OBVIOUS
    <3>3. CASE c.step = "sent"
      BY <1>3, <2>2, <3>1, <3>2, <3>3, RowType DEF Record, Recorded
    <3>4. CASE c.step # "sent"
      BY <1>3, <2>2, <3>1, <3>2, <3>4, RowType DEF Record, Recorded
    <3> QED
      BY <3>3, <3>4
  <2>3. CASE c.id # d
    BY <1>3, <2>1, <2>3 DEF Record
  <2> QED
    BY <2>2, <2>3
<1>4. ASSUME NEW e \in Deliveries, Reissue(e)
      PROVE  /\ events' = events
             /\ \/ row'[d] = row[d]
                \/ row[d].status = "absent" /\ ~row'[d].hasMessageId
  <2> DEFINE next == Issue(e, Sequence(e) + 1)
  <2>1. CASE d = next
    BY <1>4, <2>1 DEF Reissue, PendingRow, AbsentRow, Present
  <2>2. CASE d # next
    BY <1>4, <2>2 DEF Reissue
  <2> QED
    BY <2>1, <2>2
<1>5. ASSUME NEW e \in Deliveries, NEW kind \in EventKinds, ProcessEvent(e, kind)
      PROVE  \/ row'[d] = row[d] /\ (\A k : <<d, k>> \in events' => <<d, k>> \in events)
             \/ /\ row[d].hasMessageId /\ row'[d].hasMessageId
                /\ row'[d].status = row[d].status
                /\ \A k : <<d, k>> \in events' => <<d, k>> \in events \/ k = kind
                /\ IF IsNews(d, kind) THEN row'[d].providerStatus = kind
                   ELSE row'[d] = row[d]
  <2>1. CASE e # d
    BY <1>5, <2>1 DEF ProcessEvent
  <2>2. CASE e = d
    <3>1. CASE row[d].hasMessageId /\ <<d, kind>> \notin events
      <4>1. /\ events' = events \cup {<<d, kind>>}
            /\ row' = IF IsNews(d, kind)
                      THEN [row EXCEPT ![d].providerStatus = kind] ELSE row
        BY <1>5, <2>2, <3>1 DEF ProcessEvent
      <4>2. row[d] \in DeliveryRow
        OBVIOUS
      <4>3. CASE IsNews(d, kind)
        <5>1. row'[d] = [row[d] EXCEPT !.providerStatus = kind]
          BY <4>1, <4>3
        <5> QED
          BY <3>1, <4>1, <4>2, <4>3, <5>1, RowType
      <4>4. CASE ~IsNews(d, kind)
        BY <3>1, <4>1, <4>4
      <4> QED
        BY <4>3, <4>4
    <3>2. CASE ~(row[d].hasMessageId /\ <<d, kind>> \notin events)
      BY <1>5, <2>2, <3>2 DEF ProcessEvent
    <3> QED
      BY <3>1, <3>2
  <2> QED
    BY <2>1, <2>2
<1>6. CASE UNCHANGED <<row, events>>
  BY <1>6
<1> QED
  BY <1>1, <1>2, <1>3, <1>4, <1>5, <1>6
     DEF Next, WorkerStep, CallStep, Claim, Release, Withdraw,
         ChangePreferences, FindRun, ListEligible, ClaimNothing, StartGroup,
         EndBatch, Check, CheckFails, Accept, Decline, RecordFails, Throw,
         IterationFails, Stop, Forget, vars

\* Each step keeps the last event on show.
LEMMA LatestShownStep ==
    ASSUME TypeOK, OneHolder, LatestShown, [Next]_vars
    PROVE  LatestShown'
<1> SUFFICES ASSUME mishaps'["late"] = 0
             PROVE  /\ \A d \in Deliveries :
                          row'[d].hasMessageId => row'[d].status = "sent"
                    /\ \A e \in events' :
                          /\ row'[e[1]].hasMessageId
                          /\ Rank(e[2]) <= Rank(row'[e[1]].providerStatus)
  BY DEF LatestShown
<1>1. mishaps["late"] = 0
  <2>1. mishaps["late"] \in Nat /\ mishaps'["late"] >= mishaps["late"]
    BY MailsMove DEF MishapKinds, TypeOK
  <2> QED
    BY <2>1
<1>2. /\ \A d \in Deliveries : row[d].hasMessageId => row[d].status = "sent"
      /\ \A e \in events : /\ row[e[1]].hasMessageId
                           /\ Rank(e[2]) <= Rank(row[e[1]].providerStatus)
  BY <1>1 DEF LatestShown
<1>3. \A c \in calls : row[c.id].status = "sending"
  BY <1>1 DEF OneHolder, HeldIsSending
<1>4. \A e \in events' : e[1] \in Deliveries /\ e[2] \in EventKinds /\ e = <<e[1], e[2]>>
  BY TypeStep DEF TypeOK
<1>5. \A k \in EventKinds : Rank(k) \in Nat
  BY DeliveryAssumption, RankIsNat
<1>6. \A d \in Deliveries : Rank(row[d].providerStatus) \in Nat
  BY RankIsNat, RowType DEF TypeOK
<1>7. ASSUME NEW d \in Deliveries
      PROVE  /\ row'[d].hasMessageId => row'[d].status = "sent"
             /\ \A k \in EventKinds : <<d, k>> \in events' =>
                   row'[d].hasMessageId /\ Rank(k) <= Rank(row'[d].providerStatus)
  <2>1. \A k \in EventKinds : <<d, k>> \in events =>
           row[d].hasMessageId /\ Rank(k) <= Rank(row[d].providerStatus)
    BY <1>2
  <2>2. CASE row'[d] = row[d] /\ (\A k : <<d, k>> \in events' => <<d, k>> \in events)
    BY <1>2, <2>1, <2>2
  <2>3. CASE /\ ~row[d].hasMessageId
             /\ row'[d].hasMessageId => row'[d].status = "sent"
             /\ \A k : <<d, k>> \in events' => <<d, k>> \in events
    BY <2>1, <2>3
  <2>4. ASSUME NEW kind \in EventKinds,
               row[d].hasMessageId, row'[d].hasMessageId,
               row'[d].status = row[d].status,
               \A k : <<d, k>> \in events' => <<d, k>> \in events \/ k = kind,
               IF IsNews(d, kind) THEN row'[d].providerStatus = kind
               ELSE row'[d] = row[d]
        PROVE  /\ row'[d].hasMessageId => row'[d].status = "sent"
               /\ \A k \in EventKinds : <<d, k>> \in events' =>
                     row'[d].hasMessageId /\ Rank(k) <= Rank(row'[d].providerStatus)
    <3>1. row'[d].status = "sent"
      BY <1>2, <2>4
    <3>2. \A k \in EventKinds : <<d, k>> \in events' =>
             Rank(k) <= Rank(row[d].providerStatus) \/ k = kind
      BY <2>1, <2>4
    <3>3. CASE IsNews(d, kind)
      <4>1. Rank(row[d].providerStatus) <= Rank(kind)
        BY <3>3 DEF IsNews
      <4>2. \A k \in EventKinds : <<d, k>> \in events' => Rank(k) <= Rank(kind)
        BY <1>5, <1>6, <3>2, <4>1
      <4> QED
        BY <2>4, <3>1, <3>3, <4>2
    <3>4. CASE ~IsNews(d, kind)
      <4>1. Rank(kind) <= Rank(row[d].providerStatus)
        BY <1>5, <1>6, <3>4 DEF IsNews
      <4> QED
        BY <2>4, <3>1, <3>2, <3>4, <4>1
    <3> QED
      BY <3>3, <3>4
  <2> QED
    BY <1>2, <1>3, <2>2, <2>3, <2>4, ShownMoves
<1> QED
  <2>1. \A d \in Deliveries : row'[d].hasMessageId => row'[d].status = "sent"
    BY <1>7
  <2>2. \A e \in events' : /\ row'[e[1]].hasMessageId
                           /\ Rank(e[2]) <= Rank(row'[e[1]].providerStatus)
    <3> SUFFICES ASSUME NEW e \in events'
                 PROVE  /\ row'[e[1]].hasMessageId
                        /\ Rank(e[2]) <= Rank(row'[e[1]].providerStatus)
      OBVIOUS
    <3>1. e[1] \in Deliveries /\ e[2] \in EventKinds /\ <<e[1], e[2]>> \in events'
      BY <1>4
    <3> QED
      BY <1>7, <3>1
  <2> QED
    BY <2>1, <2>2

\* The status shown is that of the last event that happened, in whatever order
\* and how often the events came, as long as no claim is outlasted.
THEOREM LatestStatusShown == Spec => []StatusIsLatest
<1>1. Init => LatestShown
  BY DEF Init, LatestShown, AbsentRow
<1>2. LatestShown => StatusIsLatest
  BY DEF LatestShown, StatusIsLatest
<1> QED
  BY <1>1, <1>2, NewsletterTypeCorrect, OneHolderAtATime, LatestShownStep, PTL DEF Spec

-----------------------------------------------------------------------------
(* Forward only.  Runs become ready in their order, a worker lists the     *)
(* subscribers for the latest, and only deliveries of earlier runs are     *)
(* there for those it found.                                               *)

\* The times at which runs were released, or taken back, are past, and those of
\* deliverable runs are in the order of the runs.
RunsInOrder ==
    /\ \A r \in Runs : /\ run[r].readyAt < Now
                       /\ run[r].deliverable => run[r].readyAt > 0
    /\ \A r, q \in Runs :
          (r < q /\ run[q].readyAt > 0) =>
             /\ run[r].readyAt > 0
             /\ run[r].deliverable => run[r].readyAt < run[q].readyAt

\* Only released runs are queued.
QueuedWasReleased ==
    \A d \in Deliveries : Present(d) => run[RunOf(d)].readyAt > 0

\* No run after the one a worker lists was ready when it was found.
ListsTheLatest ==
    \A w \in Workers : Phase(w) = "listing" =>
       /\ 0 < worker[w].readyAt /\ worker[w].readyAt < Now
       /\ worker[w].readyAt <= run[worker[w].run].readyAt
       /\ \A q \in Runs : (worker[w].run < q /\ run[q].readyAt > 0)
                             => worker[w].readyAt < run[q].readyAt

\* Those a worker is about to insert have deliveries of earlier runs only.
InsertsForward ==
    \A w \in Workers : Phase(w) = "inserting" =>
       /\ run[worker[w].run].readyAt > 0
       /\ Cardinality(Workers) = 1 =>
             \A d \in Deliveries :
                (Present(d) /\ SubscriberOf(d) \in worker[w].eligible)
                   => RunOf(d) < worker[w].run

ForwardInv ==
    RunsInOrder /\ QueuedWasReleased /\ ListsTheLatest /\ InsertsForward

\* One worker has no other.
LEMMA NoOtherWorker ==
    ASSUME Cardinality(Workers) = 1, NEW v \in Workers, NEW w \in Workers
    PROVE  v = w
BY DeliveryAssumption, FS_Singleton

\* The runs are finitely many.
LEMMA FiniteRuns == IsFiniteSet(Runs)
BY DeliveryAssumption, FS_Interval DEF Runs

\* Runs change when one is released or taken back, and each time it is later.
LEMMA RunsMove ==
    ASSUME TypeOK, RunsInOrder, [Next]_vars
    PROVE  \/ run' = run /\ Now' = Now
           \/ \E r \in Runs, b \in BOOLEAN :
                 /\ run' = [run EXCEPT ![r] = [deliverable |-> b, readyAt |-> Now]]
                 /\ Now' = Now + 1
                 /\ UNCHANGED <<row, worker>>
                 /\ b => /\ run[r].readyAt = 0
                         /\ \A earlier \in 1 .. r - 1 : run[earlier].readyAt > 0
                 /\ ~b => run[r].readyAt > 0
<1> USE DEF TypeOK
<1>1. "withdrawal" \in MishapKinds
  BY DEF MishapKinds
<1>2. Now \in Nat /\ Now > 0
  <2>1. IsFiniteSet({r \in Runs : run[r].readyAt > 0})
    BY FiniteRuns, FS_Subset
  <2>2. Cardinality({r \in Runs : run[r].readyAt > 0}) \in Nat
    BY <2>1, FS_CardinalityType
  <2> QED
    BY <1>1, <2>2 DEF Now
<1>3. ASSUME NEW r \in Runs, Release(r)
      PROVE  /\ run' = [run EXCEPT ![r] = [deliverable |-> TRUE, readyAt |-> Now]]
             /\ Now' = Now + 1
             /\ UNCHANGED <<row, worker>>
             /\ run[r].readyAt = 0
             /\ \A earlier \in 1 .. r - 1 : run[earlier].readyAt > 0
  <2> DEFINE ready == {q \in Runs : run[q].readyAt > 0}
  <2>1. IsFiniteSet(ready)
    BY FiniteRuns, FS_Subset
  <2>2. {q \in Runs : run'[q].readyAt > 0} = ready \cup {r}
    BY <1>2, <1>3 DEF Release
  <2>3. r \notin ready
    BY <1>3 DEF Release
  <2>4. Cardinality(ready) \in Nat /\ Cardinality(ready \cup {r}) = Cardinality(ready) + 1
    BY <2>1, <2>3, FS_AddElement, FS_CardinalityType
  <2>5. mishaps' = mishaps
    BY <1>3 DEF Release
  <2>6. Now' = 1 + Cardinality(ready \cup {r}) + mishaps["withdrawal"]
    BY <2>2, <2>5 DEF Now
  <2>7. Now = 1 + Cardinality(ready) + mishaps["withdrawal"]
    BY DEF Now
  <2>8. mishaps["withdrawal"] \in Nat
    BY <1>1
  <2>9. Now' = Now + 1
    BY <2>4, <2>6, <2>7, <2>8
  <2> QED
    BY <1>3, <2>9 DEF Release
<1>4. ASSUME NEW r \in Runs, Withdraw(r)
      PROVE  /\ run' = [run EXCEPT ![r] = [deliverable |-> FALSE, readyAt |-> Now]]
             /\ Now' = Now + 1
             /\ UNCHANGED <<row, worker>>
             /\ run[r].readyAt > 0
  <2> DEFINE ready == {q \in Runs : run[q].readyAt > 0}
  <2>1. run[r].readyAt > 0
    BY <1>4 DEF Withdraw, RunsInOrder
  <2>2. {q \in Runs : run'[q].readyAt > 0} = ready
    BY <1>2, <1>4, <2>1 DEF Withdraw
  <2>3. IsFiniteSet(ready)
    BY FiniteRuns, FS_Subset
  <2>4. Cardinality(ready) \in Nat
    BY <2>3, FS_CardinalityType
  <2>5. mishaps'["withdrawal"] = mishaps["withdrawal"] + 1
    BY <1>1, <1>4 DEF Withdraw, GoesWrong
  <2>6. Now' = 1 + Cardinality(ready) + mishaps'["withdrawal"]
    BY <2>2 DEF Now
  <2>7. Now = 1 + Cardinality(ready) + mishaps["withdrawal"]
    BY DEF Now
  <2>8. mishaps["withdrawal"] \in Nat
    BY <1>1
  <2>9. Now' = Now + 1
    BY <2>4, <2>5, <2>6, <2>7, <2>8
  <2> QED
    BY <1>4, <2>1, <2>9 DEF Withdraw
<1>5. CASE UNCHANGED run /\ (mishaps'["withdrawal"] = mishaps["withdrawal"])
  BY <1>5 DEF Now
<1>6. \/ UNCHANGED run /\ mishaps'["withdrawal"] = mishaps["withdrawal"]
      \/ \E r \in Runs : Release(r) \/ Withdraw(r)
  <2>1. \A k \in {"stop", "late", "error", "forgotten"} :
           GoesWrong(k) => mishaps'["withdrawal"] = mishaps["withdrawal"]
    BY <1>1 DEF GoesWrong
  <2> QED
    BY <2>1
       DEF Next, WorkerStep, CallStep, Claim, ClaimBatch,
           ChangePreferences, FindRun, ListEligible, Enqueue, ClaimNothing,
           StartGroup, EndBatch, Check, CheckFails, Accept, Decline, Record,
           RecordFails, Throw, IterationFails, Stop, Forget, ProcessEvent,
           Reissue, vars
<1> QED
  BY <1>3, <1>4, <1>5, <1>6

\* Releasing a run and taking one back keep the runs in order.
LEMMA RunsInOrderStep ==
    ASSUME TypeOK, RunsInOrder, [Next]_vars
    PROVE  RunsInOrder'
<1> USE DEF TypeOK
<1>1. CASE run' = run /\ Now' = Now
  BY <1>1 DEF RunsInOrder
<1>2. ASSUME NEW r \in Runs, NEW b \in BOOLEAN,
             run' = [run EXCEPT ![r] = [deliverable |-> b, readyAt |-> Now]],
             Now' = Now + 1,
             b => /\ run[r].readyAt = 0
                  /\ \A earlier \in 1 .. r - 1 : run[earlier].readyAt > 0,
             ~b => run[r].readyAt > 0
      PROVE  RunsInOrder'
  <2>1. Now \in Nat /\ run[r].readyAt < Now
    BY NowIsNat DEF RunsInOrder
  <2>2. \A q \in Runs : run[q].readyAt \in Nat /\ q \in Nat /\ q >= 1
    <3>1. \A q \in Runs : run[q].readyAt \in Nat
      BY DEF RunRow
    <3>2. \A q \in Runs : q \in Nat /\ q >= 1
      BY DeliveryAssumption DEF Runs
    <3> QED
      BY <3>1, <3>2
  <2>3. Now > 0
    BY <2>1, <2>2
  <2>4. /\ run'[r].readyAt = Now /\ run'[r].deliverable = b
        /\ \A q \in Runs : q # r => run'[q] = run[q]
    BY <1>2
  <2>5. \A q \in Runs : /\ run'[q].readyAt < Now'
                        /\ run'[q].deliverable => run'[q].readyAt > 0
    BY <1>2, <2>1, <2>2, <2>3, <2>4 DEF RunsInOrder
  <2>6. ASSUME NEW p \in Runs, NEW q \in Runs, p < q, run'[q].readyAt > 0
        PROVE  /\ run'[p].readyAt > 0
               /\ run'[p].deliverable => run'[p].readyAt < run'[q].readyAt
    <3>1. CASE p = r
      <4>1. run[q].readyAt > 0 /\ q # r
        BY <2>4, <2>6, <3>1, <2>2
      <4>2. run[r].readyAt > 0
        BY <2>6, <3>1, <4>1 DEF RunsInOrder
      <4>3. ~b
        BY <1>2, <4>2
      <4> QED
        BY <2>3, <2>4, <3>1, <4>3
    <3>2. CASE q = r
      <4>1. p # r
        BY <2>2, <2>6, <3>2
      <4>2. run[p].readyAt > 0
        <5>1. CASE b
          <6>1. p \in 1 .. r - 1
            BY <2>2, <2>6, <3>2
          <6> QED
            BY <1>2, <5>1, <6>1
        <5>2. CASE ~b
          BY <1>2, <2>6, <3>2, <5>2 DEF RunsInOrder
        <5> QED
          BY <5>1, <5>2
      <4>3. run[p].readyAt < Now
        BY DEF RunsInOrder
      <4> QED
        BY <2>4, <3>2, <4>1, <4>2, <4>3
    <3>3. CASE p # r /\ q # r
      BY <2>4, <2>6, <3>3 DEF RunsInOrder
    <3> QED
      BY <3>1, <3>2, <3>3
  <2> QED
    BY <2>5, <2>6 DEF RunsInOrder
<1> QED
  BY <1>1, <1>2, RunsMove

\* A delivery appears because a worker inserts it, or as a further issue of one
\* that is there; none goes.
LEMMA QueuedMoves ==
    ASSUME TypeOK, WorkIsQueued, [Next]_vars
    PROVE  \/ \A d \in Deliveries : Present(d)' <=> Present(d)
           \/ \E w \in Workers :
                 /\ Enqueue(w)
                 /\ \A d \in Deliveries : Present(d)' <=> Present(d) \/ d \in Inserted(w)
           \/ \E e \in Deliveries :
                 /\ Reissue(e)
                 /\ Present(e)
                 /\ \A d \in Deliveries :
                       Present(d)' => \/ Present(d)
                                      \/ /\ RunOf(d) = RunOf(e)
                                         /\ SubscriberOf(d) = SubscriberOf(e)
                                         /\ Sequence(d) > 1
                 /\ \A d \in Deliveries : Present(d) => Present(d)'
<1> USE DEF TypeOK
<1>1. CASE \A d \in Deliveries : row'[d].status = row[d].status
  BY <1>1 DEF Present
<1>2. ASSUME NEW w \in Workers, Enqueue(w)
      PROVE  \A d \in Deliveries : Present(d)' <=> Present(d) \/ d \in Inserted(w)
  BY <1>2 DEF Enqueue, Present, PendingRow, AbsentRow
<1>3. ASSUME NEW w \in Workers, NEW batch \in SUBSET Deliveries, ClaimBatch(w, batch)
      PROVE  \A d \in Deliveries : Present(d)' <=> Present(d)
  BY <1>3 DEF ClaimBatch, Present, Claimable, DeliveryRow
<1>4. ASSUME NEW e \in Deliveries, Reissue(e)
      PROVE  /\ Present(e)
             /\ \A d \in Deliveries :
                   Present(d)' => \/ Present(d)
                                  \/ /\ RunOf(d) = RunOf(e)
                                     /\ SubscriberOf(d) = SubscriberOf(e)
                                     /\ Sequence(d) > 1
             /\ \A d \in Deliveries : Present(d) => Present(d)'
  <2> DEFINE next == Issue(e, Sequence(e) + 1)
  <2>1. /\ RunOf(next) = RunOf(e) /\ SubscriberOf(next) = SubscriberOf(e)
        /\ Sequence(next) > 1
    <3>1. Sequence(e) \in Nat /\ Sequence(e) >= 1
      BY DeliveryAssumption DEF Deliveries, Sequence
    <3>2. Sequence(next) = Sequence(e) + 1
      BY DEF Issue, Sequence
    <3> QED
      BY <3>1, <3>2 DEF Issue, RunOf, SubscriberOf
  <2>2. \A d \in Deliveries : d # next => row'[d] = row[d]
    BY <1>4 DEF Reissue
  <2>3. row'[next] = row[next] \/ row'[next].status = "pending"
    BY <1>4 DEF Reissue, PendingRow, AbsentRow
  <2>4. Present(e)
    BY <1>4 DEF Reissue, Reissuable, Present
  <2> HIDE DEF next
  <2> QED
    BY <2>1, <2>2, <2>3, <2>4 DEF Present
<1>5. ASSUME NEW c \in calls, Record(c)
      PROVE  \A d \in Deliveries : Present(d)' <=> Present(d)
  <2>1. \A d \in Deliveries : d # c.id => row'[d] = row[d]
    BY <1>5 DEF Record
  <2>2. c.id \in Deliveries /\ row[c.id] \in DeliveryRow
    BY DEF Calls
  <2>3. row'[c.id].status = c.step
    BY <1>5, <2>2, RowType DEF Record, Recorded
  <2> QED
    BY <1>5, <2>1, <2>3 DEF Record, Outcomes, Present, WorkIsQueued
<1>6. ASSUME NEW e \in Deliveries, NEW kind \in EventKinds, ProcessEvent(e, kind)
      PROVE  \A d \in Deliveries : row'[d].status = row[d].status
  BY <1>6, RowType DEF ProcessEvent
<1>7. CASE UNCHANGED vars
  BY <1>1, <1>7 DEF vars
<1> QED
  BY <1>1, <1>2, <1>3, <1>4, <1>5, <1>6, <1>7
     DEF Next, WorkerStep, CallStep, Claim, Release, Withdraw,
         ChangePreferences, FindRun, ListEligible, ClaimNothing, StartGroup,
         EndBatch, Check, CheckFails, Accept, Decline, RecordFails, Throw,
         IterationFails, Stop, Forget

\* A worker comes to list a run by finding it, and to insert by listing.
LEMMA WorkersMove ==
    ASSUME TypeOK, [Next]_vars, NEW w \in Workers,
           Phase(w)' \in {"listing", "inserting"}
    PROVE  \/ worker'[w] = worker[w]
           \/ FindRun(w) /\ Phase(w)' = "listing"
           \/ ListEligible(w) /\ Phase(w)' = "inserting"
<1> USE DEF TypeOK
<1>1. CASE UNCHANGED worker
  BY <1>1
<1>2. ASSUME NEW v \in Workers, Goes(v, Claiming) \/ Goes(v, Idle)
      PROVE  worker'[w] = worker[w]
  BY <1>2 DEF Goes, Claiming, Idle, Phase
<1>3. ASSUME NEW v \in Workers, FindRun(v)
      PROVE  worker'[w] = worker[w] \/ (FindRun(w) /\ Phase(w)' = "listing")
  <2>1. worker' = [worker EXCEPT ![v] = worker'[v]]
    BY <1>3 DEF FindRun, Goes
  <2>2. worker'[v] = Claiming \/ worker'[v].phase = "listing"
    BY <1>3 DEF FindRun, Goes
  <2>3. CASE v = w
    <3>1. Phase(w)' = "listing"
      BY <2>2, <2>3 DEF Phase, Claiming
    <3> QED
      BY <1>3, <2>3, <3>1, Zenon
  <2>4. CASE v # w
    BY <2>1, <2>4
  <2> QED
    BY <2>3, <2>4
<1>4. ASSUME NEW v \in Workers, ListEligible(v)
      PROVE  worker'[w] = worker[w] \/ (ListEligible(w) /\ Phase(w)' = "inserting")
  <2>1. worker' = [worker EXCEPT ![v] = worker'[v]]
    BY <1>4 DEF ListEligible, Goes
  <2>2. worker'[v] = Claiming \/ worker'[v].phase = "inserting"
    BY <1>4 DEF ListEligible, Goes
  <2>3. CASE v = w
    <3>1. Phase(w)' = "inserting"
      BY <2>2, <2>3 DEF Phase, Claiming
    <3> QED
      BY <1>4, <2>3, <3>1, Zenon
  <2>4. CASE v # w
    BY <2>1, <2>4
  <2> QED
    BY <2>3, <2>4
<1>5. ASSUME NEW v \in Workers, NEW batch \in SUBSET Deliveries, ClaimBatch(v, batch)
      PROVE  worker'[w] = worker[w]
  BY <1>5 DEF ClaimBatch, Goes, Phase
<1>6. ASSUME NEW v \in Workers, StartGroup(v)
      PROVE  worker'[w] = worker[w]
  <2>1. worker[v] \in [phase : {"sending"}, todo : SUBSET (Deliveries \X Nat)]
    BY <1>6 DEF StartGroup, Phase, WorkerStates
  <2>2. PICK todo : worker' = [worker EXCEPT ![v] = [worker[v] EXCEPT !.todo = todo]]
    BY <1>6 DEF StartGroup, Goes
  <2>3. worker'[v].phase = "sending"
    BY <2>1, <2>2
  <2> QED
    BY <2>2, <2>3 DEF Phase
<1>7. ASSUME NEW c \in calls, Throw(c)
      PROVE  worker'[w] = worker[w]
  <2>1. c.worker \in Workers
    BY DEF Calls
  <2> QED
    BY <1>1, <1>2, <1>7, <2>1 DEF Throw
<1> QED
  BY <1>1, <1>2, <1>3, <1>4, <1>5, <1>6, <1>7
     DEF Next, WorkerStep, CallStep, Claim, Release, Withdraw,
         ChangePreferences, Enqueue, ClaimNothing, EndBatch, Check, CheckFails,
         Accept, Decline, Record, RecordFails, IterationFails, Stop, Forget,
         ProcessEvent, Reissue, vars

\* Only released runs are queued, listed and inserted.
LEMMA ForwardStep ==
    ASSUME TypeOK, WorkIsQueued, ForwardInv, [Next]_vars
    PROVE  ForwardInv'
<1> USE DEF TypeOK, ForwardInv
<1>1. RunsInOrder'
  BY RunsInOrderStep
<1>2. Now \in Nat
  BY NowIsNat
<1>3. \A r \in Runs : run[r].readyAt \in Nat /\ r \in Nat
  <2>1. \A r \in Runs : run[r].readyAt \in Nat
    BY DEF RunRow
  <2> QED
    BY <2>1 DEF Runs
<1>4. \A d \in Deliveries : RunOf(d) \in Runs /\ SubscriberOf(d) \in Subscribers
  BY DeliveryParts
<1>5. /\ \A w \in Workers : Phase(w) = "listing" =>
            worker[w].run \in Runs /\ worker[w].readyAt \in Nat
      /\ \A w \in Workers : Phase(w) = "inserting" => worker[w].run \in Runs
  BY DEF Phase, WorkerStates
\* the release of a run, or its being taken back
<1>6. ASSUME NEW r \in Runs, NEW b \in BOOLEAN,
             run' = [run EXCEPT ![r] = [deliverable |-> b, readyAt |-> Now]],
             Now' = Now + 1,
             UNCHANGED <<row, worker>>
      PROVE  QueuedWasReleased' /\ ListsTheLatest' /\ InsertsForward'
  <2>1. /\ run'[r].readyAt = Now /\ run[r].readyAt < Now /\ Now > 0
        /\ \A q \in Runs : q # r => run'[q] = run[q]
    BY <1>2, <1>3, <1>6 DEF RunsInOrder
  <2>2. \A q \in Runs : run[q].readyAt > 0 => run'[q].readyAt > 0
    BY <2>1
  <2>3. \A d \in Deliveries : Present(d)' <=> Present(d)
    BY <1>6 DEF Present
  <2>4. QueuedWasReleased'
    BY <1>4, <2>2, <2>3 DEF QueuedWasReleased, RunOf
  <2>5. ListsTheLatest'
    <3> SUFFICES ASSUME NEW w \in Workers, Phase(w) = "listing"
                 PROVE  /\ 0 < worker[w].readyAt /\ worker[w].readyAt < Now'
                        /\ worker[w].readyAt <= run'[worker[w].run].readyAt
                        /\ \A q \in Runs :
                              (worker[w].run < q /\ run'[q].readyAt > 0)
                                 => worker[w].readyAt < run'[q].readyAt
      BY <1>6 DEF ListsTheLatest, Phase
    <3>1. /\ 0 < worker[w].readyAt /\ worker[w].readyAt < Now
          /\ worker[w].readyAt <= run[worker[w].run].readyAt
          /\ \A q \in Runs : (worker[w].run < q /\ run[q].readyAt > 0)
                                => worker[w].readyAt < run[q].readyAt
      BY DEF ListsTheLatest
    <3>2. worker[w].run \in Runs /\ worker[w].readyAt \in Nat
      BY <1>5
    <3> QED
      BY <1>2, <1>6, <2>1, <3>1, <3>2
  <2>6. InsertsForward'
    <3> SUFFICES ASSUME NEW w \in Workers, Phase(w) = "inserting"
                 PROVE  /\ run'[worker[w].run].readyAt > 0
                        /\ Cardinality(Workers) = 1 =>
                              \A d \in Deliveries :
                                 (Present(d) /\ SubscriberOf(d) \in worker[w].eligible)
                                    => RunOf(d) < worker[w].run
      BY <1>6, <2>3 DEF InsertsForward, Phase, SubscriberOf, RunOf, Present
    <3> QED
      BY <1>5, <2>2 DEF InsertsForward
  <2> QED
    BY <2>4, <2>5, <2>6
\* what leaves the runs alone
<1>7. ASSUME run' = run, Now' = Now
      PROVE  QueuedWasReleased' /\ ListsTheLatest' /\ InsertsForward'
  <2>1. QueuedWasReleased'
    <3> SUFFICES ASSUME NEW d \in Deliveries, Present(d)'
                 PROVE  run[RunOf(d)].readyAt > 0
      BY <1>7 DEF QueuedWasReleased, RunOf
    <3>1. CASE Present(d)
      BY <3>1 DEF QueuedWasReleased
    <3>2. ASSUME NEW w \in Workers, Enqueue(w), d \in Inserted(w)
          PROVE  run[RunOf(d)].readyAt > 0
      BY <3>2 DEF Inserted, Enqueue, InsertsForward
    <3>3. ASSUME NEW e \in Deliveries, Present(e), RunOf(d) = RunOf(e)
          PROVE  run[RunOf(d)].readyAt > 0
      BY <3>3 DEF QueuedWasReleased
    <3> QED
      BY <3>1, <3>2, <3>3, QueuedMoves
  <2>2. ASSUME NEW w \in Workers, FindRun(w)
        PROVE  Phase(w)' = "listing" =>
                  /\ 0 < worker'[w].readyAt /\ worker'[w].readyAt < Now
                  /\ worker'[w].readyAt <= run[worker'[w].run].readyAt
                  /\ \A q \in Runs : (worker'[w].run < q /\ run[q].readyAt > 0)
                                        => worker'[w].readyAt < run[q].readyAt
    <3>1. CASE worker'[w] = Claiming
      BY <3>1 DEF Phase, Claiming
    <3>2. ASSUME NEW r \in Runs, Latest(r),
                 worker'[w] = [phase |-> "listing", run |-> r,
                               readyAt |-> run[r].readyAt]
          PROVE  /\ 0 < worker'[w].readyAt /\ worker'[w].readyAt < Now
                 /\ worker'[w].readyAt <= run[worker'[w].run].readyAt
                 /\ \A q \in Runs : (worker'[w].run < q /\ run[q].readyAt > 0)
                                       => worker'[w].readyAt < run[q].readyAt
      <4>1. run[r].deliverable
        BY <3>2 DEF Latest
      <4> QED
        BY <1>3, <3>2, <4>1 DEF RunsInOrder
    <3>3. \/ worker'[w] = Claiming
          \/ \E r \in Runs :
                /\ Latest(r)
                /\ worker'[w] = [phase |-> "listing", run |-> r,
                                 readyAt |-> run[r].readyAt]
      BY <2>2 DEF FindRun, Goes
    <3> QED
      BY <3>1, <3>2, <3>3
  <2>3. ASSUME NEW w \in Workers, ListEligible(w), Phase(w)' = "inserting"
        PROVE  /\ run[worker'[w].run].readyAt > 0
               /\ \A d \in Deliveries :
                     (Present(d) /\ SubscriberOf(d) \in worker'[w].eligible)
                        => RunOf(d) < worker'[w].run
    <3> DEFINE r == worker[w].run
               eligible == {s \in Subscribers : Eligible(s, r) /\ NoLaterDelivery(s, w)}
    <3>1. Phase(w) = "listing"
      BY <2>3 DEF ListEligible
    <3>2. worker'[w] = [phase |-> "inserting", run |-> r, eligible |-> eligible]
      <4>1. worker'[w] = IF eligible = {} THEN Claiming
                         ELSE [phase |-> "inserting", run |-> r, eligible |-> eligible]
        BY <2>3 DEF ListEligible, Goes
      <4>2. worker'[w] # Claiming
        BY <2>3 DEF Phase, Claiming
      <4> QED
        BY <4>1, <4>2
    <3>3. worker'[w].run = r /\ worker'[w].eligible = eligible
      BY <3>2
    <3>4. r \in Runs /\ worker[w].readyAt \in Nat
      BY <1>5, <3>1
    <3>5. /\ 0 < worker[w].readyAt
          /\ worker[w].readyAt <= run[r].readyAt
          /\ \A q \in Runs : (r < q /\ run[q].readyAt > 0)
                                => worker[w].readyAt < run[q].readyAt
      BY <3>1 DEF ListsTheLatest
    <3>6. run[r].readyAt > 0
      BY <1>3, <3>4, <3>5
    <3>7. ASSUME NEW d \in Deliveries, Present(d), SubscriberOf(d) \in eligible
          PROVE  RunOf(d) < r
      <4>1. run[RunOf(d)].readyAt < worker[w].readyAt
        BY <3>7 DEF NoLaterDelivery
      <4>2. run[RunOf(d)].readyAt > 0
        BY <3>7 DEF QueuedWasReleased
      <4>3. RunOf(d) \in Runs
        BY <1>4
      <4>4. ~(r < RunOf(d)) /\ r # RunOf(d)
        BY <1>3, <3>4, <3>5, <4>1, <4>2, <4>3
      <4> QED
        BY <1>3, <3>4, <4>3, <4>4
    <3> HIDE DEF r, eligible
    <3> QED
      BY <3>3, <3>6, <3>7
  <2>4. ListsTheLatest'
    <3> SUFFICES ASSUME NEW w \in Workers, Phase(w)' = "listing"
                 PROVE  /\ 0 < worker'[w].readyAt /\ worker'[w].readyAt < Now
                        /\ worker'[w].readyAt <= run[worker'[w].run].readyAt
                        /\ \A q \in Runs : (worker'[w].run < q /\ run[q].readyAt > 0)
                                              => worker'[w].readyAt < run[q].readyAt
      BY <1>7 DEF ListsTheLatest
    <3>1. FindRun(w) \/ worker'[w] = worker[w]
      BY WorkersMove
    <3>2. CASE worker'[w] = worker[w]
      BY <3>2 DEF ListsTheLatest, Phase
    <3> QED
      BY <2>2, <3>1, <3>2
  <2>5. InsertsForward'
    <3> SUFFICES ASSUME NEW w \in Workers, Phase(w)' = "inserting"
                 PROVE  /\ run[worker'[w].run].readyAt > 0
                        /\ Cardinality(Workers) = 1 =>
                              \A d \in Deliveries :
                                 (Present(d)' /\ SubscriberOf(d) \in worker'[w].eligible)
                                    => RunOf(d) < worker'[w].run
      BY <1>7 DEF InsertsForward, SubscriberOf, RunOf
    <3>1. CASE ListEligible(w)
      <4>1. \A d \in Deliveries : Present(d)' <=> Present(d)
        BY <3>1 DEF ListEligible, Present
      <4> QED
        BY <2>3, <3>1, <4>1
    <3>2. CASE worker'[w] = worker[w]
      <4>1. Phase(w) = "inserting"
        BY <3>2 DEF Phase
      <4>2. /\ run[worker[w].run].readyAt > 0
            /\ Cardinality(Workers) = 1 =>
                  \A d \in Deliveries :
                     (Present(d) /\ SubscriberOf(d) \in worker[w].eligible)
                        => RunOf(d) < worker[w].run
        BY <4>1 DEF InsertsForward
      <4>3. ASSUME Cardinality(Workers) = 1, NEW d \in Deliveries, Present(d)',
                   SubscriberOf(d) \in worker[w].eligible
            PROVE  RunOf(d) < worker[w].run
        <5>1. CASE Present(d)
          BY <4>2, <4>3, <5>1
        <5>2. ASSUME NEW v \in Workers, Enqueue(v) PROVE FALSE
          <6>1. v = w
            BY <4>3, NoOtherWorker
          <6>2. worker'[w] = Claiming
            BY <5>2, <6>1 DEF Enqueue, Goes
          <6> QED
            BY <3>2, <4>1, <6>2 DEF Phase, Claiming
        <5>3. ASSUME NEW e \in Deliveries, Present(e), RunOf(d) = RunOf(e),
                     SubscriberOf(d) = SubscriberOf(e)
              PROVE  RunOf(d) < worker[w].run
          BY <4>2, <4>3, <5>3
        <5> QED
          BY <4>3, <5>1, <5>2, <5>3, QueuedMoves
      <4> QED
        BY <3>2, <4>2, <4>3
    <3> QED
      BY <3>1, <3>2, WorkersMove
  <2> QED
    BY <2>1, <2>4, <2>5
<1> QED
  BY <1>1, <1>6, <1>7, RunsMove

\* With one worker, nobody is queued for a run that was released before one
\* they are queued for.
THEOREM NoBacklog == Spec => ForwardOnly
<1>1. Init => ForwardInv
  <2> SUFFICES ASSUME Init PROVE ForwardInv
    OBVIOUS
  <2>1. \A r \in Runs : run[r].readyAt = 0 /\ ~run[r].deliverable
    BY DEF Init
  <2>2. Now > 0
    <3>1. {r \in Runs : run[r].readyAt > 0} = {}
      BY <2>1
    <3>2. mishaps["withdrawal"] = 0
      BY DEF Init, MishapKinds
    <3> QED
      BY <3>1, <3>2, FS_EmptySet DEF Now
  <2> QED
    BY <2>1, <2>2
       DEF Init, ForwardInv, RunsInOrder, QueuedWasReleased, ListsTheLatest,
           InsertsForward, Present, AbsentRow, Phase, Idle
<1>2. ASSUME NewsletterInv, ForwardInv, [Next]_vars, Cardinality(Workers) = 1,
             NEW d \in Deliveries, NEW e \in Deliveries,
             ~Present(d), Present(d)', Sequence(d) = 1, Present(e),
             SubscriberOf(e) = SubscriberOf(d)
      PROVE  RunOf(e) < RunOf(d)
  <2>1. PICK w \in Workers : Enqueue(w) /\ d \in Inserted(w)
    BY <1>2, QueuedMoves DEF NewsletterInv
  <2>2. Phase(w) = "inserting" /\ RunOf(d) = worker[w].run
        /\ SubscriberOf(d) \in worker[w].eligible
    BY <2>1 DEF Enqueue, Inserted
  <2> QED
    BY <1>2, <2>2 DEF ForwardInv, InsertsForward
<1>3. NewsletterInv /\ ForwardInv /\ [Next]_vars
        => [Cardinality(Workers) = 1 =>
              \A d, e \in Deliveries :
                 (/\ ~Present(d) /\ Present(d)' /\ Sequence(d) = 1
                  /\ Present(e) /\ SubscriberOf(e) = SubscriberOf(d))
                     => RunOf(e) < RunOf(d)]_vars
  BY <1>2
<1>4. NewsletterInv => TypeOK /\ WorkIsQueued
  BY DEF NewsletterInv
<1> QED
  BY <1>1, <1>3, <1>4, NewsletterInvariant, ForwardStep, PTL DEF Spec, ForwardOnly

-----------------------------------------------------------------------------
(* Attempts are bounded.  Whoever holds a delivery, a call or the rest of  *)
(* a batch, holds an attempt of its own.  A further claim needs a holder   *)
(* that asks for a retry, which only one with attempts left does and then  *)
(* is gone, or something that went wrong.                                  *)

\* the attempts of a delivery that somebody works on, or is about to
Numbers(d) ==
    {n \in Nat : \/ \E c \in calls : c.id = d /\ c.attempt = n
                 \/ \E w \in Workers : <<d, n>> \in Todo(w)}

\* No two hold the same attempt, and none one that is still to come.
HeldOnce ==
    /\ \A c, o \in calls : (c.id = o.id /\ c.attempt = o.attempt) => c = o
    /\ \A w \in Workers : \A t \in Todo(w) :
          /\ \A c \in calls : <<c.id, c.attempt>> # t
          /\ \A v \in Workers : t \in Todo(v) => v = w
    /\ \A c \in calls : c.attempt <= row[c.id].attempts
    /\ \A w \in Workers : \A t \in Todo(w) : t[2] <= row[t[1]].attempts

\* A retry is asked for by a call with attempts left.
RetriesHaveAttempts ==
    \A c \in calls : c.step = "retry" => c.attempt < MaximumAttempts

\* What work is made of.
LEMMA WorkTypes ==
    ASSUME TypeOK
    PROVE  /\ \A c \in calls : c.id \in Deliveries /\ c.attempt \in Nat
           /\ \A w \in Workers : Todo(w) \in SUBSET (Deliveries \X Nat)
           /\ \A d \in Deliveries : row[d].attempts \in Nat
<1> USE DEF TypeOK
<1>1. \A c \in calls : c.id \in Deliveries /\ c.attempt \in Nat
  BY DEF Calls
<1>2. \A w \in Workers : Todo(w) \in SUBSET (Deliveries \X Nat)
  BY DEF Todo, Phase, WorkerStates
<1>3. \A d \in Deliveries : row[d].attempts \in Nat
  BY DEF DeliveryRow
<1> QED
  BY <1>1, <1>2, <1>3

\* Attempts are counted by claims, from none.
LEMMA AttemptsMove ==
    ASSUME TypeOK, [Next]_vars, NEW d \in Deliveries
    PROVE  \/ row'[d].attempts = row[d].attempts
           \/ ~Present(d) /\ row'[d].status = "pending" /\ row'[d].attempts = 0
           \/ \E w \in Workers, batch \in SUBSET Deliveries :
                 /\ ClaimBatch(w, batch)
                 /\ d \in batch
                 /\ row'[d].attempts = row[d].attempts + 1
                 /\ row'[d].status = "sending"
<1> USE DEF TypeOK
<1>1. CASE row' = row
  BY <1>1
<1>2. ASSUME NEW w \in Workers, Enqueue(w)
      PROVE  \/ row'[d].attempts = row[d].attempts
             \/ ~Present(d) /\ row'[d].status = "pending" /\ row'[d].attempts = 0
  BY <1>2 DEF Enqueue, Inserted, PendingRow, AbsentRow
<1>3. ASSUME NEW w \in Workers, NEW batch \in SUBSET Deliveries, ClaimBatch(w, batch)
      PROVE  \/ row'[d].attempts = row[d].attempts
             \/ /\ d \in batch
                /\ row'[d].attempts = row[d].attempts + 1
                /\ row'[d].status = "sending"
  <2>1. row[d] \in DeliveryRow
    OBVIOUS
  <2> QED
    BY <1>3, <2>1, RowType DEF ClaimBatch
<1>4. ASSUME NEW c \in calls, Record(c)
      PROVE  row'[d].attempts = row[d].attempts
  <2>1. c.id \in Deliveries /\ row[c.id] \in DeliveryRow
    BY DEF Calls
  <2>2. Recorded(c.id, c.step).attempts = row[c.id].attempts
    BY <2>1, RowType DEF Recorded
  <2> QED
    BY <1>4, <2>1, <2>2 DEF Record
<1>5. ASSUME NEW e \in Deliveries, NEW kind \in EventKinds, ProcessEvent(e, kind)
      PROVE  row'[d].attempts = row[d].attempts
  <2>1. row' = row \/ row' = [row EXCEPT ![e].providerStatus = kind]
    BY <1>5 DEF ProcessEvent
  <2>2. row[e] \in DeliveryRow
    OBVIOUS
  <2>3. [row[e] EXCEPT !.providerStatus = kind].attempts = row[e].attempts
    BY <2>2, RowType
  <2> QED
    BY <2>1, <2>3
<1>6. ASSUME NEW e \in Deliveries, Reissue(e)
      PROVE  \/ row'[d].attempts = row[d].attempts
             \/ ~Present(d) /\ row'[d].status = "pending" /\ row'[d].attempts = 0
  <2> DEFINE next == Issue(e, Sequence(e) + 1)
  <2>1. CASE d = next
    BY <1>6, <2>1 DEF Reissue, PendingRow, AbsentRow
  <2>2. CASE d # next
    BY <1>6, <2>2 DEF Reissue
  <2> QED
    BY <2>1, <2>2
<1>7. CASE UNCHANGED vars
  BY <1>1, <1>7 DEF vars
<1> QED
  BY <1>1, <1>2, <1>3, <1>4, <1>5, <1>6, <1>7
     DEF Next, WorkerStep, CallStep, Claim, Release, Withdraw,
         ChangePreferences, FindRun, ListEligible, ClaimNothing, StartGroup,
         EndBatch, Check, CheckFails, Accept, Decline, RecordFails, Throw,
         IterationFails, Stop, Forget

\* How calls and what is to be done may move: some go; one goes on; those of a
\* batch that fails are no longer awaited; a group begins; a batch is claimed.
LEMMA HoldersMove ==
    ASSUME TypeOK, [Next]_vars
    PROVE  \/ calls' \subseteq calls /\ \A w \in Workers : Todo(w)' \subseteq Todo(w)
           \/ \E c \in calls : \E step :
                 /\ CallGoes(c, step)
                 /\ UNCHANGED <<row, worker>>
                 /\ step = "retry" => c.attempt < MaximumAttempts
           \/ \E c \in calls :
                 /\ Throw(c)
                 /\ calls' = {IF o.worker = c.worker THEN [o EXCEPT !.awaited = FALSE]
                              ELSE o : o \in calls \ {c}}
                 /\ \A w \in Workers : Todo(w)' \subseteq Todo(w)
           \/ \E w \in Workers : \E group \in SUBSET Todo(w) :
                 /\ calls' = calls \cup
                       {[worker |-> w, id |-> t[1], attempt |-> t[2],
                         step |-> "checking", awaited |-> TRUE] : t \in group}
                 /\ Todo(w)' = Todo(w) \ group
                 /\ \A v \in Workers : v # w => Todo(v)' = Todo(v)
                 /\ UNCHANGED row
           \/ \E w \in Workers, batch \in SUBSET Deliveries :
                 /\ ClaimBatch(w, batch)
                 /\ calls' = calls
                 /\ Todo(w) = {}
                 /\ Todo(w)' = {<<d, row[d].attempts + 1>> : d \in batch}
                 /\ \A v \in Workers : v # w => Todo(v)' = Todo(v)
<1> USE DEF TypeOK
<1>1. CASE UNCHANGED <<worker, calls>>
  BY <1>1 DEF Todo, Phase
<1>2. ASSUME NEW w \in Workers, calls' \subseteq calls,
             Goes(w, Claiming) \/ Goes(w, Idle)
      PROVE  calls' \subseteq calls /\ \A v \in Workers : Todo(v)' \subseteq Todo(v)
  BY <1>2 DEF Goes, Claiming, Idle, Todo, Phase
<1>3. ASSUME NEW w \in Workers, FindRun(w) \/ ListEligible(w)
      PROVE  calls' \subseteq calls /\ \A v \in Workers : Todo(v)' \subseteq Todo(v)
  BY <1>3 DEF FindRun, ListEligible, Goes, Claiming, Todo, Phase
<1>4. ASSUME NEW c \in calls, Check(c) \/ CheckFails(c) \/ Accept(c) \/ Decline(c)
                                 \/ RecordFails(c)
      PROVE  \E step : /\ CallGoes(c, step)
                       /\ UNCHANGED <<row, worker>>
                       /\ step = "retry" => c.attempt < MaximumAttempts
  BY <1>4 DEF Check, CheckFails, Accept, Decline, RecordFails, AfterTimeout,
              AfterRetryableError
<1>5. ASSUME NEW c \in calls, Record(c)
      PROVE  calls' \subseteq calls /\ UNCHANGED worker
  BY <1>5 DEF Record
<1>6. ASSUME NEW c \in calls, Throw(c)
      PROVE  \/ calls' \subseteq calls /\ UNCHANGED worker
             \/ /\ calls' = {IF o.worker = c.worker THEN [o EXCEPT !.awaited = FALSE]
                             ELSE o : o \in calls \ {c}}
                /\ \A w \in Workers : Todo(w)' \subseteq Todo(w)
  <2>1. c.worker \in Workers
    BY DEF Calls
  <2>2. CASE c.awaited
    <3>1. Goes(c.worker, Idle)
      BY <1>6, <2>2 DEF Throw
    <3>2. \A w \in Workers : Todo(w)' \subseteq Todo(w)
      BY <2>1, <3>1 DEF Goes, Idle, Todo, Phase
    <3> QED
      BY <1>6, <2>2, <3>2 DEF Throw
  <2>3. CASE ~c.awaited
    BY <1>6, <2>3 DEF Throw
  <2> QED
    BY <2>2, <2>3
<1>7. ASSUME NEW w \in Workers, StartGroup(w)
      PROVE  \E group \in SUBSET Todo(w) :
                /\ calls' = calls \cup
                      {[worker |-> w, id |-> t[1], attempt |-> t[2],
                        step |-> "checking", awaited |-> TRUE] : t \in group}
                /\ Todo(w)' = Todo(w) \ group
                /\ \A v \in Workers : v # w => Todo(v)' = Todo(v)
                /\ UNCHANGED row
  <2> PICK group \in SUBSET worker[w].todo :
         /\ calls' = calls \cup
               {[worker |-> w, id |-> t[1], attempt |-> t[2],
                 step |-> "checking", awaited |-> TRUE] : t \in group}
         /\ Goes(w, [worker[w] EXCEPT !.todo = worker[w].todo \ group])
    BY <1>7 DEF StartGroup
  <2>1. worker[w] \in [phase : {"sending"}, todo : SUBSET (Deliveries \X Nat)]
    BY <1>7 DEF StartGroup, Phase, WorkerStates
  <2>2. /\ Todo(w) = worker[w].todo
        /\ Todo(w)' = Todo(w) \ group
        /\ \A v \in Workers : v # w => Todo(v)' = Todo(v)
    BY <2>1 DEF Goes, Todo, Phase
  <2> QED
    BY <1>7, <2>2 DEF StartGroup
<1>8. ASSUME NEW w \in Workers, NEW batch \in SUBSET Deliveries, ClaimBatch(w, batch)
      PROVE  /\ calls' = calls
             /\ Todo(w) = {}
             /\ Todo(w)' = {<<d, row[d].attempts + 1>> : d \in batch}
             /\ \A v \in Workers : v # w => Todo(v)' = Todo(v)
  <2>1. \A d \in batch : row'[d].attempts = row[d].attempts + 1
    <3>1. \A d \in batch : row[d] \in DeliveryRow
      OBVIOUS
    <3> QED
      BY <1>8, <3>1, RowType DEF ClaimBatch
  <2>2. Todo(w)' = {<<d, row'[d].attempts>> : d \in batch}
    BY <1>8 DEF ClaimBatch, Goes, Todo, Phase
  <2>3. Todo(w)' = {<<d, row[d].attempts + 1>> : d \in batch}
    BY <2>1, <2>2
  <2>4. \A v \in Workers : v # w => Todo(v)' = Todo(v)
    BY <1>8 DEF ClaimBatch, Goes, Todo, Phase
  <2> QED
    BY <1>8, <2>3, <2>4 DEF ClaimBatch, Todo
<1>9. ASSUME NEW w \in Workers, Enqueue(w) \/ ClaimNothing(w) \/ EndBatch(w)
                                   \/ IterationFails(w) \/ Stop(w)
      PROVE  calls' \subseteq calls /\ (Goes(w, Claiming) \/ Goes(w, Idle))
  BY <1>9 DEF Enqueue, ClaimNothing, EndBatch, IterationFails, Stop
<1>10. CASE calls' \subseteq calls /\ UNCHANGED worker
  BY <1>10 DEF Todo, Phase
<1> QED
  BY <1>1, <1>2, <1>3, <1>4, <1>5, <1>6, <1>7, <1>8, <1>9, <1>10
     DEF Next, WorkerStep, CallStep, Claim, Release, Withdraw,
         ChangePreferences, Forget, ProcessEvent, Reissue, vars

\* Each step keeps one holder for each attempt.
LEMMA HeldOnceStep ==
    ASSUME TypeOK, WorkIsQueued, HeldOnce, [Next]_vars
    PROVE  HeldOnce'
<1>1. /\ \A c \in calls : c.id \in Deliveries /\ c.attempt \in Nat
      /\ \A w \in Workers : Todo(w) \in SUBSET (Deliveries \X Nat)
      /\ \A d \in Deliveries : row[d].attempts \in Nat /\ row'[d].attempts \in Nat
  <2>1. \A d \in Deliveries : row'[d].attempts \in Nat
    BY TypeStep DEF TypeOK, DeliveryRow
  <2> QED
    BY <2>1, WorkTypes
<1>2. \A d \in Deliveries : Present(d) => row[d].attempts <= row'[d].attempts
  BY <1>1, AttemptsMove
<1>3. \A c \in calls : c.attempt <= row'[c.id].attempts
  BY <1>1, <1>2 DEF HeldOnce, WorkIsQueued
<1>4. \A w \in Workers : \A t \in Todo(w) : t[2] <= row'[t[1]].attempts
  BY <1>1, <1>2 DEF HeldOnce, WorkIsQueued
\* calls and work that keep to what there was
<1>5. ASSUME \A o \in calls' : \E c \in calls :
                c.id = o.id /\ c.attempt = o.attempt,
             \A c, o \in calls' : (c.id = o.id /\ c.attempt = o.attempt) => c = o,
             \A w \in Workers : Todo(w)' \subseteq Todo(w)
      PROVE  HeldOnce'
  <2>1. \A o \in calls' : o.attempt <= row'[o.id].attempts
    BY <1>3, <1>5
  <2>2. \A w \in Workers : \A t \in Todo(w)' :
           /\ \A c \in calls' : <<c.id, c.attempt>> # t
           /\ \A v \in Workers : t \in Todo(v)' => v = w
    BY <1>5 DEF HeldOnce
  <2>3. \A w \in Workers : \A t \in Todo(w)' : t[2] <= row'[t[1]].attempts
    BY <1>4, <1>5
  <2> QED
    BY <1>5, <2>1, <2>2, <2>3 DEF HeldOnce
<1>6. CASE calls' \subseteq calls /\ \A w \in Workers : Todo(w)' \subseteq Todo(w)
  BY <1>5, <1>6 DEF HeldOnce
<1>7. ASSUME NEW c \in calls, NEW step, CallGoes(c, step), UNCHANGED <<row, worker>>
      PROVE  HeldOnce'
  <2>1. [c EXCEPT !.step = step].id = c.id /\ [c EXCEPT !.step = step].attempt = c.attempt
    BY DEF TypeOK, Calls
  <2>2. \A o \in calls' : o \in calls \ {c} \/ o = [c EXCEPT !.step = step]
    BY <1>7 DEF CallGoes
  <2>3. \A w \in Workers : Todo(w)' = Todo(w)
    BY <1>7 DEF Todo, Phase
  <2>4. \A o \in calls' : \E k \in calls : k.id = o.id /\ k.attempt = o.attempt
    BY <2>1, <2>2
  <2>5. \A o, p \in calls' : (o.id = p.id /\ o.attempt = p.attempt) => o = p
    BY <2>1, <2>2 DEF HeldOnce
  <2> QED
    BY <1>5, <2>3, <2>4, <2>5
<1>8. ASSUME NEW c \in calls,
             calls' = {IF o.worker = c.worker THEN [o EXCEPT !.awaited = FALSE]
                       ELSE o : o \in calls \ {c}},
             \A w \in Workers : Todo(w)' \subseteq Todo(w)
      PROVE  HeldOnce'
  <2> DEFINE Left(o) == IF o.worker = c.worker THEN [o EXCEPT !.awaited = FALSE]
                        ELSE o
  <2>1. \A o \in calls : Left(o).id = o.id /\ Left(o).attempt = o.attempt
    BY DEF TypeOK, Calls
  <2>2. \A o \in calls' : \E k \in calls : o = Left(k)
    BY <1>8
  <2> HIDE DEF Left
  <2>3. \A o \in calls' : \E k \in calls : k.id = o.id /\ k.attempt = o.attempt
    BY <2>1, <2>2
  <2>4. \A o, p \in calls' : (o.id = p.id /\ o.attempt = p.attempt) => o = p
    <3> SUFFICES ASSUME NEW o \in calls', NEW p \in calls',
                        o.id = p.id, o.attempt = p.attempt
                 PROVE  o = p
      OBVIOUS
    <3>1. PICK k \in calls : o = Left(k)
      BY <2>2
    <3>2. PICK l \in calls : p = Left(l)
      BY <2>2
    <3>3. k = l
      BY <2>1, <3>1, <3>2 DEF HeldOnce
    <3> QED
      BY <3>1, <3>2, <3>3
  <2> QED
    BY <1>5, <1>8, <2>3, <2>4
<1>9. ASSUME NEW w \in Workers, NEW group \in SUBSET Todo(w),
             calls' = calls \cup
                {[worker |-> w, id |-> t[1], attempt |-> t[2],
                  step |-> "checking", awaited |-> TRUE] : t \in group},
             Todo(w)' = Todo(w) \ group,
             \A v \in Workers : v # w => Todo(v)' = Todo(v)
      PROVE  HeldOnce'
  <2> DEFINE Begun(t) == [worker |-> w, id |-> t[1], attempt |-> t[2],
                          step |-> "checking", awaited |-> TRUE]
  <2>1. \A t \in group : t = <<Begun(t).id, Begun(t).attempt>>
    BY <1>1
  <2>2. \A o \in calls' : o \in calls \/ \E t \in group : o = Begun(t)
    BY <1>9
  <2> HIDE DEF Begun
  <2>3. \A t \in group : t \in Todo(w)
    OBVIOUS
  <2>4. \A t \in group : \A c \in calls : <<c.id, c.attempt>> # t
    BY <2>3 DEF HeldOnce
  <2>5. \A o, p \in calls' : (o.id = p.id /\ o.attempt = p.attempt) => o = p
    <3> SUFFICES ASSUME NEW o \in calls', NEW p \in calls',
                        o.id = p.id, o.attempt = p.attempt
                 PROVE  o = p
      OBVIOUS
    <3>1. CASE o \in calls /\ p \in calls
      BY <3>1 DEF HeldOnce
    <3>2. ASSUME NEW t \in group, o = Begun(t) PROVE o = p
      <4>1. t = <<p.id, p.attempt>>
        BY <2>1, <3>2
      <4>2. p \notin calls
        BY <2>4, <4>1
      <4>3. PICK u \in group : p = Begun(u)
        BY <2>2, <4>2
      <4>4. u = t
        BY <2>1, <4>1, <4>3
      <4> QED
        BY <3>2, <4>3, <4>4
    <3>3. ASSUME NEW t \in group, p = Begun(t) PROVE o = p
      <4>1. t = <<o.id, o.attempt>>
        BY <2>1, <3>3
      <4>2. o \notin calls
        BY <2>4, <4>1
      <4>3. PICK u \in group : o = Begun(u)
        BY <2>2, <4>2
      <4>4. u = t
        BY <2>1, <4>1, <4>3
      <4> QED
        BY <3>3, <4>3, <4>4
    <3> QED
      BY <2>2, <3>1, <3>2, <3>3
  <2>6. \A v \in Workers : Todo(v)' \subseteq Todo(v) /\ \A t \in Todo(v)' : t \notin group
    BY <1>9 DEF HeldOnce
  <2>7. \A v \in Workers : \A t \in Todo(v)' :
           /\ \A c \in calls' : <<c.id, c.attempt>> # t
           /\ \A u \in Workers : t \in Todo(u)' => u = v
    <3> SUFFICES ASSUME NEW v \in Workers, NEW t \in Todo(v)'
                 PROVE  /\ \A c \in calls' : <<c.id, c.attempt>> # t
                        /\ \A u \in Workers : t \in Todo(u)' => u = v
      OBVIOUS
    <3>1. t \in Todo(v) /\ t \notin group
      BY <2>6
    <3>2. \A c \in calls' : <<c.id, c.attempt>> # t
      BY <2>1, <2>2, <3>1 DEF HeldOnce
    <3>3. \A u \in Workers : t \in Todo(u)' => u = v
      BY <2>6, <3>1 DEF HeldOnce
    <3> QED
      BY <3>2, <3>3
  <2>8. \A o \in calls' : o.attempt <= row'[o.id].attempts
    <3> SUFFICES ASSUME NEW o \in calls' PROVE o.attempt <= row'[o.id].attempts
      OBVIOUS
    <3>1. CASE o \in calls
      BY <1>3, <3>1
    <3>2. ASSUME NEW t \in group, o = Begun(t) PROVE o.attempt <= row'[o.id].attempts
      <4>1. t[1] = o.id /\ t[2] = o.attempt
        BY <2>1, <3>2
      <4> QED
        BY <1>4, <2>3, <4>1
    <3> QED
      BY <2>2, <3>1, <3>2
  <2>9. \A v \in Workers : \A t \in Todo(v)' : t[2] <= row'[t[1]].attempts
    BY <1>4, <2>6
  <2> QED
    BY <2>5, <2>7, <2>8, <2>9 DEF HeldOnce
<1>10. ASSUME NEW w \in Workers, NEW batch \in SUBSET Deliveries,
              ClaimBatch(w, batch), calls' = calls,
              Todo(w)' = {<<d, row[d].attempts + 1>> : d \in batch},
              \A v \in Workers : v # w => Todo(v)' = Todo(v)
       PROVE  HeldOnce'
  <2>1. \A d \in batch : row'[d].attempts = row[d].attempts + 1
    <3>1. \A d \in batch : row[d] \in DeliveryRow
      BY DEF TypeOK
    <3> QED
      BY <1>10, <3>1, RowType DEF ClaimBatch, TypeOK
  <2>2. \A t \in Todo(w)' : t[1] \in batch /\ t[2] = row[t[1]].attempts + 1
    BY <1>10
  <2>3. \A c \in calls : c.attempt <= row[c.id].attempts
    BY DEF HeldOnce
  <2>4. \A t \in Todo(w)' : \A c \in calls : <<c.id, c.attempt>> # t
    BY <1>1, <2>2, <2>3
  <2>5. \A t \in Todo(w)' : \A v \in Workers : t \notin Todo(v)
    <3>1. \A v \in Workers : \A t \in Todo(v) :
             t[1] \in Deliveries /\ t[2] \in Nat /\ t[2] <= row[t[1]].attempts
      BY <1>1 DEF HeldOnce
    <3> QED
      BY <1>1, <2>2, <3>1
  <2>6. \A v \in Workers : \A t \in Todo(v)' :
           /\ \A c \in calls' : <<c.id, c.attempt>> # t
           /\ \A u \in Workers : t \in Todo(u)' => u = v
    BY <1>10, <2>4, <2>5 DEF HeldOnce
  <2>7. \A v \in Workers : \A t \in Todo(v)' : t[2] <= row'[t[1]].attempts
    <3>1. \A t \in Todo(w)' : t[2] <= row'[t[1]].attempts
      BY <1>1, <2>1, <2>2
    <3> QED
      BY <1>4, <1>10, <3>1
  <2>8. \A c, o \in calls' : (c.id = o.id /\ c.attempt = o.attempt) => c = o
    BY <1>10 DEF HeldOnce
  <2> QED
    BY <1>3, <1>10, <2>6, <2>7, <2>8 DEF HeldOnce
<1> QED
  BY <1>6, <1>7, <1>8, <1>9, <1>10, HoldersMove

\* Each step keeps retries to calls with attempts left.
LEMMA RetriesStep ==
    ASSUME TypeOK, RetriesHaveAttempts, [Next]_vars
    PROVE  RetriesHaveAttempts'
<1>1. CASE calls' \subseteq calls
  BY <1>1 DEF RetriesHaveAttempts
<1>2. ASSUME NEW c \in calls, NEW step, CallGoes(c, step),
             step = "retry" => c.attempt < MaximumAttempts
      PROVE  RetriesHaveAttempts'
  <2>1. [c EXCEPT !.step = step].step = step /\ [c EXCEPT !.step = step].attempt = c.attempt
    BY DEF TypeOK, Calls
  <2>2. \A o \in calls' : o \in calls \/ o = [c EXCEPT !.step = step]
    BY <1>2 DEF CallGoes
  <2> QED
    BY <1>2, <2>1, <2>2 DEF RetriesHaveAttempts
<1>3. ASSUME NEW c \in calls,
             calls' = {IF o.worker = c.worker THEN [o EXCEPT !.awaited = FALSE]
                       ELSE o : o \in calls \ {c}}
      PROVE  RetriesHaveAttempts'
  <2> DEFINE Left(o) == IF o.worker = c.worker THEN [o EXCEPT !.awaited = FALSE]
                        ELSE o
  <2>1. \A o \in calls : Left(o).step = o.step /\ Left(o).attempt = o.attempt
    BY DEF TypeOK, Calls
  <2>2. \A o \in calls' : \E k \in calls : o = Left(k)
    BY <1>3
  <2> HIDE DEF Left
  <2> QED
    BY <2>1, <2>2 DEF RetriesHaveAttempts
<1>4. ASSUME NEW w \in Workers, NEW group,
             calls' = calls \cup
                {[worker |-> w, id |-> t[1], attempt |-> t[2],
                  step |-> "checking", awaited |-> TRUE] : t \in group}
      PROVE  RetriesHaveAttempts'
  BY <1>4 DEF RetriesHaveAttempts
<1> QED
  BY <1>1, <1>2, <1>3, <1>4, HoldersMove

GoneWrong == mishaps["stop"] + mishaps["late"] + mishaps["error"]

\* What has gone wrong is counted.
LEMMA WrongsCount ==
    ASSUME TypeOK
    PROVE  /\ GoneWrong \in Nat
           /\ \A k \in {"stop", "late", "error"} :
                 GoesWrong(k) => GoneWrong' = GoneWrong + 1
           /\ [Next]_vars => GoneWrong' \in Nat /\ GoneWrong' >= GoneWrong
<1>1. /\ mishaps["stop"] \in Nat /\ mishaps["late"] \in Nat
      /\ mishaps["error"] \in Nat
  BY DEF TypeOK, MishapKinds
<1>2. ASSUME NEW k \in {"stop", "late", "error"}, GoesWrong(k)
      PROVE  GoneWrong' = GoneWrong + 1
  <2>1. \A o \in {"stop", "late", "error"} :
           mishaps'[o] = IF o = k THEN mishaps[o] + 1 ELSE mishaps[o]
    BY <1>2 DEF GoesWrong, TypeOK, MishapKinds
  <2> QED
    BY <1>1, <2>1 DEF GoneWrong
<1>3. ASSUME [Next]_vars PROVE GoneWrong' \in Nat /\ GoneWrong' >= GoneWrong
  <2>1. \A o \in {"stop", "late", "error"} : mishaps'[o] >= mishaps[o]
    BY <1>3, MailsMove DEF MishapKinds
  <2>2. mishaps' \in [MishapKinds -> Nat]
    BY <1>3, TypeStep DEF TypeOK
  <2>3. \A o \in {"stop", "late", "error"} : mishaps'[o] \in Nat
    BY <2>2 DEF MishapKinds
  <2> QED
    BY <1>1, <2>1, <2>3 DEF GoneWrong
<1> QED
  BY <1>1, <1>2, <1>3 DEF GoneWrong

\* What a step does to the attempts at a delivery: nothing; it claims the
\* delivery; it ends an attempt with its outcome; it loses attempts, and
\* something went wrong; it queues the delivery.
LEMMA NumbersMove ==
    ASSUME TypeOK, WorkIsQueued, HeldOnce, RetriesHaveAttempts, [Next]_vars,
           NEW d \in Deliveries
    PROVE  \/ /\ Numbers(d)' = Numbers(d)
              /\ row'[d].status = row[d].status
              /\ row'[d].attempts = row[d].attempts
           \/ /\ Numbers(d)' = Numbers(d) \cup {row[d].attempts + 1}
              /\ row'[d].attempts = row[d].attempts + 1
              /\ Claimable(d)
              /\ row'[d].status = "sending"
              /\ (row[d].status = "sending" /\ Numbers(d) # {})
                    => GoneWrong' = GoneWrong + 1
           \/ \E n \in Numbers(d) :
                 /\ Numbers(d)' = Numbers(d) \ {n}
                 /\ row'[d].status \in Outcomes
                 /\ row'[d].status = "retry" => n < MaximumAttempts
                 /\ row'[d].attempts = row[d].attempts
           \/ /\ Numbers(d)' \subseteq Numbers(d)
              /\ row'[d].status = row[d].status
              /\ row'[d].attempts = row[d].attempts
              /\ GoneWrong' = GoneWrong + 1
           \/ /\ Numbers(d) = {} /\ Numbers(d)' = {}
              /\ row'[d].status = "pending"
              /\ row'[d].attempts = 0
<1>1. /\ \A c \in calls : c.id \in Deliveries /\ c.attempt \in Nat
      /\ \A w \in Workers : Todo(w) \in SUBSET (Deliveries \X Nat)
      /\ row[d].attempts \in Nat
  BY WorkTypes
<1>2. ASSUME \A o \in calls' : \E c \in calls : c.id = o.id /\ c.attempt = o.attempt,
             \A w \in Workers : Todo(w)' \subseteq Todo(w)
      PROVE  Numbers(d)' \subseteq Numbers(d)
  BY <1>2 DEF Numbers
<1>3. ASSUME \A c \in calls : \E o \in calls' : c.id = o.id /\ c.attempt = o.attempt,
             \A w \in Workers : Todo(w) \subseteq Todo(w)'
      PROVE  Numbers(d) \subseteq Numbers(d)'
  BY <1>3 DEF Numbers
<1>4. ~Present(d) => Numbers(d) = {}
  BY DEF Numbers, WorkIsQueued
<1> DEFINE Rests == /\ row'[d].status = row[d].status
                   /\ row'[d].attempts = row[d].attempts
           Queued == /\ Numbers(d) = {}
                     /\ row'[d].status = "pending"
                     /\ row'[d].attempts = 0
<1>5. ASSUME ~Present(d), row'[d] = PendingRow PROVE Queued
  BY <1>4, <1>5 DEF PendingRow, AbsentRow
<1>6. ASSUME UNCHANGED <<worker, calls>>
      PROVE  Numbers(d)' = Numbers(d) /\ (Rests \/ Queued)
  <2>1. Numbers(d)' = Numbers(d)
    BY <1>6 DEF Numbers, Todo, Phase
  <2>2. ASSUME NEW e \in Deliveries, NEW kind \in EventKinds, ProcessEvent(e, kind)
        PROVE  Rests
    <3>1. row' = row \/ row' = [row EXCEPT ![e].providerStatus = kind]
      BY <2>2 DEF ProcessEvent
    <3>2. row[e] \in DeliveryRow
      BY DEF TypeOK
    <3>3. /\ [row[e] EXCEPT !.providerStatus = kind].attempts = row[e].attempts
          /\ [row[e] EXCEPT !.providerStatus = kind].status = row[e].status
      BY <3>2, RowType
    <3> QED
      BY <3>1, <3>3 DEF TypeOK
  <2>3. ASSUME NEW e \in Deliveries, Reissue(e) PROVE Rests \/ Queued
    <3> DEFINE next == Issue(e, Sequence(e) + 1)
    <3>1. CASE d = next
      <4>1. ~Present(d) /\ row'[d] = PendingRow
        BY <2>3, <3>1 DEF Reissue, TypeOK
      <4> QED
        BY <1>5, <4>1
    <3>2. CASE d # next
      BY <2>3, <3>2 DEF Reissue, TypeOK
    <3> QED
      BY <3>1, <3>2
  <2>4. ASSUME row' = row PROVE Rests
    BY <2>4
  <2>5. ASSUME NEW w \in Workers,
               \/ Enqueue(w)
               \/ \E batch \in SUBSET Deliveries : ClaimBatch(w, batch)
        PROVE  FALSE
    <3>1. CASE Enqueue(w)
      BY <1>6, <3>1 DEF Enqueue, Goes, Phase, TypeOK, Claiming
    <3>2. ASSUME NEW batch \in SUBSET Deliveries, ClaimBatch(w, batch)
          PROVE  FALSE
      <4>1. worker[w].phase = "claiming"
        BY <3>2 DEF ClaimBatch, Phase
      <4>2. worker'[w].phase = "sending"
        BY <3>2 DEF ClaimBatch, Goes, TypeOK
      <4> QED
        BY <1>6, <4>1, <4>2
    <3> QED
      BY <2>5, <3>1, <3>2
  <2>6. ASSUME NEW c \in calls, Record(c) PROVE FALSE
    BY <1>6, <2>6 DEF Record
  <2>7. \/ row' = row
        \/ \E e \in Deliveries, kind \in EventKinds : ProcessEvent(e, kind)
        \/ \E e \in Deliveries : Reissue(e)
    BY <2>5, <2>6
       DEF Next, WorkerStep, CallStep, Claim, Release, Withdraw,
           ChangePreferences, FindRun, ListEligible, ClaimNothing, StartGroup,
           EndBatch, Check, CheckFails, Accept, Decline, RecordFails, Throw,
           IterationFails, Stop, Forget, vars
  <2> QED
    BY <2>1, <2>2, <2>3, <2>4, <2>7
\* a worker that moves on without a batch
<1>7. ASSUME NEW w \in Workers,
             FindRun(w) \/ ListEligible(w) \/ ClaimNothing(w) \/ EndBatch(w) \/ Enqueue(w)
      PROVE  Numbers(d)' = Numbers(d) /\ (Rests \/ Queued)
  <2>1. calls' = calls
    BY <1>7 DEF FindRun, ListEligible, ClaimNothing, EndBatch, Enqueue
  <2>2. \A v \in Workers : Todo(v)' = Todo(v)
    <3>1. Todo(w) = {}
      BY <1>7 DEF FindRun, ListEligible, ClaimNothing, EndBatch, Enqueue, Todo
    <3>2. CASE Goes(w, Claiming) \/ Goes(w, Idle)
      <4>1. worker \in [Workers -> WorkerStates]
        BY DEF TypeOK
      <4>2. \A v \in Workers : v # w => worker'[v] = worker[v]
        BY <3>2, <4>1 DEF Goes
      <4>3. worker'[w].phase # "sending"
        BY <3>2, <4>1 DEF Goes, Claiming, Idle
      <4>4. Todo(w)' = {}
        BY <4>3 DEF Todo, Phase
      <4>5. \A v \in Workers : v # w => Todo(v)' = Todo(v)
        BY <4>2 DEF Todo, Phase
      <4> QED
        BY <3>1, <4>4, <4>5
    <3>3. CASE FindRun(w)
      BY <3>1, <3>3 DEF FindRun, Goes, Claiming, Todo, Phase, TypeOK
    <3>4. CASE ListEligible(w)
      BY <3>1, <3>4 DEF ListEligible, Goes, Claiming, Todo, Phase, TypeOK
    <3> QED
      BY <1>7, <3>2, <3>3, <3>4 DEF ClaimNothing, EndBatch, Enqueue
  <2>3. Numbers(d)' = Numbers(d)
    BY <2>1, <2>2 DEF Numbers
  <2>4. CASE row' = row
    BY <2>3, <2>4
  <2>5. CASE Enqueue(w)
    <3>1. row'[d] = row[d] \/ (~Present(d) /\ row'[d] = PendingRow)
      BY <2>5 DEF Enqueue, Inserted
    <3> QED
      BY <1>5, <2>3, <3>1
  <2> QED
    BY <1>7, <2>4, <2>5 DEF FindRun, ListEligible, ClaimNothing, EndBatch
\* a group begins
<1>8. ASSUME NEW w \in Workers, StartGroup(w)
      PROVE  Numbers(d)' = Numbers(d) /\ Rests
  <2>1. row' = row
    BY <1>8 DEF StartGroup
  <2> PICK group \in SUBSET worker[w].todo :
         /\ calls' = calls \cup
               {[worker |-> w, id |-> t[1], attempt |-> t[2],
                 step |-> "checking", awaited |-> TRUE] : t \in group}
         /\ Goes(w, [worker[w] EXCEPT !.todo = worker[w].todo \ group])
    BY <1>8 DEF StartGroup
  <2>2. worker[w] \in [phase : {"sending"}, todo : SUBSET (Deliveries \X Nat)]
    BY <1>8 DEF StartGroup, Phase, WorkerStates, TypeOK
  <2>3. /\ Todo(w) = worker[w].todo
        /\ Todo(w)' = Todo(w) \ group
        /\ \A v \in Workers : v # w => Todo(v)' = Todo(v)
    BY <2>2 DEF Goes, Todo, Phase, TypeOK
  <2> DEFINE Begun(t) == [worker |-> w, id |-> t[1], attempt |-> t[2],
                          step |-> "checking", awaited |-> TRUE]
  <2>4. \A t \in group : t = <<Begun(t).id, Begun(t).attempt>> /\ t \in Todo(w)
    BY <1>1, <2>3
  <2>5. /\ \A o \in calls' : o \in calls \/ \E t \in group : o = Begun(t)
        /\ \A t \in group : Begun(t) \in calls'
        /\ calls \subseteq calls'
    OBVIOUS
  <2> HIDE DEF Begun
  <2>6. Numbers(d)' \subseteq Numbers(d)
    <3> SUFFICES ASSUME NEW n \in Numbers(d)' PROVE n \in Numbers(d)
      OBVIOUS
    <3>1. n \in Nat
      BY DEF Numbers
    <3>2. CASE \E v \in Workers : <<d, n>> \in Todo(v)'
      BY <2>3, <3>1, <3>2 DEF Numbers
    <3>3. ASSUME NEW o \in calls', o.id = d, o.attempt = n
          PROVE  n \in Numbers(d)
      <4>1. CASE o \in calls
        BY <3>1, <3>3, <4>1 DEF Numbers
      <4>2. ASSUME NEW t \in group, o = Begun(t) PROVE n \in Numbers(d)
        <5>1. <<d, n>> \in Todo(w)
          BY <2>4, <3>3, <4>2
        <5> QED
          BY <3>1, <5>1 DEF Numbers
      <4> QED
        BY <2>5, <4>1, <4>2
    <3> QED
      BY <3>2, <3>3 DEF Numbers
  <2>7. Numbers(d) \subseteq Numbers(d)'
    <3> SUFFICES ASSUME NEW n \in Numbers(d) PROVE n \in Numbers(d)'
      OBVIOUS
    <3>1. n \in Nat
      BY DEF Numbers
    <3>2. ASSUME NEW c \in calls, c.id = d, c.attempt = n PROVE n \in Numbers(d)'
      BY <2>5, <3>1, <3>2 DEF Numbers
    <3>3. ASSUME NEW v \in Workers, <<d, n>> \in Todo(v) PROVE n \in Numbers(d)'
      <4>1. CASE <<d, n>> \in group
        <5>1. Begun(<<d, n>>) \in calls' /\ <<d, n>> = <<Begun(<<d, n>>).id, Begun(<<d, n>>).attempt>>
          BY <2>4, <2>5, <4>1
        <5> QED
          BY <3>1, <5>1 DEF Numbers
      <4>2. CASE <<d, n>> \notin group
        <5>1. <<d, n>> \in Todo(v)'
          BY <2>3, <3>3, <4>2
        <5> QED
          BY <3>1, <5>1 DEF Numbers
      <4> QED
        BY <4>1, <4>2
    <3> QED
      BY <3>2, <3>3 DEF Numbers
  <2> QED
    BY <2>1, <2>6, <2>7
\* a call that goes on
<1>9. ASSUME NEW c \in calls, NEW step, CallGoes(c, step), UNCHANGED <<row, worker>>
      PROVE  Numbers(d)' = Numbers(d) /\ Rests
  <2>1. [c EXCEPT !.step = step].id = c.id /\ [c EXCEPT !.step = step].attempt = c.attempt
    BY DEF TypeOK, Calls
  <2>2. /\ \A o \in calls' : o \in calls \/ o = [c EXCEPT !.step = step]
        /\ \A o \in calls : o \in calls' \/ o = c
        /\ [c EXCEPT !.step = step] \in calls'
    BY <1>9 DEF CallGoes
  <2>3. \A v \in Workers : Todo(v)' = Todo(v)
    BY <1>9 DEF Todo, Phase
  <2> QED
    BY <1>2, <1>3, <1>9, <2>1, <2>2, <2>3
\* a call that ends with its outcome
<1>10. ASSUME NEW c \in calls, Record(c)
       PROVE  \/ Numbers(d)' = Numbers(d) /\ Rests
              \/ \E n \in Numbers(d) :
                    /\ Numbers(d)' = Numbers(d) \ {n}
                    /\ row'[d].status \in Outcomes
                    /\ row'[d].status = "retry" => n < MaximumAttempts
                    /\ row'[d].attempts = row[d].attempts
  <2>1. calls' = calls \ {c} /\ \A v \in Workers : Todo(v)' = Todo(v)
    BY <1>10 DEF Record, Todo, Phase
  <2>2. CASE c.id # d
    <3>1. row'[d] = row[d]
      BY <1>10, <2>2 DEF Record, TypeOK
    <3>2. Numbers(d)' = Numbers(d)
      BY <2>1, <2>2 DEF Numbers
    <3> QED
      BY <3>1, <3>2
  <2>3. CASE c.id = d
    <3>1. c.attempt \in Numbers(d)
      BY <1>1, <2>3 DEF Numbers
    <3>2. Numbers(d)' = Numbers(d) \ {c.attempt}
      <4>1. \A o \in calls : (o.id = d /\ o.attempt = c.attempt) => o = c
        BY <2>3 DEF HeldOnce
      <4>2. \A v \in Workers : <<d, c.attempt>> \notin Todo(v)
        BY <2>3 DEF HeldOnce
      <4> QED
        BY <2>1, <2>3, <4>1, <4>2 DEF Numbers
    <3>3. row'[d] = Recorded(d, c.step) /\ row[d] \in DeliveryRow /\ c.step \in Outcomes
      BY <1>10, <2>3 DEF Record, TypeOK
    <3>4. row'[d].status = c.step /\ row'[d].attempts = row[d].attempts
      BY <3>3, RowType DEF Recorded
    <3>5. c.step = "retry" => c.attempt < MaximumAttempts
      BY DEF RetriesHaveAttempts
    <3> QED
      BY <3>1, <3>2, <3>3, <3>4, <3>5
  <2> QED
    BY <2>2, <2>3
\* something goes wrong
<1>11. ASSUME NEW c \in calls, CheckFails(c) \/ RecordFails(c)
       PROVE  Numbers(d)' = Numbers(d) /\ Rests
  BY <1>9, <1>11 DEF CheckFails, RecordFails
<1>12. ASSUME NEW c \in calls, Throw(c)
       PROVE  Numbers(d)' \subseteq Numbers(d) /\ Rests /\ GoneWrong' = GoneWrong + 1
  <2>1. row' = row /\ GoneWrong' = GoneWrong + 1
    BY <1>12, WrongsCount DEF Throw
  <2>2. CASE ~c.awaited
    <3>1. calls' \subseteq calls /\ \A v \in Workers : Todo(v)' = Todo(v)
      BY <1>12, <2>2 DEF Throw, Todo, Phase
    <3> QED
      BY <1>2, <2>1, <3>1
  <2>3. CASE c.awaited
    <3> DEFINE Left(o) == IF o.worker = c.worker THEN [o EXCEPT !.awaited = FALSE]
                          ELSE o
    <3>1. \A o \in calls : Left(o).id = o.id /\ Left(o).attempt = o.attempt
      BY DEF TypeOK, Calls
    <3>2. \A o \in calls' : \E k \in calls : o = Left(k)
      BY <1>12, <2>3 DEF Throw
    <3> HIDE DEF Left
    <3>3. \A o \in calls' : \E k \in calls : k.id = o.id /\ k.attempt = o.attempt
      BY <3>1, <3>2
    <3>4. c.worker \in Workers
      BY DEF TypeOK, Calls
    <3>5. \A v \in Workers : Todo(v)' \subseteq Todo(v)
      BY <1>12, <2>3, <3>4 DEF Throw, Goes, Idle, Todo, Phase, TypeOK
    <3> QED
      BY <1>2, <2>1, <3>3, <3>5
  <2> QED
    BY <2>2, <2>3
<1>13. ASSUME NEW w \in Workers, IterationFails(w) \/ Stop(w)
       PROVE  Numbers(d)' \subseteq Numbers(d) /\ Rests /\ GoneWrong' = GoneWrong + 1
  <2>1. row' = row /\ GoneWrong' = GoneWrong + 1
    BY <1>13, WrongsCount DEF IterationFails, Stop
  <2>2. calls' \subseteq calls /\ \A v \in Workers : Todo(v)' \subseteq Todo(v)
    BY <1>13 DEF IterationFails, Stop, Goes, Idle, Todo, Phase, TypeOK
  <2> QED
    BY <1>2, <2>1, <2>2
\* a batch is claimed
<1>14. ASSUME NEW w \in Workers, NEW batch \in SUBSET Deliveries, ClaimBatch(w, batch)
       PROVE  \/ Numbers(d)' = Numbers(d) /\ Rests
              \/ /\ Numbers(d)' = Numbers(d) \cup {row[d].attempts + 1}
                 /\ row'[d].attempts = row[d].attempts + 1
                 /\ Claimable(d)
                 /\ row'[d].status = "sending"
                 /\ (row[d].status = "sending" /\ Numbers(d) # {})
                       => GoneWrong' = GoneWrong + 1
  <2>1. /\ calls' = calls
        /\ Todo(w) = {}
        /\ \A v \in Workers : v # w => Todo(v)' = Todo(v)
    BY <1>14 DEF ClaimBatch, Goes, Todo, Phase, TypeOK
  <2>2. Todo(w)' = {<<e, row'[e].attempts>> : e \in batch}
    BY <1>14 DEF ClaimBatch, Goes, Todo, Phase, TypeOK
  <2>3. CASE d \notin batch
    <3>1. row'[d] = row[d]
      BY <1>14, <2>3 DEF ClaimBatch
    <3>2. \A n : <<d, n>> \notin Todo(w)'
      BY <2>2, <2>3
    <3>3. Numbers(d)' = Numbers(d)
      BY <2>1, <3>2 DEF Numbers
    <3> QED
      BY <3>1, <3>3
  <2>4. CASE d \in batch
    <3>1. row[d] \in DeliveryRow
      BY DEF TypeOK
    <3>2. row'[d].attempts = row[d].attempts + 1 /\ row'[d].status = "sending"
      BY <1>14, <2>4, <3>1, RowType DEF ClaimBatch
    <3>3. \A n : <<d, n>> \in Todo(w)' <=> n = row[d].attempts + 1
      BY <2>2, <2>4, <3>2
    <3>4. Numbers(d)' = Numbers(d) \cup {row[d].attempts + 1}
      BY <1>1, <2>1, <3>3 DEF Numbers
    <3>5. Numbers(d) # {} => Held(d)
      BY DEF Numbers, Held, Todo
    <3>6. (row[d].status = "sending" /\ Held(d)) => GoneWrong' = GoneWrong + 1
      BY <1>14, <2>4, WrongsCount DEF ClaimBatch
    <3>7. Claimable(d)
      BY <1>14, <2>4 DEF ClaimBatch
    <3> QED
      BY <3>2, <3>4, <3>5, <3>6, <3>7
  <2> QED
    BY <2>3, <2>4
<1>15. ASSUME NEW c \in calls, Check(c) \/ Accept(c) \/ Decline(c)
       PROVE  Numbers(d)' = Numbers(d) /\ Rests
  BY <1>9, <1>15 DEF Check, Accept, Decline
<1>16. \/ Numbers(d)' = Numbers(d) /\ (Rests \/ Queued)
       \/ \E c \in calls : Record(c)
       \/ \E w \in Workers, batch \in SUBSET Deliveries : ClaimBatch(w, batch)
       \/ Numbers(d)' \subseteq Numbers(d) /\ Rests /\ GoneWrong' = GoneWrong + 1
  <2>1. CASE UNCHANGED <<worker, calls>>
    BY <1>6, <2>1
  <2> QED
    BY <1>7, <1>8, <1>11, <1>12, <1>13, <1>15, <2>1
       DEF Next, WorkerStep, CallStep, Claim, Release, Withdraw,
           ChangePreferences, Forget, ProcessEvent, Reissue, vars
<1> QED
  BY <1>10, <1>14, <1>16

\* the attempts of those who may still ask for a retry
LowNumbers(d) == {n \in Numbers(d) : n < MaximumAttempts}

\* the attempts there are, or were to be expected without any mishap, but one
Counted(d) ==
    IF row[d].attempts >= MaximumAttempts - 1 THEN row[d].attempts
    ELSE MaximumAttempts - 1

\* one if the delivery may be claimed without a mishap, now
Outstanding(d) ==
    IF \/ row[d].status \in {"pending", "retry"}
       \/ row[d].status = "sending" /\ Numbers(d) = {}
    THEN 1 ELSE 0

\* Every claim that was, and those that may come of what is held or waits, is
\* within the attempts or due to a mishap.
ClaimsCovered ==
    \A d \in Deliveries :
        Counted(d) + Cardinality(LowNumbers(d)) + Outstanding(d)
            <= MaximumAttempts + GoneWrong

\* There are finitely many low numbers; how many there are when one comes, one
\* goes, or some go.
LEMMA LowCounted ==
    ASSUME NEW d
    PROVE  IsFiniteSet(LowNumbers(d)) /\ Cardinality(LowNumbers(d)) \in Nat
<1>1. MaximumAttempts \in Nat
  BY DeliveryAssumption
<1>2. IsFiniteSet(0 .. MaximumAttempts)
  BY <1>1, FS_Interval
<1>3. LowNumbers(d) \in SUBSET (0 .. MaximumAttempts)
  BY <1>1 DEF LowNumbers, Numbers
<1>4. IsFiniteSet(LowNumbers(d))
  BY <1>2, <1>3, FS_Subset
<1> QED
  BY <1>4, FS_CardinalityType

\* Each step keeps claims covered.
LEMMA CoveredStep ==
    ASSUME TypeOK, WorkIsQueued, HeldOnce, RetriesHaveAttempts, ClaimsCovered,
           [Next]_vars
    PROVE  ClaimsCovered'
<1> SUFFICES ASSUME NEW d \in Deliveries
             PROVE  Counted(d)' + Cardinality(LowNumbers(d)') + Outstanding(d)'
                       <= MaximumAttempts + GoneWrong'
  BY DEF ClaimsCovered
<1>1. MaximumAttempts \in Nat /\ MaximumAttempts > 0
  BY DeliveryAssumption
<1>2. /\ GoneWrong \in Nat /\ GoneWrong' \in Nat /\ GoneWrong' >= GoneWrong
  BY WrongsCount
<1>3. row[d].attempts \in Nat
  BY WorkTypes
<1>4. Counted(d) + Cardinality(LowNumbers(d)) + Outstanding(d)
         <= MaximumAttempts + GoneWrong
  BY DEF ClaimsCovered
<1>5. /\ IsFiniteSet(LowNumbers(d)) /\ Cardinality(LowNumbers(d)) \in Nat
  BY LowCounted
<1>6. Counted(d) \in Nat /\ Outstanding(d) \in {0, 1}
  BY <1>1, <1>3 DEF Counted, Outstanding
<1>7. \A n \in Numbers(d) : n \in Nat /\ n <= row[d].attempts
  <2>1. \A w \in Workers : \A n : <<d, n>> \in Todo(w) => n <= row[d].attempts
    BY DEF HeldOnce
  <2> QED
    BY <2>1 DEF Numbers, HeldOnce
<1>8. CASE /\ Numbers(d)' = Numbers(d)
           /\ row'[d].status = row[d].status
           /\ row'[d].attempts = row[d].attempts
  <2>1. LowNumbers(d)' = LowNumbers(d)
    BY <1>8 DEF LowNumbers
  <2>2. Counted(d)' = Counted(d) /\ Outstanding(d)' = Outstanding(d)
    BY <1>8 DEF Counted, Outstanding
  <2> QED
    BY <1>1, <1>2, <1>4, <1>5, <1>6, <2>1, <2>2
<1>9. CASE /\ Numbers(d)' = Numbers(d) \cup {row[d].attempts + 1}
           /\ row'[d].attempts = row[d].attempts + 1
           /\ Claimable(d)
           /\ row'[d].status = "sending"
           /\ (row[d].status = "sending" /\ Numbers(d) # {})
                 => GoneWrong' = GoneWrong + 1
  <2>1. Outstanding(d)' = 0
    BY <1>9 DEF Outstanding
  <2>2. Outstanding(d) = 1 \/ GoneWrong' = GoneWrong + 1
    <3>1. CASE row[d].status = "sending" /\ Numbers(d) # {}
      BY <1>9, <3>1
    <3>2. CASE ~(row[d].status = "sending" /\ Numbers(d) # {})
      <4>1. row[d].status \in {"pending", "retry", "sending"}
        BY <1>9 DEF Claimable
      <4>2. Outstanding(d) = 1
        BY <3>2, <4>1 DEF Outstanding
      <4> QED
        BY <4>2
    <3> QED
      BY <3>1, <3>2
  <2>3. CASE row[d].attempts + 1 < MaximumAttempts
    <3>1. LowNumbers(d)' = LowNumbers(d) \cup {row[d].attempts + 1}
      BY <1>9, <2>3 DEF LowNumbers
    <3>2. row[d].attempts + 1 \notin LowNumbers(d)
      BY <1>3, <1>7 DEF LowNumbers
    <3>3. Cardinality(LowNumbers(d)') = Cardinality(LowNumbers(d)) + 1
      BY <1>5, <3>1, <3>2, FS_AddElement
    <3>4. Counted(d)' = Counted(d)
      BY <1>1, <1>3, <1>9, <2>3 DEF Counted
    <3> QED
      BY <1>1, <1>2, <1>4, <1>5, <1>6, <2>1, <2>2, <3>3, <3>4
  <2>4. CASE ~(row[d].attempts + 1 < MaximumAttempts)
    <3>1. LowNumbers(d)' = LowNumbers(d)
      BY <1>9, <2>4 DEF LowNumbers
    <3>2. Counted(d)' = Counted(d) + 1
      BY <1>1, <1>3, <1>9, <2>4 DEF Counted
    <3> QED
      BY <1>1, <1>2, <1>4, <1>5, <1>6, <2>1, <2>2, <3>1, <3>2
  <2> QED
    BY <2>3, <2>4
<1>10. ASSUME NEW n \in Numbers(d),
              Numbers(d)' = Numbers(d) \ {n},
              row'[d].status \in Outcomes,
              row'[d].status = "retry" => n < MaximumAttempts,
              row'[d].attempts = row[d].attempts
       PROVE  Counted(d)' + Cardinality(LowNumbers(d)') + Outstanding(d)'
                 <= MaximumAttempts + GoneWrong'
  <2>1. Counted(d)' = Counted(d)
    BY <1>10 DEF Counted
  <2>2. LowNumbers(d)' = LowNumbers(d) \ {n}
    BY <1>10 DEF LowNumbers
  <2>3. CASE row'[d].status = "retry"
    <3>1. n \in LowNumbers(d)
      BY <1>10, <2>3 DEF LowNumbers
    <3>2. Cardinality(LowNumbers(d)') = Cardinality(LowNumbers(d)) - 1
      BY <1>5, <2>2, <3>1, FS_RemoveElement
    <3>3. Outstanding(d)' = 1
      BY <2>3 DEF Outstanding
    <3> QED
      BY <1>1, <1>2, <1>4, <1>5, <1>6, <2>1, <3>2, <3>3
  <2>4. CASE row'[d].status # "retry"
    <3>1. Outstanding(d)' = 0
      BY <1>10, <2>4 DEF Outstanding, Outcomes
    <3>2. /\ Cardinality(LowNumbers(d)') \in Nat
          /\ Cardinality(LowNumbers(d)') <= Cardinality(LowNumbers(d))
      <4>1. LowNumbers(d)' \in SUBSET LowNumbers(d)
        BY <2>2
      <4> QED
        BY <1>5, <4>1, FS_Subset, FS_CardinalityType
    <3> QED
      BY <1>1, <1>2, <1>4, <1>5, <1>6, <2>1, <3>1, <3>2
  <2> QED
    BY <2>3, <2>4
<1>11. CASE /\ Numbers(d)' \subseteq Numbers(d)
            /\ row'[d].status = row[d].status
            /\ row'[d].attempts = row[d].attempts
            /\ GoneWrong' = GoneWrong + 1
  <2>1. Counted(d)' = Counted(d)
    BY <1>11 DEF Counted
  <2>2. Outstanding(d)' \in {0, 1}
    BY DEF Outstanding
  <2>3. /\ Cardinality(LowNumbers(d)') \in Nat
        /\ Cardinality(LowNumbers(d)') <= Cardinality(LowNumbers(d))
    <3>1. LowNumbers(d)' \in SUBSET LowNumbers(d)
      BY <1>11 DEF LowNumbers
    <3> QED
      BY <1>5, <3>1, FS_Subset, FS_CardinalityType
  <2>4. Outstanding(d)' <= Outstanding(d) + 1
    BY <1>6, <2>2
  <2> QED
    BY <1>1, <1>2, <1>4, <1>5, <1>6, <1>11, <2>1, <2>2, <2>3, <2>4
<1>12. CASE /\ Numbers(d) = {} /\ Numbers(d)' = {}
            /\ row'[d].status = "pending"
            /\ row'[d].attempts = 0
  <2>1. LowNumbers(d)' = {}
    BY <1>12 DEF LowNumbers
  <2>2. Cardinality(LowNumbers(d)') = 0
    BY <2>1, FS_EmptySet
  <2>3. Counted(d)' = MaximumAttempts - 1
    BY <1>1, <1>12 DEF Counted
  <2>4. Outstanding(d)' = 1
    BY <1>12 DEF Outstanding
  <2>5. Counted(d)' + Cardinality(LowNumbers(d)') + Outstanding(d)' = MaximumAttempts
    BY <1>1, <2>2, <2>3, <2>4
  <2> QED
    BY <1>1, <1>2, <2>5
<1> QED
  BY <1>8, <1>9, <1>10, <1>11, <1>12, NumbersMove

AttemptsInv == HeldOnce /\ RetriesHaveAttempts /\ ClaimsCovered

\* No delivery is claimed more often than it may be attempted, but for mishaps.
THEOREM AttemptsAreBounded == Spec => []AttemptsBounded
<1>1. Init => AttemptsInv
  <2> SUFFICES ASSUME Init PROVE AttemptsInv
    OBVIOUS
  <2>1. calls = {} /\ \A w \in Workers : Todo(w) = {}
    BY DEF Init, Todo, Phase, Idle
  <2>2. HeldOnce /\ RetriesHaveAttempts
    BY <2>1 DEF HeldOnce, RetriesHaveAttempts
  <2>3. ClaimsCovered
    <3> SUFFICES ASSUME NEW d \in Deliveries
                 PROVE  Counted(d) + Cardinality(LowNumbers(d)) + Outstanding(d)
                           <= MaximumAttempts + GoneWrong
      BY DEF ClaimsCovered
    <3>1. LowNumbers(d) = {}
      BY <2>1 DEF LowNumbers, Numbers
    <3>2. row[d].status = "absent" /\ row[d].attempts = 0
      BY DEF Init, AbsentRow
    <3>3. MaximumAttempts \in Nat /\ MaximumAttempts > 0
      BY DeliveryAssumption
    <3>4. Counted(d) = MaximumAttempts - 1 /\ Outstanding(d) = 0
      BY <3>2, <3>3 DEF Counted, Outstanding
    <3>5. Cardinality(LowNumbers(d)) = 0
      BY <3>1, FS_EmptySet
    <3>6. GoneWrong \in Nat
      BY InitTypeOK, WrongsCount
    <3> QED
      BY <3>3, <3>4, <3>5, <3>6
  <2> QED
    BY <2>2, <2>3 DEF AttemptsInv
<1>2. NewsletterInv /\ AttemptsInv /\ [Next]_vars => AttemptsInv'
  BY HeldOnceStep, RetriesStep, CoveredStep DEF AttemptsInv, NewsletterInv
<1>3. NewsletterInv /\ AttemptsInv => AttemptsBounded
  <2> SUFFICES ASSUME NewsletterInv, AttemptsInv
               PROVE  AttemptsBounded
    OBVIOUS
  <2>1. TypeOK
    BY DEF NewsletterInv
  <2>2. ASSUME NEW d \in Deliveries
        PROVE  row[d].attempts <= MaximumAttempts + GoneWrong
    <3>1. Counted(d) + Cardinality(LowNumbers(d)) + Outstanding(d)
             <= MaximumAttempts + GoneWrong
      BY DEF AttemptsInv, ClaimsCovered
    <3>2. row[d].attempts \in Nat /\ GoneWrong \in Nat /\ MaximumAttempts \in Nat
      BY <2>1, WorkTypes, WrongsCount, DeliveryAssumption
    <3>3. Counted(d) \in Int /\ Counted(d) >= row[d].attempts
      BY <3>2 DEF Counted
    <3>4. Cardinality(LowNumbers(d)) \in Nat /\ Outstanding(d) \in Nat
      BY LowCounted DEF Outstanding
    <3> QED
      BY <3>1, <3>2, <3>3, <3>4
  <2>3. /\ mishaps["stop"] \in Nat /\ mishaps["late"] \in Nat
        /\ mishaps["error"] \in Nat /\ MaximumAttempts \in Nat
    BY <2>1, DeliveryAssumption DEF TypeOK, MishapKinds
  <2>4. MaximumAttempts + mishaps["stop"] + mishaps["late"] + mishaps["error"]
           = MaximumAttempts + GoneWrong
    BY <2>3 DEF GoneWrong
  <2> QED
    BY <2>2, <2>4 DEF AttemptsBounded
<1> QED
  BY <1>1, <1>2, <1>3, NewsletterInvariant, PTL DEF Spec

=============================================================================
