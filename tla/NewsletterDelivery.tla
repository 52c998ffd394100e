-------------------------- MODULE NewsletterDelivery --------------------------
(***************************************************************************)
(* The mailing of released runs: src/src/newsletter/delivery.ts with       *)
(* reissue.ts and the provider's events of events.ts, as the newsletter    *)
(* loops of the background processes and the web process run them.         *)
(*                                                                         *)
(* A worker queues the latest released run for its subscribers, claims a   *)
(* batch of deliveries and sends them in groups.  A call is one execution  *)
(* of deliver(): each of its statements, and the request to the provider,  *)
(* is a step.  The pipeline is seen as the release of runs, which          *)
(* DigestPipeline models, subscribers as the editions they want.           *)
(*                                                                         *)
(* Times are the order of what happened.  A retry may be claimed at once   *)
(* (its delay of seconds is left out); a delivery in "sending" may be      *)
(* claimed when nobody works on it any more, or, as a mishap, although     *)
(* somebody has for a minute.                                              *)
(***************************************************************************)
EXTENDS Integers, FiniteSets

CONSTANTS
    RunCount,        \* bound: scheduled digest runs that are released
    Edition,         \* which of Editions each run is, or "none"
    Subscribers,
    Workers,         \* newsletter loops, one per process
    BatchSize, Concurrency, MaximumAttempts,   \* NewsletterDeliveryOptions
    EventKinds,      \* kinds of events the provider sends
    MaxSequence,     \* bound: issues of one run to one subscriber
    Mishaps          \* how often what may go wrong does: see MishapKinds

\* runs in the order of their release
Runs == 1 .. RunCount

Editions == {"morning", "evening"}

\* a process stops; a call or a batch outlasts the minute of its claim; a
\* statement fails; a released run is taken back (DigestPipeline's WriteRun);
\* the provider forgets an idempotency key, which it does after a day
MishapKinds == {"stop", "late", "error", "withdrawal", "forgotten"}

\* in the order in which they happen to a mail
StatusOrder == <<"none", "sent", "delivered", "complained", "unsubscribed">>

ASSUME DeliveryAssumption ==
    /\ Edition \in [Runs -> Editions \cup {"none"}]
    /\ {RunCount, BatchSize, Concurrency, MaximumAttempts, MaxSequence} \subseteq Nat \ {0}
    /\ EventKinds \subseteq {"delivered", "complained", "unsubscribed"}
    /\ Mishaps \in [MishapKinds -> Nat]
    /\ IsFiniteSet(Workers)

VARIABLES
    run,         \* digest_runs, as far as the newsletter reads them
    subscriber,  \* subscribers
    row,         \* newsletter_deliveries, by run, subscriber and sequence
    events,      \* newsletter_provider_events: <<delivery, kind>>
    worker,      \* what each worker's iteration holds
    calls,       \* executions of deliver()
    mails,       \* the provider: mails accepted for each delivery
    keys,        \* the provider: idempotency keys it remembers
    notified,    \* what the provider has been told arrived, and should suppress
    mishaps      \* what has gone wrong so far

vars == <<run, subscriber, row, events, worker, calls, mails, keys, notified,
          mishaps>>

-----------------------------------------------------------------------------

Deliveries == Runs \X Subscribers \X (1 .. MaxSequence)

RunOf(d) == d[1]

SubscriberOf(d) == d[2]

Sequence(d) == d[3]

Issue(d, n) == <<RunOf(d), SubscriberOf(d), n>>

RunRow == [deliverable : BOOLEAN, readyAt : Nat]

SubscriberRow == [editions : SUBSET Editions, suppressed : BOOLEAN]

FinalStatuses == {"sent", "failed"}

\* bounced and suppressed are as complained
SuppressingKinds == {"complained", "unsubscribed"}

DeliveryRow ==
    [status : {"absent", "pending", "sending", "retry"} \cup FinalStatuses,
     attempts : Nat,
     hasMessageId : BOOLEAN,
     providerStatus : {StatusOrder[i] : i \in DOMAIN StatusOrder}]

WorkerStates ==
    [phase : {"idle", "claiming"}]
    \cup [phase : {"listing"}, run : Runs, readyAt : Nat]
    \cup [phase : {"inserting"}, run : Runs, eligible : SUBSET Subscribers]
    \cup [phase : {"sending"}, todo : SUBSET (Deliveries \X Nat)]

\* a call's step is what it does next; the last three record its outcome
Outcomes == {"sent", "retry", "failed"}

Calls == [worker : Workers, id : Deliveries, attempt : Nat,
          step : {"checking", "requesting"} \cup Outcomes, awaited : BOOLEAN]

TypeOK ==
    /\ run \in [Runs -> RunRow]
    /\ subscriber \in [Subscribers -> SubscriberRow]
    /\ row \in [Deliveries -> DeliveryRow]
    /\ events \subseteq Deliveries \X EventKinds
    /\ worker \in [Workers -> WorkerStates]
    /\ calls \subseteq Calls
    /\ mails \in [Deliveries -> Nat]
    /\ keys \subseteq Deliveries
    /\ notified \subseteq Deliveries \X SuppressingKinds
    /\ mishaps \in [MishapKinds -> Nat]

-----------------------------------------------------------------------------

Present(d) == row[d].status # "absent"

Phase(w) == worker[w].phase

Goes(w, state) == worker' = [worker EXCEPT ![w] = state]

Idle == [phase |-> "idle"]

Claiming == [phase |-> "claiming"]

MayGoWrong(kind) == mishaps[kind] < Mishaps[kind]

GoesWrong(kind) == mishaps' = [mishaps EXCEPT ![kind] = @ + 1]

Rank(status) == CHOOSE i \in DOMAIN StatusOrder : StatusOrder[i] = status

AbsentRow == [status |-> "absent", attempts |-> 0, hasMessageId |-> FALSE,
              providerStatus |-> "none"]

PendingRow == [AbsentRow EXCEPT !.status = "pending"]

\* an edition without a run makes no difference
Offered == {Edition[r] : r \in Runs} \cap Editions

Eligible(s, r) ==
    ~subscriber[s].suppressed /\ Edition[r] \in subscriber[s].editions

Init ==
    /\ run = [r \in Runs |-> [deliverable |-> FALSE, readyAt |-> 0]]
    /\ subscriber = [s \in Subscribers |->
                        [editions |-> Offered, suppressed |-> FALSE]]
    /\ row = [d \in Deliveries |-> AbsentRow]
    /\ events = {}
    /\ worker = [w \in Workers |-> Idle]
    /\ calls = {}
    /\ mails = [d \in Deliveries |-> 0]
    /\ keys = {}
    /\ notified = {}
    /\ mishaps = [k \in MishapKinds |-> 0]

-----------------------------------------------------------------------------
(* The pipeline and the subscribers.                                       *)

\* one more than the releases and withdrawals so far
Now ==
    1 + Cardinality({r \in Runs : run[r].readyAt > 0}) + mishaps["withdrawal"]

Release(r) ==
    /\ run[r].readyAt = 0
    /\ \A earlier \in 1 .. r - 1 : run[earlier].readyAt > 0
    /\ run' = [run EXCEPT ![r] = [deliverable |-> TRUE, readyAt |-> Now]]
    /\ UNCHANGED <<subscriber, row, events, worker, calls, mails, keys,
                   notified, mishaps>>

\* newsletterReadyAt is cleared: readers fall back to updatedAt
Withdraw(r) ==
    /\ run[r].deliverable
    /\ MayGoWrong("withdrawal")
    /\ GoesWrong("withdrawal")
    /\ run' = [run EXCEPT ![r] = [deliverable |-> FALSE, readyAt |-> Now]]
    /\ UNCHANGED <<subscriber, row, events, worker, calls, mails, keys, notified>>

\* faulty: whoever chooses editions again is no longer suppressed
ChangePreferencesAnew(s, wanted) ==
    /\ subscriber' = [subscriber EXCEPT ![s] = [editions |-> wanted,
                                               suppressed |-> FALSE]]
    /\ UNCHANGED <<run, row, events, worker, calls, mails, keys, notified,
                   mishaps>>

\* no editions: unsubscribed
ChangePreferences(s, wanted) ==
    /\ ~subscriber[s].suppressed
    /\ subscriber' = [subscriber EXCEPT ![s].editions = wanted]
    /\ UNCHANGED <<run, row, events, worker, calls, mails, keys, notified,
                   mishaps>>

-----------------------------------------------------------------------------
(* enqueueDeliverableRuns.                                                 *)

Latest(r) ==
    /\ run[r].deliverable
    /\ \A other \in Runs :
          run[other].deliverable => run[other].readyAt <= run[r].readyAt

FindRun(w) ==
    /\ Phase(w) = "idle"
    /\ \/ \E r \in Runs :
            /\ Latest(r)
            /\ Goes(w, [phase |-> "listing", run |-> r,
                        readyAt |-> run[r].readyAt])
       \/ /\ \A r \in Runs : ~run[r].deliverable
          /\ Goes(w, Claiming)
    /\ UNCHANGED <<run, subscriber, row, events, calls, mails, keys, notified,
                   mishaps>>

\* faulty: only whether this run was queued for the subscriber is asked
NoLaterDeliveryOfThisRun(s, w) ==
    \A d \in Deliveries :
        (Present(d) /\ SubscriberOf(d) = s /\ RunOf(d) = worker[w].run)
            => run[RunOf(d)].readyAt < worker[w].readyAt

NoLaterDelivery(s, w) ==
    \A d \in Deliveries :
        (Present(d) /\ SubscriberOf(d) = s)
            => run[RunOf(d)].readyAt < worker[w].readyAt

\* The code reads the latest deliveries first and the subscribers last; what
\* is queued in between by another worker is met again by the unique index.
ListEligible(w) ==
    /\ Phase(w) = "listing"
    /\ LET r == worker[w].run
           eligible == {s \in Subscribers : Eligible(s, r) /\ NoLaterDelivery(s, w)}
       IN Goes(w, IF eligible = {} THEN Claiming
                  ELSE [phase |-> "inserting", run |-> r, eligible |-> eligible])
    /\ UNCHANGED <<run, subscriber, row, events, calls, mails, keys, notified,
                   mishaps>>

\* faulty: a delivery that is there is queued again
InsertedAnyway(w) ==
    {d \in Deliveries : /\ RunOf(d) = worker[w].run
                        /\ SubscriberOf(d) \in worker[w].eligible
                        /\ Sequence(d) = 1}

\* onConflictDoNothing on (run, subscriber, sequence)
Inserted(w) ==
    {d \in Deliveries : /\ RunOf(d) = worker[w].run
                        /\ SubscriberOf(d) \in worker[w].eligible
                        /\ Sequence(d) = 1
                        /\ ~Present(d)}

Enqueue(w) ==
    /\ Phase(w) = "inserting"
    /\ row' = [d \in Deliveries |->
                 IF d \in Inserted(w) THEN PendingRow ELSE row[d]]
    /\ Goes(w, Claiming)
    /\ UNCHANGED <<run, subscriber, events, calls, mails, keys, notified, mishaps>>

-----------------------------------------------------------------------------
(* claim, and the groups of process.                                       *)

\* somebody in this world still means to work on the delivery
Held(d) ==
    \/ \E c \in calls : c.id = d
    \/ \E w \in Workers : Phase(w) = "sending" /\ \E t \in worker[w].todo : t[1] = d

\* faulty: a delivery whose worker is gone stays where it is
ClaimableWaiting(d) == row[d].status \in {"pending", "retry"}

Claimable(d) == row[d].status \in {"pending", "retry", "sending"}

\* The oldest due rows that no other transaction has locked: any of them.
ClaimBatch(w, batch) ==
    /\ Phase(w) = "claiming"
    /\ batch # {} /\ Cardinality(batch) <= BatchSize
    /\ \A d \in batch : Claimable(d)
    /\ IF \E d \in batch : row[d].status = "sending" /\ Held(d)
       THEN MayGoWrong("late") /\ GoesWrong("late")
       ELSE UNCHANGED mishaps
    /\ row' = [d \in Deliveries |->
                 IF d \in batch
                 THEN [row[d] EXCEPT !.status = "sending", !.attempts = @ + 1]
                 ELSE row[d]]
    /\ Goes(w, [phase |-> "sending",
                todo |-> {<<d, row'[d].attempts>> : d \in batch}])
    /\ UNCHANGED <<run, subscriber, events, calls, mails, keys, notified>>

\* nothing is due, or others have it locked
ClaimNothing(w) ==
    /\ Phase(w) = "claiming"
    /\ Goes(w, Idle)
    /\ UNCHANGED <<run, subscriber, row, events, calls, mails, keys, notified,
                   mishaps>>

AwaitsCalls(w) == \E c \in calls : c.worker = w /\ c.awaited

StartGroup(w) ==
    /\ Phase(w) = "sending"
    /\ ~AwaitsCalls(w)
    /\ LET todo == worker[w].todo IN
       \E group \in SUBSET todo :
          /\ group # {}
          /\ \/ Cardinality(group) = Concurrency
             \/ Cardinality(group) < Concurrency /\ group = todo
          /\ calls' = calls \cup
                {[worker |-> w, id |-> t[1], attempt |-> t[2],
                  step |-> "checking", awaited |-> TRUE] : t \in group}
          /\ Goes(w, [worker[w] EXCEPT !.todo = todo \ group])
    /\ UNCHANGED <<run, subscriber, row, events, mails, keys, notified, mishaps>>

EndBatch(w) ==
    /\ Phase(w) = "sending"
    /\ worker[w].todo = {}
    /\ ~AwaitsCalls(w)
    /\ Goes(w, Idle)
    /\ UNCHANGED <<run, subscriber, row, events, calls, mails, keys, notified,
                   mishaps>>

-----------------------------------------------------------------------------
(* deliver.                                                                *)

CallGoes(c, step) == calls' = (calls \ {c}) \cup {[c EXCEPT !.step = step]}

\* subscriber and digest are read together, the token of the links is stored
Check(c) ==
    /\ c.step = "checking"
    /\ CallGoes(c, IF Eligible(SubscriberOf(c.id), RunOf(c.id))
                      /\ run[RunOf(c.id)].deliverable
                   THEN "requesting" ELSE "failed")
    /\ UNCHANGED <<run, subscriber, row, events, worker, mails, keys, notified,
                   mishaps>>

\* a statement of deliver fails other than the last one: "internal"
CheckFails(c) ==
    /\ c.step = "checking"
    /\ MayGoWrong("error")
    /\ GoesWrong("error")
    /\ CallGoes(c, "failed")
    /\ UNCHANGED <<run, subscriber, row, events, worker, mails, keys, notified>>

\* faulty: with the attempt in its key no request is ever known
IsDuplicateOfAttempt(c) == FALSE

\* the provider remembers the key "digest/<id>"
IsDuplicate(c) == c.id \in keys

\* faulty: one attempt too many
AfterRetryableErrorOneMore(c) ==
    IF c.attempt <= MaximumAttempts THEN "retry" ELSE "failed"

AfterRetryableError(c) ==
    IF c.attempt < MaximumAttempts THEN "retry" ELSE "failed"

\* faulty: no answer in time counts as success
AfterTimeoutSent(c) == "sent"

AfterTimeout(c) == AfterRetryableError(c)

\* The request is accepted (again).  Its answer arrives; or not; or stops or
\* does not parse while its body is read, which is no DeliveryProviderError.
Accept(c) ==
    /\ c.step = "requesting"
    /\ mails' = [mails EXCEPT ![c.id] = IF IsDuplicate(c) THEN @ ELSE @ + 1]
    /\ keys' = keys \cup {c.id}
    /\ \E step \in {"sent", AfterTimeout(c), "failed"} : CallGoes(c, step)
    /\ UNCHANGED <<run, subscriber, row, events, worker, notified, mishaps>>

\* timeout before the provider saw it, 429, 5xx: retryable; other answers not
Decline(c) ==
    /\ c.step = "requesting"
    /\ \E step \in {AfterTimeout(c), "failed"} : CallGoes(c, step)
    /\ UNCHANGED <<run, subscriber, row, events, worker, mails, keys, notified,
                   mishaps>>

Recorded(d, outcome) ==
    IF outcome = "sent"
    THEN [row[d] EXCEPT !.status = "sent", !.hasMessageId = TRUE,
                        !.providerStatus = "sent"]
    ELSE [row[d] EXCEPT !.status = outcome]

\* the row is addressed by its id alone
Record(c) ==
    /\ c.step \in Outcomes
    /\ row' = [row EXCEPT ![c.id] = Recorded(c.id, c.step)]
    /\ calls' = calls \ {c}
    /\ UNCHANGED <<run, subscriber, events, worker, mails, keys, notified, mishaps>>

\* "sent" cannot be stored: the catch block stores "failed"
RecordFails(c) ==
    /\ c.step = "sent"
    /\ MayGoWrong("error")
    /\ GoesWrong("error")
    /\ CallGoes(c, "failed")
    /\ UNCHANGED <<run, subscriber, row, events, worker, mails, keys, notified>>

\* The catch block's own update fails: the call rejects, with it the batch,
\* whose other calls go on.  A call of a rejected batch rejects unnoticed.
Throw(c) ==
    /\ c.step \in {"retry", "failed"}
    /\ MayGoWrong("error")
    /\ GoesWrong("error")
    /\ IF c.awaited
       THEN /\ Goes(c.worker, Idle)
            /\ calls' = {IF o.worker = c.worker THEN [o EXCEPT !.awaited = FALSE]
                         ELSE o : o \in calls \ {c}}
       ELSE calls' = calls \ {c} /\ UNCHANGED worker
    /\ UNCHANGED <<run, subscriber, row, events, mails, keys, notified>>

\* a statement of the iteration fails before anything is claimed
IterationFails(w) ==
    /\ Phase(w) \in {"listing", "inserting", "claiming"}
    /\ MayGoWrong("error")
    /\ GoesWrong("error")
    /\ Goes(w, Idle)
    /\ UNCHANGED <<run, subscriber, row, events, calls, mails, keys, notified>>

Stop(w) ==
    /\ Phase(w) # "idle" \/ \E c \in calls : c.worker = w
    /\ MayGoWrong("stop")
    /\ GoesWrong("stop")
    /\ Goes(w, Idle)
    /\ calls' = {c \in calls : c.worker # w}
    /\ UNCHANGED <<run, subscriber, row, events, mails, keys, notified>>

-----------------------------------------------------------------------------
(* The provider, its webhook, and the operator.                            *)

Forget(d) ==
    /\ d \in keys
    /\ MayGoWrong("forgotten")
    /\ GoesWrong("forgotten")
    /\ keys' = keys \ {d}
    /\ UNCHANGED <<run, subscriber, row, events, worker, calls, mails, notified>>

\* faulty: whatever comes last counts
IsNewsAlways(d, kind) == TRUE

IsNews(d, kind) == Rank(row[d].providerStatus) <= Rank(kind)

\* An event about an accepted mail arrives, first or once more.  One that finds
\* no delivery is ignored, and acknowledged like any other.
ProcessEvent(d, kind) ==
    /\ mails[d] > 0
    /\ notified' = notified \cup ({<<d, kind>>} \cap (Deliveries \X SuppressingKinds))
    /\ IF row[d].hasMessageId /\ <<d, kind>> \notin events
       THEN /\ events' = events \cup {<<d, kind>>}
            /\ row' = IF IsNews(d, kind)
                      THEN [row EXCEPT ![d].providerStatus = kind] ELSE row
            /\ subscriber' =
                 IF kind \notin SuppressingKinds \/ subscriber[SubscriberOf(d)].suppressed
                 THEN subscriber
                 ELSE [subscriber EXCEPT ![SubscriberOf(d)] =
                         [suppressed |-> TRUE,
                          editions |-> IF kind = "unsubscribed" THEN {}
                                       ELSE @.editions]]
       ELSE UNCHANGED <<events, row, subscriber>>
    /\ UNCHANGED <<run, worker, calls, mails, keys, mishaps>>

\* faulty: an operator may ask again before the last one went out
ReissuableAnyway(d) == row[d].status \in FinalStatuses

Reissuable(d) == row[d].status = "sent"

Reissue(d) ==
    /\ Reissuable(d)
    /\ Sequence(d) < MaxSequence
    /\ ~Present(Issue(d, Sequence(d) + 1))   \* the latest of its run
    /\ row' = [row EXCEPT ![Issue(d, Sequence(d) + 1)] = PendingRow]
    /\ UNCHANGED <<run, subscriber, events, worker, calls, mails, keys, notified,
                   mishaps>>

-----------------------------------------------------------------------------

WorkerStep(w) ==
    FindRun(w) \/ ListEligible(w) \/ Enqueue(w) \/ ClaimNothing(w)
    \/ StartGroup(w) \/ EndBatch(w)

CallStep(c) == Check(c) \/ Accept(c) \/ Decline(c) \/ Record(c)

Claim(d) ==
    \E w \in Workers, batch \in SUBSET Deliveries :
        d \in batch /\ ClaimBatch(w, batch)

Next ==
    \/ \E r \in Runs : Release(r) \/ Withdraw(r)
    \/ \E s \in Subscribers, wanted \in SUBSET Offered :
          ChangePreferences(s, wanted)
    \/ \E w \in Workers : WorkerStep(w) \/ IterationFails(w) \/ Stop(w)
    \/ \E d \in Deliveries : Claim(d) \/ Forget(d) \/ Reissue(d)
    \/ \E c \in calls : CallStep(c) \/ CheckFails(c) \/ RecordFails(c) \/ Throw(c)
    \/ \E d \in Deliveries, kind \in EventKinds : ProcessEvent(d, kind)

Spec == Init /\ [][Next]_vars

\* Loops and calls go on; the oldest due delivery comes first, so each that
\* can be claimed again and again is at last.
Fairness ==
    /\ \A w \in Workers : WF_vars(WorkerStep(w))
    /\ \A d \in Deliveries : SF_vars(Claim(d))
    /\ \A d \in Deliveries : WF_vars(\E c \in calls : c.id = d /\ CallStep(c))

FairSpec == Spec /\ Fairness

-----------------------------------------------------------------------------

\* A delivery is mailed once, however often it is claimed, as long as the
\* provider remembers its key (delivery.ts:282; ROADMAP.md:129-130).
MailedOnce ==
    \A d \in Deliveries : mails[d] <= 1 + mishaps["forgotten"]

\* What is recorded as sent has been accepted by the provider
\* (delivery.ts:284-296).
SentWasMailed ==
    \A d \in Deliveries : row[d].status = "sent" => mails[d] > 0

\* A further issue of a run follows one that reached its reader: whoever gets
\* a run twice was meant to (reissue.ts:22, :39).
ReissuesFollowMails ==
    \A d \in Deliveries :
        (Sequence(d) > 1 /\ Present(d)) => mails[Issue(d, Sequence(d) - 1)] > 0

\* Nothing is tried beyond maximumAttempts, but for attempts whose process
\* stopped, outlasted its minute or could not store its outcome
\* (delivery.ts:190-196, :303).
AttemptsBounded ==
    \A d \in Deliveries :
        row[d].attempts <= MaximumAttempts + mishaps["stop"] + mishaps["late"]
                              + mishaps["error"]

\* Of the events that came, in any order and number, the status shows the last
\* that happened, unless an overtaken call wrote over it (events.ts:88-104).
StatusIsLatest ==
    \A e \in events :
        mishaps["late"] = 0 => Rank(e[2]) <= Rank(row[e[1]].providerStatus)

\* Every complaint on record has suppressed its subscriber, whatever came
\* before or after it (events.ts:106-133).
ComplaintsOnRecordSuppress ==
    \A e \in events :
        e[2] \in SuppressingKinds => subscriber[SubscriberOf(e[1])].suppressed

\* As long as nobody outlasts the minute of a claim, final outcomes are final
\* (delivery.ts:185-197; ROADMAP.md:135-136).
FinalOutcomesStand ==
    [][\A d \in Deliveries :
          (row[d].status \in FinalStatuses /\ mishaps'["late"] = 0)
              => row'[d].status = row[d].status]_vars

\* With one worker, a subscriber is never queued for a run that was released
\* before one already queued for them, even if that one has been taken back: no
\* backlog, forward only (delivery.ts:115-161; ROADMAP.md:190, :208).
ForwardOnly ==
    [][Cardinality(Workers) = 1 =>
          \A d, e \in Deliveries :
              (/\ ~Present(d) /\ Present(d)' /\ Sequence(d) = 1
               /\ Present(e) /\ SubscriberOf(e) = SubscriberOf(d))
                  => RunOf(e) < RunOf(d)]_vars

\* Every delivery that is queued reaches a final outcome.
DeliveriesEnd ==
    \A d \in Deliveries : Present(d) ~> row[d].status \in FinalStatuses

\* A complaint the webhook has acknowledged suppresses its subscriber
\* (newsletter-delivery-and-compliance.md:162-163).
ComplaintSuppresses ==
    \A e \in notified : subscriber[SubscriberOf(e[1])].suppressed

\* If the provider accepted a request whose answer was not understood in time,
\* and attempts are left, the outcome is unknown and not final
\* (newsletter-delivery-and-compliance.md:203-205).
UnknownOutcomeIsRetried ==
    [][\A c \in calls :
          (mails'[c.id] > mails[c.id] /\ c.step = "requesting"
             /\ c.attempt < MaximumAttempts)
              => [c EXCEPT !.step = "failed"] \notin calls']_vars

=============================================================================
