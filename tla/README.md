# A TLA+ model of hn-digest

This directory models the core of hn-digest: when editions are due and what is
in them, how a story gets its article and its comments, the queue of analysis
jobs and the workers that drain it, what the LLM is asked, may spend and
answers, the pipeline that turns a scheduled run into a digest that may be
mailed, the mailing, and the consent of those who get the mail. The modules are
written from the TypeScript and SQL of the repository; `PROJECT.json` maps each
definition to its lines. Paths below are relative to the repository's root,
which `PROJECT.json` calls `src/`.

## The system

| Part | State it keeps | Operations | What is hard |
| --- | --- | --- | --- |
| Queue (`src/worker/queue.ts`) | `analysis_jobs`, `analysis_job_attempts` | claim, extend the lease, finish an attempt | leases that run out under a slow task, restarts under the same worker id, late answers |
| Worker (`src/worker/runner.ts`, `concurrency.ts`) | tasks in memory, the LLM gate | batches of tasks; authorise, process, finish, call back | tasks of a rejected batch go on; crashes |
| Pipeline (`src/pipeline/digest-pipeline.ts`) | `digest_runs`, `digest_run_stories`, `article_analyses`, `discussion_analyses` | claim a run, ingest, prepare stories, process and finish jobs, reconcile, humanize | one statement at a time: read, compute, write |
| Scheduler (`src/scheduler/`) | the row of a slot | insert the run of the latest slot | concurrent ticks, clock changes, missed hours |
| Ingestion (`src/ingestion/top-stories.ts`) | stories, snapshots, ranks | start a run, choose and save stories, finish | repeated collections, editions out of order |
| HN client and comments (`src/hn/`, `src/ingestion/comments.ts`) | `comments` | walk a thread, store it with its links | failing and circular items, parents after children |
| Ranking and selection (`src/comments/`, `src/articles/selection.ts`, `src/analysis/request.ts`) | none | rank, choose under budgets | what is crowded out |
| Articles (`src/articles/`) | `documents` | try sources in turn, follow redirects, record, extract | no lock between look and write; refusals that must stand |
| LLM answers (`src/analysis/contract.ts`, `citations.ts`, `cache.ts`) | stored analyses, cache keys | normalise, check citations, degrade, reuse | content that changes between key and request |
| Spend control (`src/operations/observability.ts`, `src/analysis/`) | `llm_usage`, the gate | authorise, request with retries, record | reservations only implied by running jobs |
| Newsletter (`src/newsletter/`) | `newsletter_deliveries`, provider events | enqueue, claim, send, retry, apply events, reissue | at-least-once sending, events out of order |
| Subscribers (`src/subscribers/`) | `subscribers`, consent events, tokens | sign up, confirm, change, suppress, clean up, delete | links used late, twice or out of order |
| Rate limits (`src/subscribers/rate-limit.ts`, `src/public-api/rate-limit.ts`) | counters of windows | delete what expired, lock, count | transactions with old times, deadlocks |
| Reader, routes, pages, administration | on-demand runs | read, rarely write | - |

Each background process (`scripts/background.ts`) runs four loops: scheduler,
worker, newsletter and subscriber retention. Processes share nothing but the
database. The scheduler loop inserts the run of a slot and collects the oldest
run that is pending or whose collection is stale; collecting prepares each
story (article, comments, choice, cache) and inserts its job; the worker loop
takes jobs through gate and budget to the LLM and stores what is left of the
answer; both end by reconciling the run with its stories. The newsletter loop
looks for runs that are complete or partial and released, and asks the
subscriber's row before each mail. The web routes write sign-ups, preferences,
provider events, rate limits and runs on demand beside all of this.

A correct queue hands an attempt to one task, lets nobody but its holder end it
before its lease does, and settles a job once. A correct pipeline does not show
or mail what has not been analysed, releases a run once its stories are
decided, and does not lose a run to a crash. Editions are made once, for the
hour they name. An analysis says what it was made from, cites what the LLM was
given, and costs what was authorised. A mail goes out once and can be answered
with an unsubscription; consent stands on record, suppression stands, and who
leaves is forgotten. `PROJECT.json` lists, under "hazards", where each of these
could go wrong and which property covers it.

## Modules

### The queue, the pipeline and the newsletter

`JobLedger` is what the queue promises: jobs are posted (or imported with a
result), granted, given back at most `MaxReturns` times, settled once. It knows
no time and no tasks.

`AnalysisQueue` is the queue with its workers. `job` and `attempts` are the
rows of the two tables, `task` what each task of each process has in memory,
`batch` what the current `processAvailable` awaits. Each statement or
transaction on the database is one action: `Claim` / `FindNothing`
(`claimAnalysisJob`), `Extend` (`extendAnalysisJobLease`, which no caller
uses), `Finish` (`finishAnalysisJobAttempt`, with both results of its fence),
`Enqueue` and `Reuse` (the inserts of the pipeline). Between them a task starts
or is refused (`Start`, `Refuse`: the budget, an error), ends its attempt with
an outcome (`EndAttempt`, `workerErrorOutcome`) and reports (`Report`).
`Throw` is a database error that leaves `processOne` and rejects the batch,
`Crash` the end of a process, whose successor has the same worker id.
`Claimed` allows any order among rows with equal `available_at`, and lets SKIP
LOCKED pass over a row that a finishing transaction holds.

`DigestPipeline` is one scheduled run from its pending row to its release. It
sees the queue through `JobLedger` (`Queue!Post`, `Grant`, `Return`, `Settle`,
`Import`), which `AnalysisQueue` is proved to implement: whatever holds here
does not depend on how the queue does it. A `Collector` is a scheduler loop, a
`Task` one analysis in flight. Each read and each write of the pipeline is a
step of its own, and `actor` holds what was read: `ReadStories` and `ReadRun`
(sent together by `reconcileRun`, answered in either order), `Humanize`,
`Humanized` and `WriteRun` are the steps of one reconciliation. What the
environment may do wrong is counted per kind in `Mishaps`, so that each run says
what it admits: actors that stop, work that outlasts its lease ("late"),
statements that fail.

`NewsletterDelivery` begins where `DigestPipeline` ends: `Release` (and
`Withdraw`, the late write found there) change a run as the newsletter sees it.
`worker` is one iteration of `process`: `FindRun`, `ListEligible` and `Enqueue`
queue the latest released run, `ClaimBatch` claims, `StartGroup` starts the next
`Concurrency` executions of `deliver`, each of which is a record of `calls`.
`Check` reads the subscriber and the digest, `Accept` and `Decline` are the
request with every answer or lack of one, `Record` the update by id. A call
whose own error handling fails rejects the batch (`Throw`); its siblings stay in
`calls`, no longer awaited. The provider is outside: `mails` counts what it
accepted, `keys` are the idempotency keys it remembers, and `ProcessEvent`
delivers its events, any number of times in any order. Runs are numbered in the
order of their release, times exist only as that order, and `Held` says whether
anybody works on a delivery in `sending`: one that nobody holds is claimed after
its minute, one that is held only as the mishap "late".

### Around the pipeline

`DigestPipeline` prepares a story in one step that fails, reuses an analysis or
inserts a job, and treats an analysis as one answer that is good or bad. What
happens inside those steps is modelled by modules of their own, each with the
state it is about. They share no variables.

`EditionSchedule`: `Wall`, `ToUtc` and `EligibleSlots` are the arithmetic of
`schedule.ts` for a zone whose offset changes once; `BeginTick`, `InsertRun` and
`FindRun` are the statements of a scheduler's tick, `CollectEdition` the choice
of stories that were not in the previous complete edition, `AskForRun` and
`FindActiveRun` the two statements behind a request on demand.

`CommentThread`: `TakeBatch`, `Request` and `ReadBatch` are the breadth-first
walk of `getCommentDescendants` with its concurrency and retries, every request
answered anew by an item that is there, deleted, of another type, missing or
out of reach; `SaveComments` is the transaction that stores the rows and then
links them.

`ContextSelection`: pure algorithms, one call a step. `Score`, `Ahead` and
`Selected` translate the ranking and the choice by branches, `PriorityOrder` and
`SelectedBlocks` the choice of an article's blocks, `FittingComments` the filling
of the request (both by `Fitting`, one piece after the other while there is
room). What is chosen is a set; the order it is sent in is that of `Ahead` or of
the text. The properties compare results with what they are for.

`Subsequences` has the one operator of the modules around the pipeline that is
about no part of them: `EntriesAt`, what `filter` leaves of an array, as a
recursive function and by the places that stay. `SelectSeq` does the same, but
the provers know nothing of it.

`ArticleAcquisition`: a preparer goes from `BeginAcquisition` through `CheckUrl`
and `SendRequest` (a hop of one of the stages "social", "direct", "lookup",
"snapshot"), `LookForRow` and `WriteFetch` (the two statements of `recordFetch`),
`FindDocument` and `SaveExtraction` (those of `recordExtraction`) to
`ChooseDocument`. Rows are stored under the raw or the parsed URL as the code
does it; nothing makes them unique.

`AnalysisReuse`: `PrepareJob` looks for a hit of the cache keys or inserts a job
with the hashes of the content it saw; `Reconstruct` reads the content again when
the job runs, `Persist` stores the answer under the job's keys. `Rewrite` and
`Build` change content and code in between.

`AnalysisAnswers`: an answer is `NormalizedAnswer` (deduplication and limits of
the contract), then checked (`CitesSelected`); the last attempt's is `Degraded`
(ungrounded claims dropped or cut down to what they may cite, low confidence, a
note) and stored, others are retried; `Humanize` replaces the text readers see.

`LlmSpending`: a task claims a job, waits at its process's gate (`Enter`,
`Resume`: a waiter that is woken counts itself only when it runs), reads the time
(`Stamp`), decides under the advisory lock (`Decide`), makes requests with
retries (`Answer`, `Error`, `Watchdog`), records usage, finishes and leaves.
`earlier` says of each job which of the running ones have an earlier
`started_at`, and so reserve before it. `untold` is a history variable: it adds
up what a decision could not see. What tasks owe is counted in units
(`UnitsOf`), so that sums over tasks are cardinalities, which can be reasoned
about.

`Subscribers`: one address. Transactions lock the rows they change and are one
step each (`SignUp`, `Confirm`, `ChangePreferences`, `Suppress`, `Cleanup`,
`Delete`); a delivery is not one: `Read` asks whether the subscriber is eligible
and `Send` stores the link and mails later. Times are ages in days, cut off where
nobody tells them apart (`NextDay`), so behaviours are infinite and the
liveness of retention can be checked.

`RequestLimits`: a transaction with the time it read before (`BeginRequest`),
`DeleteExpired` row by row, `LockIdentity`, `Count`, `Commit`; uncommitted writes
are private, row and advisory locks are held to the end, and a circle of waits
ends in `Abort`.

`MCAnalysisQueue`, `MCDigestPipeline`, `MCNewsletterDelivery`, `MCSubscribers` and
`MCLlmSpending` hold the instances' symmetry, mishap sets and functions.
`MCStories` puts the seven modules from `EditionSchedule` to `RequestLimits`, but
not the two larger ones, side by side, as eight parts (the schedule and the
requests on demand are two): as they share no state, a behaviour is one of a
single part, and the instances add up instead of multiplying.

Operators whose comment begins with "faulty" or "mutant:" are wrong versions of
the operator that follows them; they are never used by a specification, and
show for each property a plausible mistake that breaks it.

### Abstractions

In `DigestPipeline` "complete" stands for `complete` and `discussion_only`; the
outcomes `failed`, `refused`, `incomplete` and `skipped_budget` are one; the two
shortfall errors are one; a story and its job have one name because the job is
unique per story. In `NewsletterDelivery` the delay of a retry is left out,
"complained" stands for bounced, complained and suppressed, an event is
identified by its mail and kind, and rows are never deleted. In `AnalysisQueue`
all processes read one clock; a task may read it long before its statement runs,
but clocks that disagree are not modelled. In `EditionSchedule` time is hours,
"complete" stands for `partial` too, and a zone changes its offset by an hour. In
`ContextSelection` the tokens of joined pieces are the sum of theirs. In
`AnalysisAnswers` consensus and viewpoints stand for all lists of claims. In
`LlmSpending` the daily and the monthly limit are one and a request costs
nothing or a unit up to its estimate. In `RequestLimits` the two tables are one.
In `Subscribers` tokens are known by what they were made for, e-mail addresses
by whether they are still there.

## Runs

| Run | Instance | Shows |
| --- | --- | --- |
| `queue_safety` | 1 job, 2 processes of 3 tasks, batches of 2, lease 1 tick, clock up to 1, 1 fault, lease extension on | rows agree with each other, claims are exclusive, retries bounded, accepted outcomes stand, the fence, and the refinement of `JobLedger`, by which settled jobs are final |
| `queue_liveness` | 2 jobs, 1 process, 1 fault, attempts end before their lease | every enqueued job settles |
| `pipeline_safety` | 2 stories, 1 collector, 2 tasks; one may stop, one be late, one statement fail | success and completion imply a stored analysis, complete runs are analysed, released runs decided |
| `pipeline_recovery` | 2 stories, 2 collectors; one may stop, one be late | the run leaves collection |
| `pipeline_released` | 2 stories, 2 tasks, nothing goes wrong | a released run can go back to analyzing |
| `newsletter_late_workers` | 1 run, 1 subscriber, 2 workers, 2 attempts, 1 reissue; one late claim, one key forgotten | one mail per issue and key, no unasked reissue, bounded attempts, status and suppression follow the events, final outcomes stand |
| `newsletter_two_runs` | 2 runs, 1 worker with 2 calls at a time, 2 attempts; one stop, one error, one run taken back | forward only, every delivery ends |
| `newsletter_complaint` | 1 run, 1 worker, nothing goes wrong | an acknowledged complaint may have no effect |
| `newsletter_timeout` | the same | a request of unknown outcome may be given up |
| `subscribers` | 1 address, 1 edition, 2 sign-ups, 2 mails, lifetimes of 1 to 3 days in the code's order | consent is on record, only the latest link confirms, mails have links, suppression stands, who leaves is forgotten and leaves nothing |
| `spending` | 2 processes, 3 tasks, 2 jobs, a gate for 1, a limit of 2 requests, 1 retry; one mishap of any of six kinds | the gate keeps its limit and loses nobody, waiters get in, costs are recorded, the limit is exceeded only by what a decision cannot see |
| `stories` | eight parts, see below | the properties of the modules around the pipeline |

The parts of `stories`:

| Part | Instance | Properties |
| --- | --- | --- |
| schedule | a day of 4 hours, editions at 1 and 3, 2 schedulers, grace of 3 hours, clock 0 to 4; three zones: a jump past no edition, one past an edition, one back over an edition; story 2 may be gone | `EditionsAreMade` (`EditionsAreScheduled`, `RunsAreInTime`, `RunsAreKept`), `NoStoryTwiceInARow` |
| demand | one request waiting, one run active | `EditionsAreMade` (`RefusalsNameTheRun`) |
| thread | 3 comments in a chain, a fork and a circle; 2 requests at a time, 1 retry, 2 collections | `ThreadIsWhole` (`WalkIsComplete`, `ThreadIsLinked`), `PartsEnd` (`WalkEnds`) |
| selection | every discussion of 4 comments in 4 kinds of text, of which 2 are chosen; every article of up to 4 blocks, every ranking of up to 4 sizes | `ContextIsFair` (`BranchesAreHeard`, `ArticleIsUsed`, `RequestIsFull`) |
| acquisition | 3 pages, 2 preparers, an archive, 1 redirect; pages, posts and repositories, URLs that parsing keeps or changes | `RestrictedIsRespected`, `TextIsFound` (`ServedTextIsUsed`, `ErrorsAreExplained`), `PartsEnd` (`AcquisitionEnds`) |
| reuse | 2 stories, 2 jobs, 2 builds, 1 change of content or build | `AnalysesAreReusable` (`MadeFromItsKey`, `OwnDiscussion`, `RowsSayWhatWasMade`) |
| answers | answers of up to 3 claims, of which 2 are allowed, with good, bad, doubled and too many ids; 2 attempts at citing, 3 in all | `AnswersAreSound` (`CitationsAreSelected`, `LossIsSaid`, `OnlyTheShownIsRewritten`, `RetriesAreBounded`) |
| limits | 3 requests, one of them a sign-up with two identities; limit 1, window 2, a transaction of up to 1, moments 0 to 3 | `LimitsAreKept` (`LimitIsKept`, `RefusedForCause`, `CountsLast`), `PartsEnd` (`RequestsAreAnswered`) |

A property in front of parentheses is the conjunction of those in them and, for
an invariant, of its module's type invariant. So are, elsewhere, the pipeline's
`RowsAgree` (`TypeOK`, `SucceededHasAnalysis`, `PublishedHasAnalysis`),
`Subscribers`' `RowsAgree` (`TypeOK`, `ConsentOnRecord`, `OnlyLatestConfirms`) and
`AddressesAreForgotten` (`UnsubscribedAreForgotten`, `SignUpsExpire`), and `LlmSpending`'s `GateInv`
(`TypeOK`, `GateHolds`, `NoLostWakeup`) and `BudgetHolds` (`OverrunExplained`,
`CostsAreRecorded`). The type invariant of `NewsletterDelivery`, and
`ClaimsKnown` and `SettledIsFinal` of `AnalysisQueue`, are proved and in no run.

The bounds. One job suffices for `queue_safety` because no statement relates
two jobs except the choice of the candidate, which the proofs cover for every
number; two processes of three tasks give a slow holder, its successor and a
task of a rejected batch; with a lease of one tick and the clock at 0 or 1 a
lease is granted, is current, and runs out. `MaxTime`, `MaxFaults` and
`Mishaps` bound the clock and the faults; nothing else is bounded. In
`queue_liveness` the clock goes beyond `MaxTime` only to let a lost lease run
out. In the pipeline two stories are the fewest for which one is ready and one
is not, and two tasks the fewest that reconcile against each other.
In the newsletter a delivery never looks at another one's row, so one
subscriber with two issues or two runs shows every relation between two; two
workers give an overtaken call and its successor, one error a rejected batch
whose other call goes on. `MaxSequence` and `RunCount` bound reissues and runs.

Two sign-ups give an old link and a new one; two mails one that was sent before
a change and one after. The lifetimes of the code (days to months) are scaled to
1 to 3 days that keep their order, so that each can end before or after each
other event. In `spending` two tasks meet at one gate and a third decides against
them from the other process; the limit pays for two requests, so the first
retry or stale decision shows. The schedule's zones cover what a change of clocks
can do to an edition's hour: skip it, repeat it, neither; the clock stands
before, at and after each. Three requests are two that share a window and one
that opens the next; a window longer than a transaction is what the code's
minutes against its milliseconds are.

`CHECK_DEADLOCK FALSE` in the pipeline's, the spending and the stories'
configurations: those models end when their one run, their jobs, or their
inputs do.

Fairness. `runPollLoop` (`src/runtime/poll-loop.ts`) repeats until the process
is told to stop and survives every error, so starting batches and claiming runs
is weakly fair; a started statement or call returns or throws, so is each task's
or collector's next step (LLM and HN calls have timeouts). Time is strongly fair
in `AnalysisQueue`: ticks are disabled while a task is about to miss its lease
in the instance that assumes it does not. `EveryJobSettles` needs that
assumption, `Prompt`: no caller extends a lease, and a job whose attempts
always outlast theirs is tried for ever.

The newsletter's loop and calls are weakly fair for the same reason. Claims are
strongly fair for each delivery: rows are taken oldest first, and older ones end
after a bounded number of attempts, so none is passed over for ever.

In `Subscribers` days pass and the retention loop runs, both for ever; nothing
its owner or the provider may do is fair. In `LlmSpending` the steps of a process
that runs are weakly fair, its watchdog among them; an analysis request itself
is not, it may never settle. Only the humanizer's, which has no watchdog of its
own, relies on the SDK's timeout. The walk of a thread, an acquisition and a transaction on
the limits go on while they can (every request has a timeout, every wait for a
lock ends with its holder's transaction or as a deadlock).

## Findings

`pipeline_released`: `reconcileRun` writes what it computed from earlier reads.
Two tasks that finish the last two stories reconcile at the same time; the one
that read first, before the other story was stored, may write last and turns
the complete, released run back to `analyzing` without `newsletter_ready_at`.
No later step reconciles it.

`newsletter_complaint`: provider events are matched by the message id, which the
worker stores after the send. An event that comes before that, or for a mail
whose update failed, is ignored and acknowledged, so it is not repeated: the
complaint or bounce never suppresses its subscriber.

`newsletter_timeout`: `ResendDeliveryProvider.send` turns errors of `fetch` into
retryable ones but reads the body outside that `try`. A timeout at that point
reaches `deliver` as an unknown error and makes the delivery fail for good.

Limits of the code that the passing properties state rather than hide:

- `MailedOnce` allows one more mail for each key the provider forgot: nothing in
  the code limits the age of a delivery that is claimed again, and the provider
  keeps keys for a day. `FinalOutcomesStand` and `StatusIsLatest` say nothing
  once a call has been overtaken ("late"), because updates are addressed by id
  and not by attempt.
- `CompleteIsAnalysed` and `ReleasedIsDecided` hold for a run that is collected
  once (`CollectedOnce`). A task's reconciliation that read the stories before a
  second collection added one, and the run after it, writes "complete", and may
  release, over a story that nobody has looked at; TLC finds this as soon as a
  collector may stop or be late. Releases are decided, besides, only if no task
  is late and no story is marked failed by an error after its job was inserted.
- `OverrunExplained`: a decision takes its time before it waits for the lock and
  then adds up usage recorded before that time, so usage recorded while it waited
  counts neither as recorded nor as reserved. Claims committed out of order, late
  tasks, the humanizer and usage that was never recorded escape it, too. On the
  other side a job that has recorded its usage and is still running is counted
  twice.
- `EditionsAreScheduled`: a configured time that the clocks there never showed
  makes every tick throw while it is within the week looked back on, so no
  edition is scheduled in that week. A failed run keeps its slot.
- `NoStoryTwiceInARow` is relative to the editions that were complete when the
  stories were chosen.
- `ErrorsAreExplained`: two preparers may insert the same row, after which
  storing the same text twice fails one of them; and an archived page is stored
  under the URL as it was submitted but looked for under the parsed one, so that
  it fails for every URL that parsing changes.
- `RestrictedIsRespected` is limited to URLs that parsing keeps: with a restricted
  answer stored under the raw URL, the text of an earlier fetch under the parsed
  one is still chosen.
- `MadeFromItsKey`: the worker rebuilds the request from what is stored when it
  runs, with the prompt and model of the build that runs, and nothing compares
  it with the hashes of the job: after a rewrite or a new build the answer is
  of other content, or by another version, than the key it is stored under.
- `LossIsSaid`: claims beyond the limits of the contract, and claims without any
  support, are dropped without a word, and of a claim with more ids than allowed
  the first ones are kept before the bad ones are taken out.
- `RetriesAreBounded`: the attempt that may still be retried is counted with those
  lost with their workers, so an answer may be degraded that was the first.
- `ForgottenLeavesNothing`: a delivery under way when an operator deletes the
  address still stores its link.
- `RequestsAreAnswered`: two sign-ups that come when a window ends may delete each
  other's rows in opposite orders; one is the victim of the deadlock and fails.

Seen and given no run, because no sentence of the repository is contradicted
or the disagreement is one of wording: both of two reconciliations may find
`humanized_at` unset and call the LLM for the whole run; citations that stay
invalid are cut out and the analysis counts as a success; the humanizer's text
is not checked for prose that breaks off; a story goes back from complete to
analyzing if its job is done before it is marked; a run that a task reconciled
while it was being collected is not collected again when its collector stops.

## Proofs

`AnalysisQueue_proofs` proves for any sets of jobs, workers and slots, any
bounds and either value of the switches, from the assumptions named in
`AnalysisQueue`:

- `TypeCorrect`: `Spec => []TypeOK`.
- `QueueInvariant`: the inductive invariant `QueueInv`. `RowsAgree`,
  `OneTaskPerAttempt`, `RetriesBounded` and `AcceptedIsRecorded` are not
  inductive by themselves. A task's claim must be tied to the rows
  (`ClaimsKnown`: its attempt exists and was made by its worker; an intended
  retry is below the limit; a queued job has attempts left), and the rows to
  each other (`RowsAgree`: a running attempt is the last one of a running job,
  and the counter is the number of rows, so a claim creates an attempt nobody
  holds yet). `Claim` and `Finish` are the only steps that change both; they
  have lemmas of their own (`ClaimKeepsInv`, `FinishKeepsInv`), for every other
  step `SameRows` reduces the invariant to the claims.
- `RowsAlwaysAgree`, `AttemptsAreExclusive`, `RetriesAreBounded`,
  `AcceptedOutcomesStand`, `ClaimsAreOnRecord`: its parts.
- `SettledJobsStand`, `FenceHolds`: the action properties, from
  `RowSteps` (what a step can do to one job's rows) and, for the fence,
  `ReadsInvariant` (a task's reading of the clock is not ahead of it).
- `QueueImplementsLedger`: the refinement, with the latest attempt of a running
  job as the outstanding grant and the final status as the result. A step moves
  one job at most (`OneJobAtATime`), and its move is a ledger step or nothing
  (`LedgerMoves`).

`NewsletterDelivery_proofs` does so for any sets of subscribers, workers and
event kinds and any bounds, from `DeliveryAssumption`:

- `NewsletterTypeCorrect`: `Spec => []TypeOK`.
- `NewsletterInvariant`: the inductive invariant `NewsletterInv`, with
  `OneMailPerKey`, `SentIsMailed` and `ReissuesAreOfMails` as its parts.
  `MailedOnce` needs to know that a delivery whose key is unknown has no mail
  that is not accounted for by a forgotten key (`UnknownKeysForgotten`).
  `SentWasMailed` needs the same of a call about to record success
  (`SuccessWasMailed`), which may have been told so by a duplicate, hence by a
  known key (`KeysOfMails`). `ReissuesFollowMails` needs that nobody records an
  outcome for a row that is not there (`WorkIsQueued`). `TodoComesFrom`,
  `CallsComeFrom`, `RowsMove` and `MailsMove` say once what a step can do.
- `ComplaintsSuppress`: events on record, their order and number left open.
- `OneHolderAtATime`, `OutcomesAreFinal`: rows are written by id alone, so
  final outcomes stand only because a delivery in "sending" has one holder: one
  call, or one worker that has yet to begin (`OneHolder`), as long as no claim
  is outlasted.
- `LatestStatusShown` (`StatusIsLatest`): while no claim is outlasted only a row
  that was sent has a message id, and no event on record for it ranks above the
  status it shows (`LatestShown`); a late `Record` would overwrite that, hence
  `OneHolder` again.
- `NoBacklog` (`ForwardOnly`): a worker that is about to insert rows works on a
  run at least as late as any that has rows (`ForwardInv`).
- `AttemptsAreBounded`: a potential. The attempts a delivery has had, those in
  the hands of somebody who may still ask for a retry (`LowNumbers`), and the
  claim it is open to without a mishap (`Outstanding`) add up to no more than
  `MaximumAttempts` and the mishaps there were (`ClaimsCovered`). A claim turns
  `Outstanding` into an attempt in hand, a retry turns that back, and every
  mishap pays for the claim it makes possible. It needs that no attempt is in
  two hands (`HeldOnce`).

`DigestPipeline_proofs` does so for any number of stories, collectors, tasks and
reconcilers, from `PipelineAssumption` and the steps of `JobLedger`, which the
queue is proved to implement:

- `TypeCorrect`, and `RowsAreRight` (`RowsAgree`): a job can succeed only by a
  task that has stored its answer, or with a reused one (`OutcomesAreStored`).
- `CompleteRunsAreAnalysed`: `CompleteIsAnalysed` with `ReadsAreTrue`. Whoever is
  about to write "complete" has read all stories as complete, and that stays
  true, because analyses are never taken away and stories are not added while
  the run is collected once: its one collector is alone until the stories are
  listed (`OneCollection`). `ActorsKnow` ties what an actor works on to the run's
  stories and the ledger's jobs.
- `ReleasesAreDecided`: `ReleaseInv` and `TasksHold`. Once somebody may write the
  release (`MayRelease`), all posted jobs are decided and no more will be posted
  (`AllDecided`); a story that failed after its job was posted has a decided job
  (`FailuresAreDecided`) because its task held it.

`Subscribers_proofs` does so for any number of sign-ups, mails and editions and
any lifetimes, from `SubscribersAssumption`:

- `InvAlways`: the inductive invariant `SubscribersInv`. Its parts beyond the
  properties: who is unsubscribed has left some day, and not before the last mail
  (`LeftIsUnsubscribed`, `LeftAfterMails`); deliveries, attempts and links belong
  to rows, an attempt is of today and a delivery does not wait for long
  (`WorkInv`); a link is older than its mail by that wait at most (`LinksLast`).
- `TypeCorrect`, `ConsentIsOnRecord`, `MailsKeepTheirLinks`, `NothingIsLeft`: its
  parts, or follow from it. The last needed the assumption that links do not
  outlive the record of mails (`LinkLifetime <= MailRetention`, 45 days in
  `delivery.ts:361` and 90 in `lifecycle.ts:24`): ages are cut off after the
  retention, and a link that lived longer would look as if it did not age.
- `SuppressionIsForGood`, `ConfirmedByOwner`: the action properties, one case for
  each transaction.

`LlmSpending_proofs` does so for any number of processes, tasks and jobs, any
limits and any estimate, from `SpendingAssumption`:

- `ControlAlways`, `GateIsKept`: the inductive invariant `ControlInv`. A gate's
  places are counted by the tasks in it and nobody waits while there is room
  (`GateHolds`, `NoLostWakeup`); the running jobs are linearly ordered by their
  claims (`JobsInOrder`); whoever holds a lease works at that job
  (`HoldersWork`); only answers are owed (`OwedIsAnswered`).
- `BudgetAlways`, `CostsAreExplained` (`BudgetHolds`): the inductive invariant
  `BudgetInv`. That the limit holds cannot be argued from one decision: after
  it, tasks of earlier jobs, for which it reserved, decide and are charged, and a
  later job's decision may have been made before. So for each job whose request
  was allowed, what was charged, the estimates of all jobs up to it that may
  still be asked for (`OpenUpTo`) and those of tasks without a lease (`Outside`)
  fit in the limit and what was untold (`TurnsAreCovered`). A positive decision
  establishes this in one of two ways (`DecideCovered`): a later job's request was
  allowed before, and its cover includes this one's (`TakenOver`); or none was,
  and then all answers still in hand belong to earlier jobs, for each of which
  an estimate is reserved (`AnswersComeBefore`), while all other costs are on
  record (`CostsAreInside`) and so in the sum the decision has seen, or untold.
  `CostsAreCharged` is the other half of `CostsAreRecorded`.

The next three modules speak of the modules of `stories`, each by itself
(`ReuseSpec`, `ScheduleSpec`, `AcquisitionSpec`, `LimitsSpec`, `ThreadSpec`,
`AnswerSpec`, `SelectionSpec`: its Init and its actions, for any values of its
constants). A part of `MCStories` takes the same steps.

`ArticlesAndReuse_proofs`, from `ReuseAssumption` and, for any number of
preparers, any pages and any number of redirects, from `AcquisitionAssumption`:

- `AnalysesMayBeReused`: `AnalysesAreReusable`, with the inductive invariant
  `ReuseInv`. A job that nothing was changed under still has the content and the
  version it was prepared from, and a request under way was made from them
  (`IsRight`); a stored analysis fits the keys of its job (`Fits`), so a copy of
  it fits the keys of a job that found it by them.
- `AcquisitionAlways`: the inductive invariant `AcquisitionInv`. A failure and a
  page exclude each other and belong to stages (`RequestOK`); rows are only
  added, and keep their URLs (`Grows`), so what was found is there, and what is
  there twice stays so (`RowsOK`); there are no more rows than preparers that
  have written theirs (`Past`). Of others nothing is known between two
  statements, so the rest is about who prepares alone (`AloneOK`): the row it
  wrote is the newest with a text (`IsNewest`).
- `RefusalsAreRespected` (`RestrictedIsRespected`), `TextIsAlwaysFound`
  (`TextIsFound`): that a page that was served is used holds for every URL, also
  one that parsing changes.

`EditionsAndLimits_proofs`, from `ScheduleAssumption`, which leaves the zones
open: any function from hours to offsets is one; and from `LimitsAssumption`, for
any finite set of requests:

- `EditionsAlways`: the inductive invariant `EditionInv`. A slot that a tick
  found is due: its hour has come, and in the zone the clocks show its day and
  time then (`LatestIsDue`), however `ToUtc` arrived at that hour. So two slots
  never share an hour (`SlotsDiffer`).
- `EditionsDiffer` (`NoStoryTwiceInARow`): among the complete editions there is
  one latest, whose stories are the ones left out (`ExcludedStories`), and what
  was before an edition when it was chosen is complete and remains as it is
  (`EditionOK`). An edition that becomes complete later, although it is for an
  earlier hour, is not among them: the property compares with what was there.
- `RunsHaveTheirHour` (`RunsAreInTime`), and `RunsStay` (`RunsAreKept`), the
  action property.
- `EditionsAreThere` (`EditionsAreScheduled`) and, with the former two and
  `RefusersAreTold` (`RefusalsNameTheRun`), `EditionsAreMadeAlways`: all of
  `EditionsAreMade`. That no edition is missed is not a fact of all zones; the
  theorems assume `SteadyClocks`: what the clocks show differs from UTC by no
  more than an hour more at one time than at another, as it is with summer time,
  and `Hours` has the hours that are looked at. `MCStories` assumes the same, so
  TLC evaluates it for its zones. Where clocks went back by two hours, the
  code could take an edition between the two hours that show the same time for
  the later one, and miss the other. Under
  the assumption hours that show the same are neighbours (`SameTimeIsNear`) and
  `ToUtc` finds every time that was shown, with two of its four guesses
  (`ShownIsFound`), so a tick throws only if one was not; and the latest slot is
  that of the last hour that was due, as only that hour could lie between the
  one `ToUtc` finds and the clock (`LastIsFound`). `PlanInv` keeps this from a
  tick's reading of the clock until its run is inserted or found.
- `LimitsAlways`: the inductive invariant `LimitsInv`. A row that a request has
  written and not committed is locked, so what is committed for that identity
  stays what the request read (`TransactionOK`); its count is one more, or it is
  the first of a new window (`CountedOK`). What is committed counts the answered
  requests of its window, and no request was counted in a later one (`RowOK`).
  A request that works with an old time could delete a row that is not over for
  others, or open a window that ends before one that was counted in; it cannot,
  because a transaction is shorter than a window (`MaxDelay < Window`).
- `LimitsHold`: `LimitsAreKept`, by that invariant and, for the action property
  `CountsLast`, by what a commit does (`CountLasts`).

`Discussions_proofs`, for any threads, answers, discussions, articles and sizes,
from `ThreadAssumption`, `AnswerAssumption` and `SelectionAssumption`:

- `ThreadsStayWhole` (`ThreadIsWhole`), with the inductive invariant `WalkInv`.
  What was visited is found or in flight, and in one place (`IsInOnePlace`); the
  kids of what was found are visited or waiting (`KidsAreKnown`); what waits has a
  parent that was found (`ParentsAreFound`). When nothing waits any more, what
  was found is closed under kids, and every row can be linked (`SavedIsLinked`),
  whichever of its items fail and however the thread runs back into itself.
- `AnswersStaySound` (`AnswersAreSound`), with the inductive invariant
  `AnswersInv`: what is stored is made of the answer that it was made of
  (`IsMadeOf`), and fewer than the allowed attempts at citing are answered while
  the job goes on. What each step of the correction leaves is stated once
  (`NormalizedClaimsFacts`, `PrunedClaimsFacts`, `GroundedFacts`,
  `DegradedFacts`): claims that are supported by what was selected, in the order
  they had, and fewer of them only with a note.
- `ContextsStayFair` (`ContextIsFair`). Of a discussion: scores are numbers, so
  `Ahead` is a linear order (`AheadIsOrder`), and one place more goes to the one
  that is ahead of all that have none (`OneMore`); hence there are as many as
  asked for (`FirstAreMany`), ahead of all others (`FirstAreAhead`). Of an
  article and of a request: what was taken is kept and is within the budget
  (`TakenGrows`), and what was left out exceeded it beside less than was taken in
  the end (`FittingIsFull`); every block is looked at (`PriorityOrderFacts`:
  there is always one that is farthest away, and it is new); and the comments
  that were kept all fit (`AllFit`), because entries have the size they had
  where they come from (`SizeOfEntries`).
- What a recursive function computes is an induction over its data. Without the
  library's induction theorems it is done by the least number at which it would
  fail (`LeastOfNaturals`, `UpToBound`), and that there is such a function by
  the functions up to each number (`StepsAreThere`). `EntriesAtFacts` describes a
  filter by the places its entries come from.

The assumptions on constants are facts of the code or of any instance of it:
sets of workers, stories, tasks, jobs, preparers, requests and comments are
finite, limits are positive numbers where the configuration demands it, only an
HTML page has more places for its text than one, and a transaction is shorter
than a window of the limits. `SteadyClocks` is no assumption of a module but a
hypothesis of the three theorems that need it (`PlansAlways`, `EditionsAreThere`
and `EditionsAreMadeAlways`).

What stays with TLC, checked on its instances only:

- Liveness: `EveryJobSettles`, `CollectionEnds`, `DeliveriesEnd`,
  `AddressesAreForgotten`, `WaitersEnter` and `PartsEnd`.

All invariants and action properties of the passing runs are theorems, too.

## Plan

1. Done: `JobLedger`, `AnalysisQueue`, `DigestPipeline`, `NewsletterDelivery`,
   `Subscribers`, `LlmSpending` and the modules of `stories`, each with its
   proofs.
2. Composition of `AnalysisQueue` and `DigestPipeline` on a very small instance.
   The refinement of `JobLedger` stands for it until then.

## Not modelled

Rendering, routing, configuration, authentication of administrators, what a
parser makes of HTML or a feed, the text of a story that is its own article,
prompts and schemas, reports and alerts, the evaluation harness, migrations and
scripts that only report: they are pure I/O or data, or keep no state of their
own. The reader (`src/digests/reader.ts`) only reads.
`createPreferenceToken`, `suppressSubscriber` and `HostConcurrencyGate` have no
caller but tests. The full list with reasons is in `PROJECT.json`.
