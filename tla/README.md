# A formal model of MailHive

MailHive (`src/`) is a multi-tenant service that sends mails. An HTTP API
(Echo) accepts requests and writes them to PostgreSQL; each mail travels as an
Asynq task through Redis to a worker process, which renders it and hands it to
the tenant's SMTP server. Scheduled tasks archive old mails, collect unused
attachments and create the partitions of the audit log.

Nothing in this system holds a lock across two calls. Almost every state change
is a single unconditional `UPDATE`, a Redis command or a call of an SMTP server,
and a request or a task is a sequence of them that can be interleaved with
others, fail in the middle or die. The modules here model those sequences, one
action per call that changes or reads shared state. TLC checks them on small
instances, and TLAPS proves the central properties for all instances.

`PROJECT.json` lists the components, the runs, the hazards, the lines every
definition stands for and the theorems. Paths below are relative to
`src/internal/` unless they start with another directory.

## 1. Inventory

| Component | State | Operations | Talks to | What is hard | What makes it correct |
|---|---|---|---|---|---|
| Mail requests (`service/mail_service.go`, `adapter/postgres/mail_repo.go`) | `mails`, `mail_recipients` rows: status, `task_id`, attempts, `sent_at`, bodies | Create (grouped, or one mail per recipient), Cancel, Retry, List, statistics | queue, attachments, database | each step is a call of its own; Cancel and Retry read a row and write it later; a campaign enqueues in parallel and sets rows to queued in chunks | a row claims only what happened; a `task_id` is the mail's own; a cancelled mail is not sent |
| Task queue (`worker/queue_client.go`, `server.go`, `tasks.go`) | Asynq tasks in Redis | Enqueue, DeleteTask, retry with backoff, archive, IsFailure, ErrorHandler, recovery of orphaned tasks | worker | redelivery after a crash or a shutdown, errors that do not count, two counts of tries that must agree | tries are bounded, no task is lost or stuck |
| Sending worker (`worker/mail_handler.go`) | the run of a task | load, check, prepare, MarkSending, send, MarkSent, ClearBodies, failMail | database, limiter, breaker, SMTP | any call can fail after the one before it succeeded | text is kept until delivery; no silent loss |
| Circuit breaker (`worker/circuit_breaker.go`) | one breaker per SMTP configuration and process | Allow, RecordSuccess, RecordFailure, creation on first use | sending worker | goroutines race; results come late; a trial may be abandoned | trips after N failures, one trial per cooldown, recovers |
| Attachments (`service/attachment_service.go`, `worker/gc_handler.go`) | `attachments`, `mail_attachments`, the BlobStore | Store (deduplicated), Load, CollectOrphans | mail requests, archive | row and blob are two stores; requests race with the collection | a link leads to its blob; storage does not leak |
| Audit log (`service/audit_log_service.go`) | bounded channel, four goroutines | Log, worker loop, Close | every writing HTTP request, shutdown | Close races with Log; queue full; slow writes | accepted entries are settled before exit; a lost one has a cause |
| Rate limiter (`adapter/redis/rate_limiter.go`) | token bucket per tenant in Redis | Allow (one Lua script) | sending worker | clocks of several workers, key expiry, settings that differ from worker to worker | no tenant gets more than rate and burst, but for what is counted |
| Worker caches (`worker/cache.go`) | values with an expiry, per process | get, set | repositories | stale reads stored late; shared objects | no value older than its TTL and the longest fetch |
| Tenants (`service/tenant_service.go`) | row with slug, settings, key | Create, Update, Delete, RegenerateAPIKey | every request | read-modify-write of the row | a key that was handed out works |
| Authentication (`service/auth_service.go`, `middleware/`) | the administration's tenant, made on first use | GenerateToken, TenantContext, AdminOnly, seeding | tenants | several requests and processes create the same tenant | the administration gets in |
| SMTP configurations (`service/smtp_config_service.go`) | rows with a default flag per tenant, unique by index | Create, Update, Delete, Test | mail requests, worker | ClearDefault is committed before what may fail | a default is lost only for a reason |
| Templates (`service/template_service.go`, `templates/embed.go`) | rows, unique by slug | Create, Update, Delete, Preview | mail requests, worker, analyses | a template changes between the acceptance and the rendering of a mail; text is rendered twice | the fate of a mail has a cause |
| Message analysis (`service/analysis_service.go`) | one key per tenant in Redis | spam, HTML and link checks | templates | the key is taken before the request is looked at | one link check a minute |
| Branding (`service/branding_service.go`) | one row, the time zone of the process | Update, logo | every rendered date | two updates write row and zone in different orders | zone and row agree |
| HTTP handlers (`handler/handler.go`) | none | bindRequest, error mapping | all services | a refused body is not the end of the handler; attachments are stored before the last refusals | a refusal changes nothing, but for what is named |
| Worker processes (`src/cmd/mailhive/main.go`) | schedulers, shutdown | start, `@daily` tasks, stop | archive, partitions, collection | every process schedules for itself | daily work is done and may run twice |
| Archive (`worker/archive_handler.go`) | `mails` to `mails_archive` | batches in transactions | mail requests | a retry, a cancellation or a run of a mail that is being archived; several archivers | a mail is in one of the two tables; a mail put into the queue stays until it is closed |
| Audit partitions (`worker/partition_handler.go`) | monthly partitions, default partition | EnsurePartitions, migrateFromDefault | audit log | dates at the end of a month; several workers | every month has its partition, no entry is lost |
| LLM assistant, localisation, compression, front end | none | | | | not modelled: no state |

## 2. Modules

### MailDelivery and DeliveryContract

The core. `mail` is the `mails` table, `task` the tasks in Redis, `op` the API
requests in progress (each with the step it is at and what it read or was
given), `run` the goroutines of the workers. `tries`, `dels` and `requeued` only
observe: MarkSending calls and accepted messages per task, tasks put back by a
shutdown. So do `failures` and `unsendable`: the runs of a task that ended in an
error other than a delay, or with their worker, and whether one found the mail
unsendable, both counted apart from Asynq's `retried`.

* Creation: `CreateInsert` (with `InsertRows`, one transaction for the row or the
  rows of a campaign), `CreateEnqueue` (any order, as the goroutines of phase 3),
  `CreateSetQueued` (in chunks of `BatchChunkSize`). `CancelRead`,
  `CancelDelete`, `CancelUpdate` and `RetryRead`, `RetryEnqueue`, `RetryTaskId`,
  `RetryStatus` are the calls of Cancel and Retry. `RequestFails` ends a request
  after any of them.
* Worker: `Dequeue`, `Load`, the three ways out of the preparation
  (`PrepareReady`, `PrepareDelayed` for the rate limiter and the breaker,
  `PrepareUnsendable`), `MarkSending`, `SendSucceeds` or `SendErrs`,
  `AfterSendError`, `MarkSent`, `ClearBodies`, the `ErrorHandler`, and `Settle`,
  in which Asynq acknowledges, reschedules or archives as `IsFailure` says.
  Calls whose error the code only logs can fail (`SwallowedError`).
* Faults: `WorkerCrash`, `WorkerShutdown` (the task goes back uncounted),
  `Recover` (Asynq's recoverer). `MaxFaults` bounds crashes, shutdowns and
  swallowed errors; errors the code returns (`CallFails`, `RequestFails`, `SendErrs`)
  are not bounded.
* Left out: what a message says, priorities of queues, the delay before a retry
  (any due task may be handed out at any time).

`DeliveryContract` says what a delivery promises without requests, workers and their
calls. A task is an order to send a mail: free, due, taken, called off (taken, its mail
found cancelled), parked, closed or withdrawn. An order somebody holds is closed only
with its mail accepted and recorded, or called off; one nobody holds is withdrawn only
while its own mail is being cancelled; it is accepted at most `Limit` times and once
more per interruption; `sent_at` is set after an acceptance and never unset; only who
asked for it makes a mail cancelled, and every other write to its row may undo that.
The mapping is at the end of `MailDelivery` (`Stage`, `Letters`, `RecordedMails`,
`AskedMails`, `CancelledMails`): the archive is "parked", an acknowledgement "closed",
a shutdown an interruption, and `Limit` is MaxRetry + 1. `DeliversAsPromised` says that
the one implements the other.

### CircuitBreaker and BreakerContract

`CircuitBreaker` has the registry's map, the breaker objects and the goroutines,
with the lookup under the read lock, the creation under the write lock (`Create`
looks again) and each method as the critical section of the breaker's mutex. A
goroutine keeps the pointer it got. `HandleMailSend` calls `Allow` before a
send and records its result after it, or leaves in between (`AbandonSend`).
`age` is the time since `lastFailure` in ticks.

`BreakerContract` says the same without states, locks and pointers: per
configuration a streak of failed sends, the rest since the last failure and
whether a trial was granted. `ImplementsContract` maps one to the other.

### Attachments

`row`, `link`, `blobs` are the tables (or S3 for the blobs). A content stands for
(tenant, sha256); rows are numbered by `created_at`, and `cutoff` is the youngest
row older than the grace period. A request stores content after content
(`UpsertMeta`, then `PutBlob` for a new row only) and inserts its mails with the
links (`InsertMails`, refused by the foreign key when a row is gone). A
collection lists a batch (`ListOrphans`) and deletes row (`DeleteMeta`) and blob
(`DeleteBlob`) one after the other. `Age` lets the grace period of one more row
end at any time, so a request may last longer than the grace period.
`stored`, `clean` and `wasted` only observe.

### AuditLog

`CheckClosed` and `Send` are the two steps of `Log`, `Take`, `Write` and `Return`
the worker loop, `CloseSwap`, `CloseChannel` and `CloseWait` those of `Close`;
`Shutdown` and `ShutdownTimesOut` are the two ways out of `http.Server.Shutdown`.
A send on the closed channel panics, as Go's does; `late` observes the requests
that Shutdown gave up on.

### The API: Requests, Tenants, SmtpConfigs, Templates, Branding, Intake, Api

`Requests` is one HTTP request in the hands of its handler: `at` is the step it
takes next, `held` the row it has read, `answer` the status code. A step is one
query with the decisions that follow it; `Goto`, `Keep`, `Reply`, `Fail`,
`GiveUp` and `GoOn` are the ways a step ends. No handler here opens a transaction
over two queries, so requests interleave between any two steps. `Code` is what
`bindRequest` makes of an answer: its 400 is sent and the handler goes on.

* `Tenants`: the CRUD of tenants, tokens, the middleware, and the creation of the
  administration's tenant by a token or by the seeding of a starting process.
* `SmtpConfigs`: the default flag with its unique index, `ClearDefault` as a
  statement of its own.
* `Templates`: a template is its slug, whether it needs data, and what rendering
  its text gives; with the rate limit of link checks.
* `Branding`: the row, and `appZone`, the variable of the process.
* `Intake`: MailService.Create query by query, and the worker from loading a mail to
  having text and server, with its caches of templates and configurations.
  `StoreAttachment` is one turn of the loop of storeAttachments, whose row is committed
  before the next attachment is decoded; only then come `CheckRecipients`, the
  refusals of a campaign, and `InsertMail`.
  Queueing and sending are left to `MailDelivery`.
* `Api` composes them over one database: `Handle` adds to each family of requests what
  it does to the others' tables (`Detached`: ON DELETE SET NULL) and lets any query
  fail (`QueryFails`). `wrote`, `filed` (attachments), `clash` and `first` (the tables
  the process found) only observe. `Decoded` says what the request structs let a handler see.

### Throttle

The settings of a tenant and its SMTP configuration through `ttlCache`, whose
`Get`, `ReadRow` and `Set` are steps of their own, and a token of the bucket in
Redis (`Allow`, the script as one step). `UpdateRow` replaces a row; every version of
the settings has a `Rate` and a `Burst` of its own, and each worker calls with the
version it has cached. Tokens are counted in fractions and time in parts of a second,
so that a rate is a natural number. The time a call hands over is any in `Stamps`:
clocks differ, drift and are set back, within `MaxSkew`. The key of the bucket expires
as the last caller's EXPIRE says (`KeyTtl`), and a bucket is then full again at the
next caller's burst. When Redis gives no answer (`AllowFails`) the script may have run,
and its client calls again or the run ends with the error: no mail passes without a
token. `retired`, `late`, `granted`, `raised` and `slowed` observe.

### WorkerProcesses, Archive and Partitions

`WorkerProcesses` is what the daily tasks see of the processes: start, `Schedule` by
every process that is up, `Take`, `Return`, `ReturnError` (the task comes back),
`Stop`, `Crash`. `Archive` and `Partitions` extend it with their handlers.

* `Archive`: a batch reads the rows (`BeginBatch`), locks those that still match and
  nobody holds (`LockBatch`, SKIP LOCKED) and copies and deletes them (`CommitBatch`).
  An error rolls back and brings the task back (`FailArchive`), but one of the INSERT
  itself, which nobody looks at, ends the task (`FailInsert`); a commit may succeed
  without an answer (`LoseCommit`). It meets the four calls of the manual retry
  (`RetryRead`, `RetryEnqueue`, `RetryTaskId`, `RetryStatus`), those of the cancellation
  and the steps of the runs of every `task`, whose writes wait for locked rows and
  change nothing when the row is gone. How often a task is run is left open here;
  `closed` observes the mails a run or a cancellation has closed since they were queued.
* `Partitions`: EnsurePartitions month after month over a calendar (`MonthAfter` is
  AddDate), and `MigrateFromDefault`, whose transaction is one step because DETACH
  locks the table; entries are logged meanwhile.

Every specification module also defines faulty variants of some actions
(named in their comments as faulty). They are not part of `Next`: the
properties are tested against them (`mutants` in `PROJECT.json`).

## 3. Runs

Every run takes less than five minutes on two cores. `CHECK_DEADLOCK FALSE` is
set where the system may rest: all mails settled, all identifiers used up, the
process exited. The breaker never rests, and its run checks deadlock.

| Run | Instance | Shows |
|---|---|---|
| `delivery_one_task` | 1 mail, 1 task with MaxRetry 2, 2 requests, 1 fault, fairness | tries are bounded by MaxRetry + 1 and the shutdowns; a mail is failed only after MaxRetry - 1 runs that count, whatever crashes and delays come between; the text is kept until delivery; a task is forgotten only after its mail was delivered or for a cancelled mail; the delivery contract with a crash, a shutdown or a lost write between any two steps; no task stays active for ever; the task of a cancelled mail leaves the queue |
| `delivery_campaign` | 2 mails, 2 tasks, chunks of 1, 1 request, 2 workers, returned errors | what a row says of its delivery holds when two runs of two tasks of a mail overlap; a row never names the other mail's task, though an enqueue of the campaign may fail and a chunk may be set to queued late; a cancelled mail stays so once what overlapped the cancellation is over; the delivery contract: no task is sent, closed or removed for the other mail |
| `breaker` | 1 configuration, 4 goroutines, threshold 2, cooldown 2, fairness | the contract, the reason of every refusal, the race for creation, results that arrive after the breaker tripped; an open breaker is tried again, a trial decides |
| `attachments` | 2 contents, 2 requests, 1 collector in batches of 1, 2 faults, fairness | links keep their rows and, unless a Put crossed a collection, their blobs; no blob is wasted without a failure or a late Put; orphans are collected |
| `audit` | 4 requests, 2 workers, a queue of 1, fairness | accepted entries are settled before Close returns; an entry is lost only by a request that outlived Shutdown or a queue others had filled; a shutdown ends |
| `api` | 3 requests: any two of about eighty with a reader, any three of those that compete for the same rows; an empty database, a filled one, and one in which the tenant of the administration was renamed; 1 failing query | an answered key works; the administration is locked out only by a rename, of now or before; refusals change nothing but what is named; a lost default, an ended mail, a zone that differs from the branding have their causes; rows of tenants stay apart |
| `throttle` | 2 processes with a goroutine each, times 1 unit apart, a version with twice the rate and one with three times the burst, TTL 1, fetches of up to 1 unit, a key that lives 2 units or 6, 2 units of time | a tenant gets no more tokens than the largest burst and the highest rate give, plus what the counted exceptions cost; staleness within TTL and fetch |
| `archive` | 2 archivers, 1 mail, 1 retry, 1 cancellation, the runs of both tasks, 1 fault | a mail and its recipients are in one place; a mail put into the queue is not archived before a run or a cancellation has closed it |
| `partitions` | 2 processes, the 1st and the 31st of January and the 1st of February, 1 entry, 1 fault, fairness | entries are neither lost nor misplaced; a run that ends well has covered its months; the current month gets its partition |

Why the bounds are enough: no action relates more than two mails, tasks or
requests, and the hazards need two of one kind at most (two tasks of one mail,
two runs of one task, a request against a collection). With a MaxRetry of two
the first, the last but one and the last run differ. Four goroutines and a
threshold of two leave two late results after the breaker tripped. A queue of
one with four entries is full while both workers are busy. In `api`
a third request stands between the read and the write of one and the answer of
another, and the worker's steps between all of them. Collections of two processes
may overlap; `attachments` has one collector that starts again and again, since the
theorems about the same properties hold for any number of them. In `throttle` the
key expires at one version before the bucket of the other could be full, and the time
of a call may be behind that of the call before; versions are used for longer than the
TTL after they were replaced. One mail suffices in `archive`: batches and transactions
relate two mails only in what they hold (`LocksHold`), which is proved for any number.
Faults, runs and requests of two or more mails at a time would multiply the states of
the delivery: faults are in the run of one task, the second mail and the second worker
in the other, and the theorems join them.
In `partitions` a run of January 31st skips February and the
next one finds an entry of February in the default partition. The bounds are
constants: `MaxRetry` and `BatchChunkSize` are the code's; `MaxFaults`, `MaxRows`,
`MaxDue` (daily tasks that wait), `MaxTime`, `MaxVersion`, `MaxFetch`, `MaxSlowed`,
`MaxMonth` and `MaxEntries` bound the environment. The theorems of
section 5 lift the bounds for everything that is not a liveness property.

### Where the code and its documents disagree

Each of these runs ends in a counterexample.

| Run | Property | Statement | What the code does |
|---|---|---|---|
| `doc_att_link` | `LinkedBlobPresent` | `service/attachment_service.go:85-87` | a Store between the deletions of row and blob recreates the row and loses the blob |
| `doc_archive` | `ArchivedAsItWas` | `worker/archive_handler.go:32-33` | the INSERT does not name `compressed_body`, the only text a sent mail still has |
| `doc_archive_retry` | `RetryRelaunches` | `service/mail_service.go:600` | a failed mail archived between the calls of Retry is never sent, and Retry answers with success |

Others, met while modelling and visible in the actions, have no run:

* `src/README.md:93` draws the status flow queued, sending, sent. `SetQueued` runs
  after the enqueue and overwrites the `sent` of a faster worker
  (`CreateSetQueued`).
* `worker/server.go:35-36` says delays must not use up the retries of a mail. They are
  not counted, but the ErrorHandler compares the count alone: once MaxRetry - 1 runs have
  failed, a run that is only delayed marks the mail failed (`ErrorHandler`,
  `FailedIsSpent`).
* `worker/circuit_breaker.go:104` says a trial is in progress in half-open. A handler
  that leaves between `Allow` and the send leaves the breaker half-open for good
  (`AbandonSend`).
* `service/attachment_service.go:34-35` says a missing blob can be repaired and retried.
  After a failed Put later Stores find the row and skip the Put (`UpsertMeta`).
* `handler/bind_contract_test.go:128-130` says callers must not read the request when
  bindRequest has written an answer, as its signature demands. Its result is nil, so
  they do, and may write a row behind a 400 (`Code`; `RefusalChangesNothing` excuses
  them).
* `worker/partition_handler.go:31` promises the current month and the three next.
  From the 29th on, AddDate skips the months that have no such day
  (`MonthAfter`, `DoneMeansCovered`).
* `src/frontend/src/i18n/fr.json:396` says a mail fails only at the last try. The
  handler compares with `maxRetry-1` (`worker/mail_handler.go:257`), one run before
  Asynq's last (`LastRetry` against `AfterReturn`).
* `domain/errors.go:29-30` says permanent SMTP errors are not retried.
  `adapter/mailer/sender.go` never builds that type, so they are (`SendErrs`).
* `worker/server.go:51` marks a mail failed on its last retry. The recoverer
  archives a task without the ErrorHandler, and the row stays `sending` (`Recover`).
* `service/attachment_service.go:77-78` says the grace period protects a content a
  campaign in creation refers to. The upsert keeps the old `created_at`, so a
  reused orphan has no grace (`FindRow`, `Orphans`).
* `src/cmd/mailhive/main.go:453` says no request logs after Shutdown. Shutdown gives
  up after ten seconds; a request still running logs during or after Close, and
  its entry is ignored or its send panics (`ShutdownTimesOut`, `Send`, `LossHasCause`).
* The refusal of one recipient counts like an outage of its server: a few bad addresses
  trip the breaker of a healthy configuration (`worker/mail_handler.go:243`).
* `worker/gc_handler.go:21-22` says the blob is deleted before the metadata; the code
  does it the other way round.

## 4. Fairness

* MailDelivery: a handler that has begun goes on (its calls have timeouts), the
  recoverer scans each minute, a request that has begun goes on: weak fairness.
  Asynq hands out due tasks by weight over queues and in order in each, so a task
  that keeps being due is handed out although another may take the worker:
  strong fairness of `Dequeue`. Faults are never forced.
* CircuitBreaker: time passes and goroutines go on. Mails of each configuration
  keep coming: strong fairness of `Begin`, an assumption about the load,
  without which an open breaker is simply not asked.
* Attachments: the scheduler starts a collection each hour and a started one
  goes on. Requests and archiving are not forced.
* Partitions: a process that is up goes on, and one that is down is started again by
  its supervisor: weak fairness of `Progress`. Faults and `Stop` are not forced.
* AuditLog: writes have a timeout of five seconds, so workers go on, and so does
  a shutdown that has begun. Requests are not forced to end: that is why
  Shutdown can time out.

## 5. Theorems

The modules `*Proofs` are checked by `tlapm` with no step left out. The
assumptions are the named `ASSUME`s of the modules: bounds are naturals (retry
count, threshold, cooldown, batch, chunk and queue sizes positive), each "none" value
is not a member of the set it completes, and the requests of the audit log are finitely
many. One assumption is about the environment: the times that two calls of the limiter
hand over at one moment are less than half of the least EXPIRE apart, 30 seconds
(`SkewAssumption` of `Throttle`). With larger differences a call could find the key
kept although its bucket had long been full at its own time. Nothing is assumed of the
settings but that rates are positive, as `TenantSettings.Validate` demands.

* **MailDeliveryProofs.** `TypeCorrect`; `InductiveInvariant`;
  `AttemptsAreBounded`, `SentIsDelivered`, `BodySurvivesUntilDelivery`,
  `TaskIdIsOwn`. None of the properties is inductive. `IInv` adds that a busy
  worker owns its active task and no one else does (`RunsHoldTasks`), that a free
  task id has no history (`FreeIsNew`), that the retry count pays for the tries,
  with one try more while a run is past MarkSending (`AttemptsCounted`), and that
  a claim about to be written is already true: a run at MarkSent has delivered,
  a request about to write a `task_id` holds one of that mail
  (`RowsFollowTasks`).
  * `NothingIsLostSilently` needs one thing more: a run about to return nil after a
    send has written sent_at, and nothing unsets it (`ReturnsAreRecorded`).
  * `CancelledIsLeftAlone` is an action property: `QuietStep` shows for each kind of
    step that a mail nobody holds is neither written nor taken up.
  * `RefinesContract`: every step of `Next` is a step of `DeliveryContract` or a
    stutter (`CreationRefined`, `CancellationRefined`, `RetryRefined`,
    `AbandonRefined`, `HandlerRefined`, `EndRefined`, `QueueRefined`). The acceptance
    limit comes from `AttemptsCounted`, the withdrawal of one's own task from
    `RowsFollowTasks`, that a crashed run leaves a taken order and that a held task has
    one holder from `RunsHoldTasks`, the closing from `ReturnsAreRecorded`.
  * `FailuresAreCounted`: `FailedIsSpent` is inductive next to `IInv`. Failures are never
    taken back, so a spent task stays spent, and only a run of such a task writes failed
    (`RunFailsOwnMail`): the ErrorHandler reads Asynq's count, which is never above that
    of the failures (`RetriesAreFailures`).
* **CircuitBreakerProofs.** `InductiveInvariant`: registered breakers are
  distinct, a goroutine in a call works on the registry's breaker, and a breaker
  is closed exactly while its streak is below the threshold. From it
  `RefinesContract` (initial states and steps map to the contract's) and
  `RefusalsHaveReasons`.
* **AttachmentsProofs.** `LinksLoad`, `WasteHasReason`. A row created while no
  collector was about to delete its content is never exposed to one: living
  contents are distinct, so a collector only gets to that content by deleting
  this very row, and the row is then gone. A blob loses its row only to a
  collector that is about to delete it, and a collector that fails, or a Put
  after the deletion, is recorded in `wasted`.
* **AuditLogProofs.** `ClosingDrains`: a worker returns only when the channel is
  closed and empty, a closed channel never fills again, and an accepted entry is
  in the queue, with a worker or settled. `LossesHaveCauses`: `LateAreKnown` says that
  what is queued was accepted, so that a full queue means as many accepted entries, and
  that a request still running after Shutdown is one it gave up on.
* **ApiProofs.** The theorems hold for any set of requests over any database and any
  number of failing queries. What is assumed of them is what the code decides before:
  ids and keys are generated (`NothingAssumption`, `AdminKeyAssumption`), a row has its
  columns and a stored template parses (`DatabasesAssumption`), and a handler gets what
  its request struct can hold (`ArrivalsAssumption`). Each property has its own
  invariant, which follows the handlers only as far as that property needs; the steps
  it is not about are shown to leave its tables alone, once for each.
  * `AnsweredKeyStaysGood`: `KeyInv`. A request that has inserted nothing has a free id
    (`Fresh`), a handler about to write a tenant has read it (`Known`), and a tenant
    whose new key was answered has the key of a finished RegenerateAPIKey (`KeyKept`).
  * `TypesHold`.
  * `TenantsStayApart`: `RowInv`. A handler that will write back a row, or refer to one,
    holds one of its own tenant (`HeldRow`), also when the row is deleted meanwhile, and
    a generated id is never taken again. Without the last part an insert between the
    check and the use of a reference could put another tenant's row there.
  * `RefusalsAreClean`: `RefusalInv`. A request that wrote is at a step from which no
    refusal comes, or is done and excused. `FiledInv` does the same for attachments: a
    request that has stored one is creating a mail and is past every refusal that does
    not come from a later attachment or a recipient of its campaign.
  * `ZoneIsApplied`: `ZoneInv`. The update between its write and its application
    carries the zone of the row.
  * `LockoutHasCause`: `AdminInv`. Without a rename the row with the key of the
    administration has its slug (`Named`), a handler about to write a tenant writes back
    the slug the row has or was asked, and who found the key taken finds the row (`Seat`).
    The attempt showed an earlier form of `AdminLockedOutByRename`, which blamed
    only updates to other slugs, to be false: an update that gives the tenant its slug
    back is undone by one that read the old slug before and writes it after. The
    property now names that case.
  * `LossesHaveCauses`: `DefaultInv`. Without overlapping writes an update
    writes back what the row has and what it was asked (`HeldConfig`), and a tenant has
    a default or a lasting cause (`Fate`).
  * `FatesHaveCauses`: `MailInv`. The mail, the copy the worker holds and the caches
    either show what the request asked for or a cause has already happened
    (`MailSound`, `JobSound`, `CacheSound`, `TextsSound`), and causes last (`Lasting`).
* **ThrottleProofs.** `QuotaIsKept`: `BucketSound` bounds the tokens given and left by
  the largest burst and by what the highest rate gives until the last call, where the
  part that lies ahead of real time is reckoned at the rate of the last caller only. A
  call that finds the key kept adds at most its own gain, or, at a lower rate, is counted
  in `slowed` (`KeptSound`). A call that finds it expired gets a full bucket: what the
  bucket before could have gained meanwhile at the rate that set the EXPIRE is at least
  its burst (`KeyTtlCovers`), so that only a larger burst gives more, and such a call is
  counted in `raised` (`FilledSound`). An earlier form of the theorem assumed that every
  EXPIRE covers the largest burst; a burst that is lowered and raised again at a low rate
  shows that the code does not. `StalenessIsBounded` needs that a cached version was
  current at most a fetch before it was stored (`CacheSound`, `JobSound`).
* **ArchiveProofs.** `MailsAreInOnePlace`: a locked row is there, finished and nobody
  else's until the commit (`LocksHold`), which needs that every other write waits for the
  lock. `NothingPendingIsArchived`: the archiver looks at the row alone, so the invariant
  says when a finished row, or one that is gone, can have a task (`PendingSound`): it was
  closed since it was queued last, or the task is that of a retry that has not said
  queued. Without the second part the statement is false: a retry enqueues its task before
  it writes the row.
* **PartitionsProofs.** `EntriesStayInPlace`, `EndedRunHasCovered`: partitions never go,
  and the months a run has passed are covered (`RunsCover`).

Only model-checked: the properties under fairness (`ActiveTaskSettles`,
`CancelledDrains`, `OpenBreakerIsTried`, `TrialDecides`, `OrphansAreCollected`,
`EntriesSettle`, `MonthCovered`), which are out of the prover's reach. Every other
property a passing run checks is a theorem.

## 6. Not modelled

* The scores of the analyses (`analysis/spam.go`, `htmlcompat.go`, `linkcheck.go`): tables
  of wordings and regular expressions over one text.
* The LLM assistant (one outgoing call per request), localisation, body compression
  (a gzip round trip) and the React front end: no state of the system.
* The signature and expiry of a JWT, and RefreshToken, which reads no row.
* Lists, statistics, the queue dashboard and the health checks: they only read.
* Reading the configuration, connecting, logging: wiring.
* Within modelled components: the eviction of a cache of ten thousand entries, hosts,
  passwords and charsets of a configuration beyond being valid, priorities of queues.

PostgreSQL, Redis, Asynq, the SMTP server and the object store are external: each
is modelled by the promise the code relies on (one statement is atomic, a
transaction is one step, a task is handed out at least once, a script runs alone).

## 7. Plan

Done: the delivery, the breaker, the attachments and the audit log with their proofs;
the API, the caches and the limiter, the archive and the partitions with theirs;
every safety property a passing run checks is proved, and the delivery and the breaker
each implement a contract. Open:

1. `Intake` composed with `MailDelivery`, so that a retry prepares its mail again.
2. Contracts for the audit log (a queue that loses nothing it accepted) and for the
   archive (a move of whole mails).
