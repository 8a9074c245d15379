# Verification of mailgun-ses-proxy

The proxy takes newsletters from Ghost through a Mailgun-shaped HTTP API, sends
them with Amazon SES, and stores what SES reports about each e-mail. This
directory holds TLA+ models of it, TLC configurations that check them on small
instances, and proofs that TLAPS checks for every value of the constants.
`PROJECT.json` lists the components, the runs, the hazards, and for every
definition the source lines it models.

    tlc -workers 2 -config MCNewsletterSender.cfg MCNewsletterSender
    tlapm NewsletterSenderProofs.tla

## The system

One Node.js process (`server.ts`) serves HTTP with Next.js and runs three
background workers. A container platform replaces the process when it exits, and
during a replacement two processes run side by side.

| Part | State | Operations | Talks to |
|---|---|---|---|
| Newsletter sending (`service/newsletter-service.ts`) | tables NewsletterBatch, NewsletterMessages, NewsletterErrors; the newsletter queue | `addNewsletterToQueue`, `validateAndSend`, `processBatch`, `sendSingleEmail` | SQS, SES, MySQL, task queue |
| SQS worker loop (`lib/core/sqs-worker.ts`) | shutdown flag, open receives, per-poller error count, batch in hand | `startWorker`, `receiveSqsMessages`, `processSqsMessages`, `deleteMessageBatch`, `requestShutdown` | SQS, handlers, worker registry, supervisor |
| Worker registry (`lib/core/worker-registry.ts`) | one entry per worker: alive, heartbeat, busy count, totals | `registerWorker`, `heartbeat`, `begin/endWorkerProcessing`, `markWorkerDead` | worker loop, health pages |
| Supervision (`lib/core/worker-supervisor.ts`, `server.ts`) | shutdown flags, settled workers, grace timer, exit code | `watch`, `settle`, `initiateShutdown`, `finishShutdown` | workers, process signals |
| Task queue (`lib/task-queue/queue.ts`) | array and head pointer, running count, pump flag, counters, waiters | `enqueue`, `process`, `executeTask`, `waitUntilFinished`, `clear` | `processBatch` |
| Event ingestion (`lib/core/event-processor.ts`, `service/database/db.ts`) | NewsletterNotifications, SystemMailNotifications, NewsletterNotificationOrphan | the handlers of the two event queues | SQS, MySQL |
| Orphan reconciliation (`db.ts`, `scripts/`) | reconciledAt of an orphan | `reconcileNewsletterNotificationOrphan` | MySQL |
| Retention, selection and dry run (`newsletter-retention.ts`, `-plan`, `-candidate-loader`, `-coordinator`, `-escrow-loader`) | candidates, plan, manifest, escrow records so far | one query at a time, without a transaction | MariaDB, publication |
| Retention, escrow file (`-escrow.ts`, `-escrow-writer.ts`, `-cli.ts`) | accumulator; look-ahead of the verified source | `consume`, `finalize`, `readBatchRecords` | file system |
| Retention, publication and command line (`-cli.ts`, `scripts/newsletter-retention*`) | published files | link a complete anonymous file, accept an identical one, read inputs | file system |
| Retention, apply (`-apply.ts`, `-applier.ts`) | completed count, receipt | one Serializable transaction per batch | MariaDB, escrow file |
| Retention, named lock (`-runtime.ts`) | GET_LOCK on a connection of its own | acquire without waiting, release | MariaDB |
| Events API (`service/events-service/`) | the analytics gate; the client's cursor | `getEmailEvents`: id query, payload query, next link | MySQL, Ghost |
| Health (`lib/core/health-status.ts`, health routes) | none of its own | the verdict over all registry entries | worker registry, container platform |
| Dashboard accounts (`lib/dashboard/auth.ts`, `app/dashboard/api/`) | table DashboardUser, cookies | `ensureBootstrapUser`, login, credential update, logout | MySQL |
| Transactional mail, dashboard pages | SystemMails | HTTP handlers | MySQL, SES |

What is hard here: nothing spans SES, SQS and MySQL in one transaction, so every
pair of calls can be cut by a failure or a death; SQS delivers at least once and
redelivers while a handler is still at work; the pollers of a worker share state
across awaits; shutdown races with everything; and the events about an e-mail
race with the insert and with the removal of its row. Ghost pages through events
by a cursor while rows with equal timestamps are committed and deleted around it.
The pollers of a worker share one registry entry, from which the platform
decides whether the process is well; and every login of every replica first
repairs the table of accounts, one statement after the other. Retention decides
from files days after it wrote them, on tables the proxy goes on writing, under a lock
that can vanish with its connection.

What makes each part correct:

* *sending*: nothing acknowledged is unsent; nothing is sent twice beyond what
  lost rows force; what was accepted is sent in the end;
* *worker loop*: only finished work leaves the queue; a worker reports its end
  last, drained and dead; failures and shutdown end it; messages are worked off;
* *supervision and health*: code 0 exactly after a requested and complete drain; a
  lost worker ends the process within the grace period; "ready" is never a
  leftover, and nothing but trouble makes it go away;
* *events API*: no page repeats or skips an event; one reader at a time, and the
  gate opens again after every way out;
* *dashboard accounts*: nobody gets in while the historical account exists;
  concurrent first logins converge; rotated credentials stay;
* *task queue*: starts are spaced; no task is lost, repeated or reordered; nobody
  who waits is released early or never;
* *ingestion and reconciliation*: no tracked event is lost; reconciliation is
  all or nothing, and final;
* *retention*: what is deleted is in a published escrow, expired, within the
  limits and whole; an open orphan keeps its e-mail; an escrow is not torn; the
  report is what happened; the lock is given back;
* *escrow file*: exactly the well-formed streams are accepted, and what is read
  back is what was verified.

## The modules

**NewsletterSender** – the path from the POST to the deleted SQS message. The
three tables, the queue and the progress of each process and recipient are
variables; `sendSingleEmail` is one action per await (`StartTask`, `SesAccept`,
`RecordSent`, ... and the failure of each). A failed call may have taken effect
(`EnqueueFails`, `SesReject`, `RecordSentFails`, `AcknowledgeFails`). `Crash` is
the death of a process and the start of its replacement. `Poison` is the set of
batches `preparePayload` throws on. `sends`, `lost`, `overlapped` and
`sesFailures` are history. The task queue appears as a bound on running tasks.

**SqsWorker** – `startWorker` with several pollers. An action is what JavaScript
runs between two awaits, so the gap between the loop's condition and the receive
(`"yielding"`, a `setImmediate`) is a state of its own. Lanes lost to a handler
that overran its deadline stay lost while the handler goes on (`"overdue"`,
`"late"`).

**WorkerGroup** – what the rest of the process sees of a worker's pollers: where
each is, the mark of life they share, and whether the worker's promise has settled.
SqsWorker implements it with the pollers of one worker in full and without a clock
(`ImplementsGroup`), Process with those of all workers reduced to the registry and
the clock (`ImplementsGroups`). It is the bridge between the two: what Process says
of a poller is no more and no less than what the detailed poller can do.

**TaskQueue** and **TaskPool** – the array with its head pointer, the pump that
sleeps between two starts, and the counters; and what that machinery promises:
submission order, bounded concurrency, waiters released when it is empty and not
before. The mapping reads the array from `head` on.

**EventIngest** – the e-mail's row as it comes (after SES accepted), fails to
come, is restored by an operator and is removed by retention; concurrent handler
calls and reconciliation runs, a step per await. A foreign key error that does not
name its field is rethrown like any failed save (`QueryFails`); an event tagged for
the other queue finds no row in this one's table, like the event of an e-mail that
never gets its row. The last section models the
column `type` and the totals of the dashboard.

**WorkerHealth** – the registry entry that the pollers of a worker share, with
clock readings: the operations of `worker-registry.ts` as functions on an entry,
the verdict of the health endpoints (`Ready`, `Degraded`, `Status`), the pollers
reduced to where they are and since when (what happens between two calls of the
registry is SqsWorker's), and the queue-depth sampler with its interval and its
request under way. It has no Next of its own.

**Process** – extends WorkerHealth with `server.ts` and the supervisor: startup,
signals, uncaught exceptions, workers that settle, the grace timer and the exit
code. A tick is 30 seconds, the sampler's interval. The clock may not pass an
expired timer of a receive, a backoff or the grace period; a handler, which has no
timer that stops it, may outlast everything.

**EventsApi** – `getEmailEvents` in its two queries, for clients that follow
`paging.next`: `BuildEventIdQuery` has one limited subquery per event type, their
union, the outer limit and the legacy offset, as the SQL text has. A row is
inserted (and takes its timestamp) before it is committed, so it can appear
behind a client's cursor; `due` is the history of what appeared ahead of it.

**DashboardAuth** – the statements of `ensureBootstrapUser` and of the login
route, one step each, by any number of concurrent logins, with the settings and
logout routes. Two reads that `Promise.all` starts together happen in either
order. The unique index is what `Create` and `UpdateLegacy` run into. A statement may
fail, and a write may take effect while its answer is lost.

**RetentionTables** – the five tables retention shares with the proxy, the
queries over them, the proxy's own writes (`Writers`: a batch's e-mails and
failures, notifications, orphans and their reconciliation) and `DeleteBatch`, the
four `deleteMany` of a batch's transaction. `deleted` is history.

**Retention** – any number of dry runs and apply runs, with their command lines.
A dry run takes one step per query: the batches with their counts (`LoadBatches`),
e-mails and open orphans of each candidate (`LoadMessages`,
`CountBatchLinkedOrphans`), the plan, then the stream (`LoadBatchRow`,
`LoadMessageRows`, `LoadErrorRows`, `LoadNotificationRows`,
`ValidateOrphanCount`), each with the comparison the code makes against what an
earlier query said, then the three outputs. An apply run reads and admits its
three files (`ReadInputs`, `Admitted`) and goes through the bindings: the
transaction is Serializable, hence one step, which re-reads the batch, compares it
with the escrow record and deletes (`ApplyBatch`), or refuses
(`ApplyBatchRefused`), or commits without the client learning of it
(`ApplyBatchUnacknowledged`). `Throw`, `Crash` and `LoseLock` may happen at any
await; a `Throw` after the last batch is also the escrow source whose `close` fails
and turns the receipt into an error. A published file is a value and never changes, and a hash is the content
it is computed from.

**EscrowStream** – the inside of what Retention treats as one file: the
accumulator line by line (framing, manifest order, kinds, ascending ids, unique
keys, references, limits, footer, nothing after the footer, `finalize` at the end of
the file) on arbitrary records, and then the verified
source that hands the file out batch by batch with one record of look-ahead while
somebody may rewrite the file. `WellFormed` is the reference: it looks at the whole
sequence, never at the accumulator's state.

`MC*.tla` give the constants their values. Operators named `X_Something` next to
an operator `X` are mutated forms of it, used to test that the properties notice
a plausible bug in that line of code.

## The runs

| Run | Instance | Shows |
|---|---|---|
| `sender` | 2 batches (one cannot be prepared), 3 recipients, 2 processes, 1 fault | AckedBatchIsFullySent, DuplicatesBoundedByLostRows, NoResendAfterRow, AcceptedIsEventuallySent |
| `sender_errors` | 1 batch with an address listed twice, 1 process, 1 fault | violated: SesFailureIsRecorded |
| `worker` | 2 pollers, 2 messages, breaker at 2, 2 faults | DeletedWasHandled, SettledIsOver, WorkerSettles, MessagesAreWorkedOff, ImplementsGroup |
| `task_queue` | 3 tasks, 2 waiters, 2 at once, cut after 1 | ImplementsPool, StartsAreSpaced, ReportIsComplete, NoWakeUpIsLost |
| `ingest` | a newsletter and a system event, a malformed message, 2 handlers, 2 reconciliations, 2 faults | AckedEventIsDurable, ReconciledIsStored, ReconciledForGood, TrackedEventIsStored |
| `ingest_overview` | 2 events | violated: OverviewCountsStoredEvents |
| `process` | 2 workers, with 1 and 2 pollers, 4 ticks, 2 faults; 2.1 million states | ExitCodeIsHonest, LostWorkerRestartsInTime, ReadyIsJustified, UndisturbedIsOk, ImplementsGroups |
| `retention` | 3 batches, 2 e-mails, 1 failure, 1 notification, 1 dry run, 2 apply runs, one with a smaller limit | DeletedIsEscrowed, ForeignKeysHold, OnlyExpiredDeleted, WithinCaps, ReportIsExact, EndedHoldsNoLock, ReconcilableStaysSo |
| `retention_publish` | 2 dry runs with three command lines that share output names, an apply run behind them | EscrowIsConsistentCut, SuccessPublishedOwnFiles |
| `escrow_stream` | 2 ids, 2 batches, up to 6 records; 1.5 million states | VerdictIsRight, ReturnedIsVerified |
| `events_api` | 3 events, 2 of a type, 3 timestamps, 2 clients, 3 queries; 1.9 million states | PagesDoNotRepeat, NoneSkipped, OneReaderBehindGate |
| `dashboard_auth` | 3 logins, every table found at deployment, 2 rotations, 1 fault | LegacyIsRetired, BootstrapConverges, LaterLoginsChangeNothing |

The type invariant of Retention is among the invariants of its run (it says that no
index leaves its list); the other modules' were checked on the same instances, are
proved below, as theorems or as conjuncts of the inductive invariants, and can be
added to any cfg.

### Bounds

`MaxFaults` bounds failed calls and deaths. One is enough in `sender` for an
accepted e-mail whose row is lost and which the retry mails again; that further
losses add nothing is what the theorems below show. Two in `worker` let one poller reach its breaker while the other is anywhere. `MaxErrors` is 2 in place of 50 and `CleanupAfter` 1 in place
of 1000: both are thresholds of counters that grow by one, and the runs cross
them. Two pollers with a batch of two and one lane each have a queued message
behind a running one, a message delivered twice, and a sibling in any state when
the other fails. One event is enough to race one reconciliation, the second
handler and the second reconciliation make it race itself.

In `process` the worker with two pollers has one in hand while the other ends its
batch, and the other worker makes the verdict a conjunction. `WorkerStale` 2,
`ProcessingDeadline` 3, `TelemetryStale` 3 and `Grace` 1 keep the order of the
defaults (a full long poll fits below the threshold, a skipped sample below its
own), and 4 ticks pass each of them. Pollers of a worker are symmetric. Three
events in `events_api` are a page of two that is full and one beyond, with two
timestamps equal; a second client is there to contest the gate. Three logins are
the smallest number of which two race in the bootstrap while a third begins after
a rotation.

Retention is unbounded only in what its constants bound: each invocation runs
once, rows come from small sets, and failures need no counter. Batches 1 and 2 tie
on every public field (site, batchId, creation time), so that only counts and
private ids tell them apart; batch 3 was created exactly at the cutoff. One dry run
and two apply runs are the smallest case in which a lost lock lets two deleters
overlap on the same files and in which a stopped run is repeated. Two dry runs
with shared names give every combination of own and foreign files. The
invocations of a command are symmetric. In `escrow_stream` two ids make every
kind of collision, and six records are a batch with one row of each kind followed
by a second batch with a row of its own; `RecordLimit` 6 and `MessageLimit` are
crossed.

### Fairness

Timers fire, promises settle and the event loop runs what is ready: weak fairness
on the steps of handlers, pollers and pumps. SES and database clients answer or
throw (a handler that hangs keeps its poller in hand in `Process` until the grace
period ends the process, hence a `Crash` of `NewsletterSender`). SQS makes an
unacknowledged message visible again (weak fairness on `Expire`) and does not
starve one message for the sake of others (strong fairness on receiving a given
message). Nothing is assumed of requests, failures, deaths, signals, operators
or retention; failures are finite in number because of `MaxFaults`. The liveness
properties describe queues without a redrive limit: with a dead-letter queue
they hold for as long as the limit is not reached. `Process` needs no fairness:
that something happens in time is an invariant over a clock that does not pass an
expired timer. `EventsApi` and `DashboardAuth` promise nothing of clients. Retention needs no fairness: the lock is taken without
waiting, so nobody waits for anybody, and that it is given back is an invariant.

## Disagreements between the code and its text

* `sender_errors`: the row for a SES failure is given the `v:email-id` where the
  foreign key wants `NewsletterBatch.id`; the insert fails, the failure is logged,
  and NewsletterErrors stays empty.
* `ingest_overview`: the overview counts `Delivery`, `Bounce` and `Complaint`; the
  stored types are `delivered`, `failed` and `complained`.

Noticed while modelling, and visible in the models without a run of its own:

* a poller waiting in `setImmediate` between the loop's test and the receive
  (`sqs-worker.ts:325`) opens a long poll after `requestShutdown` announced that
  polls were aborted (`sqs-worker.ts:33`). It ends at its own deadline, so
  `WorkerSettles` holds, but that may be after the grace period.
* `docs/CAPROVER_OPERATIONS.md:147` lets a client stop at an empty page, which does
  not move the cursor; a page whose rows retention deletes between its two queries is empty and still
  moves the cursor. `NoneSkipped` therefore speaks of an empty *id query*.
* a login that read the table before a rotation may write after it, and then puts
  the configured credentials back or creates a second account; hence
  `LaterLoginsChangeNothing` speaks of logins that begin after the rotation
  (`docs/CAPROVER_OPERATIONS.md:55`). And where the historical and the configured
  row both exist, the second of two concurrent logins finds its row deleted and is
  answered 503 once.
* a registry entry keeps the latest of its batches' deadlines
  (`worker-registry.ts:77`), so a batch that is overdue does not show as long as a
  sibling has taken another one less than a deadline ago, and with busy siblings for
  as long as they are. `docs/CAPROVER_OPERATIONS.md:96` promises 503 when a worker
  "permanece processando além do prazo derivado do seu `visibilityTimeout`". Read
  per batch, that holds for a worker with one poller and not for one with several;
  `ReadyIsJustified` is stated per batch and names this exception
  (`HiddenBySibling`). The one worker with several pollers,
  `newsletter-events`, bounds its handlers (`handlerTimeoutMs`,
  `background-process.ts:37`), so today such a batch is one whose DeleteMessageBatch
  hangs.
* if `app.prepare` fails and nothing keeps the event loop alive, the grace timer is
  unref'ed and the process may end with code 0 (`NaturalExit`).

An existing artifact or manifest is
accepted when it is identical, as `docs/NEWSLETTER_RETENTION.md` says of the JSON
outputs; an existing escrow file never is, so a dry run that failed after its
escrow was linked is repeated with a new escrow name.

## The proofs

Eight modules `*Proofs.tla` prove, for every value of the constants, every property
that the passing runs check except the five of liveness: all safety invariants, all
action properties and the three refinements (TaskPool once, WorkerGroup twice). Of
the liveness properties they prove the safety core, which is what a lost wake-up or a
dropped message would violate. Each rests on the named assumptions of
the module it extends and on nothing else. None of the safety properties is
inductive alone; the sections below say what had to be added and why. Every
inductive invariant was checked with TLC on the run's instance before it was proved.

**NewsletterSenderProofs** proves `TypeCorrect`, `AckedIsSent`,
`DuplicatesAreBounded`, `QueuedIsStored` and `RowStopsSending`, from
`SenderConstants`. `SendingInv` adds what ties the pieces
together: a busy handler holds a batch (`BusyHoldsBatch`), and alone unless the
batch overlapped (`HeldAlone`); its tasks are that batch's (`TasksOfHeldBatch`);
a task that is done has its row (`DoneHasRow`) and a handler about to acknowledge
has only such tasks (`AckingIsDone`); a queued id has a row (`CreatedHasRow`,
`HeldWasQueued`). For duplicates the argument is: between its check and its
insert a guarded task has no row (`SendingHasNoRow`), and while there is neither a
row nor a send in flight every accepted e-mail was lost (`UnrecordedAreLost`:
sends <= lost). An accepted e-mail is then one more than the lost ones, until its
row ends sending for good or its loss is counted. `OneSender` says that only one
process can have a guarded recipient in flight, which is where `HeldAlone` and
the exclusion of addresses listed twice are needed. `AcceptedStaysOwed` is the safety
core of AcceptedIsEventuallySent: while an accepted newsletter lacks a row its id is
in SQS, from which follows that a delivery can still complete it.

**SqsWorkerProofs** proves `OnlyHandledMessagesAreDeleted` (DeletedWasHandled) and
`SettledWorkerIsOver` (SettledIsOver), from `WorkerConstants`. What a poller filters
by when it acknowledges was handled (`FinishedIsHandled`), handlers that outlived
their deadline included; a poller that goes on is below the breaker's limit
(`BelowLimit`); and lanes have work only while their poller handles a batch
(`QuietOutsideBatch`, `QuietWhileAcking`), which is what makes the end of the last
poller the end of the worker.
`FailuresReachSiblings` and `BatchesGoOn` are the safety cores of WorkerSettles and
MessagesAreWorkedOff: once a poller has failed no receive is open that the abort has
not reached, whichever of the two came first (`SignalsArrive`), and a batch in
progress always has a handler that runs or a lane for its next message
(`LanesAreKept`: the first lane lost to an overrun ends the poller).
`WorkerImplementsGroup` shows that the pollers in full implement WorkerGroup. It needs
the converse of `SignalsArrive` as well: a group is aborted only because one failed, a
poller stops only because of a shutdown request (`SignalsHaveCause`), or the abort of
a receive would be a step the group does not know.

**TaskQueueProofs** proves `StartsSpaced`, `QueueTypes`, `NobodyIsToldTooEarly`
(ReportIsComplete) and `QueueImplementsPool` (ImplementsPool). The flag
`isProcessing` and the pending delay go together (`PumpIsOne`), so whoever calls
the pump while a delay is pending returns at once. `Sound` says that the array
from the cursor on holds exactly the queued tasks, each once, and that
`runningCount` is the number of running ones, across the compaction of the array;
`RoundIsOpen` that a queued or running task belongs to the current round, which is
open as long as there is one or somebody waits; `Counted` that the two counters are
those of the round. The refinement has one lemma per action: enqueue is a
submission, the end of a delay a start or nothing, the end of a task a completion
that tells the waiters when it was the last, clear a discard. `QueueIsNeverStuck` is
the safety core of NoWakeUpIsLost: whenever a task is queued or a caller waits, a delay
is pending or a task runs. It holds because the pump stops only at the end of the array
or at the limit of concurrency (`PumpIsAwake`), and nobody waits without a task in
the round (`WaitersHaveWork`).

**EventIngestProofs** proves `IngestTypes`, `NoTrackedEventIsLost`
(AckedEventIsDurable), `ReconciledOrphansAreStored` and `ReconciliationIsForGood`,
from `IngestConstants`. What counts is what a handler knows at each await
(`HandlersKnowTheirEvent`): only an event that is stored gets to the
acknowledgement; a run of the script that is about to write has read an entry of
the ledger, which nothing removes (`RunsReadTheLedger`); and no step takes an event
out of storage other than into the history of retention (`StorageGrows`).

**ProcessProofs** proves `ExitCodeTellsTheTruth`, `LostWorkerEndsTheProcess`,
`ReadyIsNoLeftover` and `UndisturbedRaisesNoAlarm` about Process and WorkerHealth,
from `HealthConstants`, `HealthDefaults`, `GraceAssumption` and `NoneIsNoEntry`. `OneShutdown` ties
the flags of server.ts and of the supervisor to the one timer; `WatchedWhileServing`
says that the process is gone once the last worker has settled. `RegistryIsRight`
relates the shared registry entry to what the pollers do: the count is the number
of batches in hand, the deadline that of the latest, the heartbeat the last answer
of SQS. `SoleBatch` adds that a poller without siblings has the latest batch itself,
so that its overdue batch cannot be hidden. `Calm` is the part about false alarms: while nothing fails, every poller
has heard from SQS since its receive began and no sample is older than two ticks.
`HealthDefaults` says that the thresholds leave room for a full long poll and for a
skipped sample, as the defaults of the code do. `ProcessImplementsGroup` maps every
step of the process to one of WorkerGroup, or to none: the mark of a worker is that of
its entry, and an entry is replaced only by the step of its own pollers
(`OneMarkMoves`), a sample or the settlement.

**RetentionProofs** proves every property of both retention runs, for any tables,
command lines, file names and number of overlapping commands, from
`TableConstants` and `RetentionConstants`.
- *Nothing is lost* (`NothingLost`, `NoDanglingRows`, `OnlyExpired`,
  `OrphansStayReconcilable`, `LockIsGivenBack`): `IndInv` adds what makes a file
  trustworthy days later. What a dry run has streamed and what a published escrow
  holds are well-typed records (`StreamInv`, `FilesInv`), no step changes a
  published file, and an apply run past its admission holds an escrow that is still
  published, with one record for each binding (`InputInv`); its policy is that of
  its own command line from beginning to end (`ControlInv`). The transaction deletes
  exactly the snapshot that equals that record, so the deleted rows are in the
  published file; it has everything that points to the batch, so nothing dangles;
  and it has no open orphan. No conjunct mentions the named lock: the lock keeps
  runs from getting in each other's way, and safety rests on the comparison inside
  the transaction.
- *The escrow is one moment* (`EscrowIsOneMoment`): the dry run reads a batch with
  four queries and no transaction. The moment is the one at which the
  e-mails are read. While a batch exists its failures stay and its notifications
  only become more (`TablesMove`), so the number of notifications counted in the
  selection is a lower bound from then on, at that moment too (`CountIsLowerBound`).
  The query for notifications comes later and must return exactly the counted
  number: it has then returned what there was at the moment (`HalfRead` between the
  queries, `Whole` once the record is complete). A batch
  that an apply run deletes in between makes the premise void, which is why the
  property is about batches that still exist.
- *Success means one's own files* (`SuccessIsPublished`): `PublishInv` says at which
  label which of the three files is there, with the contents of this run; a
  published file stays, so a later step of another run cannot take it back.
- *Reports are exact* (`ReportsAreExact`): `Report` relates `removed`, `completed`
  and the bindings at each label; a deleted batch never returns, and the transaction
  wants it to exist, hence no batch is deleted by two runs, lock or no lock.
- *Limits hold* (`LimitsHold`, WithinCaps): the e-mails deleted so far are no more
  than the counts of the first manifest entries, whose total was compared with the
  limit at admission (`Capped`); an e-mail that was deleted never has its batch
  again, so nothing counts twice (`DeletedIsGone`). A sum is an induction over
  data, which the prover cannot do: `SumOver` is therefore the size of a disjoint
  union, of which the cardinality lemmas of the library say enough (`UnitsAdd`).
- `RetentionTypes`: the types, among them that no index leaves its list.
- *The escrow file* (`VerdictsAreRight`, `OnlyVerifiedIsReturned`, `StreamTypeCorrect`,
  `EscrowIsInvariant`), for files of any length. `AccumulatorInv` says what the
  accumulator knows of the prefix it has consumed: where it is in the file
  (`PlaceInv`), what it holds of the batch in progress, which is what a reset at the
  wrong moment would spoil (`WithinBatchInv`), what it holds of the whole file
  (`WholeFileInv`), and that the counts it resolved to are still the file's
  (`ResolvedInv`). Each rule of the line-by-line check then decides the corresponding
  part of `WellFormed` for one more record, in both directions: accepted means well
  formed, refused means not. `ReaderInv` says that, as long as nobody has touched the
  file, what was returned, what is collected and the record of look-ahead are
  consecutive stretches of the verified records; a touched file returns nothing more.

**EventsApiProofs** proves `NothingSkipped` (NoneSkipped), `NoRepeats`
(PagesDoNotRepeat), `GateIsSound` (OneReaderBehindGate) and `TypeCorrect`, from
`EventsApiConstants` and `QueriesAreValid`. Its `IndInv` says where a client stands:
the page in progress lies ahead of the cursor and what was given does not
(`ReadInv`), rows that have been seen keep their key, the window only grows and the
cursor is inside it (`WindowInv`), and what is due is given, on the page in
progress, or still ahead (`DueInv`). The part of the argument that is about the SQL
is `BranchesSuffice`: limiting every branch before the union changes nothing of the
page, because the earliest row that a branch cuts off has a full page of rows
before it. That a page has a last row, for any finite set, comes from the
well-foundedness of inclusion rather than from an induction rule, which the prover
cannot instantiate.

**DashboardAuthProofs** proves `HistoricalAccountIsRetired` (LegacyIsRetired),
`FirstLoginsConverge` (BootstrapConverges) and `RotationIsFinal`
(LaterLoginsChangeNothing), from `AuthConstants`. The table never empties, the
historical row is never created again (`LegacyStays`), and what a login has read
stays true while it goes on: which row is the historical one (`LegacyIsKnown`),
whether there is a row at all (`Inhabited`), and past the bootstrap that the
historical one is gone (`PastBootstrap`). Convergence adds that there is one account (`OneAccount`) and
that every login is on its way to it (`OnItsWay`).

Some definitions of the models changed because a proof wanted it. The place where
a poller starts in WorkerHealth's `StartWorkers` was a `CASE` whose guards
overlap, which means an arbitrary choice to a prover and the first arm to TLC; it is
now an `IF`. The selection of retention is ordered by `Ordered`, the listings of a
set that respect an order, in place of a sort with a recursive definition, and its
sums are sizes of sets. EscrowStream keeps the consumed records as a sequence, and
`WellFormed` and `ReturnedIsVerified` speak of positions in it, part by named part. None
of this changes the number of states. The constants got the assumptions the proofs
needed: pollers and rows are finite in number, an e-mail is no row of another table,
and `None` is no file, status, registry entry or outcome.

Only model-checked: liveness (AcceptedIsEventuallySent, WorkerSettles,
MessagesAreWorkedOff, NoWakeUpIsLost, TrackedEventIsStored), because the prover does
not handle fairness or ENABLED. Proved of each is its safety core, as said above; that
of TrackedEventIsStored is `NoTrackedEventIsLost`.

## Not modelled

Formatting of e-mails and answers, request validation, logging, password hashing
and token signing, the pages of the dashboard, index migrations and the scripts
that gather evidence about them. The thresholds of the health verdict on queue depth
and message age, the totals and error classes of the registry (display only), and
the encoding of the events cursor. Signatures are taken as sound: a session is the
account it names, until logout or expiry. The list pages of the dashboard do not
cancel the fetch of an earlier filter, so that answers may be shown out of order; no
state of the system is concerned, and the code promises nothing about it. `RATE_LIMIT` set to infinity, which would remove the pump's delay, is not a
configuration the code offers through `processBatch`. Clock readings matter in
WorkerHealth, Process and EventsApi; elsewhere visibility timeouts, deadlines and
backoffs may end at any time. SqsWorker and Process are not one specification:
Process replaces a poller's inside by its effect on the registry and its
duration, and WorkerGroup, which both implement, is what they agree on; durations
are only in Process and messages only in SqsWorker. In retention this leaves out the age of the queue evidence, which the code compares
with the clock once per command. Also left out there: byte limits, JSON text and
canonical encoding (one refusing action), owner, mode and link-count checks of
files and directories (a `Throw`), the process-local overlap flag of the
coordinator, which one command per process never contests, and Serializable
isolation itself, which is taken as the database's promise.

## Plan

The plan of this development is carried out: the modules above are checked and proved
as said. What would extend it is the freshness of the queue evidence in retention, the
one comparison with the clock that the model leaves out.
