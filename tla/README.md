# Verification of the DataNexus extract service

TLA+ models of `extract_service/` with TLC configurations and TLAPS proofs. The
service accepts requests for bulk extracts over REST, runs them on a pool of
asyncio workers that write one file per fund to an object store, publishes the
result by renaming a directory, and tells the client through an in-process
event bus or a webhook.

## 1. Inventory

| Component | State | Operations | Hard behaviours | What makes it correct |
|---|---|---|---|---|
| REST handlers (`main.py`) | none of their own | create, status, files, download, cancel, list | exceptions between two writes of one handler; cancel against a running job | a terminal outcome is final; an accepted extract reaches the queue |
| Rows (`storage.py`) | extracts, idempotency, entitlements, applications, audit, rate-limit events | one SQLite transaction per call, behind a lock | several calls that belong together are not one transaction | rows agree with the store and with what was announced |
| Worker pool (`worker.py`) | priority queue, cancellation marks, pause gate; per task a job, a position in the scope, two lists of funds, attempt counters | enqueue, `_run`, `_process`, `_extract_fund`, three finalizers, `_finalize_cancelled`, admin hooks, stop | cancel or pause during backoff, caps, crash between steps | one worker per extract, no job forgotten, outcome = what was written |
| Object store (`object_store.py`) | `.staging/<id>`, `extracts/.../<id>` | write_partition, write_manifest, promote, cleanup_staging, delete_published, sign, verify | crash inside promote, left-overs of broken writes | a published prefix is whole |
| Event bus (`event_bus.py`) | topics, dead-letter queues, subscriptions, one condition, an availability flag | publish, subscribe, unsubscribe, deliver, prune_expired, pause, resume | lost wake-ups, blocked publishers, redelivery, offsets against retention | each event once and in order per subscription |
| Webhook delivery (`webhooks.py`) | unbounded queue, delivery log | schedule, `_attempt` | retry after an answer that was not recorded | every callback gets a verdict, and a verdict says what happened |
| Retention sweeper (`webhooks.py`) | none (rows, store, bus) | run_once | crash between event and flag; publish that blocks the sweep | nothing deleted early; warned before deleted; no list of files that are gone |
| Admission (`auth.py`, `main.py`) | rate-limit events, idempotency records | authenticate, check_entitlements, rate limits, idempotency lookup | key TTL, windows at their limit, orphan rows in the cap | one job per key; no row without a job but for a known reason; limits hold in every window |
| Listing (`main.py`, `storage.py`) | none (rows) | list_extracts | cursor of one-second resolution, filter after LIMIT | a walk along the cursors is ordered and misses nothing it need not |
| Consumer (`consumer_example/`) | seen event ids | handle | check and record across awaits | one processing per event; no event taken for done that was not |
| Metrics, alerts, logging, config, domains, errors, schemas, smoke script | constants, counters | - | - | not modelled (section 8) |

How they interact: a handler inserts a row and puts a job on the queue; a worker
takes the job, reads and writes the row and the object store, and finally
publishes on the bus or schedules a webhook. Cancellation reaches a worker
through the set `_cancellations` and the row. The sweeper and the workers share
the bus's condition.

**Concurrency.** All of this is one event loop in one process. A task runs until
it suspends, and the only suspension points on these paths are `queue.get()`,
the two waits on `_paused`, the backoff sleep after a failed attempt,
`_cond.wait()` in `publish`, the sweeper's tick, a webhook's POST and sleep, and
the consumer's requests. The lock of the condition is never held across
another suspension and so never contended. (`authenticate` is a synchronous
dependency and runs in a thread, before the handler's body; it only reads.) What
can fall between *any* two steps is a crash, and at most steps an exception.

## 2. Modules

| Module | Models |
|---|---|
| `ExtractWorker` | the lifecycle: create and cancel handlers, rows, pool, staging and publication, notification, admin hooks, exceptions, crash and restart; its properties |
| `ExtractContract` | the abstract specification: accept, start, cancel, finish, tell, each one step |
| `DocumentedClaims` | statements of the requirements that the code does not keep |
| `MCExtractWorker` | instances for TLC |
| `EventBus` | one topic of the bus with its publishers and subscriptions; its properties |
| `Consumer` | the example consumer as the handler of the bus's subscriptions (extends `EventBus`) |
| `MCConsumer` | instances of both for TLC and a requirement the bus does not keep |
| `Retention` | the sweeper, the end of rows and files, presigned links |
| `Admission` | rate limits, entitlement, idempotency and the create handler's writes |
| `Listing` | `GET /extracts` and a client that walks along `next_cursor` while the service goes on (extends `Admission`) |
| `MCAdmission` | an instance of `Admission` and a requirement not kept |
| `WebhookDelivery` | the queue, tasks and attempts of webhook callbacks |
| `MCListing`, `MCRetention`, `MCWebhook` | instances for TLC |
| `ExtractWorkerProofs`, `ExtractOutcomeProofs`, `ExtractRefinementProofs` | theorems about `ExtractWorker`, each module on top of the one before; the last one has the refinement of `ExtractContract` |
| `BusProofs` | theorems about the bus, and about the bus with its consumer |
| `AdmissionProofs`, `ListingProofs` | theorems about admission, and about walks next to it |
| `RetentionProofs`, `WebhookProofs` | theorems about these modules |

The modules meet where the code's parts meet. `ExtractWorker` hands
notifications to the bus and to the webhook queue and sees the sweeper as one
more publisher; `Retention` takes over an extract where `ExtractWorker` commits
its outcome, and sees the bus as a publisher does; `Admission` ends where
`ExtractWorker` has its `CreateExtract`, and sees the pool as the set of its
jobs. `Consumer` and `EventBus` are composed action by action, and `Listing` adds
its client to the actions of `Admission`.

### ExtractWorker

*State.* `status`, `scope`, `mode`, `prio`, `runId`, `cancelledAt` and `state`
are columns of the extracts table (`state` is `state_json`: positions of the
scope under "files" and "funds_failed", retries, error code). `staging` and
`published` give each extract a directory: data files and `.tmp` files by fund,
the funds listed by `manifest.json`, and `_SUCCESS`. `queue`, `cancellations`,
`paused`, `outage` are the pool's memory, `busUp` and `woken` the bus as its
publishers see it. `creating` is the create handler between its INSERT and its
enqueue. Per worker: `pc`, `job`, and the locals of `_process`. `notices` is a
history of what was handed to the bus or the webhook queue.

*Steps.* A worker's `pc` is either one of `SuspendedPcs` (it waits) or one of
`LoopPcs` (it holds the loop). Actions that start from a suspended state carry
the guard `LoopFree`: nobody holds the loop. So tasks interleave exactly at the
suspension points of the code, while `Crash` has no such guard and
`ProcessRaises` can take any step that is not inside an attempt.

| Code | Actions |
|---|---|
| `create_extract` | `CreateExtract` (INSERT), `Enqueue`, `CreateAborts` |
| `cancel_extract` | `CancelExtract`, `CancelAborts` |
| `_run` | `Dequeue`, `Released`, `ProcessRaises`; `LoopTop` ends each job |
| `_process` | `SkipCancelled`, `StartRun`, `NextFund`, `CancelObserved`, `FundExhausted`, `ScopeDone` |
| `_extract_fund`, `write_partition` | `SourceFails`, `WriteTmp`, `PartitionWritten`, `WriteFails`, `Retry` |
| `_finalize_*`, `promote` | `DropStaging`, `WriteManifest`, `PromoteRename`, `PromoteSuccess`, `CommitOutcome`, `FinalizeCancelled` |
| `_route_notification`, `publish` | `EmitNone`, `EmitWebhook`, `EmitEvent`, `EmitBlocks`, `PublishWakes`, `PublishWaitsAgain` |
| admin hooks | `PauseProcessing`, `ResumeProcessing`, `SimulateSourceOutage`, `SetBus` |
| other tasks | `OtherPublish` (the sweeper's publish, as blocked workers see it) |
| `lifespan` after a crash, `Worker.stop` | `Crash` |

*Abstractions.* Rows of data, formats, checksums and timestamps are left out. A
fund's source may fail at any attempt, which covers `simulate_partial_failure`
and real failures; during an outage it always does. `enqueued_at` has a
resolution of one second and ids end in random digits, so jobs of one priority
leave the queue in any order. `cleanup_staging` ignores errors, so it may leave
remnants; such a failure is counted by `MaxRaises`. A scope may list a fund
twice, which nothing in the code rejects. Progress percentages in `state_json`
are not distinguished. A finished task's locals are reset, since the next job
starts with fresh ones. `Worker.stop` lets each task finish its job or cancels
it at a suspension point, so what it leaves is what a crash leaves in which some
tasks had stopped earlier; the models have those behaviours.

### EventBus

`log` and `dlq` are the lists of the topic, `pub` says where each `publish` call
is and `sub` where each subscription's task is; `offset` is the index into
`log`. `fates` is a history of what became of each event. An action is all that
a task does between two suspensions: `HandlerReturns` advances the offset, and
either takes the next event or goes to sleep (`Fetch`). `PruneExpired` removes a
prefix of the list; as in the code, offsets stay.

### Consumer

`handle` is what a subscription does in `EventBus`'s state "deliver".
`SkipEvent` returns at once; `Fetch_files` is the first request, after which
other tasks run (`fetching`); then `Process` records the id and returns, or
`FetchFails` raises; `Disconnect` is `unsubscribe` with the cancellation of a
waiting handler. `of` says whose `handle` a subscription calls, so that one
consumer can stand behind both. `eventId` gives each event any id of `Ids`: the
code makes it of the second and the last four characters of the extract's id
(two random bytes), so two events of a topic can have the same, and `handle` looks
only at the id. `Accounted` says what an id among those seen stands for.

### Retention

*State.* A clock, three columns of a row (`status`, `expiresAt`, `sent`), the
published files, the hard expiry of the newest links (older ones lead to the
same files for a shorter time), and the sweeper's task. RUNNING stands for every
status the sweeper never selects. `todo` is the result of the present query: the
rows to warn are read before the events are published, the rows to delete after.
`RetentionDays` gives each extract the period of its own request: the code takes
any integer there, so a period may be shorter than the warning window, and 0
stands for a negative one (an extract that is past its time when it completes).

*Steps.* `StartSweep`, then per row `Warn` or `WarnBlocks` and later
`WarnWakes`, `Flag`; `FindExpired`, then per row `DeletePublished`, one
`RemoveFile` or `RemoveFails` per file, `MarkExpired`; `EndSweep`. The clock and
the other tasks move only when the sweeper is suspended, which includes its wait
in `publish`; `Crash` and `SweepRaises` can come at any step. One unit of the
clock is longer than anything done without suspending.

### Admission and Listing

A handler does not suspend, so requests are atomic except for the create
handler, whose three writes (`Insert`, `RecordKey`, `Enqueue`) are steps because
faults can fall between them: `HandlerRaises` and `Crash`, and `KeyCollides`
when the key's record has outlived its time to live but still holds the primary
key. `hits` counts rate-limit events by application, kind and time, with the
pruning that precedes every count; `Count` is the cardinality of the set of
events in the window (`EventRows`). `ListFiles` counts a link per file and one
for the manifest until the limit; a PARTIAL extract has fewer files than funds. A
row's status is one of three classes. `enqueued` and `answer` are histories. The
pool is a set of jobs that end at any time, with files or without (`Finish`), or
are lost to an exception that reaches the loop of `_run` (`JobRaises`).

`Listing` has one operator per clause of the query, and two actions for its
client: `FirstPage` begins a walk, `NextPage` sends the cursor of the last page.
Both are requests that are counted (`OnlyCounted`), and between them every action
of `Admission` may come. `Newest` is ORDER BY and LIMIT: as the set of all
answers the query allows, since rows of one second have no order. `steady` is a
history of the rows that matched at each page of the walk, the ones a client can
blame the listing for missing. Negative limits, which the code does not reject,
are not asked.

### WebhookDelivery

A task suspends in `queue.get()` ("get"), the POST ("post") and the sleep
("sleep"). Each outcome of a POST is an action: `PostDelivered`, `PostRefused`,
`PostAnswerLost` (the receiver took it, we do not know) and `PostAuditRaises`
(the audit record raises inside the `try`, which takes a success for a failure).
`TakeRaises` is an exception before the first attempt, after which the callback
is gone. `accepted` is a history on the receiver's side.

## 3. Runs

Each property has a mutant: a changed form of one definition, kept next to it
and marked as such, under which TLC finds the property violated.

| Run | Instance | States | Shows |
|---|---|---|---|
| `faults` | 2 extracts, 2 workers, scopes of 3 funds and of one fund twice, caps 2 and 4, one crash, one exception | 2.16 M | a published prefix always holds exactly what its manifest lists (`PublishIsAtomic`); nothing is visible without an outcome; outcomes are final (`OutcomeStable`) and account for files, failures and attempts (`CompletedIsWhole`, `PartialAccounts`, `FailsFast`); one owner per extract; staging is cleaned; the contract is kept (`ImplementsContract`) |
| `hooks` | 2 extracts, 2 workers, 1 fund, priorities high and low, all modes, all hooks | 373 k | no job is forgotten (`NoOrphan`), an early cancel is final, at most one notification and it matches the row |
| `liveness` | 3 extracts of which one is less urgent, 1 worker, 2 funds, caps 1 and 2, pause, resume and bus outages at will | 277 k | every accepted extract ends, also one that all others overtake; every cancelled one is let go; every finished one notifies, also when its worker had to wait for the bus |
| `bus` | 2 events, with ids of their own or a common one, 2 subscriptions, 1 or 2 consumers, 2 attempts, outages, one unsubscribe, one retention run | 206 k | each event once and in order, no lost wake-up, (without retention) delivery; an event is processed at most once per subscription of a consumer (`ProcessedOnce`) and never counted as handled unprocessed, unless another event has its id (`HandledMeansProcessed`) |
| `retention` | 2 extracts, 1 file, periods 3 and 1, warning window 1, link lifetime 1, clock to 3, bus outages, one crash, one exception, one disk error | 987 k | files are kept for the period; warned before deleted, unless the sweep that deletes was stalled since before the warning was due or the extract completed; one warning, and one more per fault; a listed file is gone only if a fault cut a sweep short, and then its row is one the next sweep finds; what a disk error leaves is reached only by links issued before; every extract expires in the end |
| `admission` | 2 applications with a common key, 4 requests, limits 2 requests, 4 links, 2 active, window 1, key lifetime 1, clock to 2, 3 rows, one fault | 781 k | one job per key, faithful replays, explained orphans, limits that hold in every window, a cap that holds with orphans |
| `listing` | 1 application, 3 rows in two funds, 5 queries (limits 0, 1 and 2, by status, by fund), 2 requests a second, clock to 3 | 1.33 M | walks go back in time and show nothing twice (`WalkOrdered`), make no hole but for rows that share their second with a row shown, and end early only where rows of other funds fill the pages (`WalkCovers`), and come to an end (`WalkAdvances`), whatever is inserted or changes status between two pages |
| `webhook` | 3 callbacks, 2 tasks, the schedule's 5 attempts, one lost answer, one exception, one crash | 308 k | sound verdicts, explained repeats, a verdict for every callback |

Violation runs, each a statement of `requirements/bulk-extract-distribution-spec.md`:

| Run | Statement | What the code does |
|---|---|---|
| `doc_cancel_silent` | 371: "No event is published for cancelled runs." | the cancel check is made before each fund; a cancel during the last fund's backoff is acknowledged and then overruled |
| `doc_bus_recovery` | 1204: "Buffered events are published when the bus recovers." | `resume()` wakes nobody |
| `doc_at_least_once` | 561: "At least once." | after pruning, a subscription's offset points too far |
| `doc_key_expiry` | 904: "Idempotency keys expire after 30 days." | an expired record is not found but still holds the primary key: a 500, and a row without a job that counts against the cap |

More disagreements are plain in the models and have no run (lines are of the
requirements unless another file is named):

- 858, "5 per extract": a failing extract may make six attempts, since the cap
  is tested after a fund's own attempts (`ExtractCapReached`); a failing fund
  that finds the cap reached leaves the funds behind it untried and in neither
  list (`docs/architecture.md` line 97, `FundExhausted`).
- 884-886: a PARTIAL extract sends `extract.failed` but not `extract.ready`
  (`NoticeOf`).
- 730: nothing at start-up looks for directories orphaned by a crash (`Crash`).
- 1209, "No partial files are left in published prefix": a `.tmp` file of a
  broken write is renamed with the rest of a PARTIAL extract (`PromoteRename`).
- 1209, "If storage remains unavailable, extract fails": an exception outside an
  attempt leaves the row RUNNING for good (`ProcessRaises`).
- 746-749: a link's expiry is not tied to `expires_at` (`Sign`); a link from
  shortly before the end outlives the row.
- 736: the warning of 24 hours is not sent for PARTIAL extracts (`Expiring`),
  and may come late or not at all when the bus stalls a sweep; the exceptions in
  `WarnedBeforeDeleted` are exactly the latter.
- 586: FAILED_DELIVERY is kept in memory and the audit log, not on the extract
  (`NotDelivered`).
- Listing: a walk skips rows that share the second of the last row of a page,
  ends early under a fund filter (rows of other funds fill the page that the next
  match should have been on), and with `limit=0` shows nothing while the
  cursor moves (`Serve`); `WalkCovers` says what is left.
- Two events of a topic whose extracts share their last four characters and that
  are emitted in the same second have one event_id (`EventIds`), so a consumer that
  deduplicates, as 561 asks, drops one of them; `HandledMeansProcessed` names the case.
- An extract with as many files as links are allowed per minute (120; a scope
  may have 500 funds) can never be listed (`Granted`).

**Bounds.** Two workers and two extracts are enough for two tasks to meet on
every shared structure (queue, loop, condition, one staging prefix). Three funds
have a first, a last and a failing one next to a good one; with 2 attempts per
fund and 4 per extract the cap of the extract is missed by one, met with a fund
still to come, and overshot by the last fund, as with the production caps 3 and 5
(a cap of 3 would not tell an extract that gives up one attempt early). One crash and one exception reach every
point between two steps; further ones only repeat them, because a crash leaves
no memory. With two events a subscription can have one behind and one ahead of
its offset, which is what pruning and dead letters disturb. In `retention` a
period of three with a window of one separates completion, warning and deletion,
and a period of one is due for its warning at once and leaves the clock time
after the deletion; two extracts let a sweep stall on one row while the other
comes of age, or be cut short between the two. In `admission` the limit of two, a
window of one and a clock to two give windows that overlap; a key lifetime of one
lets a key be used before and after it. In `listing` three rows are a page, a next
page and a tie; the window of zero makes the limit two requests a second, so that
an insert and a page can share a second, and four seconds are time for three
inserts and for pages between and after them; faults, which no row shows, are left to
`admission`. Three callbacks on two tasks leave one waiting. `liveness` has more extracts than workers, since a job that always finds a free
worker is never overtaken; one worker makes every job wait for every other, and
`LiveSpec` fixes which extract is the less urgent one, which loses nothing up to
renaming. `bus` has every assignment of two ids to two events. `faults`,
`admission`, `listing` and `webhook` check no deadlock, since the service is idle
when the work of the instance is done; in the other passing runs an administrator
can always act.

**Symmetry.** `faults` and `hooks` use that extracts and workers are
interchangeable; the runs with liveness properties use none.

**Fairness.** `FairSpec` is weak fairness of each worker's steps and of the
create handler's last step: asyncio runs ready tasks first in, first out, so a
task that stays runnable runs; sleeps end. Nothing is assumed of clients or
operators, so the liveness properties of the pool carry their premises: processing
is not paused for good (`Unpaused`), and outages of the bus end and somebody
publishes after that (`BusRecovers`; `resume()` alone wakes nobody, see
`doc_bus_recovery`). They also rest on `Extracts` being finite: the queue has no
aging, so an endless stream of urgent extracts would keep a less urgent one from
ever starting, and the code promises nothing against that. For the bus, weak fairness of each subscription's steps assumes
that a handler eventually returns or raises. The sweeper and the webhook tasks
have weak fairness of their steps: a tick, a sleep and a POST (by its timeout)
end. `ExpiredInTheEnd` has crashes and exceptions in it, since the next sweep
recovers from them, and the premise that no sweep is blocked in `publish` for
good, because `resume()` wakes nobody. `EveryJobEnds` and the run `liveness`
exclude them: after one the code offers no recovery.

## 4. Contract

`ExtractContract` has no queue, worker, directory or order of writes. Its
`Finish` fixes an outcome and makes the files visible together; `Tell` comes
after it and at most once. `ExtractWorker` implements it under the mapping of
its last section: a file is visible if `list_files` lists it and its link leads
to a file. Hence everything between the rename and the UPDATE is a stutter for
clients, also when the process dies there. Like the code, the contract lets a
late cancel be overruled by the run it was meant to stop.

## 5. Proofs

Every safety invariant, every action property and the refinement that the passing
runs check is a theorem; only liveness is not. The theorems hold for all values of
the constants that satisfy the modules' `ASSUME`s, so for any number of extracts,
workers, events, keys, faults. The proofs are by induction: each section below says
what had to be added to make the property inductive. Every inductive invariant was
first checked by TLC on the instance of its run.

### Ownership (`ExtractWorkerProofs`)

- `TypeCorrectness`: `Spec => []TypeOK`;
- `ExclusiveOwnership`: `Spec => []SingleOwner`.

`OwnershipInv` adds `JobOK` (a task past `queue.get()` has a job, its position
lies within that job's scope and its list of completed funds too; needed to type
`Fund(w)` and the manifest), `Minted` (an id not yet minted is in nobody's hands;
needed because `CreateExtract` hands it to the handler) and `WokenOK` (a notified
publisher is still in `publish`; needed because `PublishWakes` starts from the
notification). The step case is split by what an action does to ownership:
nothing, letting go of a job, or taking one from the queue (`WorkerStepHands`),
so that single ownership is argued three times and not once per action.

### Outcomes (`ExtractOutcomeProofs`)

`AtomicPublication`, `NoFileWithoutOutcome`, `CompletedDelivers`,
`PartialDelivers`, `FailureIsCapped`, `NoticesTruthful`: the invariants
`PublishIsAtomic`, `NothingWithoutOutcome`, `CompletedIsWhole`,
`PartialAccounts`, `FailsFast` and `NoticeMatchesOutcome`.

These are about extracts nobody works on any more, and are true because of what
the run was like when it wrote the row. `RunInv` says that of the worker that
has the run:

- `OneRun`: an extract has one run at most. Nothing puts a job back on the
  queue, so a queued extract has no `run_id`; a worker before `StartRun` has a
  job without one, a worker after it a job that is RUNNING or CANCELLED, a worker
  that notifies one with the outcome it computed. Without it a second run could
  overwrite a published prefix.
- `Accounted`: the two lists of funds are disjoint and together are the positions
  behind the loop; a run that ends before its scope has spent the extract's
  attempts.
- `Capped`: while nothing has succeeded, the attempts made are a full set for
  each failed fund, and the run goes on only below the cap.
- `Stored`: the staging prefix holds the files of the completed funds, and `.tmp`
  files of failed funds or the present one; after the rename the published prefix
  holds what staging held.

`OutcomeInv` joins `RunInv` with `OutcomeOf(e)`, the properties above for one
extract. A step of a worker touches that worker and its one extract (by single
ownership), so the induction is done for one worker and one extract at a time,
and `CommitOutcome` is where the run's facts become facts of the row.

### The contract (`ExtractRefinementProofs`)

- `OutcomesStand` and `EarlyCancelStands`: the action properties `OutcomeStable`
  and `CancelledEarlyIsFinal`, from `OutcomeInv`;
- `NothingForgotten` and `NoStrayStaging`: `NoOrphan` and `StagingOwned`, from
  `KeepingInv`, which adds `OneCreating` (one create handler at a time, since it
  holds the loop) and `StagingGone` (a run is through with its staging prefix
  before it lets go);
- `ContractKept`: `Spec => Contract!Spec`, the refinement of `ExtractContract`.

For `ContractKept` each step is shown to be a step of the contract or to leave
its variables alone, under `OutcomeInv`: `CreateExtract` is `Accept`, `StartRun`
is `Start`, a cancel by the handler or by a worker that finds the mark is
`Cancel` (or changes nothing, when the row already says so), `CommitOutcome` is
`Finish`, the steps that hand over a notification are `Tell`, and all others
stutter. The case with content is `Finish`: files become visible together with
the outcome and are those the outcome promises, which is what `Stored` and
`Accounted` say of the worker at that moment; and `PromoteRename` and
`PromoteSuccess` are invisible because the row does not list the files yet.

### Bus and consumer (`BusProofs`)

- `NoWakeupIsLost`: `Spec => [](BusTypeOK /\ NoLostWakeup)`, from the same
  conjunction with `InHand` (a task in its handler has an event);
- `OnceInOrder`: `EachEventOnceInOrder`. `OrderInv` adds `Attempts` (how often
  the handler was called for the event in hand) and `InOrder` (the offset counts
  the events left behind and points at the one in hand);
- `ConsumerImplementsBus`: `ConsumerSpec => Spec`, so that the two above hold of
  the composition;
- `ConsumerTypes`: `ConsumerTypeOK`;
- `HandledIsProcessed`: `HandledMeansProcessed`. The missing part is
  `SeenMeansProcessed`: an id among `seen_event_ids` is that of a published event
  which has been processed or was not for the consumer (`Accounted`). Without it a
  skipped event could be one whose download failed. `Published` (what is read has
  been published) lets an id name only events that were there;
- `OncePerSubscription`: `ProcessedOnce`. `Counted` bounds the processings so far
  together with the handlers that are waiting for the files of the same event
  (`Fetchers`): they are what can still process it after its id is in the set.
  The count needs finitely many subscriptions (`IsFiniteSet(Groups)` in
  `ConsumerAssumption`), which a process has.

### Retention (`RetentionProofs`)

- `RetentionIsKept`: `RetentionTypeOK /\ KeptForPeriod`. `DoomedArePast` (rows in
  the deletion half of a sweep are past their time) carries the query's condition
  to the deletion;
- `WarnedOnce`: `WarnedOncePerFault`. `WarnedAreNew` (rows in the warning half are
  not flagged) and `FaultsCounted` (without a flag, every earlier event goes back
  to a fault) carry the count through interrupted sweeps;
- `NoSilentDeletion`: `WarnedBeforeDeleted`. `WarningsAhead`: a flag comes after
  its event, and once a sweep has made its first query, each COMPLETED row is
  warned, or still to be warned, or could not have been found;
- `ListingsAreTrue`: `ListedFilesExist`. `WholeOrInHand`: without a fault the only
  incomplete extract is the one the sweeper has in hand. That an incomplete row is
  found by the next sweep follows from `KeptForPeriod`: files go only past the period;
- `LeftoversFade`: `LeftoversOutOfReach`. `LinksBounded` and `ErrorsExplain`: no
  link lasts longer than one signed now, and what rmtree has passed over is a
  disk error.

The attempt to prove `NoSilentDeletion` corrected the model: an earlier form of
`WarnedBeforeDeleted` excused only extracts completed during the stalled sweep,
which is true when all retention periods are equal and short. With a longer
period an extract that was too young for the sweep's first query can be old
enough for the second, without any warning; the instance now has that case.

### Admission (`AdmissionProofs`)

`KeyHasOneJob`, `ReplaysAreFaithful`, `OrphansHaveCauses`, `CapIsKept`
(`OneJobPerKey`, `ReplayFaithful`, `OrphansExplained`, `ActiveCapHolds`), from
`AdmissionInv`; `WindowsAreKept` and `AdmissionTypes` (`WindowsHold`,
`AdmissionTypeOK`), from `RateInv`.

`HandlerOK` carries what the lookup found to the INSERT of the record, two
transactions later: a record in the way is past its time to live. `RecordsOK`
ties a record to its row. `JobsOwnKeys` (only the row that a key's record names
ever had a job) gives `OneJobPerKey` and shows more: since the code never removes
a record, a key leads to no second job even after its time to live, which is the
other side of `doc_key_expiry`. The cap is an argument about cardinality: the
INSERT adds one row to a set that was below the cap, everything else only takes
rows out.

`RateInv` is about the sliding windows. The code checks only windows that end at
the moment of a request, and the claim is about all windows. The missing part is
that no event is later than the clock (in `EventsOK`): a window that contains the
present then holds no more than the one that ends with it, which is the one the
check has counted before anything was added; a window that does not contain the
present is only ever pruned. Since counts are cardinalities of sets of events
(finite, `EventsOK`), the steps are facts about sets: a longer stretch has more
rows (`LongerStretch`), recording n events adds at most n (`AddedCount`). The
number of links granted is what was free, so never negative, which `AdmissionTypes`
needs for the counters and `WindowsAreKept` for listings that are cut short.

### Listing (`ListingProofs`)

`ListingImplementsAdmission` (`ListingSpec => Spec`: a page changes nothing but the
count of requests, so all of the above holds next to walks), `PagesInOrder`
(`WalkOrdered`), `WalksMissLittle` (`WalkCovers`) and `WalksAdvance`
(`WalkAdvances`), for any queries, limits, ties and interleavings.

`WalkInv` adds `ShownBehind` (what was shown is not older than the cursor, so the
next page, strictly older, cannot repeat it) and `SteadyAhead` (a row that has
matched all along is older than the cursor, has its second among the rows shown,
or is behind rows of other funds that ended the walk, `CutOff`). `ServeFacts` derives what one page gives from the clauses of the query;
`RowsStay` says that the service changes no column a walk looks at but the
status, so that inserts between two pages only add rows the walk need not show.

### Webhooks (`WebhookProofs`)

`OneSender`, `LogIsTrue`, `RepeatsAreFaults` (`WebhookTypeOK`, `VerdictSound`,
`RepeatsExplained`). `InFlight` (what is queued or held was scheduled) makes the
single owner inductive. `Pending` (a callback may still be sent) never becomes
true again; while it is true `Ledger` charges every acceptance and every verdict
to a fault, and FAILED_DELIVERY makes it false, so that nothing is sent after it.

### Assumptions

Each proof uses only the named assumption of its module: constants have their
types, caps and attempts are positive, the "none" values are not real ones
(`NoRecordAssumption`, `NoJob`, `NoRow`), queries have the types of the parameters
and a limit that is not negative (`ListingAssumption`), and subscriptions are
finite. TLC evaluates all of them in the runs.

### Only model-checked

- Liveness (`AcceptedFinishes`, `CancelledReleases`, `FinishedNotifies`,
  `EveryEventDelivered`, `ExpiredInTheEnd`, `EveryJobEnds`): fairness and ENABLED
  are outside what the prover handles.
- The violation runs, which are counterexamples.

## 6. Plan

The parts of the service that keep state are modelled, and their safety
properties are proved. What is left:

- `Admission` sees the pool as a set of jobs. That `ExtractWorker` behaves like
  that set (a job leaves it with an outcome, an exception or a crash, and never
  comes back) is argued here by reading; it could be a refinement like that of
  `ExtractContract`.
- The callbacks that wait in memory are lost in a crash and nothing on the row
  tells; a property needs a durable record that the code does not keep.

## 7. Running

    tlc -workers 2 -config MCFaults.cfg MCExtractWorker      # MCHooks, MCLiveness
    tlc -workers 2 -config MCBus.cfg MCConsumer
    tlc -workers 2 -config MCRetention.cfg MCRetention
    tlc -workers 2 -config MCAdmission.cfg MCAdmission
    tlc -workers 2 -config MCListing.cfg MCListing
    tlc -workers 2 -config MCWebhook.cfg MCWebhook
    tlapm ExtractWorkerProofs.tla                            # and the other *Proofs, about a minute each at most

`Doc*.cfg` are the violation runs: `DocAtLeastOnce` with `MCConsumer`,
`DocKeyExpiry` with `MCAdmission`, the others with `MCExtractWorker`.

## 8. Not modelled

Metrics and alerts (nothing reads them back), logging, configuration, the domain
table, error classes, schema validation, serialisation, compression, checksums
and signatures (pure conversions), the authentication mock (stateless), the
contents of the audit log (never read; that writing it can raise is modelled),
the smoke script. Of the listing, the filters on domain and creation time, which
are clauses like the one on status.
