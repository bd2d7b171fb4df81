# OpenSecurity: specifications, model checking and proofs

OpenSecurity (Go) discovers cloud and SaaS resources, indexes them and evaluates
compliance frameworks over them. This directory holds TLA+ specifications of the
parts of it that schedule work and carry it out: what is modelled is translated
from the Go code named in the comments and, line by line, in `PROJECT.json`
("map"). Paths below are relative to the repository; `scheduler/` is
`services/scheduler/`.

## 1. The system

### Components and how they interact

| component | state it keeps | operations | talks to |
|---|---|---|---|
| compliance scheduler (`scheduler/schedulers/compliance`) | tables compliance_jobs, compliance_runners, compliance_summarizers | creation of jobs, enqueue cycle, publisher cycle (scheduled and manual), summarizer cycle (scheduled and manual), result consumers, timeout sweeps, cleanup | NATS streams, index, integration and compliance services |
| compliance runner pods (`jobs/compliance-runner-job`) | canceled jobs they know of, behind an RWMutex | take a message, poll the scheduler for cancellation, run the query, index results, report | NATS, scheduler HTTP, index |
| compliance summarizer pods (`jobs/compliance-summarizer-job`) | none | summarize one job, report | NATS, index |
| scheduler HTTP server (`scheduler/server.go`) | none | trigger, cancel, list | all tables, NATS |
| discovery (`scheduler_describe*.go`, `grpc_server.go`, `schedulers/discovery`) | describe_integration_jobs; deletion tasks in the index | create, queue, publish, result consumer, old-resource deleter, timeouts | NATS, describer plugins over gRPC, index |
| job sequences, quick scans (`scheduler_job_sequencer.go`, `scheduler_quickscan_sequence.go`) | job_sequencers, quick_scan_sequences, and in memory one goroutine per quick scan | describe what a framework needs, wait, create compliance jobs (one per ten integrations), wait; insert follow-up runners when describe jobs have ended | describe jobs, compliance jobs, index |
| query runner, query validator, quick run (`schedulers/query-*`, `compliance-quick-run` and their jobs) | query_runner_jobs, query_validator_jobs, quick compliance jobs | publish, consume, time out, cancel | NATS, their workers |
| tasks service (`services/tasks`) | tasks, task_run_schedules, task_runs | load specifications, create runs on schedule or request, publish under a limit, consume, time out, cancel | NATS, task workers |
| es-sink (`services/es-sink`) | a stream, two channels and a bulk indexer's queue | ingest, index, retry | NATS, index |
| auth service (`services/auth`) | users, and a cache of them in memory | admit requests, create, change and delete users | every service asks it |
| core service: seal handler (`services/core/vault`) | a Kubernetes secret with the keys of Vault | initialise, unseal, keep unsealed | Vault, Kubernetes |
| integration service (`services/integration`) | integration_plugins, their binaries, integrations; plugin processes and maps of them in memory | install, uninstall, enable, disable plugins; add and delete integrations | plugin processes |
| core (queries, metadata), compliance and rego services | their own tables | request handlers | each other over HTTP |
| checkup, cloudql-init, post-install jobs | none | run once, the post-install job again on request; it deletes the tasks and loads them anew | the services, their tables, Kubernetes |
| cloudql plugin, shared packages, web UI, docs | none | generated tables, client code | index |

The compliance pipeline and the discovery jobs that feed it are the core of the
program and are modelled first. A job
row is inserted (by the scheduler or by a request); the **enqueue cycle** inserts
its runner rows, over several rounds; the **publisher** produces one NATS message
per CREATED row and only then writes QUEUED; a **worker pod** acknowledges the
message, reports IN_PROGRESS, runs the query, indexes the results and reports its
verdict; the **consumer** acknowledges the report and writes the row. The
**summarizer cycle** lists jobs all of whose rows are SUCCEEDED, FAILED or
TIMEOUT, compares the documents in the index with the rows' counts, waits in
SINK_IN_PROGRESS if some are missing, inserts a summarizer row, marks the job
SUMMARIZER_IN_PROGRESS, sends the summarizer to NATS, and closes the job when its
summarizer is done. Cancel and trigger requests, timeout sweeps and the deletion of
old rows run beside all of that.

Discovery has one row per integration and resource type and run. The scheduler and
request handlers create it after a look at the last row of the pair; two goroutines
(scheduled, manual) pick CREATED rows under a rate limit, write QUEUED and produce a
message; a **describer**, a program of its own, calls SetInProgress and DeliverResult
over gRPC; the **consumer** of results searches the index for resources that were
not found again, leaves deletion tasks for them and writes OLD_RESOURCE_DELETION or
the verdict; the **deleter** carries the tasks out and writes SUCCEEDED. A sweep
times rows out, and rows that failed before they were QUEUED are retried.

**Query jobs**, **quick runs** and **task runs** have the shape of the compliance
pipeline without its jobs: a publisher lists CREATED rows, produces and then writes
QUEUED, a worker acknowledges first, a consumer writes what it reports, a sweep at the
head of the publisher's round times rows out. They differ in what they leave out: the
sweep of the validators' publisher is that of another table, tasks have a limit, are
published by a goroutine that only a boot starts, and may be delivered twice; and the
post-install job deletes and reloads the tasks and their schedules beside the service.
**Quick scans** and **job sequences** wait for describe jobs, the first in a goroutine
with its state on the stack, the second in a row that a loop looks at.

Around the scheduler are services that share nothing with each other. The **sink**
takes documents from every job, through a stream, a channel and a bulk indexer, and
back through a second channel if the index has too many requests. The **auth** service
admits requests from a cache that the handlers changing users keep clean. The **seal
handler** must have Vault open before the core service starts. The **integration
service** installs plugins through one folder, and runs their code.

### What is hard

* There is no lock and no transaction around a cycle. Every goroutine works from
  lists read earlier and updates rows by id, whatever they have become.
* Messages are acknowledged before they are acted on, on both sides: what is lost
  is lost, and only a sweep repairs it.
* A row is written *after* its message has left; verdicts can be overwritten.
* Two goroutines (scheduled, manual) run the same summarizer code, and finish each
  other's jobs.
* A new job of a framework deletes the rows of the previous one, even a running one.
* `updated_at` decides which describe job is the last and when jobs time out, but
  only some of the writes refresh it.
* Deletion tasks outlive the status of the job they belong to, and share ids.
* In a pod, a read lock, a goroutine per message and a cancelable context interact.
* A goroutine is the only holder of a quick scan's progress, and nothing takes it up
  again after a restart; a follow-up's runners and its mark are two writes.
* Handlers of the integration service read a whole row and write all of it back later.
* The sink's loop reads two channels, and its workers write one of them.
* The post-install job empties tables of a service that runs, and does not look at errors.
* An email has as many users as it was created under connectors, and the first one counts.
* Demo data makes integrations of a plugin in any state, also while it is uninstalled.
* The keys of Vault exist once, in memory, between two calls.

`PROJECT.json` lists each hazard at its line with the properties that would catch it.

## 2. The modules

| module | what it is | code |
|---|---|---|
| `RunnerTable` | abstract specification of compliance_runners: what any reader of the table may see | all writers of the table |
| `RunnerPipeline` | the publisher, NATS, pods, consumer, sweeps and cancel handlers on the rows of one job; implements `RunnerTable` | `publisher.go`, `consumer.go`, `db/compliance_runner.go`, `compliance-runner-job/service.go`, cancel handlers |
| `ComplianceJob` | jobs, summarizers and the goroutines that move them; EXTENDS `RunnerTable`, whose actions are the environment | `trigger.go`, `scheduler.go`, `summarizer.go`, `db/compliance_job.go`, `db/compliance_summarizer.go`, handlers |
| `RunnerWorker` | inside one pod: callback, `pollAPI`, RWMutex, contexts | `compliance-runner-job/service.go` |
| `DescribeTable` | abstract specification of describe_integration_jobs: what code that waits for a describe job may see of it | all writers of the table |
| `DescribeJob` | describe jobs of one resource type: creation, queueing, describers, results, old resources, retries, timeouts, cancel requests, restarts; implements `DescribeTable` | `scheduler_describe.go`, `scheduler_describe_result.go`, `grpc_server.go`, `db/describe.go`, `old_resource_deleter.go`, cancel handlers |
| `JobSequences` | quick scans with their goroutines and compliance jobs, job sequences and their loop, over the rows of `DescribeTable` | `scheduler_quickscan_sequence.go`, `scheduler_job_sequencer.go`, `schedulers/compliance-quick-run/`, `compliance-quick-run-job/` |
| `QueryJobs` | query runners and validators, the two publishers, streams, workers, consumers, sweep and cancel handler | `schedulers/query-runner/`, `schedulers/query-validator/`, `db/query_*.go`, both jobs |
| `TaskRuns` | one task: its specification's load, boot, schedules, publisher, workers, results, timeouts, cancel requests; and the tasks migration of the post-install job | `services/tasks/`, `post-install-job/job/migrations/tasks/` |
| `Plugins` | loads, uninstalls, enabling and disabling, plugin processes, integrations of users and of demo data | `services/integration/` |
| `EsSink` | documents on their way into the index | `services/es-sink/` |
| `AuthCache` | one email address: its rows, the cache, calls of Check and edits | `services/auth/` |
| `VaultSeal` | Vault, the secret and the start of the core service | `services/core/vault/seal.go` |
| `*Proofs` | proofs about the module of that name; `ServicesProofs` is about the last four | |
| `MC*` | instances for TLC; `MCServices` holds the last four modules, one at a time | |

`RunnerTable` is what the compliance pipeline promises; `RunnerPipeline` is shown to
implement it, and `ComplianceJob` is built on it and so knows no message or pod. In the
same way `DescribeJob` is shown to implement `DescribeTable`, and `JobSequences` knows of a
describe job only its row there. Its steps on one row are exactly those of the table
(`RowsOfTable`, `NoRowStepMissing`), so what is proved of scans and sequences is proved
among every retry, race, late result and cancel request that `DescribeJob` has. That a
live job ends is `JobsEnd`.

### How the models correspond to the code

**Steps.** A database write is one UPDATE by id and is one step. What the code does
between two writes (or between a read and the write that depends on it) is where
other actors step in: so `sending` in `RunnerPipeline` is the row whose message has
been produced and whose QUEUED is not written; `batch` the rows fetched and not
looked at; `seenCreated`, `seenQueued` what a cancel request read; `listed`,
`seenSink`, `seenOld`, `toSend`, `finishing` in `ComplianceJob` the lists of the
summarizer cycle. Steps are merged only where no other actor can tell: the two
sweeps at the start of a summarizer cycle and the listing that follows are one
step (`BeginCycle`), because each is one SQL statement on data only the same
statements test again.

**RunnerPipeline.** A row's id stands for its NATS message id, which is
"job-\<id\>-\<retry\>" and retry counts stay 0 (`RetryFailedRunners` has no caller).
The stream drops a message whose id it has stored; the duplicate window of the
stream is taken to outlast the few rounds in which a failed QUEUED write makes the
publisher repeat itself. Reports of one row are consumed in order (they come from
one pod over one stream) and may each be lost: not published, or acknowledged and
not written. One cancel request is served at a time; `CancelJob` writes a queued
row before it deletes the message and `CancelJobById` after, which is one step
here, the failure of the deletion being the separate `CancelQueuedFails`.

**RunnerTable.** `phase` is what a reader of the table cannot see and yet needs:
whether a worker report can still follow. The refinement mapping computes it from
message ids, queue, pods and reports.

**ComplianceJob.** A row of `Runners` is a combination of framework, policy,
integration and job (`GetKeyIdentifier`); `JobOf` says which job's controls give it,
`ControlOf` the control and integration whose documents its run replaces. That a
row is deleted and built again is the status going to NONE and back. Time is two
flags, `dayOld` (the 24 hours of `UpdateComplianceJobsTimedOut`) and `sinkOld` (the
ten minutes of `runSummarizer`), that rise where the code looks at them.
`updateJobRunnersState` writes statistics only and is left out; it can refresh
updated_at and so delay `sinkOld`, which the model allows since `sinkOld` may rise
late. The runner rows of one round are inserted in one transaction
(`CreateInBatches`). A job has one trigger type. NATS may deliver a summarizer
message again, since that worker acknowledges last; the second result has the id of
the first and is dropped, so one run is modelled.

**DescribeJob.** `last` and `old` are what the code reads from `updated_at`: which row
of a pair has the latest, and whether it is hours ago. `Touch` is a write by gorm
(creation, SetInProgress, sweep), which refreshes it; `Write` is raw SQL, which does
not. Short ages (20 and 30 minutes) may always have passed. `passed` is a caller of
`describe` between its test and its insertion, `enq` where
`enqueueCloudNativeDescribeJob` is, `handling` a result whose clean-up is done and
whose status is not written, `listed` and `deleting` the deleter's round. The
listing of CREATED jobs and the count of running ones in a cycle are one step
(`BeginCycle`): what can happen between the two queries can also happen after them,
or makes the count larger. A page of resources that are no longer found is one
element of `Pages`; a task is a job and a page, and a task replaces another one with
the same pair and page since its id does not name the job (`OtherTasks`). `deleted`
forgets nothing: that a later discovery brings a resource back is not modelled.
A message id is the same in a retry, so the stream may drop the message.
`mixedUp`, `outdated`, `offBooks` and `delivered` are ghosts, which no
guard reads.

**DescribeTable.** `row` is the status as waiting code tells it apart: CREATED, QUEUED and
IN_PROGRESS are LIVE, and every other status may be written over any other, which is what
updates by id amount to. `closed` is what a reader cannot see: the jobs that are over and
that nobody is left to put to work again. The refinement mapping computes it from the
status, the goroutine that has the job (`enq`), the round of retries and whether the job
was QUEUED once (`Closed`). The table says that such a job may still be given another
verdict and is never live again. The clean-ups that delete old rows are not modelled.

**RunnerWorker.** Go's RWMutex blocks new readers once a writer waits, so a read
section that returns its lock is one step enabled while no writer is there, a
writer is announced (`PollLocks`) and goes on when no reader is left (`PollNotes`),
and a read lock never returned is counted in `leaked`.

**QueryJobs.** One module for both tables: `KindOf` tells which code a row has, and only
two places differ. `batch` is a publisher's list, `sending` the job whose message has
left and whose QUEUED is not written, `stored` the ids the stream knows. `WithinLimit` is
`Limit(200 - count)`, where gorm takes a negative limit for none. `Poison` are jobs whose
query is no valid template: the round ends at them and they stay CREATED. The sweep at
the head of both rounds is one action on runners only, since both publishers call the
one of that table. `concluded`, `withdrawn`, `offBooks`, `flooded` and `runs` are ghosts.

**TaskRuns.** Age counts from created_at, which nothing restarts; `Timeout`,
`Frequency` and `Minute` are in the same unit, so that dividing a timeout by sixty is
`Timeout \div Minute`. Two kinds of process load a specification with the same code: requests to
the service, which end with it, and the post-install job, in a pod of its own. `loading[l]`
is what `LoadTask` of load `l` has still to store, in the order of the specification, since
a schedule that is already there ends it. `job` is where the tasks migration is: it deletes
the tasks, then the schedules, ignoring errors, loads every specification, only logging
those that fail, and deletes the pods of the service; a new request deletes the job wherever
it is. The publisher and consumer of a task run only after a boot that found the row
(`started`), and go on with what they know of the task when the row is deleted; a handler or
the scheduler may have read the task before (`ReadBefore`). `broken` records a load that
broke off until the schedules are deleted, `crossed` that they were last deleted while a
request was storing them; both are ghosts. A message that is not acknowledged within half an
hour comes again.

**JobSequences.** A flow is a goroutine of a scan; a run is a compliance job, named by the
goroutine that makes it and a number: `parts` is how many the integrations of the request
make, one for every ten and one for the rest, and none for an empty list, which no code
refuses. They are inserted and watched one after the other (`at`). `pc` is where the
goroutine is in the two steps of `RunQuickScanSequence`, `todo` what it has not described
yet. `EndScan` is the deferred write, which may fail and leaves the goroutine gone. In a sequence's loop, `batch` are
the rows listed, `left` the dependencies of the one in hand not looked at, `phase`
whether it checks, inserts or marks. A describe job is `settled` when nine tenths of its
documents are in the index or it ended a day ago; it may come back any number of times, be
created beside another live one, and need not be settled any more when it is over again.
`dstatus` is `row` of `DescribeTable`, with nothing `closed`: scans and sequences get
along without that promise.

**Plugins.** Each handler holds the row it read (`load[i]`, `admin`) and writes all its
columns back (`UpdatePlugin`), so an older value can return. Whose files are in the
common folder, in the table of binaries and in the process of a type are three variables
(`folder`, `binary`, `loaded`). `late` stands for the two minutes after which the sweep
takes an installation for dead. `integrations` are those that users added, after a look at
the plugin; `demos` those of demo data, which is loaded (`demoing`) without any look at its
state, and whose flag is never set (section 5). The specifications that a request or the
post-install job loads rewrite descriptions of a row, or add one, and touch no state.

**EsSink.** The callback of the consumer, the module's loop and the indexer's workers are
three processes, the channels and the queue sequences with capacities; a batch of a
worker is one document, because failures in a batch are handled one by one. `settled`
records that a copy of a document has come to an end the code knows of.

**AuthCache.** `rows[n]` is the row with the n-th id of one email address: connector, role,
activity. The unique external id is the connector and the email, so that the connector stands
for it; the email itself is not unique, and the first row that is not deleted is the user
(`IsFirst`), as `GetUserByEmail` has it. A creation is an upsert on the external id, which
leaves a deleted row deleted, and ignores `is_active` (the column's default wins over a
false). An update may change the connector, and the external id with it. Check reads and caches in two
steps; edits read, write and remove from the cache in three.

**VaultSeal.** `core` is where the service is (initialising, storing keys, waiting,
ready, down), `checker` where its goroutine is. Exits are followed by a start, as the
cluster does.

## 3. The runs

| run | instance | checks |
|---|---|---|
| `RunnerPipeline_rows` | 2 rows, 1 pod | `AtMostOnce`, `WithdrawnNeverRuns`, `CountTellsRun`; refinement of `RunnerTable`; `Settles` |
| `ComplianceJob_both` | 1 job, 1 row, 2 summarizers, both goroutines | `OneSummarizer`, `SuccessWasSummarized`, `FinishedStaysFinished` |
| `ComplianceJob_jobs` | 2 jobs with a row each, deletion of rows | `NoRunnerLeftBehind` |
| `ComplianceJob_ends` | 1 job, 1 row, scheduled | `JobEnds` |
| `DescribeJob_one` | 1 scheduled job, 1 page to delete, no constraint | `JobsEnd` |
| `DescribeJob_pair` | 2 jobs of a pair, scheduler and one request, rate limit 1, 2 pages to delete of which they share one | `OneLive`, `CapKept`, `SucceededIsTrue` |
| `RunnerWorker_cancel` | 3 messages of 2 jobs | `InterruptedIsCanceled`, `CanceledIsCanceled`, `StopsUnlessSkipped` |
| `RunnerWorker_poll` | the same | `PollCancelsProcess`, which does not hold: section 5 |
| `QueryJobs_rows` | 2 runners, one with a bad query, or 3 validators under a limit of 1 | `RunsOnce`, `CapKept`, `VerdictStays`, `StrandedForEver`, `RunnersEnd` |
| `TaskRuns_runs` | 2 schedules, 1 load by request and the post-install job, 1 scheduled and 1 requested run, minutes of 2 units and a timeout of 3 | `LimitKept`, `FinishedStays`, `NotMuchTooEarly`, `PartialLoadStays`, `Settles` |
| `JobSequences_both` | a quick scan of 2 pairs with up to 2 goroutines and 0 to 2 compliance jobs, or one of 2 job sequences, over 2 describe jobs | `FinishedWasScanned`, `RunnersAccounted`, `OutcomeStays`, `OrphanStays`, `NextJobAfterDependencies`, `SequencesEnd` |
| `Services_all` | 2 plugins and 2 loads; 2 documents, 1 worker, every buffer of 1; 2 checks and 2 edits, 2 connectors and 2 rows; Vault with 2 stops | `RunsOwnCode`, `UninstalledHasNone`, `InstallEnds`; `AcceptedIsAccounted`, `RetriedEnds`; `CacheIsCurrent`; `ComesUp` |

What each property says is the comment above it. Type invariants are proved for all
values of the constants (section 4) and not repeated in the runs.

**Bounds.** Two rows are needed for a list of which one element is handled and the
other overwritten; two summarizers for a job to be summarized twice; two jobs for
rows to be deleted by a newer job; three messages for a skipped one, one that
waits for the lock, and one of another job; three validators for a limit of one to be
passed by a list and then by a job that is not on it; a timeout that is no multiple of a
minute for the division to lose something; two schedules for a load to break off between
them; a request and a migration for loads to cross; two goroutines for an outcome to be
overwritten, and two compliance jobs for one of them to end before the other; two rows under
two connectors for an email to come back; buffers of one for the sink to
lock up. More of the same adds no new relation, and the safety properties
are proved for any number.

Constraints keep the runs small; each is named and explained in the MC module it is
defined in, and the proofs know none of them. `OneOfEachKind` and `TwoJobsBound`
(`MCComplianceJob`) let rows take one status of each kind and leave to the other runs
what cannot affect the property. `PairBound` (`MCDescribeJob`) lets one job at a time be
sent and described, and keeps that apart from what callers, retries, cancel requests,
the consumer and the deleter have begun; a job may be picked, and its QUEUED written,
while they are at work. `OneKind` (`MCQueryJobs`) has jobs of one table at a time, which
share nothing but the sweep. `StaysSequential` (`MCTaskRuns`) has loads and migrations finished, and both
schedules stored, before a message is produced or the second run is created (the first run
may be created at any time among them), one result at a time, and makes the second run an
ordinary one. `OneKind`
and `SimpleScans` (`MCJobSequences`) take a quick scan or one sequence, and for a scan
describe jobs of which the first may also fail and return, any number of times, until the
first compliance job is made, and the second succeeds for good. `ScanSizes` has both pairs
described when one compliance job is made, and nothing described and a single goroutine when
two are.
`OneAtATime` (`MCServices`) follows either two overlapping loads without other requests,
or one plugin with all requests and integrations either of users or of demo data, and no
behaviour past the overlap. `OneRowForTwo` has a second check or a second edit, not both, and
only for an email with one row; a second creation is possible always. `MaxMade`,
`MaxStarts`, `MaxParts`, `MaxUsers`, `MaxDeliver`, `MaxStop` and `MaxAge` bound counters in guards. A liveness
property is checked on the behaviours that stay within the constraint.

Deadlock checking is off where everything may be settled and the system waits for a
request.

**Fairness.** `RunnerPipeline`: only the timeout sweeps are fair. They begin every
round of `RunPublisher`, which loops on a ticker for ever; they are skipped while
the integration or compliance service does not answer (`publisher.go:24-38`), so
the assumption is that those services come back. Workers, consumers and NATS get
no fairness: `Settles` says the sweeps suffice. `ComplianceJob`: the goroutines
loop on tickers and start again after an error, so each cycle is weakly fair, and
time passes; strong fairness of `CreateSummarizer` per job says the index and
database do not fail at every one of infinitely many attempts. `DescribeJob`:
time passes, and the sweep, which shares only its ticker with the consumer, finds
each job that stays as it is; describers, consumer, deleter and NATS get no fairness.
`RunnerWorker`:
goroutines that can run do run, and a query ends once its context is canceled; a
query that hangs otherwise may hang for ever.
`QueryJobs`: the publisher of runners loops on a ticker and so sweeps, and a round whose
list has no bad query gets through in the end (strong fairness of `Produce` and of the
QUEUED write: NATS and the database do not fail at every one of infinitely many
attempts); nothing is assumed of workers, consumers and the validators' publisher.
`TaskRuns`: the cluster starts the service again, the publisher of a started task loops
on a ticker, time passes. `JobSequences`: the loops run on tickers and are started
again, goroutines that are not blocked go on, time passes, and describe jobs end, which
is `JobsEnd` of `DescribeJob`; `SequencesEnd` also supposes that the rows of jobs that
ended are not written for ever, since a job that is retried whenever nobody looks keeps a
sequence waiting. `Services_all`: for plugins, time, the restart of the
service, and the sweep, strongly per row, since rows are written in between; for the
sink, its loop, callback and workers, with strong fairness for the channel the loop's
select may neglect (Go chooses at random) and for OpenSearch's answering a document
otherwise than by "too many requests"; for Vault, the service is started again and each
of its calls succeeds in the end.

Every property has a mutant in `PROJECT.json`: a changed definition of the model, of
the kind a slip in the code would give, under which TLC finds the property violated.

## 4. The proofs

Every safety and action property of the passing runs is also proved, for all values of
the constants, and so are the types of every module. Each theorem of the specification
follows from an inductive invariant, whose parts are named in the proof module; a lemma
per group of actions shows that they are kept.

`RunnerPipelineProofs`: `AtMostOnce`, `WithdrawnNeverRuns`, `CountTellsRun` and that
`RunnerPipeline` implements `RunnerTable`. The inductive invariant says where the only
copy of a row's message can be: an id that was never published has no message, run or
report; a published one is in the queue, in exactly one pod, or neither, and its runs
count 0 before `ReportInProgress` and 1 after. `AtMostOnce` alone is not inductive: it
needs that no second message with the same id can be stored, that two pods never hold
one row, and that a withdrawn message has left both. `CountTellsRun` needs the order of
reports: a verdict with a count is in the list only when the row was run. The
refinement is proved action by action; each maps to one action of `RunnerTable` or
to a stutter. `RestStays` is the safety half of `Settles`: a row that has a final status
and is in nobody's hands (no message, batch, pod, report or request) is never written
again by the pipeline, whatever the other rows do.

`ComplianceJobProofs`: `NoRunnerLeftBehind`, `OneSummarizer`, `SuccessWasSummarized` and
`FinishedStaysFinished`. The invariant (`IInv`, 13 parts) carries what a stale list
still guarantees: a listed job has all its runners queued and each row it has was
in a final status at some time (`ListedReady`); a summarizer exists only for such a
job (`NoRunnerLeftBehind`); a job with a summarizer is off every list or was left
`unmarked` (`SummarizedOff`, `OneSummarizer`); the lists for closing hold only jobs
with a summarizer that ran (`VerdictRan`, `FinishingRan`), and a closed job is on no
list that could reopen it (`FinishedOff`). `UsesTable` is the other half of the
composition: whatever the job-level code does to the runner rows, `RunnerTable` allows it,
and `RunnerPipeline` implements the same table. `HeldForGood` says that the exception of
`JobEnds` is permanent: as long as that row stays CANCELED, a job in SINK_IN_PROGRESS that
no goroutine has in hand is not moved by any cycle, sweep, cancel request or newer job.

`RunnerWorkerProofs`: `InterruptedIsCanceled` and `CanceledIsCanceled`. A job is noted
only after the scheduler reported it, by the goroutine that has the lock
(`NotedIsCanceled`); a message in hand has a live context unless its job was noted
(`LiveContext`) and no verdict was sent about it (`NoVerdictYet`); so an interrupted
query finds its job noted when it looks again (`InterruptedIsKnown`). `SpeaksInOrder`
proves what `RunnerPipeline` takes for granted of its pods: about the message in hand
IN_PROGRESS first, if at all, then one verdict, and nothing about another.
`SkippedLocksUp` says what follows from the finding of section 5: once a message was
skipped, no canceled job is noted any more, and once a poll waits for the lock the pod
keeps its message and reports nothing.

`DescribeJobProofs`: `OneLive`, `CapKept` and `SucceededIsTrue`, each from an invariant of
its own. Steps are of three kinds (`StepKinds`): a check, a creation, and *orderly* ones,
which create nothing, refresh updated_at of live jobs only, and make no caller believe
a pair free. `OneLive` follows from `LastIsLive` (of a pair not mixed up, only the job
updated last may be live) and `FreeIsFree` (a caller that found a pair free is right until
a job is created or returns to life), which orderly steps keep for one reason, and the
other two kinds for one each. `CapKept` counts the running jobs together with the picked
ones (`BookedFits`): only a cycle adds to them, and it looks at the sum. `SucceededIsTrue`
follows what can still become SUCCEEDED (results, the result in hand, tasks, the task
carried out) back to a describer's word (`VerdictsTrue`); that one page of several is
enough for the status is the step from the task to its job (`OnePageIsClean`).
`RowsOfTable` is the refinement of `DescribeTable`. Most steps write a row of a job that
exists (`RowWrites`, from `NoGhosts`: what is in a queue, a list or a hand has a row);
the point of it is that a closed job is not LIVE again, since CREATED and QUEUED are
written only by the round of retries and the goroutine that picked the job, and
IN_PROGRESS only over a live row (`NobodyPutsToWork`).

`QueryJobsProofs`: `RunsOnce` (one message, in one place: `OneMessage`), `CapKept` (running
and listed validators fit the limit until a round was flooded: `RoomForBooked`),
`VerdictStays` (nothing follows a verdict: `VerdictIsLast`, `NothingFollows`) and
`StrandedForEver`. `RestStays` is the safety half of `RunnersEnd`, for both tables, and
needs that each publisher holds only rows of its own (`KeptApart`).

`TaskRunsProofs`: `LimitKept` (`BookedKept`), `NotMuchTooEarly` (arithmetic of the division
by a minute, for any timeout), `PartialLoadStays` (when a load broke off and the schedules
were not deleted beneath a request, the first schedule is stored and every load that is not
yet past it meets it: `FirstIsStored`, kept by a load's own steps in `StoreKeepsFirst` and
`LoadersKeepFirst`; the migration stores only in its own phase: `MigratorLoads`) and
`FinishedStays`; and `RestStays`, the
safety half of `Settles`: a run can come back while the stream has its message, a worker has
it, the publisher lists it or a result is on its way, and never after.

`JobSequencesProofs`: `FinishedWasScanned`, `RunnersAccounted`, `NextJobAfterDependencies`,
`OutcomeStays` and `OrphanStays`. A goroutine knows that what it described has a job of
this scan, and later that all of them ended, and of its compliance jobs, be there none or
several, that those it has gone past have ended (`FlowsKnow`); an outcome means that the
first goroutine is gone or there is a second one (`OutcomeIsOf`); what the loop no longer
has to look at has ended (`LoopHasWaiting`). `RowsOfTable` and
`NoRowStepMissing` tie the describe jobs of this module to `DescribeTable`, each step of
one to a step of the other: the first keeps the environment from doing more than the
table allows, the second from doing less, which would prove the rest for fewer behaviours
than the code has.

`ServicesProofs`: `CacheIsCurrent` (a call that is about to cache holds the row as it is
unless it was overtaken: `CheckIsFresh`); that the core service is never ready while the
keys are lost, and that lost keys stay lost; `AcceptedIsAccounted` (a document is
acknowledged only after it got into the channel: `AckedIsPast`); `RunsOwnCode` (while no two
loads overlapped there is one, and what it read is its own: `OneLoad`) and
`UninstalledHasNone` (`CrossedIsKnown` for integrations of users, `DemosKnown` for demo data).
`DeletedForGood`: an external id that was deleted is never again that of a user, and no two
rows share one (`IdsAreApart`), whatever creations and connector changes are under way; the
email may well come back under another connector. `LockedUpStays`: when the sink's loop,
its workers and the channel of retries wait for each other, nothing but a stop of the
service ends it, so the exception of `RetriedEnds` is permanent. These are theorems of each service's own
specification, whatever the others do.

Assumptions: the named ASSUMEs on the constants (finite sets of ids, a limit in Nat, None
no id), which TLC evaluates, and nothing else. Only model-checked: liveness (`Settles`,
`JobEnds`, `JobsEnd`, `StopsUnlessSkipped`, `RunnersEnd`, `SequencesEnd`, `InstallEnds`,
`RetriedEnds`, `ComesUp`), for which the prover has no rules.

## 5. Where the code and its text disagree

* `compliance-runner-job/service.go:348` says pollAPI "cancels the process if
  needed"; after one skipped message the read lock taken at line 266 is never
  returned and pollAPI waits for ever (`RunnerWorker_poll`).

Met while modelling, modelled as the code does it, and not given a run of their own:

* `summarizer.go:113-114` says a job is not summarized before its documents are in
  the index, or 90% of them; the code gives up after ten minutes and computes no share.
* `server.go:541` refuses a trigger request because the "compliance job is already
  running"; a job in SINK_IN_PROGRESS does not count, and the request deletes its rows.
* `scheduler_describe.go:37` has the error "job already in progress"; the test looks at
  the row with the latest updated_at only, which need not be the live one (`OneLive` names
  when it is).
* `db/describe.go:597-599` times jobs out that were CREATED or QUEUED "for longer than 4
  hours"; the queries count two hours for QUEUED ones.
* The publisher of validators times out the rows of the runners' table; nothing times a
  validator out (`StrandedForEver`).
* `seal.go:222` says the unseal checker "will retry periodically"; the retries signal
  nothing, so Start gives up after its timeout and the process starts again (`ComesUp`).
* `services/auth/http.go:648` says is_active is taken from the request; a false counts as
  not given and the column's default is true, so an inactive user is created active. A
  user that was deleted and is created again under the same connector is reported as created,
  and stays deleted (`DeletedForGood`); under another connector there is a new row. The email
  is looked up as if it were unique (`db/db.go:353`), which no index makes it: two creations
  that race, one per connector, or an update of the connector leave several rows of one email.
* The gRPC Ingest of es-sink ignores the list of documents that failed
  (`AcceptedIsAccounted` excepts them); the HTTP one returns it.
* `PluginDemoDataLoad` and `PluginDemoDataUnLoad` (`db/integration_plugin.go:35-57`) update a
  column named "demo_data_loaded = ?": the flag is never set, so a load that worked answers
  500 and may be repeated, and demo data cannot be removed by RemovePluginDemoData, which
  answers 409. Demo data is also loaded for plugins that are not installed or are being
  uninstalled (`UninstalledHasNone` excepts it).
* A quick scan whose request names no integrations ends FINISHED without a compliance job.
  Tables whose resource type is not found are skipped (`scheduler_quickscan_sequence.go:225-233`),
  and so are types that an integration does not support (161-164): FINISHED says nothing of
  them, and `FinishedWasScanned` speaks of what the goroutine asked for.
* The tasks migration ignores the errors of its deletions (`migrations/tasks/migrator.go:71-73`),
  and only logs a specification that fails to load.
* LoadPluginWithURL of an unknown URL does nothing: GetPluginByURL uses Find, which
  returns an empty row and never nil. PingRoutine asks for the type of an empty struct, so
  it restarts nothing. IntegrationHealthcheck dereferences a nil error when an integration
  is unhealthy without one. EnablePlugin and DisablePlugin write back the install_state
  they read, and an uninstall whose configuration cannot be removed leaves a row
  "installed" that cannot be uninstalled before it is loaded again.

## 6. Not modelled, and what could follow

Modelled is the code that keeps state between steps. Much of the repository does
not: a large part are request handlers that read tables and documents and shape an
answer (`services/compliance/http_routes.go`, `services/core/*http_routes.go`, the read
handlers of `scheduler/server.go` and of the integration service), generated or declared
data (`docs/docs.go`, `services/compliance/es/`, `pkg/cloudql` tables, API types), clients
of other services, and start-up code. A model of a handler that reads once and formats
has one step and nothing to get wrong that a unit test would not find. So the share of
lines the models stand for is, and will stay, well below that of the behaviour they cover.

Within modelled components: the contents of results and summaries; jobs without
incidents (except those of quick scans); the age test that decides when a scheduled job
is due (a job may be created at any time); the clean-up of documents of integrations that
are gone; which runners and parent paths `runNextJob` and `buildRunners` compute; secrets
and parameters; tokens, API keys and the passwords in Dex; credentials, health checks and groups of
integrations; logging and metrics. Of the post-install job only
the tasks migration is modelled, and two of its pods do not overlap (the old one is deleted
first; for a moment it may live on). Handlers and the scheduler read a task and its schedules
and create the run in one step, except across a migration (`ReadBefore`). A resource that is found again after it was deleted is
not modelled, so `deleted` in `DescribeJob` only grows, and what the index should hold
after two discoveries whose results come in the wrong order is stated nowhere.

What could follow, in order:

1. `BuildRunners`: `buildRunners` as a pure function of the framework tree, against "one
   row for every supported control, and nothing in a second round".
2. `DescribeJob` with resources instead of pages: late results that delete what a newer
   job indexed.
3. `utils/dag` of `pkg/cloudql` as a pure module (cycle detection against reachability).
4. One abstract table, like `RunnerTable`, that `QueryJobs`, `TaskRuns` and the quick runs
   of `JobSequences` implement.
