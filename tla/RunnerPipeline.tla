--------------------------- MODULE RunnerPipeline ---------------------------
(***************************************************************************)
(* The life of the runner rows of one compliance job: the publisher cycle  *)
(* of the scheduler (schedulers/compliance/publisher.go), the NATS job     *)
(* stream, the runner workers (jobs/compliance-runner-job), the result     *)
(* consumer, the timeout sweeps, the two HTTP cancel handlers and the      *)
(* deletion of old rows.                                                   *)
(*                                                                         *)
(* Every database write of the code is one UPDATE by row id and is one     *)
(* step here; what the code does between two writes is where the other     *)
(* actors run.  NATS drops a message whose id ("job-<id>-<retry>") was     *)
(* already stored; the duplicate window is taken to outlast the handful of *)
(* republications that failed QUEUED writes cause.                         *)
(***************************************************************************)
EXTENDS Naturals, Sequences

CONSTANTS Runners,      \* row ids, each used for one row
          Workers,      \* runner worker pods
          None          \* no runner

ASSUME NoneAssumption == None \notin Runners

VARIABLES status, counted,
          used,         \* ids that were given to a row
          published,    \* ids whose message NATS has stored
          queue,        \* messages in the job stream
          job,          \* job[w]: the runner worker w handles, or None
          running,      \* running[w]: w has sent its IN_PROGRESS report
          stopSeen,     \* workers whose pollAPI has seen the job canceled
          reports,      \* reports[r]: the worker's reports not yet consumed
          batch,        \* rows the publisher fetched and has not looked at
          sending,      \* row produced to NATS, QUEUED not written yet, or None
          handler,      \* "idle", or the cancel handler at work
          seenCreated, seenQueued,   \* its snapshot, what is left of it
          jobCanceled,  \* the parent job is CANCELED
          runs,         \* ghost: how often a worker executed the row's query
          withdrawn     \* ghost: ids whose queued message a cancel deleted

dbVars == <<status, counted, used>>
workerVars == <<job, running, stopSeen, runs>>
publisherVars == <<batch, sending>>
cancelVars == <<handler, seenCreated, seenQueued, jobCanceled, withdrawn>>
vars == <<status, counted, used, published, queue, job, running, stopSeen, reports,
          batch, sending, handler, seenCreated, seenQueued, jobCanceled,
          runs, withdrawn>>

RunnerStatus == {"NONE", "CREATED", "QUEUED", "IN_PROGRESS",
                 "SUCCEEDED", "FAILED", "TIMEOUT", "CANCELED"}
Settled == {"SUCCEEDED", "FAILED", "TIMEOUT", "CANCELED"}
Report == {"IN_PROGRESS", "SUCCEEDED", "FAILED", "CANCELED", "CANCELED_COUNTED"}

Init ==
    /\ status = [r \in Runners |-> "NONE"]
    /\ counted = [r \in Runners |-> FALSE]
    /\ used = {}
    /\ published = {} /\ queue = {}
    /\ job = [w \in Workers |-> None]
    /\ running = [w \in Workers |-> FALSE]
    /\ stopSeen = {}
    /\ reports = [r \in Runners |-> <<>>]
    /\ batch = {} /\ sending = None
    /\ handler = "idle" /\ seenCreated = {} /\ seenQueued = {}
    /\ jobCanceled = FALSE
    /\ runs = [r \in Runners |-> 0]
    /\ withdrawn = {}

Exists(r) == status[r] # "NONE"

\* Mutant: the row is saved, and inserted again when it is gone.
UpsertRunnerJob(r, s) == status' = [status EXCEPT ![r] = s]

\* UpdateRunnerJob: one UPDATE ... WHERE id = r; a row that is gone matches nothing.
UpdateRunnerJob(r, s) ==
    status' = IF Exists(r) THEN [status EXCEPT ![r] = s] ELSE status

---------------------------------------------------------------------------
(* Rows appear and disappear. *)

\* enqueueRunnersCycle inserts the missing rows of the job.
CreateRunnerJobs(R) ==
    /\ R # {} /\ R \cap used = {}
    /\ status' = [r \in Runners |-> IF r \in R THEN "CREATED" ELSE status[r]]
    /\ used' = used \cup R
    /\ UNCHANGED <<counted, published, queue, reports,
                   workerVars, publisherVars, cancelVars>>

\* A newer job for the framework removes the rows, in whatever state they are.
DeleteOldRunnerJob ==
    /\ \E r \in Runners : Exists(r)
    /\ status' = [r \in Runners |-> "NONE"]
    /\ counted' = [r \in Runners |-> FALSE]
    /\ UNCHANGED <<used, published, queue, reports,
                   workerVars, publisherVars, cancelVars>>

---------------------------------------------------------------------------
(* The publisher: fetch, then for every row produce and only then write QUEUED. *)

FetchCreatedRunners ==
    /\ batch = {} /\ sending = None
    /\ \E r \in Runners : status[r] = "CREATED"
    /\ batch' = {r \in Runners : status[r] = "CREATED"}
    /\ UNCHANGED <<dbVars, published, queue, reports, sending,
                   workerVars, cancelVars>>

\* The policy, the callers or the integration of the row cannot be found, or Produce
\* returns an error and nothing was stored.
PublishUnfit(r) ==
    /\ sending = None /\ r \in batch
    /\ batch' = batch \ {r}
    /\ UpdateRunnerJob(r, "FAILED")
    /\ UNCHANGED <<counted, used, published, queue, reports, sending,
                   workerVars, cancelVars>>

\* Produce; the stream ignores an id it already holds.
Produce(r) ==
    /\ queue' = IF r \in published THEN queue ELSE queue \cup {r}
    /\ published' = published \cup {r}

\* Mutant: the message id is new for every attempt, so the stream cannot tell.
PublishWithFreshId(r) ==
    /\ sending = None /\ r \in batch
    /\ batch' = batch \ {r}
    /\ queue' = queue \cup {r}
    /\ published' = published \cup {r}
    /\ sending' = r
    /\ UNCHANGED <<dbVars, reports, workerVars, cancelVars>>

PublishRunner(r) ==
    /\ sending = None /\ r \in batch
    /\ batch' = batch \ {r}
    /\ Produce(r)
    /\ sending' = r
    /\ UNCHANGED <<dbVars, reports, workerVars, cancelVars>>

\* The stream is missing and cannot be set up: runPublisher returns.
PublisherReturns ==
    /\ sending = None /\ batch # {}
    /\ batch' = {}
    /\ UNCHANGED <<dbVars, published, queue, reports, sending,
                   workerVars, cancelVars>>

\* QUEUED is written whatever the row has become, or FAILED when Produce returned an
\* error although the message is stored; an error of the write is dropped.
MarkQueued ==
    /\ sending # None
    /\ sending' = None
    /\ \/ \E s \in {"QUEUED", "FAILED"} : UpdateRunnerJob(sending, s)
       \/ UNCHANGED status
    /\ UNCHANGED <<counted, used, published, queue, reports, batch,
                   workerVars, cancelVars>>

\* Mutant: only rows that no worker has reported on are timed out.
TimeOutQueuedRunners(R) ==
    /\ R # {}
    /\ \A r \in R : status[r] \in {"CREATED", "QUEUED"}
    /\ status' = [r \in Runners |-> IF r \in R THEN "TIMEOUT" ELSE status[r]]
    /\ UNCHANGED <<counted, used, published, queue, reports,
                   workerVars, publisherVars, cancelVars>>

\* UpdateTimeoutQueuedRunnerJobs and UpdateTimedOutInProgressRunners.
TimeOutRunners(R) ==
    /\ R # {}
    /\ \A r \in R : status[r] \in {"CREATED", "QUEUED", "IN_PROGRESS"}
    /\ status' = [r \in Runners |-> IF r \in R THEN "TIMEOUT" ELSE status[r]]
    /\ UNCHANGED <<counted, used, published, queue, reports,
                   workerVars, publisherVars, cancelVars>>

\* The scheduler process restarts; only the database and NATS survive.
SchedulerRestart ==
    /\ batch' = {} /\ sending' = None
    /\ handler' = "idle" /\ seenCreated' = {} /\ seenQueued' = {}
    /\ UNCHANGED <<dbVars, published, queue, reports, workerVars,
                   jobCanceled, withdrawn>>

---------------------------------------------------------------------------
(* The worker: acknowledge, report IN_PROGRESS, run, report the verdict. *)

\* Mutant: the message is acknowledged when the run is over, and so comes again after
\* a crash.
TakeWithoutAck(w, r) ==
    /\ job[w] = None /\ r \in queue
    /\ job' = [job EXCEPT ![w] = r]
    /\ running' = [running EXCEPT ![w] = FALSE]
    /\ UNCHANGED <<dbVars, published, queue, reports, stopSeen, runs,
                   publisherVars, cancelVars>>

\* The message is acknowledged before anything else and is never redelivered.
TakeMessage(w, r) ==
    /\ job[w] = None /\ r \in queue
    /\ queue' = queue \ {r}
    /\ job' = [job EXCEPT ![w] = r]
    /\ running' = [running EXCEPT ![w] = FALSE]
    /\ UNCHANGED <<dbVars, published, reports, stopSeen, runs,
                   publisherVars, cancelVars>>

\* The job is in canceledComplianceJobs: return, and report nothing.
SkipCanceled(w) ==
    /\ job[w] # None /\ ~running[w] /\ w \in stopSeen
    /\ job' = [job EXCEPT ![w] = None]
    /\ UNCHANGED <<dbVars, published, queue, reports, running, stopSeen, runs,
                   publisherVars, cancelVars>>

ReportInProgress(w) ==
    /\ job[w] # None /\ ~running[w] /\ w \notin stopSeen
    /\ running' = [running EXCEPT ![w] = TRUE]
    /\ runs' = [runs EXCEPT ![job[w]] = @ + 1]
    /\ reports' = [reports EXCEPT ![job[w]] = Append(@, "IN_PROGRESS")]
    /\ UNCHANGED <<dbVars, published, queue, job, stopSeen,
                   publisherVars, cancelVars>>

\* pollAPI learns that the job is canceled and cancels the context of the run.
PollSeesCanceled(w) ==
    /\ job[w] # None /\ jobCanceled /\ w \notin stopSeen
    /\ stopSeen' = stopSeen \cup {w}
    /\ UNCHANGED <<dbVars, published, queue, reports, job, running, runs,
                   publisherVars, cancelVars>>

\* The deferred report.  Once stopSeen, the verdict is CANCELED, with the count if
\* the run had finished; publishing it fails when the context is canceled by then.
FinishRun(w, verdict) ==
    /\ job[w] # None /\ running[w]
    /\ IF w \in stopSeen THEN verdict \in {"CANCELED", "CANCELED_COUNTED"}
                         ELSE verdict \in {"SUCCEEDED", "FAILED"}
    /\ job' = [job EXCEPT ![w] = None]
    /\ reports' = [reports EXCEPT ![job[w]] = Append(@, verdict)]
    /\ UNCHANGED <<dbVars, published, queue, running, stopSeen, runs,
                   publisherVars, cancelVars>>

\* The pod dies: its message was acknowledged, so nobody takes it up again.
WorkerCrash(w) ==
    /\ job[w] # None
    /\ job' = [job EXCEPT ![w] = None]
    /\ stopSeen' = stopSeen \ {w}
    /\ UNCHANGED <<dbVars, published, queue, reports, running, runs,
                   publisherVars, cancelVars>>

---------------------------------------------------------------------------
(* The result consumer of the scheduler: acknowledge, then write. *)

\* Mutant: a report without an error is taken for a success.
StatusWithoutError(m) ==
    IF m \in {"CANCELED", "CANCELED_COUNTED"} THEN "SUCCEEDED" ELSE m

StatusOf(m) == IF m = "CANCELED_COUNTED" THEN "CANCELED" ELSE m

ConsumeReport(r) ==
    /\ reports[r] # <<>>
    /\ LET m == Head(reports[r]) IN
        /\ UpdateRunnerJob(r, StatusOf(m))
        /\ counted' = [counted EXCEPT ![r] =
                          @ \/ (Exists(r) /\ m \in {"SUCCEEDED", "CANCELED_COUNTED"})]
    /\ reports' = [reports EXCEPT ![r] = Tail(@)]
    /\ UNCHANGED <<used, published, queue, workerVars, publisherVars, cancelVars>>

\* Never published, or acknowledged and then not written: the report has no effect.
LoseReport(r) ==
    /\ reports[r] # <<>>
    /\ reports' = [reports EXCEPT ![r] = Tail(@)]
    /\ UNCHANGED <<dbVars, published, queue, workerVars, publisherVars, cancelVars>>

---------------------------------------------------------------------------
(* CancelJobById ("byId") and CancelJob ("batch") on a RUNNERS_IN_PROGRESS job. *)

CancelStart(kind) ==
    /\ handler = "idle" /\ ~jobCanceled
    /\ \E r \in Runners : Exists(r)
    /\ LET created == {r \in Runners : status[r] = "CREATED"}
           queued == {r \in Runners : status[r] = "QUEUED"}
       IN /\ kind = "byId" => created \cup queued # {}
          /\ handler' = kind
          /\ seenCreated' = created
          /\ seenQueued' = queued
    /\ UNCHANGED <<dbVars, published, queue, reports, workerVars,
                   publisherVars, jobCanceled, withdrawn>>

CancelCreatedRunner(r) ==
    /\ handler # "idle" /\ r \in seenCreated
    /\ seenCreated' = seenCreated \ {r}
    /\ UpdateRunnerJob(r, "CANCELED")
    /\ UNCHANGED <<counted, used, published, queue, reports, workerVars,
                   publisherVars, handler, seenQueued, jobCanceled, withdrawn>>

\* DeleteMessage succeeds; when a worker already took the message that changes nothing.
CancelQueuedRunner(r) ==
    /\ handler # "idle" /\ r \in seenQueued
    /\ seenQueued' = seenQueued \ {r}
    /\ queue' = queue \ {r}
    /\ withdrawn' = IF r \in queue THEN withdrawn \cup {r} ELSE withdrawn
    /\ UpdateRunnerJob(r, "CANCELED")
    /\ UNCHANGED <<counted, used, published, reports, workerVars,
                   publisherVars, handler, seenCreated, jobCanceled>>

\* DeleteMessage fails.  CancelJobById answers 500 and leaves the rest as it is;
\* CancelJob has written the row before and goes on.
CancelQueuedFails(r) ==
    /\ handler # "idle" /\ r \in seenQueued
    /\ IF handler = "byId"
       THEN /\ handler' = "idle" /\ seenCreated' = {} /\ seenQueued' = {}
            /\ UNCHANGED status
       ELSE /\ seenQueued' = seenQueued \ {r}
            /\ UpdateRunnerJob(r, "CANCELED")
            /\ UNCHANGED <<handler, seenCreated>>
    /\ UNCHANGED <<counted, used, published, queue, reports, workerVars,
                   publisherVars, jobCanceled, withdrawn>>

\* Last of all the parent job is marked CANCELED.
CancelEnd ==
    /\ handler # "idle" /\ seenCreated \cup seenQueued = {}
    /\ jobCanceled' = TRUE
    /\ handler' = "idle"
    /\ UNCHANGED <<dbVars, published, queue, reports, workerVars,
                   publisherVars, seenCreated, seenQueued, withdrawn>>

---------------------------------------------------------------------------
Publisher ==
    \/ FetchCreatedRunners \/ PublisherReturns \/ MarkQueued
    \/ \E r \in Runners : PublishUnfit(r) \/ PublishRunner(r)

Worker(w) ==
    \/ \E r \in Runners : TakeMessage(w, r)
    \/ SkipCanceled(w) \/ ReportInProgress(w) \/ PollSeesCanceled(w)
    \/ \E v \in Report : FinishRun(w, v)

Consumer(r) == ConsumeReport(r) \/ LoseReport(r)

Canceler ==
    \/ \E k \in {"byId", "batch"} : CancelStart(k)
    \/ \E r \in Runners :
          CancelCreatedRunner(r) \/ CancelQueuedRunner(r) \/ CancelQueuedFails(r)
    \/ CancelEnd

Next ==
    \/ \E R \in SUBSET Runners : CreateRunnerJobs(R) \/ TimeOutRunners(R)
    \/ DeleteOldRunnerJob
    \/ Publisher
    \/ SchedulerRestart
    \/ \E w \in Workers : Worker(w) \/ WorkerCrash(w)
    \/ \E r \in Runners : Consumer(r)
    \/ Canceler

Spec == Init /\ [][Next]_vars

\* RunPublisher loops on a timer for ever and begins every round with the two sweeps,
\* so a row that stays unsettled is old enough in some round.  Nothing else needs to be
\* fair: workers may hang and reports may be late.
FairSpec == Spec /\ \A r \in Runners : WF_vars(TimeOutRunners({r}))

---------------------------------------------------------------------------
TypeOK ==
    /\ status \in [Runners -> RunnerStatus]
    /\ counted \in [Runners -> BOOLEAN]
    /\ used \in SUBSET Runners
    /\ published \in SUBSET Runners
    /\ queue \in SUBSET Runners
    /\ job \in [Workers -> Runners \cup {None}]
    /\ running \in [Workers -> BOOLEAN]
    /\ stopSeen \in SUBSET Workers
    /\ reports \in [Runners -> Seq(Report)]
    /\ batch \in SUBSET Runners
    /\ sending \in Runners \cup {None}
    /\ handler \in {"idle", "byId", "batch"}
    /\ seenCreated \in SUBSET Runners
    /\ seenQueued \in SUBSET Runners
    /\ jobCanceled \in BOOLEAN
    /\ runs \in [Runners -> Nat]
    /\ withdrawn \in SUBSET Runners

\* A runner is executed at most once, although the publisher produces first and writes
\* QUEUED later, drops the error of that write and so may publish a row again, and
\* although it may crash in between.
AtMostOnce == \A r \in Runners : runs[r] <= 1

\* Once a cancel handler has deleted the message of a queued runner, no later round of
\* the publisher (which may hold the row in its batch) gets that runner executed.
WithdrawnNeverRuns == \A r \in withdrawn : runs[r] = 0

\* total_finding_count, which the summarizer compares with the indexed documents, is
\* there for every SUCCEEDED row and only for a row whose query really ran: late or
\* repeated status writes neither clear nor invent it.
CountTellsRun ==
    \A r \in Runners :
        /\ counted[r] => runs[r] >= 1
        /\ status[r] = "SUCCEEDED" => counted[r]

\* Whatever is lost, late or overwritten (a verdict overwritten by the publisher's
\* QUEUED, a report after the TIMEOUT, a dead worker), a row ends up settled for good.
Settles == \A r \in Runners : <>[](status[r] \in Settled \cup {"NONE"})

---------------------------------------------------------------------------
(* The pipeline keeps the promise of RunnerTable. *)

Outstanding(r) ==
    r \in queue \/ (\E w \in Workers : job[w] = r) \/ reports[r] # <<>>

PhaseOf(r) ==
    IF ~Exists(r) \/ r \notin published THEN "unsent"
    ELSE IF Outstanding(r) THEN "out" ELSE "over"

Phase == [r \in Runners |-> PhaseOf(r)]

Table == INSTANCE RunnerTable WITH phase <- Phase

\* The statuses a reader of compliance_runners can see, in the order they can be seen,
\* are those RunnerTable allows: never CREATED again, no worker report after the last.
ImplementsTable == Table!TableSpec
=============================================================================
