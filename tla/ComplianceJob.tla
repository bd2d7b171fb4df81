--------------------------- MODULE ComplianceJob ---------------------------
(***************************************************************************)
(* The life of compliance jobs with incidents (schedulers/compliance):     *)
(* creation by the scheduler and by HTTP, the enqueue cycle, the two       *)
(* summarizer goroutines (scheduled and manual jobs), the summarizer       *)
(* worker, the HTTP cancel handlers and a restart of the scheduler.        *)
(*                                                                         *)
(* Nothing in this code is locked or transactional: a goroutine lists      *)
(* rows, works through the list and updates by id.  A step here is one     *)
(* statement, or a run of statements between which no other actor could    *)
(* make a difference; lists read earlier are state of the goroutine.       *)
(*                                                                         *)
(* The runner rows are those of RunnerTable, whose actions stand for       *)
(* publisher, workers, consumer and sweeps.  Every job made by             *)
(* CreateComplianceReportJobs has one framework, and all jobs here have    *)
(* the same one.                                                           *)
(***************************************************************************)
EXTENDS RunnerTable, Naturals, FiniteSets

CONSTANTS Jobs,         \* ids of compliance_jobs rows
          JobOf,        \* JobOf[r]: the job whose controls give row r
          ControlOf,    \* ControlOf[r]: control and integration of row r
          Summs,        \* ids of compliance_summarizers rows
          TriggerTypes, \* the trigger types in use, each with a summarizer goroutine
          None

ASSUME ConstantsAssumption ==
    /\ JobOf \in [Runners -> Jobs]
    /\ None \notin Jobs \cup Summs
    /\ TriggerTypes \subseteq {"scheduled", "manual"}

VARIABLES
    jobStatus, allQueued, trigger,   \* columns of compliance_jobs
    dayOld,       \* jobs created more than 24 hours ago
    sinkOld,      \* jobs not updated for 10 minutes
    latest,       \* what GetLastComplianceJob returns, or None
    sank,         \* rows whose result documents are in the index
    summOf, summStatus,              \* columns of compliance_summarizers
    summSent, summQueue, summReport, \* the summarizer's NATS streams
    enqTodo,      \* jobs listed by enqueueRunnersCycle and not handled yet
    at,           \* at[g]: the loop of its cycle goroutine g is in
    listed,       \* listed[g]: jobs with runners completed, not handled yet
    seenSink, seenOld,               \* what g read of them
    current,      \* current[g]: job or summarizer between two writes of g
    toSend, finishing,               \* g's lists of summarizers and jobs
    cancelJob, cancelRows,           \* the cancel request being served
    ended,        \* ghost: rows that have been SUCCEEDED, FAILED or TIMEOUT
    summRan,      \* ghost: summarizers that ran or could not be sent
    unmarked      \* ghost: jobs whose MarkSummarizing was lost

jobVars == <<jobStatus, allQueued, trigger, dayOld, sinkOld, latest>>
summVars == <<summOf, summStatus, summSent, summQueue, summReport, summRan>>
loopVars == <<at, listed, seenSink, seenOld, current, toSend, finishing>>
cancelVars == <<cancelJob, cancelRows>>
vars == <<tableVars, jobVars, sank, summVars, enqTodo, loopVars, cancelVars,
          ended, unmarked>>

JobStatus == {"NONE", "CREATED", "RUNNERS_IN_PROGRESS", "SINK_IN_PROGRESS",
              "SUMMARIZER_IN_PROGRESS", "SUCCEEDED", "FAILED", "TIMEOUT", "CANCELED"}
SummStatus == {"NONE", "CREATED", "IN_PROGRESS", "SUCCEEDED", "FAILED"}
Over == {"SUCCEEDED", "FAILED", "TIMEOUT", "CANCELED"}
Ended == {"SUCCEEDED", "FAILED", "TIMEOUT"}

RowsOf(j) == {r \in Runners : JobOf[r] = j /\ Exists(r)}

Init ==
    /\ TableInit
    /\ jobStatus = [j \in Jobs |-> "NONE"]
    /\ allQueued = [j \in Jobs |-> FALSE]
    /\ trigger = [j \in Jobs |-> "none"]
    /\ dayOld = {} /\ sinkOld = {} /\ latest = None /\ sank = {}
    /\ summOf = [s \in Summs |-> None]
    /\ summStatus = [s \in Summs |-> "NONE"]
    /\ summSent = {} /\ summQueue = {}
    /\ summReport = [s \in Summs |-> "NONE"]
    /\ enqTodo = {}
    /\ at = [g \in TriggerTypes |-> "finish"]
    /\ listed = [g \in TriggerTypes |-> {}]
    /\ seenSink = [g \in TriggerTypes |-> {}]
    /\ seenOld = [g \in TriggerTypes |-> {}]
    /\ current = [g \in TriggerTypes |-> None]
    /\ toSend = [g \in TriggerTypes |-> {}]
    /\ finishing = [g \in TriggerTypes |-> {}]
    /\ cancelJob = None /\ cancelRows = {}
    /\ ended = {} /\ summRan = {} /\ unmarked = {}

---------------------------------------------------------------------------
(* Creation. *)

\* CreateComplianceReportJobs: delete the runners of the last job of the framework,
\* whatever that job is doing, and all that are a week old; then insert one job per ten
\* integrations.  J is empty when the first insertion fails.
CreateJobs(J, t) ==
    /\ \A j \in J : jobStatus[j] = "NONE"
    /\ \E weekOld \in SUBSET Runners :
          RowsDeleted({r \in Runners : JobOf[r] = latest} \cup weekOld)
    /\ jobStatus' = [j \in Jobs |-> IF j \in J THEN "CREATED" ELSE jobStatus[j]]
    /\ trigger' = [j \in Jobs |-> IF j \in J THEN t ELSE trigger[j]]
    /\ latest' \in (IF J = {} THEN {latest} ELSE J)
    /\ UNCHANGED <<allQueued, dayOld, sinkOld, sank, summVars, enqTodo, loopVars,
                   cancelVars, unmarked>>

\* The same for another framework, or for a job without incidents: only old rows go.
DeleteOldRows(R) ==
    /\ R # {}
    /\ RowsDeleted(R)
    /\ UNCHANGED <<jobVars, sank, summVars, enqTodo, loopVars, cancelVars, unmarked>>

\* TriggerConnectionsComplianceJob refuses while the last job "is already running".
TriggerJobs(J) ==
    /\ latest # None =>
          jobStatus[latest] \notin {"RUNNERS_IN_PROGRESS", "SUMMARIZER_IN_PROGRESS", "CREATED"}
    /\ "manual" \in TriggerTypes
    /\ CreateJobs(J, "manual")

\* Time passes: a job gets a day old, or has not been updated for ten minutes.  It is
\* enough that this happens where the code looks at it.
DayPasses(j) ==
    /\ jobStatus[j] \in {"CREATED", "RUNNERS_IN_PROGRESS", "SUMMARIZER_IN_PROGRESS"}
    /\ j \notin dayOld
    /\ dayOld' = dayOld \cup {j}
    /\ UNCHANGED <<tableVars, jobStatus, allQueued, trigger, sinkOld, latest, sank,
                   summVars, enqTodo, loopVars, cancelVars, unmarked>>

SinkMinutesPass(j) ==
    /\ jobStatus[j] = "SINK_IN_PROGRESS" /\ j \notin sinkOld
    /\ sinkOld' = sinkOld \cup {j}
    /\ UNCHANGED <<tableVars, jobStatus, allQueued, trigger, dayOld, latest, sank,
                   summVars, enqTodo, loopVars, cancelVars, unmarked>>

---------------------------------------------------------------------------
(* enqueueRunnersCycle. *)

ListUnqueued ==
    /\ enqTodo = {}
    /\ enqTodo' = {j \in Jobs : ~allQueued[j] /\
                                jobStatus[j] \in {"CREATED", "RUNNERS_IN_PROGRESS"}}
    /\ enqTodo' # {}
    /\ UNCHANGED <<tableVars, jobVars, sank, summVars, loopVars, cancelVars, unmarked>>

\* Insert the rows that are missing; when none is, all runners are queued.
EnqueueRunners(j) ==
    /\ j \in enqTodo
    /\ enqTodo' = enqTodo \ {j}
    /\ LET missing == {r \in Runners : JobOf[r] = j /\ ~Exists(r)} IN
       IF missing # {}
       THEN RowsCreated(missing) /\ UNCHANGED allQueued
       ELSE allQueued' = [allQueued EXCEPT ![j] = TRUE] /\ UNCHANGED tableVars
    /\ UNCHANGED <<jobStatus, trigger, dayOld, sinkOld, latest, sank, summVars,
                   loopVars, cancelVars, unmarked>>

\* The integrations of a job cannot be listed (next job), or its controls cannot be
\* read (the cycle ends).
EnqueueFails(j) ==
    /\ j \in enqTodo
    /\ enqTodo' \in {enqTodo \ {j}, {}}
    /\ UNCHANGED <<tableVars, jobVars, sank, summVars, loopVars, cancelVars, unmarked>>

---------------------------------------------------------------------------
(* runSummarizer, run by a goroutine for scheduled and one for manual jobs. *)

\* Mutant: the sweep takes every job that is a day old.
SweptWhateverItIs(j) ==
    IF j \in dayOld THEN "TIMEOUT"
    ELSE IF jobStatus[j] = "CREATED" /\ RowsOf(j) # {} THEN "RUNNERS_IN_PROGRESS"
    ELSE jobStatus[j]

\* Mutant: a job that waits for its summarizer is not swept.
SweptButSummarizing(j) ==
    IF j \in dayOld /\ jobStatus[j] \in {"CREATED", "RUNNERS_IN_PROGRESS"} THEN "TIMEOUT"
    ELSE IF jobStatus[j] = "CREATED" /\ RowsOf(j) # {} THEN "RUNNERS_IN_PROGRESS"
    ELSE jobStatus[j]

\* SetJobToRunnersInProgress, then UpdateComplianceJobsTimedOut: the statuses they leave.
SweptStatus(j) ==
    LET s == IF jobStatus[j] = "CREATED" /\ RowsOf(j) # {}
             THEN "RUNNERS_IN_PROGRESS" ELSE jobStatus[j]
    IN IF j \in dayOld /\ s \in {"CREATED", "RUNNERS_IN_PROGRESS", "SUMMARIZER_IN_PROGRESS"}
       THEN "TIMEOUT" ELSE s

\* Mutant: rows that are still QUEUED do not count.
NoneInProgress(j) ==
    /\ SweptStatus(j) \in {"RUNNERS_IN_PROGRESS", "SINK_IN_PROGRESS"}
    /\ allQueued[j]
    /\ \A r \in RowsOf(j) : status[r] \notin {"CREATED", "IN_PROGRESS"}

\* Mutant: the status of the job is not asked for.
CompletedInAnyStatus(j) ==
    allQueued[j] /\ \A r \in RowsOf(j) : status[r] \in Ended

\* ListJobsWithRunnersCompleted on those statuses.
RunnersCompleted(j) ==
    /\ SweptStatus(j) \in {"RUNNERS_IN_PROGRESS", "SINK_IN_PROGRESS"}
    /\ allQueued[j]
    /\ \A r \in RowsOf(j) : status[r] \in Ended

BeginCycle(g) ==
    /\ at[g] = "finish" /\ finishing[g] = {}
    /\ at' = [at EXCEPT ![g] = "jobs"]
    /\ jobStatus' = [j \in Jobs |-> SweptStatus(j)]
    /\ LET L == {j \in Jobs : trigger[j] = g /\ RunnersCompleted(j)} IN
       /\ listed' = [listed EXCEPT ![g] = L]
       /\ seenSink' = [seenSink EXCEPT ![g] = {j \in L : jobStatus[j] = "SINK_IN_PROGRESS"}]
       /\ seenOld' = [seenOld EXCEPT ![g] = L \cap sinkOld]
    /\ UNCHANGED <<tableVars, allQueued, trigger, dayOld, sinkOld, latest, sank, summVars,
                   enqTodo, current, toSend, finishing, cancelVars, unmarked>>

SankDocCount(j) == Cardinality({r \in sank : JobOf[r] = j})
TotalDocCount(j) == Cardinality({r \in RowsOf(j) : counted[r]})
DocsMissing(j) == SankDocCount(j) # TotalDocCount(j)

\* g is through with j.
Handled(g, j) ==
    /\ listed' = [listed EXCEPT ![g] = @ \ {j}]
    /\ seenSink' = [seenSink EXCEPT ![g] = @ \ {j}]
    /\ seenOld' = [seenOld EXCEPT ![g] = @ \ {j}]

\* Documents are missing and the job was not seen waiting for them: now it is.
WaitForSink(g, j) ==
    /\ at[g] = "jobs" /\ j \in listed[g]
    /\ DocsMissing(j) /\ j \notin seenSink[g]
    /\ Handled(g, j)
    /\ jobStatus' = [jobStatus EXCEPT ![j] = "SINK_IN_PROGRESS"]
    /\ sinkOld' = sinkOld \ {j}
    /\ UNCHANGED <<tableVars, allQueued, trigger, dayOld, latest, sank, summVars, enqTodo,
                   at, current, toSend, finishing, cancelVars, unmarked>>

KeepWaiting(g, j) ==
    /\ at[g] = "jobs" /\ j \in listed[g]
    /\ DocsMissing(j) /\ j \in seenSink[g] \ seenOld[g]
    /\ Handled(g, j)
    /\ UNCHANGED <<tableVars, jobVars, sank, summVars, enqTodo,
                   at, current, toSend, finishing, cancelVars, unmarked>>

\* CreateSummarizer inserts the summarizer row ...
CreateSummarizer(g, j, s) ==
    /\ at[g] = "jobs" /\ j \in listed[g]
    /\ DocsMissing(j) => j \in seenSink[g] \cap seenOld[g]
    /\ summOf[s] = None
    /\ summOf' = [summOf EXCEPT ![s] = j]
    /\ summStatus' = [summStatus EXCEPT ![s] = "CREATED"]
    /\ at' = [at EXCEPT ![g] = "mark"]
    /\ current' = [current EXCEPT ![g] = j]
    /\ Handled(g, j)
    /\ UNCHANGED <<tableVars, jobVars, sank, summSent, summQueue, summReport, summRan,
                   enqTodo, toSend, finishing, cancelVars, unmarked>>

\* ... and then writes the job, whatever has become of it since it was listed.
MarkSummarizing(g) ==
    /\ at[g] = "mark"
    /\ jobStatus' = [jobStatus EXCEPT ![current[g]] = "SUMMARIZER_IN_PROGRESS"]
    /\ at' = [at EXCEPT ![g] = "jobs"]
    /\ current' = [current EXCEPT ![g] = None]
    /\ UNCHANGED <<tableVars, allQueued, trigger, dayOld, sinkOld, latest, sank, summVars,
                   enqTodo, listed, seenSink, seenOld, toSend, finishing, cancelVars,
                   unmarked>>

FetchCreatedSummarizers(g) ==
    /\ at[g] = "jobs" /\ listed[g] = {}
    /\ at' = [at EXCEPT ![g] = "send"]
    /\ toSend' = [toSend EXCEPT ![g] =
          {s \in Summs : summStatus[s] = "CREATED" /\ trigger[summOf[s]] = g}]
    /\ UNCHANGED <<tableVars, jobVars, sank, summVars, enqTodo, listed, seenSink, seenOld,
                   current, finishing, cancelVars, unmarked>>

\* triggerSummarizer: produce (NATS drops a known id) ...
SendSummarizer(g, s) ==
    /\ at[g] = "send" /\ s \in toSend[g]
    /\ summQueue' = IF s \in summSent THEN summQueue ELSE summQueue \cup {s}
    /\ summSent' = summSent \cup {s}
    /\ at' = [at EXCEPT ![g] = "sent"]
    /\ current' = [current EXCEPT ![g] = s]
    /\ toSend' = [toSend EXCEPT ![g] = @ \ {s}]
    /\ UNCHANGED <<tableVars, jobVars, sank, summOf, summStatus, summReport, summRan,
                   enqTodo, listed, seenSink, seenOld, finishing, cancelVars, unmarked>>

\* ... then write IN_PROGRESS, whatever the row says by then ...
MarkSent(g) ==
    /\ at[g] = "sent"
    /\ summStatus' = [summStatus EXCEPT ![current[g]] = "IN_PROGRESS"]
    /\ at' = [at EXCEPT ![g] = "send"]
    /\ current' = [current EXCEPT ![g] = None]
    /\ UNCHANGED <<tableVars, jobVars, sank, summOf, summSent, summQueue, summReport,
                   summRan, enqTodo, listed, seenSink, seenOld, toSend, finishing,
                   cancelVars, unmarked>>

\* ... or FAILED when Produce returned an error although the message is stored.  Then,
\* as when nothing was stored, the cycle is left.
SentButFailed(g, s) ==
    /\ at[g] = "sent" /\ current[g] = s
    /\ summStatus' = [summStatus EXCEPT ![s] = "FAILED"]
    /\ summRan' = summRan \cup {s}
    /\ at' = [at EXCEPT ![g] = "finish"]
    /\ current' = [current EXCEPT ![g] = None]
    /\ toSend' = [toSend EXCEPT ![g] = {}]
    /\ UNCHANGED <<tableVars, jobVars, sank, summOf, summSent, summQueue, summReport,
                   enqTodo, listed, seenSink, seenOld, finishing, cancelVars, unmarked>>

SendFails(g, s) ==
    /\ at[g] = "send" /\ s \in toSend[g]
    /\ summStatus' = [summStatus EXCEPT ![s] = "FAILED"]
    /\ summRan' = summRan \cup {s}
    /\ at' = [at EXCEPT ![g] = "finish"]
    /\ toSend' = [toSend EXCEPT ![g] = {}]
    /\ UNCHANGED <<tableVars, jobVars, sank, summOf, summSent, summQueue, summReport,
                   enqTodo, listed, seenSink, seenOld, current, finishing, cancelVars,
                   unmarked>>

\* Mutant: a summarizer under way is taken for done.
SummStarted(s) == summStatus[s] \in {"IN_PROGRESS", "SUCCEEDED", "FAILED"}

\* A status in which no retry is left (summarizerRetryCount is 0).
SummDone(s) == summStatus[s] \in {"SUCCEEDED", "FAILED"}

ListJobsToFinish(g) ==
    /\ at[g] = "send" /\ toSend[g] = {}
    /\ at' = [at EXCEPT ![g] = "finish"]
    /\ finishing' = [finishing EXCEPT ![g] =
          {j \in Jobs : /\ jobStatus[j] = "SUMMARIZER_IN_PROGRESS"
                        /\ \E s \in Summs : summOf[s] = j /\ SummDone(s)}]
    /\ UNCHANGED <<tableVars, jobVars, sank, summVars, enqTodo, listed, seenSink, seenOld,
                   current, toSend, cancelVars, unmarked>>

\* Failed runners are only reported; a failed summarizer fails the job if no runner failed.
FinishComplianceJob(g, j) ==
    /\ at[g] = "finish" /\ j \in finishing[g]
    /\ finishing' = [finishing EXCEPT ![g] = @ \ {j}]
    /\ jobStatus' = [jobStatus EXCEPT ![j] =
          IF /\ \A r \in RowsOf(j) : status[r] # "FAILED"
             /\ \E s \in Summs : summOf[s] = j /\ summStatus[s] = "FAILED"
          THEN "FAILED" ELSE "SUCCEEDED"]
    /\ UNCHANGED <<tableVars, allQueued, trigger, dayOld, sinkOld, latest, sank, summVars,
                   enqTodo, at, listed, seenSink, seenOld, current, toSend, cancelVars,
                   unmarked>>

\* The row of a summarizer for j is there, the job is not marked yet.
Marking(g, j) == at[g] = "mark" /\ current[g] = j

\* The index or the database answers with an error: the cycle is abandoned where it is.
AbandonCycle(g) ==
    /\ at[g] # "finish" \/ finishing[g] # {}
    /\ unmarked' = unmarked \cup {j \in Jobs : Marking(g, j)}
    /\ current' = [current EXCEPT ![g] = None]
    /\ at' = [at EXCEPT ![g] = "finish"]
    /\ listed' = [listed EXCEPT ![g] = {}]
    /\ seenSink' = [seenSink EXCEPT ![g] = {}]
    /\ seenOld' = [seenOld EXCEPT ![g] = {}]
    /\ toSend' = [toSend EXCEPT ![g] = {}]
    /\ finishing' = [finishing EXCEPT ![g] = {}]
    /\ UNCHANGED <<tableVars, jobVars, sank, summVars, enqTodo, cancelVars>>

---------------------------------------------------------------------------
(* The summarizer worker and the consumer of its results. *)

\* The verdict may fail to be published; nothing ever times the summarizer out.
RunSummarizer(s, verdict) ==
    /\ s \in summQueue
    /\ verdict \in {"SUCCEEDED", "FAILED", "NONE"}
    /\ summQueue' = summQueue \ {s}
    /\ summReport' = [summReport EXCEPT ![s] = verdict]
    /\ summRan' = summRan \cup {s}
    /\ UNCHANGED <<tableVars, jobVars, sank, summOf, summStatus, summSent, enqTodo,
                   loopVars, cancelVars, unmarked>>

ConsumeSummarizerResult(s) ==
    /\ summReport[s] # "NONE"
    /\ summStatus' = [summStatus EXCEPT ![s] = summReport[s]]
    /\ summReport' = [summReport EXCEPT ![s] = "NONE"]
    /\ UNCHANGED <<tableVars, jobVars, sank, summOf, summSent, summQueue, summRan, enqTodo,
                   loopVars, cancelVars, unmarked>>

---------------------------------------------------------------------------
(* CancelJobById and CancelJob. *)

\* The job and its runners are read; only CREATED and RUNNERS_IN_PROGRESS jobs can be
\* canceled, and the rows of a CREATED job are left alone.
CancelRead(j) ==
    /\ cancelJob = None
    /\ jobStatus[j] \in {"CREATED", "RUNNERS_IN_PROGRESS"}
    /\ cancelJob' = j
    /\ cancelRows' = IF jobStatus[j] = "CREATED" THEN {}
                     ELSE {r \in RowsOf(j) : status[r] \in {"CREATED", "QUEUED"}}
    /\ UNCHANGED <<tableVars, jobVars, sank, summVars, enqTodo, loopVars, unmarked>>

CancelRow(r) ==
    /\ r \in cancelRows
    /\ cancelRows' = cancelRows \ {r}
    /\ RowCanceled(r) \/ (~Exists(r) /\ UNCHANGED tableVars)
    /\ UNCHANGED <<jobVars, sank, summVars, enqTodo, loopVars, cancelJob,
                   unmarked>>

\* DeleteMessage or the database fails, or CancelJobById finds all runners under way: the
\* job and the other rows stay as they are.
CancelGivesUp ==
    /\ cancelJob # None
    /\ cancelJob' = None /\ cancelRows' = {}
    /\ UNCHANGED <<tableVars, jobVars, sank, summVars, enqTodo, loopVars, unmarked>>

CancelWrite ==
    /\ cancelJob # None /\ cancelRows = {}
    /\ jobStatus' = [jobStatus EXCEPT ![cancelJob] = "CANCELED"]
    /\ cancelJob' = None
    /\ UNCHANGED <<tableVars, allQueued, trigger, dayOld, sinkOld, latest, sank, summVars,
                   enqTodo, loopVars, cancelRows, unmarked>>

---------------------------------------------------------------------------
(* The rest of the system. *)

RunnerMoves(r) ==
    /\ PipelineStep(r)
    /\ UNCHANGED <<jobVars, sank, summVars, enqTodo, loopVars, cancelVars, unmarked>>

\* RunJob deletes what other runs found for the control, then the new documents arrive.
\* (It means to delete older jobs only, but compares their id with the runner's.)
IngestResults(r) ==
    /\ phase[r] # "unsent"
    /\ sank' = {q \in sank : ControlOf[q] # ControlOf[r]} \cup {r}
    /\ sank' # sank
    /\ UNCHANGED <<tableVars, jobVars, summVars, enqTodo, loopVars, cancelVars, unmarked>>

\* The scheduler restarts: its lists are gone.
Restart ==
    /\ unmarked' = unmarked \cup {j \in Jobs : \E g \in TriggerTypes : Marking(g, j)}
    /\ enqTodo' = {}
    /\ at' = [g \in TriggerTypes |-> "finish"]
    /\ listed' = [g \in TriggerTypes |-> {}]
    /\ seenSink' = [g \in TriggerTypes |-> {}]
    /\ seenOld' = [g \in TriggerTypes |-> {}]
    /\ current' = [g \in TriggerTypes |-> None]
    /\ toSend' = [g \in TriggerTypes |-> {}]
    /\ finishing' = [g \in TriggerTypes |-> {}]
    /\ cancelJob' = None /\ cancelRows' = {}
    /\ UNCHANGED <<tableVars, jobVars, sank, summVars>>

---------------------------------------------------------------------------
Creator ==
    \/ \E J \in SUBSET Jobs :
          (\E t \in TriggerTypes : CreateJobs(J, t)) \/ TriggerJobs(J)
    \/ \E R \in SUBSET Runners : DeleteOldRows(R)

Enqueuer == ListUnqueued \/ \E j \in Jobs : EnqueueRunners(j) \/ EnqueueFails(j)

Summarizer(g) ==
    \/ BeginCycle(g)
    \/ \E j \in Jobs :
          \/ WaitForSink(g, j) \/ KeepWaiting(g, j) \/ FinishComplianceJob(g, j)
          \/ \E s \in Summs : CreateSummarizer(g, j, s)
    \/ MarkSummarizing(g)
    \/ FetchCreatedSummarizers(g)
    \/ \E s \in Summs : SendSummarizer(g, s)
    \/ MarkSent(g)
    \/ ListJobsToFinish(g)

Failures(g) ==
    AbandonCycle(g) \/ \E s \in Summs : SentButFailed(g, s) \/ SendFails(g, s)

SummarizerWorker(s) ==
    (\E v \in {"SUCCEEDED", "FAILED", "NONE"} : RunSummarizer(s, v))
        \/ ConsumeSummarizerResult(s)

Canceler ==
    \/ \E j \in Jobs : CancelRead(j)
    \/ CancelGivesUp \/ CancelWrite
    \/ \E r \in Runners : CancelRow(r)

Step ==
    \/ Creator
    \/ \E j \in Jobs : DayPasses(j) \/ SinkMinutesPass(j)
    \/ Enqueuer
    \/ \E g \in TriggerTypes : Summarizer(g) \/ Failures(g)
    \/ \E s \in Summs : SummarizerWorker(s)
    \/ Canceler
    \/ \E r \in Runners : RunnerMoves(r) \/ IngestResults(r)
    \/ Restart

\* The ghost "ended" follows the status column of every row.
Observe ==
    ended' = {r \in Runners : /\ status'[r] # "NONE"
                              /\ r \in ended \/ status'[r] \in Ended}

Next == Step /\ Observe

Spec == Init /\ [][Next]_vars

\* Time passes; every goroutine loops on a timer for ever and goes on with its cycle,
\* also when a cycle ends with an error; the errors of index and database do not hit
\* every one of infinitely many attempts to summarize the same job.
FairSpec ==
    /\ Spec
    /\ \A j \in Jobs : WF_vars(DayPasses(j) /\ Observe) /\ WF_vars(SinkMinutesPass(j) /\ Observe)
    /\ \A g \in TriggerTypes :
          /\ WF_vars(Summarizer(g) /\ Observe)
          /\ \A j \in Jobs : SF_vars((\E s \in Summs : CreateSummarizer(g, j, s)) /\ Observe)

---------------------------------------------------------------------------
TypeOK ==
    /\ TableTypeOK
    /\ jobStatus \in [Jobs -> JobStatus]
    /\ allQueued \in [Jobs -> BOOLEAN]
    /\ trigger \in [Jobs -> TriggerTypes \cup {"none"}]
    /\ dayOld \in SUBSET Jobs
    /\ sinkOld \in SUBSET Jobs
    /\ latest \in Jobs \cup {None}
    /\ sank \in SUBSET Runners
    /\ summOf \in [Summs -> Jobs \cup {None}]
    /\ summStatus \in [Summs -> SummStatus]
    /\ summSent \in SUBSET Summs
    /\ summQueue \in SUBSET Summs
    /\ summReport \in [Summs -> {"NONE", "SUCCEEDED", "FAILED"}]
    /\ enqTodo \in SUBSET Jobs
    /\ at \in [TriggerTypes -> {"jobs", "mark", "send", "sent", "finish"}]
    /\ listed \in [TriggerTypes -> SUBSET Jobs]
    /\ seenSink \in [TriggerTypes -> SUBSET Jobs]
    /\ seenOld \in [TriggerTypes -> SUBSET Jobs]
    /\ current \in [TriggerTypes -> Jobs \cup Summs \cup {None}]
    /\ toSend \in [TriggerTypes -> SUBSET Summs]
    /\ finishing \in [TriggerTypes -> SUBSET Jobs]
    /\ cancelJob \in Jobs \cup {None}
    /\ cancelRows \in SUBSET Runners
    /\ ended \in SUBSET Runners
    /\ summRan \in SUBSET Summs
    /\ unmarked \in SUBSET Jobs

\* Although the rows of a job appear over several rounds of the enqueue cycle, and are
\* overwritten, canceled and deleted behind its back, its summary is made only when
\* every row it still has was SUCCEEDED, FAILED or TIMEOUT at some time: no summary
\* leaves out a control that is still in its first run.
NoRunnerLeftBehind ==
    \A s \in Summs : summOf[s] # None =>
        /\ allQueued[summOf[s]]
        /\ RowsOf(summOf[s]) \subseteq ended

\* No two cycles summarize a job twice, unless the scheduler stopped or failed between
\* inserting the summarizer and marking the job.
OneSummarizer ==
    \A s, t \in Summs :
        s # t /\ summOf[s] = summOf[t] /\ summOf[s] # None => summOf[s] \in unmarked

\* A job is closed as SUCCEEDED or FAILED only after a summarizer of its ran or could
\* not be sent, although both goroutines finish each other's jobs.
SuccessWasSummarized ==
    \A j \in Jobs : jobStatus[j] \in {"SUCCEEDED", "FAILED"} =>
        \E s \in summRan : summOf[s] = j

\* Stale lists and unconditional writes never reopen a job that SUCCEEDED or FAILED;
\* only a cancel request that read it before may still relabel it.
FinishedStaysFinished ==
    [][\A j \in Jobs : jobStatus[j] \in {"SUCCEEDED", "FAILED"} =>
          jobStatus'[j] \in {"SUCCEEDED", "FAILED", "CANCELED"}]_vars

RowsSettle == \A r \in Runners : <>[](status[r] \in {"NONE", "CANCELED"} \cup Ended)

\* If every row settles (RunnerPipeline!Settles), every job ends, however often cycles
\* fail or the scheduler restarts: except that a CANCELED row keeps a job waiting for
\* its documents for ever, SINK_IN_PROGRESS being no status that times out.
JobEnds ==
    RowsSettle =>
        \A j \in Jobs : jobStatus[j] = "CREATED" ~>
            \/ jobStatus[j] \in Over
            \/ j \in unmarked
            \/ jobStatus[j] = "SINK_IN_PROGRESS" /\ \E r \in RowsOf(j) : status[r] = "CANCELED"

=============================================================================
