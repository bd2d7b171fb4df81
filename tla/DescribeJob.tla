---------------------------- MODULE DescribeJob ----------------------------
(***************************************************************************)
(* The life of the rows of describe_integration_jobs for one resource      *)
(* type: creation by the scheduler and by requests (describe), the two     *)
(* goroutines that send jobs to the describers (scheduled and manual       *)
(* ones), the describers' calls over gRPC, the consumer of their results,  *)
(* the deleter of old resources, the retry of failed jobs, the timeouts,   *)
(* the cancel handlers and a restart of the scheduler.                     *)
(*                                                                         *)
(* updated_at orders the jobs of a pair and decides on timeouts, but only  *)
(* gorm's Updates refresh it (Touch); most status writes are raw SQL and   *)
(* do not (Write).                                                         *)
(***************************************************************************)
EXTENDS Naturals, FiniteSets

CONSTANTS Jobs,         \* ids, each used for one row
          Pairs,        \* integrations (with the parameters of the discovery)
          PairOf,       \* PairOf[j]: the integration j discovers
          Scheduled,    \* jobs of the scheduler; the others are manual
          Requests,     \* requests that may be served at the same time
          Scheduler,    \* the goroutine of RunDescribeJobScheduler
          MaxRunning,   \* es.ResourceRateLimit of the resource type
          Pages,        \* pages of resources found in a search
          Obsolete,     \* Obsolete[j]: pages with resources j no longer found
          None

ASSUME ConstantsAssumption ==
    /\ PairOf \in [Jobs -> Pairs]
    /\ Scheduled \subseteq Jobs
    /\ Scheduler \notin Requests
    /\ MaxRunning \in Nat
    /\ Obsolete \in [Jobs -> SUBSET Pages]
    /\ IsFiniteSet(Jobs) /\ IsFiniteSet(Pages)
    /\ None \notin Jobs \cup Pairs \cup Pages

Callers == Requests \cup {Scheduler}
JobsOf(t) == IF t = "scheduled" THEN Scheduled ELSE Jobs \ Scheduled

VARIABLES
    status,
    queuedOnce,   \* jobs with retry_count > 0
    last,         \* last[p]: the job of p with the latest updated_at, or None
    old,          \* jobs whose updated_at is two hours ago
    passed,       \* passed[c]: the pair that caller c found free, or None
    retrying,     \* failed jobs listed by retryFailedJobs
    enq,          \* where enqueueCloudNativeDescribeJob is with the job
    message,      \* what is known of its NATS message: none, stored, known
    queue,        \* messages in the describers' stream
    taken,        \* jobs a describer works on
    results,      \* results in the result stream: job and verdict
    handling,     \* result whose status the consumer is about to write, or None
    tasks,        \* deletion tasks in the index: job and page
    deleting,     \* task the deleter has carried out, or None
    listed,       \* tasks left of the deleter's round
    deleted,      \* deleted[p]: pages of the integration whose resources are gone
    cancelJob, cancelSaw,   \* the cancel request being served
    \* ghosts:
    outdated,     \* callers whose pair got a new job since they found it free
    mixedUp,      \* pairs with live jobs since a race or a return to life
    offBooks,     \* running jobs whose QUEUED write did not start them
    delivered     \* jobs whose describer delivered SUCCEEDED

rowVars == <<status, queuedOnce, last, old>>
enqVars == <<enq, message, queue>>
resultVars == <<taken, results, handling, delivered>>
deleteVars == <<tasks, listed, deleting, deleted>>
cancelVars == <<cancelJob, cancelSaw>>
callerVars == <<passed, outdated>>
vars == <<rowVars, callerVars, retrying, enqVars, resultVars, deleteVars, cancelVars,
          mixedUp, offBooks>>

Live == {"CREATED", "QUEUED", "IN_PROGRESS", "OLD_RESOURCE_DELETION"}
Running == {"QUEUED", "IN_PROGRESS", "OLD_RESOURCE_DELETION"}
Over == {"SUCCEEDED", "FAILED", "TIMEOUT", "CANCELED"}
JobStatus == {"NONE"} \cup Live \cup Over
Verdict == {"SUCCEEDED", "FAILED"}

Init ==
    /\ status = [j \in Jobs |-> "NONE"]
    /\ queuedOnce = {} /\ old = {}
    /\ last = [p \in Pairs |-> None]
    /\ passed = [c \in Callers |-> None]
    /\ retrying = {}
    /\ enq = [j \in Jobs |-> "idle"]
    /\ message = [j \in Jobs |-> "none"]
    /\ queue = {} /\ taken = {} /\ results = {} /\ handling = None
    /\ tasks = {} /\ listed = {} /\ deleting = None
    /\ deleted = [p \in Pairs |-> {}]
    /\ cancelJob = None /\ cancelSaw = "NONE"
    /\ outdated = {} /\ mixedUp = {} /\ offBooks = {} /\ delivered = {}

\* A raw UPDATE of the status: updated_at stays.
Write(j, s) ==
    /\ status' = [status EXCEPT ![j] = s]
    /\ UNCHANGED <<last, old>>

\* gorm's Updates, or Create: updated_at is now.
Touch(j, s) ==
    /\ status' = [status EXCEPT ![j] = s]
    /\ last' = [last EXCEPT ![PairOf[j]] = j]
    /\ old' = old \ {j}

---------------------------------------------------------------------------
(* describe: test the last job of the pair, then create one. *)

\* Mutant: a job whose old resources are being deleted does not count.
CheckLastNotDeleting(c, p) ==
    /\ passed[c] = None
    /\ c = Scheduler => retrying = {}
    /\ last[p] # None =>
          /\ c = Scheduler => last[p] \in old
          /\ status[last[p]] \notin Live \ {"OLD_RESOURCE_DELETION"}
    /\ passed' = [passed EXCEPT ![c] = p]
    /\ outdated' = outdated \ {c}
    /\ UNCHANGED <<rowVars, retrying, enqVars, resultVars, deleteVars, cancelVars>>

\* A caller goes on if the job of the pair updated last is not live; the scheduler also
\* waits for the interval since then.
CheckLast(c, p) ==
    /\ passed[c] = None
    /\ c = Scheduler => retrying = {}
    /\ last[p] # None =>
          /\ c = Scheduler => last[p] \in old
          /\ status[last[p]] \notin Live
    /\ passed' = [passed EXCEPT ![c] = p]
    /\ outdated' = outdated \ {c}
    /\ UNCHANGED <<rowVars, retrying, enqVars, resultVars, deleteVars, cancelVars>>

\* Requests can ask for a cost discovery, which is then handled as a scheduled job.
CreateJob(c, j) ==
    /\ passed[c] = PairOf[j]
    /\ status[j] = "NONE"
    /\ c = Scheduler => j \in Scheduled
    /\ Touch(j, "CREATED")
    /\ passed' = [passed EXCEPT ![c] = None]
    /\ outdated' = (outdated \ {c}) \cup {d \in Callers \ {c} : passed[d] = PairOf[j]}
    /\ UNCHANGED <<queuedOnce, retrying, enqVars, resultVars, deleteVars, cancelVars>>

\* The integration is not healthy, not active, or the insertion fails.
CreateFails(c) ==
    /\ passed[c] # None
    /\ passed' = [passed EXCEPT ![c] = None]
    /\ outdated' = outdated \ {c}
    /\ UNCHANGED <<rowVars, retrying, enqVars, resultVars, deleteVars, cancelVars>>

---------------------------------------------------------------------------
(* retryFailedJobs: list, then write CREATED by id. *)

\* Not retried: jobs once QUEUED, manual ones, old ones, those with certain error codes.
ListFailed(R) ==
    /\ retrying = {} /\ R # {}
    /\ passed[Scheduler] = None
    /\ R \subseteq {j \in Scheduled \ queuedOnce : status[j] \in {"FAILED", "TIMEOUT"}}
    /\ retrying' = R
    /\ UNCHANGED <<rowVars, callerVars, enqVars, resultVars, deleteVars, cancelVars>>

RetryJob(j) ==
    /\ j \in retrying
    /\ retrying' = retrying \ {j}
    /\ Write(j, "CREATED")
    /\ UNCHANGED <<queuedOnce, callerVars, enqVars, resultVars, deleteVars, cancelVars>>

RetryFails ==
    /\ retrying # {}
    /\ retrying' = {}
    /\ UNCHANGED <<rowVars, callerVars, enqVars, resultVars, deleteVars, cancelVars>>

---------------------------------------------------------------------------
(* RunDescribeResourceJobCycle and enqueueCloudNativeDescribeJob. *)

\* Mutant: a job that no describer has taken up yet does not count.
BeginCycleCountingStarted(t) ==
    /\ \A j \in JobsOf(t) : enq[j] = "idle"
    /\ \E P \in SUBSET {j \in JobsOf(t) : status[j] = "CREATED"} :
          /\ P # {}
          /\ Cardinality(P) + Cardinality({j \in JobsOf(t) :
                status[j] \in Running \ {"QUEUED"}}) <= MaxRunning
          /\ enq' = [j \in Jobs |-> IF j \in P THEN "picked" ELSE enq[j]]
    /\ UNCHANGED <<rowVars, callerVars, retrying, message, queue, resultVars, deleteVars,
                   cancelVars>>

\* Some CREATED jobs are picked, not more than the resource type may still have running;
\* none if a queue is full, too many ran lately or an integration cannot be read.
BeginCycle(t) ==
    /\ \A j \in JobsOf(t) : enq[j] = "idle"
    /\ \E P \in SUBSET {j \in JobsOf(t) : status[j] = "CREATED"} :
          /\ P # {}
          /\ Cardinality(P) + Cardinality({j \in JobsOf(t) : status[j] \in Running})
                <= MaxRunning
          /\ enq' = [j \in Jobs |-> IF j \in P THEN "picked" ELSE enq[j]]
    /\ UNCHANGED <<rowVars, callerVars, retrying, message, queue, resultVars, deleteVars,
                   cancelVars>>

\* The parameters of the job cannot be read.
EnqueueUnfit(j) ==
    /\ enq[j] = "picked"
    /\ enq' = [enq EXCEPT ![j] = "idle"]
    /\ UNCHANGED <<rowVars, callerVars, retrying, message, queue, resultVars, deleteVars,
                   cancelVars>>

\* QUEUED is written before the message is produced, whatever the row has become; an
\* error of the write is only logged.
QueueJob(j) ==
    /\ enq[j] = "picked"
    /\ enq' = [enq EXCEPT ![j] = "queued"]
    /\ \/ Write(j, "QUEUED") /\ queuedOnce' = queuedOnce \cup {j}
       \/ UNCHANGED rowVars
    /\ UNCHANGED <<callerVars, retrying, message, queue, resultVars, deleteVars, cancelVars>>

\* The stream may still know the id, which is the same in a retry, and drop the message.
Produce(j) ==
    /\ enq[j] = "queued"
    /\ enq' = [enq EXCEPT ![j] = "sent"]
    /\ \/ queue' = queue \cup {j} /\ message' = [message EXCEPT ![j] = "stored"]
       \/ message[j] # "none" /\ UNCHANGED <<queue, message>>
    /\ UNCHANGED <<rowVars, callerVars, retrying, resultVars, deleteVars, cancelVars>>

\* Nothing is produced: FAILED is written, unless SetupNats is what failed.
EnqueueFails(j) ==
    /\ enq[j] = "queued"
    /\ enq' = [enq EXCEPT ![j] = "idle"]
    /\ Write(j, "FAILED") \/ UNCHANGED <<status, last, old>>
    /\ UNCHANGED <<queuedOnce, callerVars, retrying, message, queue, resultVars, deleteVars,
                   cancelVars>>

\* The sequence number is written, if that works ...
RecordSeqNum(j) ==
    /\ enq[j] = "sent"
    /\ enq' = [enq EXCEPT ![j] = "idle"]
    /\ message' = [message EXCEPT ![j] = "known"] \/ UNCHANGED message
    /\ UNCHANGED <<rowVars, callerVars, retrying, queue, resultVars, deleteVars, cancelVars>>

\* ... or FAILED, when Produce returned an error although the message is stored.
SentButFailed(j) ==
    /\ enq[j] = "sent"
    /\ enq' = [enq EXCEPT ![j] = "idle"]
    /\ Write(j, "FAILED")
    /\ UNCHANGED <<queuedOnce, callerVars, retrying, message, queue, resultVars, deleteVars,
                   cancelVars>>

---------------------------------------------------------------------------
(* The describers, which are programs of their own, and the gRPC server they call. *)

\* A message that is not acknowledged in time comes again.
TakeMessage(j) ==
    /\ j \in queue
    /\ taken' = taken \cup {j}
    /\ queue' = queue \ {j} \/ UNCHANGED queue
    /\ UNCHANGED <<rowVars, callerVars, retrying, enq, message, results, handling,
                   delivered, deleteVars, cancelVars>>

SetInProgress(j) ==
    /\ j \in taken
    /\ status[j] \in {"CREATED", "QUEUED"}
    /\ Touch(j, "IN_PROGRESS")
    /\ UNCHANGED <<queuedOnce, callerVars, retrying, enqVars, resultVars, deleteVars,
                   cancelVars>>

DeliverResult(j, v) ==
    /\ j \in taken
    /\ taken' = taken \ {j}
    /\ results' = results \cup {<<j, v>>}
    /\ delivered' = IF v = "SUCCEEDED" THEN delivered \cup {j} ELSE delivered
    /\ UNCHANGED <<rowVars, callerVars, retrying, enqVars, handling, deleteVars, cancelVars>>

DescriberDies(j) ==
    /\ j \in taken
    /\ taken' = taken \ {j}
    /\ UNCHANGED <<rowVars, callerVars, retrying, enqVars, results, handling, delivered,
                   deleteVars, cancelVars>>

---------------------------------------------------------------------------
(* The consumer of results: clean up, write the status, acknowledge. *)

\* Mutant: what another job's task lists is not looked at again.
FoundPagesWithoutTask(j) ==
    {P \in SUBSET Obsolete[j] : \A p \in Obsolete[j] \ P :
        p \in deleted[PairOf[j]] \/ \E t \in tasks : PairOf[t[1]] = PairOf[j] /\ t[2] = p}

\* Pages the search finds: resources deleted a moment ago may still show up.
FoundPages(j) == {P \in SUBSET Obsolete[j] : Obsolete[j] \ deleted[PairOf[j]] \subseteq P}

\* The id of a task is made of the pair and the resources, not of the job.
OtherTasks(j, P) == {t \in tasks : PairOf[t[1]] # PairOf[j] \/ t[2] \notin P}
Ingested(j, P) == OtherTasks(j, P) \cup ({j} \X P)

\* cleanupOldResources ingests one task per page that has resources to delete.
ConsumeResult(j, v) ==
    /\ handling = None /\ <<j, v>> \in results
    /\ IF v = "SUCCEEDED"
       THEN \E P \in FoundPages(j) :
               /\ tasks' = Ingested(j, P)
               /\ handling' = <<j, v, IF P = {} THEN "SUCCEEDED" ELSE "OLD_RESOURCE_DELETION">>
       ELSE handling' = <<j, v, v>> /\ UNCHANGED tasks
    /\ UNCHANGED <<rowVars, callerVars, retrying, enqVars, taken, results, delivered,
                   listed, deleting, deleted, cancelVars>>

\* A search or an ingestion fails after some pages; the result is delivered again.
CleanupFails(j) ==
    /\ handling = None /\ <<j, "SUCCEEDED">> \in results
    /\ \E P \in FoundPages(j) : \E Q \in SUBSET P : tasks' = Ingested(j, Q)
    /\ UNCHANGED <<rowVars, callerVars, retrying, enqVars, resultVars, listed, deleting,
                   deleted, cancelVars>>

\* The status is written whatever the row has become; the acknowledgement may be lost.
WriteResult ==
    /\ handling # None
    /\ Write(handling[1], handling[3])
    /\ results' = results \ {<<handling[1], handling[2]>>} \/ UNCHANGED results
    /\ handling' = None
    /\ UNCHANGED <<queuedOnce, callerVars, retrying, enqVars, taken, delivered, deleteVars,
                   cancelVars>>

\* The result is delivered again.
WriteResultFails ==
    /\ handling # None
    /\ handling' = None
    /\ UNCHANGED <<rowVars, callerVars, retrying, enqVars, taken, results, delivered,
                   deleteVars, cancelVars>>

---------------------------------------------------------------------------
(* runDeleter: for each task, delete its resources, write SUCCEEDED, delete the task. *)

ListTasks ==
    /\ listed = {} /\ deleting = None
    /\ listed' = tasks
    /\ UNCHANGED <<rowVars, callerVars, retrying, enqVars, resultVars, tasks, deleting,
                   deleted, cancelVars>>

DeleteResources(j, p) ==
    /\ deleting = None /\ <<j, p>> \in listed
    /\ status[j] = "OLD_RESOURCE_DELETION"
    /\ listed' = listed \ {<<j, p>>}
    /\ deleted' = [deleted EXCEPT ![PairOf[j]] = @ \cup {p}]
    /\ deleting' = <<j, p, "mark">>
    /\ UNCHANGED <<rowVars, callerVars, retrying, enqVars, resultVars, tasks, cancelVars>>

\* The task stays in the index.
SkipTask(j, p) ==
    /\ deleting = None /\ <<j, p>> \in listed
    /\ status[j] # "OLD_RESOURCE_DELETION"
    /\ listed' = listed \ {<<j, p>>}
    /\ UNCHANGED <<rowVars, callerVars, retrying, enqVars, resultVars, tasks, deleting,
                   deleted, cancelVars>>

MarkDeleted ==
    /\ deleting # None /\ deleting[3] = "mark"
    /\ Write(deleting[1], "SUCCEEDED")
    /\ deleting' = <<deleting[1], deleting[2], "remove">>
    /\ UNCHANGED <<queuedOnce, callerVars, retrying, enqVars, resultVars, tasks, listed,
                   deleted, cancelVars>>

\* The task stays for a later round, and the next one is carried out.
MarkFails ==
    /\ deleting # None /\ deleting[3] = "mark"
    /\ deleting' = None
    /\ UNCHANGED <<rowVars, callerVars, retrying, enqVars, resultVars, tasks, listed,
                   deleted, cancelVars>>

RemoveTask ==
    /\ deleting # None /\ deleting[3] = "remove"
    /\ tasks' = OtherTasks(deleting[1], {deleting[2]})
    /\ deleting' = None
    /\ UNCHANGED <<rowVars, callerVars, retrying, enqVars, resultVars, listed, deleted,
                   cancelVars>>

\* A resource or the task cannot be deleted: the round ends.
RoundFails ==
    /\ IF deleting = None THEN listed # {} ELSE deleting[3] = "remove"
    /\ deleting' = None /\ listed' = {}
    /\ UNCHANGED <<rowVars, callerVars, retrying, enqVars, resultVars, tasks, deleted,
                   cancelVars>>

---------------------------------------------------------------------------
(* Time, cancel requests, restarts. *)

TimePasses(j) ==
    /\ status[j] # "NONE"
    /\ j \notin old
    /\ old' = old \cup {j}
    /\ UNCHANGED <<status, queuedOnce, last, callerVars, retrying, enqVars, resultVars,
                   deleteVars, cancelVars>>

\* Mutant: the sweep forgets jobs whose old resources are being deleted.
SweepActive(j) ==
    /\ status[j] \in Live \ {"OLD_RESOURCE_DELETION"}
    /\ status[j] \in {"CREATED", "QUEUED"} => j \in old
    /\ Touch(j, "TIMEOUT")
    /\ UNCHANGED <<queuedOnce, callerVars, retrying, enqVars, resultVars, deleteVars,
                   cancelVars>>

\* UpdateDescribeIntegrationJobsTimedOut: 20 minutes IN_PROGRESS, 30 minutes in deletion,
\* hours in the other two, all counted from updated_at.
Sweep(j) ==
    /\ status[j] \in Live
    /\ status[j] \in {"CREATED", "QUEUED"} => j \in old
    /\ Touch(j, "TIMEOUT")
    /\ UNCHANGED <<queuedOnce, callerVars, retrying, enqVars, resultVars, deleteVars,
                   cancelVars>>

CancelRead(j) ==
    /\ cancelJob = None
    /\ \/ status[j] = "CREATED"
       \/ status[j] = "QUEUED" /\ message[j] = "known"
    /\ cancelJob' = j /\ cancelSaw' = status[j]
    /\ UNCHANGED <<rowVars, callerVars, retrying, enqVars, resultVars, deleteVars>>

\* For a QUEUED job the message is deleted first.
CancelWrite ==
    /\ cancelJob # None
    /\ Write(cancelJob, "CANCELED")
    /\ queue' = IF cancelSaw = "QUEUED" THEN queue \ {cancelJob} ELSE queue
    /\ cancelJob' = None /\ cancelSaw' = "NONE"
    /\ UNCHANGED <<queuedOnce, callerVars, retrying, enq, message, resultVars, deleteVars>>

CancelFails ==
    /\ cancelJob # None
    /\ UNCHANGED queue \/ (cancelSaw = "QUEUED" /\ queue' = queue \ {cancelJob})
    /\ cancelJob' = None /\ cancelSaw' = "NONE"
    /\ UNCHANGED <<rowVars, callerVars, retrying, enq, message, resultVars, deleteVars>>

Restart ==
    /\ passed' = [c \in Callers |-> None] /\ outdated' = {}
    /\ retrying' = {} /\ enq' = [j \in Jobs |-> "idle"]
    /\ handling' = None /\ listed' = {} /\ deleting' = None
    /\ cancelJob' = None /\ cancelSaw' = "NONE"
    /\ UNCHANGED <<rowVars, message, queue, taken, results, delivered, tasks, deleted>>

---------------------------------------------------------------------------
Creation(c) ==
    \/ \E p \in Pairs : CheckLast(c, p)
    \/ \E j \in Jobs : CreateJob(c, j)
    \/ CreateFails(c)

Retry ==
    (\E R \in SUBSET Jobs : ListFailed(R)) \/ (\E j \in Jobs : RetryJob(j)) \/ RetryFails

Enqueue(j) ==
    \/ EnqueueUnfit(j) \/ QueueJob(j) \/ Produce(j)
    \/ EnqueueFails(j) \/ RecordSeqNum(j) \/ SentButFailed(j)

Describer(j) ==
    \/ TakeMessage(j) \/ SetInProgress(j) \/ DescriberDies(j)
    \/ \E v \in Verdict : DeliverResult(j, v)

Consumer ==
    \/ \E j \in Jobs : CleanupFails(j) \/ \E v \in Verdict : ConsumeResult(j, v)
    \/ WriteResult \/ WriteResultFails

Deleter ==
    \/ ListTasks
    \/ \E j \in Jobs, p \in Pages : DeleteResources(j, p) \/ SkipTask(j, p)
    \/ MarkDeleted \/ MarkFails \/ RemoveTask \/ RoundFails

Canceler == (\E j \in Jobs : CancelRead(j)) \/ CancelWrite \/ CancelFails

Step ==
    \/ \E c \in Callers : Creation(c)
    \/ Retry
    \/ \E t \in {"scheduled", "manual"} : BeginCycle(t)
    \/ \E j \in Jobs : Enqueue(j) \/ Describer(j) \/ TimePasses(j) \/ Sweep(j)
    \/ Consumer \/ Deleter \/ Canceler \/ Restart

LiveJobs(p) == {j \in Jobs : PairOf[j] = p /\ status[j] \in Live}

\* j comes back to life, or is created by a caller that checked before another creation.
BreaksOrder(j) ==
    \/ status[j] \in Over /\ status'[j] \in Live
    \/ /\ status[j] = "NONE" /\ status'[j] # "NONE"
       /\ \E c \in outdated : passed[c] # None /\ passed'[c] = None

\* The ghosts follow the status column.
Observe ==
    /\ mixedUp' = {p \in Pairs :
          /\ LiveJobs(p)' # {}
          /\ p \in mixedUp \/ \E j \in Jobs : PairOf[j] = p /\ BreaksOrder(j)}
    /\ offBooks' = {j \in Jobs :
          /\ status'[j] \in Running \ {"QUEUED"}
          /\ j \in offBooks \/ status[j] \notin Running}

Next == Step /\ Observe

Spec == Init /\ [][Next]_vars

AtWorkRow == {"CREATED", "QUEUED", "IN_PROGRESS"}

\* Over, or waiting for the deleter, and nobody is left who would write CREATED or QUEUED: it
\* is not picked, and not listed for a retry nor to be listed.
Closed ==
    {j \in Jobs : /\ status[j] \notin {"NONE"} \cup AtWorkRow
                  /\ enq[j] # "picked" /\ j \notin retrying
                  /\ j \in Scheduled => j \in queuedOnce}

Table == INSTANCE DescribeTable
            WITH row <- [j \in Jobs |-> IF status[j] \in AtWorkRow THEN "LIVE" ELSE status[j]],
                 closed <- Closed

\* Time passes, and the sweep, which runs every minute on a ticker beside the consumer,
\* finds a job that stays as it is.
FairSpec ==
    /\ Spec
    /\ \A j \in Jobs : WF_vars(TimePasses(j) /\ Observe) /\ WF_vars(Sweep(j) /\ Observe)

---------------------------------------------------------------------------
TypeOK ==
    /\ status \in [Jobs -> JobStatus]
    /\ queuedOnce \in SUBSET Jobs
    /\ last \in [Pairs -> Jobs \cup {None}]
    /\ old \in SUBSET Jobs
    /\ passed \in [Callers -> Pairs \cup {None}]
    /\ retrying \in SUBSET Jobs
    /\ enq \in [Jobs -> {"idle", "picked", "queued", "sent"}]
    /\ message \in [Jobs -> {"none", "stored", "known"}]
    /\ queue \in SUBSET Jobs
    /\ taken \in SUBSET Jobs
    /\ results \in SUBSET (Jobs \X Verdict)
    /\ handling \in (Jobs \X Verdict \X (Verdict \cup {"OLD_RESOURCE_DELETION"})) \cup {None}
    /\ tasks \in SUBSET (Jobs \X Pages)
    /\ listed \in SUBSET (Jobs \X Pages)
    /\ deleting \in (Jobs \X Pages \X {"mark", "remove"}) \cup {None}
    /\ deleted \in [Pairs -> SUBSET Pages]
    /\ cancelJob \in Jobs \cup {None}
    /\ cancelSaw \in {"NONE", "CREATED", "QUEUED"}
    /\ outdated \in SUBSET Callers
    /\ mixedUp \in SUBSET Pairs
    /\ offBooks \in SUBSET Jobs
    /\ delivered \in SUBSET Jobs

\* Two jobs of an integration are live at the same time only after a race of two callers
\* between test and creation, or after a job that was over came back to life (a retry, a
\* late or repeated result, a QUEUED written over CANCELED).  In any other order of
\* sweeps, reports and creations, the job with the latest updated_at is the live one.
OneLive ==
    \A i, j \in Jobs :
        /\ i # j /\ PairOf[i] = PairOf[j]
        /\ status[i] \in Live /\ status[j] \in Live
        => PairOf[i] \in mixedUp

\* The rate limit of a resource type holds per trigger type, over cycles that end early,
\* jobs that are canceled or sent twice and restarts, for all jobs that a QUEUED write
\* started; the exceptions are those a describer or a late result puts to work.
CapKept ==
    \A t \in {"scheduled", "manual"} :
        Cardinality({j \in JobsOf(t) \ offBooks : status[j] \in Running}) <= MaxRunning

\* A job becomes SUCCEEDED only if its describer said so, and only when the resources it
\* no longer found are deleted, whatever consumer, deleter and sweep do in between and
\* however often the result is delivered.  If they fill more than one page, only one page
\* is sure to be deleted: the first task done marks the job, the deleter skips the others.
SucceededIsTrue ==
    [][\A j \in Jobs : status[j] # "SUCCEEDED" /\ status'[j] = "SUCCEEDED" =>
          /\ j \in delivered
          /\ IF Cardinality(Obsolete[j]) > 1
             THEN deleted[PairOf[j]] # {}
             ELSE Obsolete[j] \subseteq deleted[PairOf[j]]]_vars

\* Every live job is over some day, although no write but creation, SetInProgress and the
\* sweep itself restarts the clock, and messages, describers, results and tasks may be lost.
JobsEnd == \A j \in Jobs : status[j] \in Live ~> status[j] \in Over

=============================================================================
