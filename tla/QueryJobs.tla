------------------------------ MODULE QueryJobs ------------------------------
(***************************************************************************)
(* Query jobs: the rows of query_runner_jobs (a query run on request) and  *)
(* of query_validator_jobs (every query and control, twice a day), with    *)
(* the two publishers, the NATS streams, the workers, the consumers of     *)
(* their results, the timeout sweep and the cancel handler.                *)
(*                                                                         *)
(* The two kinds have almost the same code.  They differ in that the       *)
(* publisher of validators has a limit of running jobs, and in that the    *)
(* sweep at the head of both publishers is that of the runners' table, so  *)
(* nothing times a validator out.                                          *)
(***************************************************************************)
EXTENDS Integers, FiniteSets, Sequences

CONSTANTS Jobs,      \* ids of rows, each used once; those of the two tables are distinct
          Runners,   \* rows of query_runner_jobs; the others are validators
          Poison,    \* jobs whose query is no valid template
          Cap,       \* 200: validators that may be QUEUED or IN_PROGRESS
          None

ASSUME JobsAssumption ==
    /\ IsFiniteSet(Jobs)
    /\ Runners \subseteq Jobs /\ Poison \subseteq Jobs
    /\ Cap \in Nat
    /\ None \notin Jobs

VARIABLES
    status,
    seqKnown,    \* runners whose NATS sequence number is in the row
    batch,       \* batch[k]: CREATED jobs the publisher of kind k has listed
    sending,     \* sending[k]: job produced, its QUEUED not yet written, or None
    stored,      \* ids the stream has seen
    queue,       \* messages in the stream
    working,     \* jobs a worker has
    reports,     \* reports[j]: results of j in the stream, in order
    cancelJob, cancelSaw,   \* the cancel request being served
    \* ghosts:
    runs,        \* runs[j]: workers that got j
    withdrawn,   \* jobs whose message a cancel request has deleted
    concluded,   \* jobs that have the verdict of their worker
    offBooks,    \* running validators that were not listed when they began to count
    flooded      \* the last round of validators found more running than the limit

rowVars == <<status, seqKnown>>
publisherVars == <<batch, sending>>
streamVars == <<stored, queue>>
workerVars == <<working, reports, runs>>
cancelVars == <<cancelJob, cancelSaw, withdrawn>>
vars == <<rowVars, publisherVars, streamVars, workerVars, cancelVars,
          concluded, offBooks, flooded>>

Kinds == {"runner", "validator"}
KindOf(j) == IF j \in Runners THEN "runner" ELSE "validator"
JobsOf(k) == {j \in Jobs : KindOf(j) = k}
Running == {"QUEUED", "IN_PROGRESS"}
Live == {"CREATED"} \cup Running
Verdict == {"SUCCEEDED", "FAILED"}
JobStatus == {"NONE"} \cup Live \cup Verdict \cup {"TIMEOUT", "CANCELED"}

Init ==
    /\ status = [j \in Jobs |-> "NONE"]
    /\ seqKnown = {}
    /\ batch = [k \in Kinds |-> {}]
    /\ sending = [k \in Kinds |-> None]
    /\ stored = {} /\ queue = {} /\ working = {}
    /\ reports = [j \in Jobs |-> <<>>]
    /\ cancelJob = None /\ cancelSaw = "NONE"
    /\ runs = [j \in Jobs |-> 0]
    /\ withdrawn = {} /\ concluded = {} /\ offBooks = {} /\ flooded = FALSE

\* UPDATE by id, whatever the row has become.
Write(j, s) == status' = [status EXCEPT ![j] = s]
\* Its error is thrown away (_ = db.Update...).
TryWrite(j, s) == Write(j, s) \/ UNCHANGED status

---------------------------------------------------------------------------
(* RunQuery inserts a runner, runScheduler one validator per query and control, whether
   or not there is one already. *)
CreateJob(j) ==
    /\ status[j] = "NONE"
    /\ Write(j, "CREATED")
    /\ UNCHANGED <<seqKnown, publisherVars, streamVars, workerVars, cancelVars>>

\* Mutant: the sweep spares what is new, not what is over.
SweepNotCreated(j) ==
    /\ j \in Runners /\ status[j] \notin {"NONE", "CREATED"}
    /\ Write(j, "TIMEOUT")
    /\ UNCHANGED <<seqKnown, publisherVars, streamVars, workerVars, cancelVars>>

\* Mutant: only the first of the two sweeps.
SweepQueued(j) ==
    /\ j \in Runners /\ status[j] = "QUEUED"
    /\ Write(j, "TIMEOUT")
    /\ UNCHANGED <<seqKnown, publisherVars, streamVars, workerVars, cancelVars>>

\* Mutant: the sweeps that nobody calls, on the validators' table.
SweepBothTables(j) ==
    /\ status[j] \in Running
    /\ Write(j, "TIMEOUT")
    /\ UNCHANGED <<seqKnown, publisherVars, streamVars, workerVars, cancelVars>>

\* The sweep at the head of both publishers: QUEUED for 12 hours, IN_PROGRESS for 5
\* minutes, in the table of the runners only.
SweepJob(j) ==
    /\ j \in Runners /\ status[j] \in Running
    /\ Write(j, "TIMEOUT")
    /\ UNCHANGED <<seqKnown, publisherVars, streamVars, workerVars, cancelVars>>

RunningOf(k) == {j \in JobsOf(k) : status[j] \in Running}
CreatedOf(k) == {j \in JobsOf(k) : status[j] = "CREATED"}

\* What Limit(200 - count) lets through: a negative limit is none for gorm.
WithinLimit(L, count) ==
    IF count > Cap THEN L = CreatedOf("validator")
    ELSE Cardinality(L) <= Cap - count

\* Mutant: jobs that only wait in the stream are not counted.
BeginRoundCountingStarted(k) ==
    /\ batch[k] = {} /\ sending[k] = None
    /\ \E L \in SUBSET CreatedOf(k) :
          /\ L # {}
          /\ IF k = "runner" THEN L = CreatedOf(k)
             ELSE WithinLimit(L, Cardinality({j \in RunningOf(k) : status[j] = "IN_PROGRESS"}))
          /\ batch' = [batch EXCEPT ![k] = L]
    /\ UNCHANGED <<rowVars, sending, streamVars, workerVars, cancelVars>>

\* List the CREATED jobs, in no particular order.
BeginRound(k) ==
    /\ batch[k] = {} /\ sending[k] = None
    /\ \E L \in SUBSET CreatedOf(k) :
          /\ L # {}
          /\ IF k = "runner" THEN L = CreatedOf(k)
             ELSE WithinLimit(L, Cardinality(RunningOf(k)))
          /\ batch' = [batch EXCEPT ![k] = L]
    /\ UNCHANGED <<rowVars, sending, streamVars, workerVars, cancelVars>>

\* The next job of the list, whatever its row has become.
NextJob(k, j) == sending[k] = None /\ j \in batch[k]
NextIs(k, j) == NextJob(k, j) /\ batch' = [batch EXCEPT ![k] = @ \ {j}]
EndRound(k) == batch' = [batch EXCEPT ![k] = {}]

\* Mutant: the id of the message is new in every round.
ProduceAfresh(k, j) ==
    /\ NextIs(k, j) /\ j \notin Poison
    /\ stored' = stored \cup {j}
    /\ queue' = queue \cup {j}
    /\ sending' = [sending EXCEPT ![k] = j]
    /\ UNCHANGED <<rowVars, workerVars, cancelVars>>

\* The message leaves, at once or after the streams are set up again; the stream drops an
\* id it knows.
Produce(k, j) ==
    /\ NextIs(k, j) /\ j \notin Poison
    /\ stored' = stored \cup {j}
    /\ queue' = IF j \in stored THEN queue ELSE queue \cup {j}
    /\ sending' = [sending EXCEPT ![k] = j]
    /\ UNCHANGED <<rowVars, workerVars, cancelVars>>

\* Only then the sequence number (of a runner) and QUEUED are written.
WriteQueued(k) ==
    /\ sending[k] # None
    /\ TryWrite(sending[k], "QUEUED")
    /\ \/ k = "runner" /\ seqKnown' = seqKnown \cup {sending[k]}
       \/ UNCHANGED seqKnown
    /\ sending' = [sending EXCEPT ![k] = None]
    /\ UNCHANGED <<batch, streamVars, workerVars, cancelVars>>

\* The query is not found, the message cannot be built, or Produce fails, possibly after
\* the message was stored: FAILED, and on to the next job.
FailJob(k, j) ==
    /\ NextIs(k, j)
    /\ TryWrite(j, "FAILED")
    /\ \/ UNCHANGED streamVars
       \/ /\ j \notin stored /\ j \notin Poison
          /\ stored' = stored \cup {j} /\ queue' = queue \cup {j}
    /\ UNCHANGED <<seqKnown, sending, workerVars, cancelVars>>

\* The parameters cannot be listed or the template cannot be executed: FAILED, and the
\* round ends.
FailRound(k, j) ==
    /\ NextJob(k, j) /\ EndRound(k)
    /\ TryWrite(j, "FAILED")
    /\ UNCHANGED <<seqKnown, sending, streamVars, workerVars, cancelVars>>

\* The template cannot be parsed or the streams cannot be set up, or (a validator whose
\* query cannot be read) the goroutine panics and is started again: the round ends and
\* the row stays CREATED.
AbortRound(k, j) ==
    /\ NextJob(k, j) /\ EndRound(k)
    /\ UNCHANGED <<rowVars, sending, streamVars, workerVars, cancelVars>>

\* The scheduler stops, for instance at the twelfth panic of a goroutine.
Restart ==
    /\ batch' = [k \in Kinds |-> {}] /\ sending' = [k \in Kinds |-> None]
    /\ cancelJob' = None /\ cancelSaw' = "NONE"
    /\ UNCHANGED <<rowVars, streamVars, workerVars, withdrawn>>

---------------------------------------------------------------------------
(* ProcessMessage of both workers, and the consumer of their results. *)

\* A result may fail to be published.
Report(j, s) ==
    \/ reports' = [reports EXCEPT ![j] = Append(@, s)]
    \/ UNCHANGED reports

\* MaxDeliver is 1: the message does not come again.
TakeJob(j) ==
    /\ j \in queue
    /\ queue' = queue \ {j}
    /\ working' = working \cup {j}
    /\ runs' = [runs EXCEPT ![j] = @ + 1]
    /\ Report(j, "IN_PROGRESS")
    /\ UNCHANGED <<rowVars, publisherVars, stored, cancelVars>>

FinishJob(j) ==
    /\ j \in working
    /\ working' = working \ {j}
    /\ \E v \in Verdict : Report(j, v)
    /\ UNCHANGED <<rowVars, publisherVars, streamVars, runs, cancelVars>>

WorkerDies(j) ==
    /\ j \in working
    /\ working' = working \ {j}
    /\ UNCHANGED <<rowVars, publisherVars, streamVars, reports, runs, cancelVars>>

\* Acknowledged, then written; if the write fails the result is lost.
ConsumeReport(j) ==
    /\ reports[j] # <<>>
    /\ TryWrite(j, Head(reports[j]))
    /\ reports' = [reports EXCEPT ![j] = Tail(@)]
    /\ UNCHANGED <<seqKnown, publisherVars, streamVars, working, runs, cancelVars>>

---------------------------------------------------------------------------
(* The cancel handler, job type "query": read the row, write CANCELED, delete the message. *)

CancelRead(j) ==
    /\ cancelJob = None
    /\ j \in Runners /\ status[j] \in {"CREATED", "QUEUED"}
    /\ cancelJob' = j /\ cancelSaw' = status[j]
    /\ UNCHANGED <<rowVars, publisherVars, streamVars, workerVars, withdrawn>>

\* Without a sequence number there is nothing to delete; the deletion itself may fail.
CancelWrite ==
    /\ cancelJob # None
    /\ Write(cancelJob, "CANCELED")
    /\ \/ /\ cancelSaw = "QUEUED" /\ cancelJob \in seqKnown /\ cancelJob \in queue
          /\ queue' = queue \ {cancelJob}
          /\ withdrawn' = withdrawn \cup {cancelJob}
       \/ UNCHANGED <<queue, withdrawn>>
    /\ cancelJob' = None /\ cancelSaw' = "NONE"
    /\ UNCHANGED <<seqKnown, publisherVars, stored, workerVars>>

CancelFails ==
    /\ cancelJob # None
    /\ cancelJob' = None /\ cancelSaw' = "NONE"
    /\ UNCHANGED <<rowVars, publisherVars, streamVars, workerVars, withdrawn>>

---------------------------------------------------------------------------
Publish(k, j) == Produce(k, j) \/ FailJob(k, j) \/ FailRound(k, j) \/ AbortRound(k, j)
Publisher(k) == BeginRound(k) \/ WriteQueued(k) \/ \E j \in Jobs : Publish(k, j)
Worker(j) == TakeJob(j) \/ FinishJob(j) \/ WorkerDies(j)
Canceler == (\E j \in Jobs : CancelRead(j)) \/ CancelWrite \/ CancelFails

Step ==
    \/ \E j \in Jobs : CreateJob(j) \/ SweepJob(j) \/ Worker(j) \/ ConsumeReport(j)
    \/ \E k \in Kinds : Publisher(k)
    \/ Canceler \/ Restart

Listed(k) == batch[k] \cup ({sending[k]} \ {None})

\* The ghosts follow the rows.
Observe ==
    /\ concluded' = {j \in Jobs :
          /\ status'[j] \in Verdict
          /\ \/ j \in concluded
             \/ reports[j] # <<>> /\ reports'[j] = Tail(reports[j]) /\ status'[j] = Head(reports[j])}
    /\ offBooks' = {j \in JobsOf("validator") :
          /\ status'[j] \in Running
          /\ j \in offBooks \/ (status[j] \notin Running /\ j \notin Listed("validator"))}
    /\ flooded' = IF batch["validator"] = {} /\ batch'["validator"] # {}
                  THEN Cardinality(RunningOf("validator")) > Cap
                  ELSE flooded

Next == Step /\ Observe
Spec == Init /\ [][Next]_vars

PoisonWaits == \E j \in Poison \cap Runners : status[j] = "CREATED"
\* A round that comes to the end of its list.
SoundRound == batch["runner"] \cap Poison = {}

\* The publisher of runners loops on a ticker, and so sweeps; the services it asks, NATS
\* and the database do not fail at every one of infinitely many attempts.
FairSpec ==
    /\ Spec
    /\ WF_vars(Publisher("runner") /\ Observe)
    /\ \A j \in Runners :
          /\ WF_vars(SweepJob(j) /\ Observe)
          /\ SF_vars(SoundRound /\ Produce("runner", j) /\ Observe)
          /\ SF_vars(sending["runner"] = j /\ WriteQueued("runner") /\ Observe
                        /\ status'[j] = "QUEUED")

---------------------------------------------------------------------------
TypeOK ==
    /\ status \in [Jobs -> JobStatus]
    /\ seqKnown \in SUBSET Jobs
    /\ batch \in [Kinds -> SUBSET Jobs]
    /\ sending \in [Kinds -> Jobs \cup {None}]
    /\ stored \in SUBSET Jobs /\ queue \in SUBSET Jobs /\ working \in SUBSET Jobs
    /\ reports \in [Jobs -> Seq({"IN_PROGRESS"} \cup Verdict)]
    /\ cancelJob \in Jobs \cup {None}
    /\ cancelSaw \in {"NONE", "CREATED", "QUEUED"}
    /\ runs \in [Jobs -> Nat]
    /\ withdrawn \in SUBSET Jobs /\ concluded \in SUBSET Jobs /\ offBooks \in SUBSET Jobs
    /\ flooded \in BOOLEAN

\* A query runs once at most, over rounds that produce the same job again because its
\* QUEUED write failed, and its message is never stored again once a cancel request has
\* deleted it, though the late QUEUED write can put the row back.
RunsOnce ==
    \A j \in Jobs : runs[j] <= 1 /\ (j \in withdrawn => runs[j] = 0 /\ j \notin queue)

\* The limit of running validators holds, over lost messages, late reports and restarts,
\* for the jobs a round has listed, until a round finds more than the limit running, which
\* takes a job that began to run without being listed (its FAILED was written although
\* the message was stored); that round lists every CREATED job.
CapKept ==
    ~flooded => Cardinality(RunningOf("validator") \ offBooks) <= Cap

\* The verdict a worker reported is overwritten only by the publisher, which has the job
\* in its list or its QUEUED still to write, or by a cancel request that read the row
\* earlier: never by a sweep, another report or a later request.
VerdictStays ==
    [][\A j \in concluded : status'[j] # status[j] =>
          j \in Listed(KindOf(j)) \/ cancelJob = j]_vars

Stranded(j) ==
    /\ j \notin Runners /\ status[j] \in Running
    /\ j \notin queue \cup working /\ reports[j] = <<>>
    /\ j \notin Listed("validator")

\* A validator whose message, worker or result is lost keeps its place among the running
\* ones for ever: no timeout, request or round ever changes its row.
StrandedForEver == [][\A j \in Jobs : Stranded(j) => Stranded(j)']_vars

\* Unless jobs whose query cannot be parsed wait again and again, every runner ends, even
\* if messages, workers, results and cancel requests are lost.
RunnersEnd ==
    <>[]~PoisonWaits =>
        \A j \in Runners : (status[j] \in Live) ~> (status[j] \notin Live)
=============================================================================
