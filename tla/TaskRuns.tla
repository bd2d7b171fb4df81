------------------------------- MODULE TaskRuns -------------------------------
(***************************************************************************)
(* The tasks service for one task: loading its specification, starting its *)
(* publisher (only when the service boots), creating runs on schedule and  *)
(* on request, publishing them under a limit, the task's workers (programs *)
(* of their own), the consumer of their results, timeouts and cancel       *)
(* requests; and beside the service, the post-install job, which deletes   *)
(* what was loaded, loads it anew and starts the service again.            *)
(*                                                                         *)
(* Time is the age of a run since created_at, which nothing restarts.      *)
(***************************************************************************)
EXTENDS Integers, FiniteSets, Sequences

CONSTANTS Runs,        \* ids of rows, each used once
          Schedules,   \* run_schedules of the specification
          Order,       \* the order in which they are stored
          Requests,    \* load requests to the service that may be under way at once
          Migrator,    \* the load of the post-install job
          OriginOf,    \* OriginOf[r]: the schedule r is created for, or None (a request)
          Frequency,   \* Frequency[s]: units of time between two runs
          Timeout,     \* of the task, in units of time
          Minute,      \* units of time in a minute
          Max,         \* MaximumInProgressTaskRuns
          MaxAge,      \* ages are not told apart beyond it
          None

ASSUME TaskAssumption ==
    /\ IsFiniteSet(Runs)
    /\ Migrator \notin Requests
    /\ Order \in Seq(Schedules)
    /\ \A s \in Schedules : \E i \in 1..Len(Order) : Order[i] = s
    /\ OriginOf \in [Runs -> Schedules \cup {None}]
    /\ Frequency \in [Schedules -> Nat]
    /\ Timeout \in Nat /\ Minute \in Nat \ {0} /\ Max \in Nat
    /\ MaxAge \in Nat /\ MaxAge > (Timeout \div Minute) * Minute
    /\ \A s \in Schedules : MaxAge >= Frequency[s]
    /\ None \notin Runs \cup Schedules

VARIABLES
    up,          \* the service runs
    job,         \* where the post-install job is, "none" when there is none
    taskRow,     \* the task is in the table
    schedules,   \* schedules in the table
    loading,     \* loading[l]: schedules the load l has still to store, or None
    started,     \* the publisher and the consumer of the task run
    status, age,
    batch,       \* runs the publisher has listed
    sending,     \* run produced, QUEUED not yet written, or None
    stored,      \* ids the stream has seen
    queue,       \* messages in the stream
    working,     \* runs a worker has
    reports,     \* reports[r]: results of r in the stream, in order
    cancels,     \* runs whose worker was told to stop
    \* ghosts:
    again,       \* runs whose message was stored or delivered a second time
    offBooks,    \* running runs that were not listed when they began to count
    listed,      \* how many the last round listed
    broken,      \* a load broke off, and the schedules were not deleted since
    crossed      \* the schedules were last deleted while a request was storing them

Loaders == Requests \cup {Migrator}
JobPhase == {"none", "purging", "purged", "loading", "loaded"}

loadVars == <<job, taskRow, schedules, loading>>
serviceVars == <<up, started>>
publisherVars == <<batch, sending>>
streamVars == <<stored, queue>>
workerVars == <<working, reports, cancels>>
vars == <<loadVars, serviceVars, status, age, publisherVars, streamVars, workerVars,
          again, offBooks, listed, broken, crossed>>

Running == {"QUEUED", "IN_PROGRESS"}
Live == {"CREATED"} \cup Running
Verdict == {"FINISHED", "FAILED", "CANCELLED"}
RunStatus == {"NONE", "TIMEOUT"} \cup Live \cup Verdict

Init ==
    /\ up = TRUE /\ started = FALSE
    /\ job = "none" /\ taskRow = FALSE /\ schedules = {} /\ loading = [l \in Loaders |-> None]
    /\ status = [r \in Runs |-> "NONE"] /\ age = [r \in Runs |-> 0]
    /\ batch = {} /\ sending = None /\ stored = {} /\ queue = {}
    /\ working = {} /\ reports = [r \in Runs |-> <<>>] /\ cancels = {}
    /\ again = {} /\ offBooks = {} /\ listed = 0
    /\ broken = FALSE /\ crossed = FALSE

Write(r, s) == status' = [status EXCEPT ![r] = s]
\* Its error is thrown away (_ = db.UpdateTaskRun).
TryWrite(r, s) == Write(r, s) \/ UNCHANGED status

---------------------------------------------------------------------------
(* LoadTask: the task unless there is one, its binary, then the schedules one by one.  A request  *)
(* loads inside the service, the post-install job in a pod of its own.                            *)

LoadTask(l) ==
    /\ loading[l] = None
    /\ IF l = Migrator THEN job = "purged" /\ job' = "loading" ELSE up /\ job' = job
    /\ taskRow' = TRUE
    /\ loading' = [loading EXCEPT ![l] = Order]
    /\ UNCHANGED <<schedules, serviceVars, status, age, publisherVars, streamVars, workerVars>>

Storing(l) == loading[l] \notin {None, <<>>}

\* Mutant: a schedule that is there already is skipped, as the task is.
StoreIfMissing(l) ==
    /\ Storing(l)
    /\ schedules' = schedules \cup {Head(loading[l])}
    /\ loading' = [loading EXCEPT ![l] = Tail(@)]
    /\ UNCHANGED <<job, taskRow, serviceVars, status, age, publisherVars, streamVars, workerVars>>

\* A plain insertion, which a schedule with this id makes fail; then the load ends (LoadEnds).
StoreSchedule(l) ==
    /\ Storing(l) /\ Head(loading[l]) \notin schedules
    /\ schedules' = schedules \cup {Head(loading[l])}
    /\ loading' = [loading EXCEPT ![l] = Tail(@)]
    /\ UNCHANGED <<job, taskRow, serviceVars, status, age, publisherVars, streamVars, workerVars>>

\* All is stored; or the binary cannot be fetched, or an insertion fails, which the
\* post-install job only logs.
LoadEnds(l) ==
    /\ loading[l] # None
    /\ loading' = [loading EXCEPT ![l] = None]
    /\ job' = IF l = Migrator THEN "loaded" ELSE job
    /\ UNCHANGED <<taskRow, schedules, serviceVars, status, age, publisherVars, streamVars,
                   workerVars>>

---------------------------------------------------------------------------
(* The service stops and boots; Start begins to work for the tasks there are then. *)

ServiceStops ==
    /\ up' = FALSE /\ started' = FALSE
    /\ loading' = [l \in Loaders |-> IF l \in Requests THEN None ELSE loading[l]]
    /\ batch' = {} /\ sending' = None

Crash ==
    /\ up /\ ServiceStops
    /\ UNCHANGED <<job, taskRow, schedules, status, age, streamVars, workerVars>>

\* CreateWorker sets the deployment of a task that has one back to no replicas.
Boot ==
    /\ ~up
    /\ up' = TRUE /\ started' = taskRow
    /\ working' \in {working, {}}
    /\ UNCHANGED <<loadVars, status, age, publisherVars, streamVars, reports, cancels>>

---------------------------------------------------------------------------
(* The tasks migration of the post-install job, in a pod of its own.  It deletes the tasks and   *)
(* then the schedules without looking at the errors.                                             *)

DeleteTasks ==
    /\ job = "none" /\ job' = "purging"
    /\ taskRow' \in {taskRow, FALSE}
    /\ UNCHANGED <<schedules, loading, serviceVars, status, age, publisherVars, streamVars,
                   workerVars>>

DeleteSchedules ==
    /\ job = "purging" /\ job' = "purged"
    /\ schedules' \in {schedules, {}}
    /\ UNCHANGED <<taskRow, loading, serviceVars, status, age, publisherVars, streamVars,
                   workerVars>>

\* The file of the specification cannot be read or is not valid: logged, and skipped.
SkipSpecification ==
    /\ job = "purged" /\ job' = "loaded"
    /\ UNCHANGED <<taskRow, schedules, loading, serviceVars, status, age, publisherVars,
                   streamVars, workerVars>>

\* The pods of the service are deleted, unless the cluster refuses.
RestartService ==
    /\ job = "loaded" /\ job' = "none"
    /\ ServiceStops \/ UNCHANGED <<loading, serviceVars, publisherVars>>
    /\ UNCHANGED <<taskRow, schedules, status, age, streamVars, workerVars>>

\* The job's pod dies, or a request for another migration deletes it.
JobDies ==
    /\ job # "none" /\ job' = "none"
    /\ loading' = [loading EXCEPT ![Migrator] = None]
    /\ UNCHANGED <<taskRow, schedules, serviceVars, status, age, publisherVars, streamVars,
                   workerVars>>

PostInstall ==
    DeleteTasks \/ DeleteSchedules \/ SkipSpecification \/ RestartService \/ JobDies

---------------------------------------------------------------------------
(* createTasks and RunTask insert runs. *)

\* The task and its schedules were read before the post-install job deleted them.
ReadBefore == job # "none"

LastOf(s) == {r \in Runs : status[r] # "NONE" /\ OriginOf[r] = s}

\* A schedule is due when no run of it is younger than its frequency.
CreateScheduled(r) ==
    /\ up
    /\ (taskRow /\ OriginOf[r] \in schedules) \/ ReadBefore
    /\ status[r] = "NONE" /\ OriginOf[r] # None
    /\ \A q \in LastOf(OriginOf[r]) : age[q] >= Frequency[OriginOf[r]]
    /\ Write(r, "CREATED")
    /\ UNCHANGED <<loadVars, serviceVars, age, publisherVars, streamVars, workerVars>>

RunTask(r) ==
    /\ up /\ (taskRow \/ ReadBefore)
    /\ status[r] = "NONE" /\ OriginOf[r] = None
    /\ Write(r, "CREATED")
    /\ UNCHANGED <<loadVars, serviceVars, age, publisherVars, streamVars, workerVars>>

Tick ==
    /\ age' = [r \in Runs |-> IF status[r] = "NONE" \/ age[r] = MaxAge THEN age[r]
                              ELSE age[r] + 1]
    /\ UNCHANGED <<loadVars, serviceVars, status, publisherVars, streamVars, workerVars>>

---------------------------------------------------------------------------
(* runPublisher *)

\* Mutant: the seconds are divided by sixty once more.
OverdueTwice(r) == age[r] > (Timeout \div (Minute * Minute)) * Minute

\* uint64(s.Timeout / 60): whole minutes, rounded down.
Overdue(r) == age[r] > (Timeout \div Minute) * Minute

\* Mutant: a run that waits to be published does not time out.
SweptWhenSent ==
    [r \in Runs |-> IF status[r] \in Running /\ Overdue(r) THEN "TIMEOUT" ELSE status[r]]

\* Mutant: runs that are over time out too.
SweptInAnyStatus ==
    [r \in Runs |-> IF status[r] # "NONE" /\ Overdue(r) THEN "TIMEOUT" ELSE status[r]]

\* TimeoutTaskRunsByTaskID
Swept == [r \in Runs |-> IF status[r] \in Live /\ Overdue(r) THEN "TIMEOUT" ELSE status[r]]

RunningIn(row) == {r \in Runs : row[r] \in Running}
CreatedIn(row) == {r \in Runs : row[r] = "CREATED"}

\* Mutant: runs that no worker has started are not counted.
BeginRoundCountingStarted ==
    /\ started /\ batch = {} /\ sending = None
    /\ status' = Swept
    /\ batch' = IF Cardinality({r \in Runs : Swept[r] = "IN_PROGRESS"}) > Max THEN {}
                ELSE CreatedIn(Swept)
    /\ UNCHANGED <<loadVars, serviceVars, age, sending, streamVars, workerVars>>

\* Time out, count, and list all CREATED runs unless more than Max are running.
BeginRound ==
    /\ started /\ batch = {} /\ sending = None
    /\ status' = Swept
    /\ batch' = IF Cardinality(RunningIn(Swept)) > Max THEN {} ELSE CreatedIn(Swept)
    /\ UNCHANGED <<loadVars, serviceVars, age, sending, streamVars, workerVars>>

NextRun(r) == sending = None /\ r \in batch /\ batch' = batch \ {r}

\* The stream drops an id it has seen lately.
Stored(r) ==
    /\ stored' = stored \cup {r}
    /\ \/ queue' = queue \cup {r}
       \/ r \in stored /\ UNCHANGED queue

Produce(r) ==
    /\ NextRun(r) /\ Stored(r)
    /\ sending' = r
    /\ UNCHANGED <<loadVars, serviceVars, status, age, workerVars>>

\* The stream was missing and is set up: the run is produced and stays CREATED.
ProduceAfterSetup(r) ==
    /\ NextRun(r) /\ Stored(r)
    /\ UNCHANGED <<loadVars, serviceVars, status, age, sending, workerVars>>

\* QUEUED is written after the message has left, whatever the row has become.
WriteQueued ==
    /\ sending # None
    /\ TryWrite(sending, "QUEUED")
    /\ sending' = None
    /\ UNCHANGED <<loadVars, serviceVars, age, batch, streamVars, workerVars>>

\* Produce fails, possibly after the message was stored.
ProduceFails(r) ==
    /\ NextRun(r)
    /\ TryWrite(r, "FAILED")
    /\ Stored(r) \/ UNCHANGED streamVars
    /\ UNCHANGED <<loadVars, serviceVars, age, sending, workerVars>>

\* The parameters cannot be read or the message cannot be built: FAILED, and the round ends.
FailRound(r) ==
    /\ sending = None /\ r \in batch /\ batch' = {}
    /\ TryWrite(r, "FAILED")
    /\ UNCHANGED <<loadVars, serviceVars, age, sending, streamVars, workerVars>>

\* The secret of the task cannot be read or decrypted, or the stream not be set up.
AbortRound ==
    /\ sending = None /\ batch # {} /\ batch' = {}
    /\ UNCHANGED <<loadVars, serviceVars, status, age, sending, streamVars, workerVars>>

---------------------------------------------------------------------------
(* The task's workers, the consumer of their results, and cancel requests. *)

Report(r, s) ==
    \/ reports' = [reports EXCEPT ![r] = Append(@, s)]
    \/ UNCHANGED reports

\* A message that is not acknowledged within half an hour comes again.
TakeRun(r) ==
    /\ r \in queue
    /\ queue' = queue \ {r} \/ UNCHANGED queue
    /\ working' = working \cup {r}
    /\ Report(r, "IN_PROGRESS")
    /\ UNCHANGED <<loadVars, serviceVars, status, age, publisherVars, stored, cancels>>

FinishRun(r, v) ==
    /\ r \in working
    /\ v = "CANCELLED" => r \in cancels
    /\ working' = working \ {r}
    /\ Report(r, v)
    /\ cancels' = cancels \ {r}
    /\ UNCHANGED <<loadVars, serviceVars, status, age, publisherVars, streamVars>>

WorkerDies(r) ==
    /\ r \in working
    /\ working' = working \ {r}
    /\ cancels' = cancels \ {r}
    /\ UNCHANGED <<loadVars, serviceVars, status, age, publisherVars, streamVars, reports>>

\* Acknowledged first: if the health of the credentials or the run cannot be written, the
\* result is lost.
ConsumeResponse(r) ==
    /\ started /\ reports[r] # <<>>
    /\ TryWrite(r, Head(reports[r]))
    /\ reports' = [reports EXCEPT ![r] = Tail(@)]
    /\ UNCHANGED <<loadVars, serviceVars, age, publisherVars, streamVars, working, cancels>>

\* The row is not changed; only a worker that has the run hears of it.
CancelTaskRun(r) ==
    /\ up /\ (taskRow \/ ReadBefore) /\ status[r] \in Live
    /\ r \in working \ cancels
    /\ cancels' = cancels \cup {r}
    /\ UNCHANGED <<loadVars, serviceVars, status, age, publisherVars, streamVars, working,
                   reports>>

---------------------------------------------------------------------------
Load(l) == LoadTask(l) \/ StoreSchedule(l) \/ LoadEnds(l)
Publish(r) == Produce(r) \/ ProduceAfterSetup(r) \/ ProduceFails(r) \/ FailRound(r)
Publisher == BeginRound \/ WriteQueued \/ AbortRound \/ \E r \in Runs : Publish(r)
Worker(r) == TakeRun(r) \/ WorkerDies(r) \/ \E v \in Verdict : FinishRun(r, v)

Step ==
    \/ Crash \/ Boot \/ PostInstall \/ Tick \/ Publisher
    \/ \E l \in Loaders : Load(l)
    \/ \E r \in Runs : \/ CreateScheduled(r) \/ RunTask(r) \/ Worker(r)
                       \/ ConsumeResponse(r) \/ CancelTaskRun(r)

Listed == batch \cup ({sending} \ {None})

\* The load has stored some schedules and has others to store.
Underway(l) == loading[l] \notin {None, Order, <<>>}

\* Some schedules of the specification are stored, others are not, and no load is storing them.
BrokenOff == schedules \notin {{}, Schedules} /\ \A l \in Loaders : ~Underway(l)

\* The ghosts follow the rows.
Observe ==
    /\ offBooks' = {r \in Runs :
          /\ status'[r] \in Running
          /\ r \in offBooks \/ (status[r] \notin Running /\ r \notin Listed)}
    /\ again' = again \cup ((queue' \ queue) \cap stored) \cup ((working' \ working) \cap queue')
    /\ listed' = IF batch = {} /\ batch' # {} THEN Cardinality(batch') ELSE listed
    /\ broken' = (schedules' # {} /\ (broken \/ BrokenOff'))
    /\ crossed' = IF schedules # {} /\ schedules' = {} THEN \E l \in Requests : Underway(l)
                  ELSE crossed

Next == Step /\ Observe
Spec == Init /\ [][Next]_vars

\* The service is started again by the cluster, the publisher of a task that was started
\* loops on a ticker, and time passes.
FairSpec ==
    /\ Spec
    /\ WF_vars(Boot /\ Observe)
    /\ WF_vars(Publisher /\ Observe)
    /\ WF_vars(Tick /\ Observe)

---------------------------------------------------------------------------
TypeOK ==
    /\ up \in BOOLEAN /\ taskRow \in BOOLEAN /\ started \in BOOLEAN
    /\ job \in JobPhase /\ schedules \in SUBSET Schedules
    /\ loading \in [Loaders -> Seq(Schedules) \cup {None}]
    /\ status \in [Runs -> RunStatus]
    /\ age \in [Runs -> 0..MaxAge]
    /\ batch \in SUBSET Runs /\ sending \in Runs \cup {None}
    /\ stored \in SUBSET Runs /\ queue \in SUBSET Runs /\ working \in SUBSET Runs
    /\ reports \in [Runs -> Seq({"IN_PROGRESS"} \cup Verdict)]
    /\ cancels \in SUBSET Runs /\ again \in SUBSET Runs /\ offBooks \in SUBSET Runs
    /\ listed \in Nat /\ broken \in BOOLEAN /\ crossed \in BOOLEAN

\* The number of running runs exceeds the limit by one round's list at most, whatever late
\* results, crashes and time outs do in between: the limit is tested before the list is
\* made and not against its length.  Not counted are runs that began to run without being
\* listed (FAILED or timed out before, or delivered again).
LimitKept == Cardinality(RunningIn(status) \ offBooks) <= Max + listed

\* A run of this task that a worker finished is only reopened by its own publication (its
\* late QUEUED, or a round that lists it again) or by a second delivery of its message.
FinishedStays ==
    [][\A r \in Runs : status[r] = "FINISHED" /\ status'[r] # "FINISHED" =>
          r \in Listed \cup again]_vars

\* A run is timed out less than a minute before the task's timeout at the earliest, however
\* its status changed and whenever the publisher was down or busy.
NotMuchTooEarly ==
    [][\A r \in Runs : status[r] # "TIMEOUT" /\ status'[r] = "TIMEOUT" =>
          age[r] + Minute > Timeout]_vars

\* A specification whose load broke off after some of its schedules is completed by no later
\* load: a schedule that is there makes each of them fail, the post-install job's too when it
\* could not delete the schedules or died before.  Only their deletion helps.  Excepted is
\* what a request left that went on storing behind a deletion.
PartialLoadStays ==
    [][broken /\ ~crossed /\ schedules' # schedules => schedules' = {}]_vars

\* Every run of a started task ends once the service stays up, whatever was lost before:
\* created, queued and started runs all time out, and nothing but a message brings one back.
Settles ==
    <>[]started => \A r \in Runs : (status[r] \in Live) ~> (status[r] \notin Live)
=============================================================================
