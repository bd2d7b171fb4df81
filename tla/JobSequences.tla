---------------------------- MODULE JobSequences ----------------------------
(***************************************************************************)
(* Work of the scheduler that waits for describe jobs.  A quick-scan       *)
(* sequence is run by a goroutine: it describes all resource types of a    *)
(* framework, waits for them, creates a compliance job without incidents   *)
(* for every ten integrations and waits for these.  A job sequence is a    *)
(* row which a loop looks at: when its describe jobs have ended, the       *)
(* runners of the next job are inserted.                                   *)
(*                                                                         *)
(* Also here: the publisher, worker and consumer of quick-run jobs.        *)
(* Describe jobs do all that DescribeTable, which DescribeJob implements,  *)
(* allows them.                                                            *)
(***************************************************************************)
EXTENDS Integers, FiniteSets, Sequences

CONSTANTS Scans,      \* ids of quick-scan sequences
          Seqs,       \* ids of job sequences
          Jobs,       \* ids of describe jobs, each used once
          Pairs,      \* an integration and a resource type
          PairOf,     \* PairOf[d]
          Needs,      \* Needs[q]: what the framework and the integrations of q may ask for
          Wants,      \* Wants[x]: what the request that makes x describes
          Supported,  \* sequences whose next job runNextJob knows (BenchmarkRunner)
          MaxStarts,  \* goroutines of a quick scan
          MaxParts,   \* compliance jobs a goroutine makes
          MaxMade,    \* batches of runners of a sequence
          None

ASSUME SequencesAssumption ==
    /\ IsFiniteSet(Scans) /\ IsFiniteSet(Seqs) /\ IsFiniteSet(Jobs)
    /\ PairOf \in [Jobs -> Pairs]
    /\ Needs \in [Scans -> SUBSET Pairs] /\ Wants \in [Seqs -> SUBSET Pairs]
    /\ Supported \in SUBSET Seqs
    /\ MaxStarts \in Nat /\ MaxParts \in Nat /\ MaxMade \in Nat
    /\ None \notin Scans \cup Seqs

Flows == Scans \X (1..MaxStarts)     \* goroutines
Runs == Flows \X (1..MaxParts)       \* the compliance jobs they create
Sendings == Runs \X {"listed", "sent"}

ASSUME NoSending == None \notin Sendings

VARIABLES
    up,        \* the scheduler runs
    dstatus,   \* describe jobs
    parent,    \* the quick scan that asked for a describe job, or None
    settled,   \* jobs whose documents are in the index, or that ended a day ago
    scan,      \* rows of quick-scan sequences
    parts,     \* parts[q]: tens of integrations the request for q names, the last one begun
    pc,        \* goroutines: where they are
    asked,     \* asked[f]: pairs goroutine f found it has to describe
    todo,      \* those still to be described
    at,        \* at[f]: compliance jobs f has made or, while it watches them, looked at
    run,       \* rows of quick-run compliance jobs
    old,       \* created an hour ago
    sending,   \* <<r, "listed">> or <<r, "sent">> while the publisher is busy, or None
    sent, queue, working, reports,
    seq, deps, \* rows of job sequences and their dependency lists
    batch,     \* sequences the loop has listed
    cur,       \* the one it looks at, or None
    left,      \* its dependencies still to be checked
    phase,     \* "check", "insert" or "mark"
    made,      \* made[x]: batches of runners inserted for x
    \* ghosts:
    ended,     \* describe jobs that have ended at least once
    described, \* goroutines that went on when a job of the scan had ended for all they asked for
    ranOut,    \* quick-run jobs that have ended at least once
    torn       \* torn[x]: batches inserted for x without x being marked

describeVars == <<dstatus, parent, settled>>
flowVars == <<scan, parts, pc, asked, todo, at>>
runVars == <<run, old, sending, sent, queue, working, reports>>
loopVars == <<batch, cur, left, phase>>
seqVars == <<seq, deps, loopVars, made>>
vars == <<up, describeVars, flowVars, runVars, seqVars, ended, described, ranOut, torn>>

LiveJob == {"LIVE", "OLD_RESOURCE_DELETION"}
DoneJob == {"SUCCEEDED", "FAILED", "TIMEOUT"}
Begun == {"STARTED", "FETCH_DEPENDENCIES", "RUNNING_COMPLIANCE_QUICK_SCAN"}
Outcome == {"FAILED", "FINISHED"}
LiveRun == {"CREATED", "QUEUED", "IN_PROGRESS"}
EndedRun == {"SUCCEEDED", "FAILED", "CANCELED", "TIMEOUT"}
Idle == {"idle", "gone"}

Init ==
    /\ up = TRUE
    /\ dstatus = [d \in Jobs |-> "NONE"] /\ parent = [d \in Jobs |-> None]
    /\ settled = {}
    /\ scan = [q \in Scans |-> "NONE"]
    /\ parts = [q \in Scans |-> 0]
    /\ pc = [f \in Flows |-> "idle"] /\ at = [f \in Flows |-> 0]
    /\ asked = [f \in Flows |-> {}] /\ todo = [f \in Flows |-> {}]
    /\ run = [r \in Runs |-> "NONE"] /\ old = {} /\ sending = None
    /\ sent = {} /\ queue = {} /\ working = {} /\ reports = [r \in Runs |-> <<>>]
    /\ seq = [x \in Seqs |-> "NONE"] /\ deps = [x \in Seqs |-> {}]
    /\ batch = {} /\ cur = None /\ left = {} /\ phase = "check"
    /\ made = [x \in Seqs |-> 0]
    /\ ended = {} /\ described = {} /\ ranOut = {} /\ torn = [x \in Seqs |-> 0]

---------------------------------------------------------------------------
(* Describe jobs. *)

Busy(p) == \E d \in Jobs : PairOf[d] = p /\ dstatus[d] \in LiveJob

\* The scheduler and other requests describe too; jobs of a pair that is busy are created by
\* callers that raced (DescribeJob: OneLive).
DescribeForOthers(d) ==
    /\ dstatus[d] = "NONE"
    /\ dstatus' = [dstatus EXCEPT ![d] = "LIVE"]
    /\ UNCHANGED <<up, parent, settled, flowVars, runVars, seqVars>>

JobStep(d) ==
    /\ \E s \in DoneJob \cup {"CANCELED", "OLD_RESOURCE_DELETION"} :
          /\ dstatus[d] \in LiveJob /\ s # dstatus[d]
          /\ dstatus' = [dstatus EXCEPT ![d] = s]
    /\ UNCHANGED <<up, parent, settled, flowVars, runVars, seqVars>>

\* An end is not the end: the job is put to work again by the retry or the goroutine that had
\* picked it, a late result finds resources to delete, or only the kind of end changes.  What
\* it then finds may not be in the index yet.
JobComesBack(d) ==
    /\ \/ /\ dstatus[d] \in DoneJob \cup {"CANCELED"}
          /\ \E s \in LiveJob \cup {"SUCCEEDED", "FAILED", "CANCELED"} :
                dstatus' = [dstatus EXCEPT ![d] = s]
       \/ /\ dstatus[d] = "OLD_RESOURCE_DELETION"
          /\ dstatus' = [dstatus EXCEPT ![d] = "LIVE"]
    /\ settled' = settled \/ settled' = settled \ {d}
    /\ UNCHANGED <<up, parent, flowVars, runVars, seqVars>>

\* Only looked at for jobs that a sequence waits for.
Settle(d) ==
    /\ dstatus[d] \in DoneJob /\ d \notin settled /\ \E x \in Seqs : d \in deps[x]
    /\ settled' = settled \cup {d}
    /\ UNCHANGED <<up, dstatus, parent, flowVars, runVars, seqVars>>

---------------------------------------------------------------------------
(* Quick-scan sequences. *)

WriteScan(q, s) == scan' = [scan EXCEPT ![q] = s]
Goto(f, l) == pc' = [pc EXCEPT ![f] = l]

\* The integrations are not looked at, and there may be none.
CreateSequence(q) ==
    /\ up /\ scan[q] = "NONE"
    /\ WriteScan(q, "CREATED")
    /\ \E n \in 0..MaxParts : parts' = [parts EXCEPT ![q] = n]
    /\ UNCHANGED <<up, describeVars, pc, asked, todo, at, runVars, seqVars>>

IdleOf(q) == {g \in 1..MaxStarts : pc[<<q, g>>] = "idle"}
FirstIdle(f) == f[2] \in IdleOf(f[1]) /\ \A g \in IdleOf(f[1]) : f[2] <= g

\* Mutant: rows that began are listed too, so that a restart takes them up.
CheckUnfinishedSequence ==
    /\ up
    /\ \A q \in Scans : scan[q] \in {"CREATED"} \cup Begun => IdleOf(q) # {}
    /\ pc' = [f \in Flows |->
                IF scan[f[1]] \in {"CREATED"} \cup Begun /\ FirstIdle(f) THEN "start" ELSE pc[f]]
    /\ UNCHANGED <<up, describeVars, scan, parts, asked, todo, at, runVars, seqVars>>

\* A goroutine for every CREATED row, and the next round sees it until it has been started.
CheckQuickScanSequence ==
    /\ up
    /\ \E q \in Scans : scan[q] = "CREATED"
    /\ \A q \in Scans : scan[q] = "CREATED" => IdleOf(q) # {}
    /\ pc' = [f \in Flows |-> IF scan[f[1]] = "CREATED" /\ FirstIdle(f) THEN "start" ELSE pc[f]]
    /\ UNCHANGED <<up, describeVars, scan, parts, asked, todo, at, runVars, seqVars>>

\* STARTED, then the resource types and integrations are asked for.  Types that an integration
\* does not have, tables without a type and integrations that are not found are left out.
StartScan(f) ==
    /\ pc[f] = "start"
    /\ WriteScan(f[1], "STARTED") /\ Goto(f, "describe")
    /\ \E P \in SUBSET Needs[f[1]] :
          asked' = [asked EXCEPT ![f] = P] /\ todo' = [todo EXCEPT ![f] = P]
    /\ UNCHANGED <<up, describeVars, parts, at, runVars, seqVars>>

\* A job in progress for one pair fails the sequence, unless it is not the one of the pair
\* that was updated last.
DescribeOne(f, p) ==
    /\ pc[f] = "describe" /\ p \in todo[f]
    /\ \/ \E d \in Jobs :
             /\ dstatus[d] = "NONE" /\ PairOf[d] = p
             /\ dstatus' = [dstatus EXCEPT ![d] = "LIVE"]
             /\ parent' = [parent EXCEPT ![d] = f[1]]
             /\ todo' = [todo EXCEPT ![f] = @ \ {p}]
             /\ UNCHANGED <<pc, settled>>
       \/ /\ Busy(p) \/ \A d \in Jobs : PairOf[d] = p => dstatus[d] # "NONE"
          /\ Goto(f, "bad") /\ UNCHANGED <<todo, describeVars>>
    /\ UNCHANGED <<up, scan, parts, asked, at, runVars, seqVars>>

BeginWait(f) ==
    /\ pc[f] = "describe" /\ todo[f] = {}
    /\ WriteScan(f[1], "FETCH_DEPENDENCIES") /\ Goto(f, "wait")
    /\ UNCHANGED <<up, describeVars, parts, asked, todo, at, runVars, seqVars>>

\* Mutant: jobs that only delete what is old do not count.
JobsNotDoneButDeleting(q) == {d \in Jobs : parent[d] = q /\ dstatus[d] = "LIVE"}

\* CheckJobsDoneByParentIDAndCreatedBy
JobsNotDone(q) == {d \in Jobs : parent[d] = q /\ dstatus[d] \in LiveJob}

\* Mutant: the ten minutes of the step are enforced, and its goroutine runs on.
PollWithTimeout(f) ==
    /\ pc[f] = "wait"
    /\ \/ JobsNotDone(f[1]) = {} /\ Goto(f, "create") /\ UNCHANGED scan
       \/ WriteScan(f[1], "FAILED") /\ UNCHANGED pc
    /\ UNCHANGED <<up, describeVars, parts, asked, todo, at, runVars, seqVars>>

Poll(f) ==
    /\ pc[f] = "wait"
    /\ JobsNotDone(f[1]) = {} /\ Goto(f, "create")
    /\ UNCHANGED <<up, describeVars, scan, parts, asked, todo, at, runVars, seqVars>>

\* One after the other, a job for every ten integrations and one for the rest: none without
\* integrations.  An error in between (BreakOff) leaves those that were made.
CreateScanJob(f) ==
    /\ pc[f] = "create" /\ at[f] < parts[f[1]]
    /\ at' = [at EXCEPT ![f] = @ + 1]
    /\ run' = [run EXCEPT ![<<f, at[f] + 1>>] = "CREATED"]
    /\ UNCHANGED <<up, describeVars, scan, parts, pc, asked, todo, old, sending, sent, queue,
                   working, reports, seqVars>>

MarkScan(f) ==
    /\ pc[f] = "create" /\ at[f] = parts[f[1]]
    /\ WriteScan(f[1], "RUNNING_COMPLIANCE_QUICK_SCAN") /\ Goto(f, "watch")
    /\ at' = [at EXCEPT ![f] = 0]
    /\ UNCHANGED <<up, describeVars, parts, asked, todo, runVars, seqVars>>

\* Mutant: the first job that has ended ends the wait.
WatchFirstJob(f) ==
    /\ pc[f] = "watch"
    /\ parts[f[1]] = 0 \/ \E k \in 1..parts[f[1]] : run[<<f, k>>] \in EndedRun
    /\ Goto(f, "ok")
    /\ UNCHANGED <<up, describeVars, scan, parts, asked, todo, at, runVars, seqVars>>

\* A round reads job by job; one that has not ended makes another round necessary.
WatchScanJobs(f) ==
    /\ pc[f] = "watch"
    /\ \/ at[f] = parts[f[1]] /\ Goto(f, "ok") /\ UNCHANGED at
       \/ /\ at[f] < parts[f[1]] /\ UNCHANGED pc
          /\ at' = [at EXCEPT ![f] = IF run[<<f, at[f] + 1>>] \in EndedRun THEN @ + 1 ELSE 0]
    /\ UNCHANGED <<up, describeVars, scan, parts, asked, todo, runVars, seqVars>>

\* Any error on the way, of a write, a query or another service.
BreakOff(f) ==
    /\ pc[f] \notin Idle \cup {"ok", "bad"}
    /\ Goto(f, "bad")
    /\ UNCHANGED <<up, describeVars, scan, parts, asked, todo, at, runVars, seqVars>>

\* The deferred write, whose error is only logged.
EndScan(f) ==
    /\ pc[f] \in {"ok", "bad"}
    /\ \/ WriteScan(f[1], IF pc[f] = "ok" THEN "FINISHED" ELSE "FAILED")
       \/ UNCHANGED scan
    /\ Goto(f, "gone")
    /\ UNCHANGED <<up, describeVars, parts, asked, todo, at, runVars, seqVars>>

---------------------------------------------------------------------------
(* Quick-run compliance jobs: publisher, worker, consumer, cancel requests. *)

Age(r) ==
    /\ run[r] # "NONE" /\ r \notin old
    /\ old' = old \cup {r}
    /\ UNCHANGED <<up, describeVars, flowVars, run, sending, sent, queue, working, reports, seqVars>>

\* Mutant: only jobs that are published time out.
SweptWhenPublished ==
    [r \in Runs |-> IF r \in old /\ run[r] \in {"QUEUED", "IN_PROGRESS"} THEN "TIMEOUT" ELSE run[r]]

\* UpdateComplianceJobsTimedOut(false, 60)
SweptRuns == [r \in Runs |-> IF r \in old /\ run[r] \in LiveRun THEN "TIMEOUT" ELSE run[r]]

\* ListCreatedComplianceJobs: the first one only.
BeginRunRound ==
    /\ up /\ sending = None
    /\ run' = SweptRuns
    /\ \/ \E r \in Runs : run'[r] = "CREATED" /\ sending' = <<r, "listed">>
       \/ (\A r \in Runs : run'[r] # "CREATED") /\ UNCHANGED sending
    /\ UNCHANGED <<up, describeVars, flowVars, old, sent, queue, working, reports, seqVars>>

StoreRun(r) ==
    /\ sent' = sent \cup {r}
    /\ \/ queue' = queue \cup {r}
       \/ r \in sent /\ UNCHANGED queue

WriteRun(r, s) == run' = [run EXCEPT ![r] = s]
TryWriteRun(r, s) == WriteRun(r, s) \/ UNCHANGED run

ProduceRun(r) ==
    /\ sending = <<r, "listed">>
    /\ \/ StoreRun(r) /\ sending' = <<r, "sent">> /\ UNCHANGED run
       \/ /\ StoreRun(r) \/ UNCHANGED <<sent, queue>>      \* FAILED, possibly though stored
          /\ TryWriteRun(r, "FAILED") /\ sending' = None
       \/ UNCHANGED <<sent, queue, run>> /\ sending' = None \* streams cannot be set up
    /\ UNCHANGED <<up, describeVars, flowVars, old, working, reports, seqVars>>

WriteRunQueued(r) ==
    /\ sending = <<r, "sent">>
    /\ TryWriteRun(r, "QUEUED") /\ sending' = None
    /\ UNCHANGED <<up, describeVars, flowVars, old, sent, queue, working, reports, seqVars>>

ReportRun(r, s) ==
    \/ reports' = [reports EXCEPT ![r] = Append(@, s)]
    \/ UNCHANGED reports

\* MaxDeliver is one: what a worker that dies had is not delivered again.
TakeRun(r) ==
    /\ r \in queue /\ queue' = queue \ {r} /\ working' = working \cup {r}
    /\ ReportRun(r, "IN_PROGRESS")
    /\ UNCHANGED <<up, describeVars, flowVars, run, old, sending, sent, seqVars>>

FinishRun(r) ==
    /\ r \in working /\ working' = working \ {r}
    /\ ReportRun(r, "SUCCEEDED") \/ ReportRun(r, "FAILED")
    /\ UNCHANGED <<up, describeVars, flowVars, run, old, sending, sent, queue, seqVars>>

\* Acknowledged first.
ConsumeRunResult(r) ==
    /\ up /\ reports[r] # <<>>
    /\ TryWriteRun(r, Head(reports[r]))
    /\ reports' = [reports EXCEPT ![r] = Tail(@)]
    /\ UNCHANGED <<up, describeVars, flowVars, old, sending, sent, queue, working, seqVars>>

\* CancelJob: the job has no runners, and its message stays.  The status is read before and
\* may have changed since.
CancelRun(r) ==
    /\ up /\ run[r] # "NONE"
    /\ WriteRun(r, "CANCELED")
    /\ UNCHANGED <<up, describeVars, flowVars, old, sending, sent, queue, working, reports, seqVars>>

---------------------------------------------------------------------------
(* Job sequences. *)

\* ReEvaluateComplianceJob, and the trigger of all describe jobs of an integration: what
\* cannot be described now is not waited for.
CreateJobSequence(x) ==
    /\ up /\ seq[x] = "NONE"
    /\ \E D \in SUBSET Jobs :
          /\ \A d \in D : dstatus[d] = "NONE" /\ PairOf[d] \in Wants[x]
          /\ \A c, d \in D : PairOf[c] = PairOf[d] => c = d
          /\ dstatus' = [d \in Jobs |-> IF d \in D THEN "LIVE" ELSE dstatus[d]]
          /\ deps' = [deps EXCEPT ![x] = D]
    /\ seq' = [seq EXCEPT ![x] = "WaitingForDependencies"]
    /\ UNCHANGED <<up, parent, settled, flowVars, runVars, loopVars, made>>

Waiting(x) == seq[x] = "WaitingForDependencies"

\* Mutant: the status is not asked for.
ListAllSequences ==
    /\ up /\ batch = {} /\ cur = None
    /\ batch' = {x \in Seqs : seq[x] # "NONE"}
    /\ UNCHANGED <<up, describeVars, flowVars, runVars, seq, deps, cur, left, phase, made>>

ListSequences ==
    /\ up /\ batch = {} /\ cur = None
    /\ \E x \in Seqs : Waiting(x)
    /\ batch' = {x \in Seqs : Waiting(x)}
    /\ UNCHANGED <<up, describeVars, flowVars, runVars, seq, deps, cur, left, phase, made>>

NextSequence(x) ==
    /\ x \in batch /\ cur = None
    /\ batch' = batch \ {x} /\ cur' = x /\ left' = deps[x] /\ phase' = "check"
    /\ UNCHANGED <<up, describeVars, flowVars, runVars, seq, deps, made>>

Leave == cur' = None /\ left' = {} /\ phase' = "check"

\* Mutant: a job that only deletes what is old has ended.
CheckDependencyButDeleting(d) ==
    /\ cur # None /\ phase = "check" /\ d \in left
    /\ IF dstatus[d] = "OLD_RESOURCE_DELETION" \/ (dstatus[d] \in DoneJob /\ d \in settled)
       THEN left' = left \ {d} /\ UNCHANGED <<batch, cur, phase>>
       ELSE Leave /\ UNCHANGED batch
    /\ UNCHANGED <<up, describeVars, flowVars, runVars, seq, deps, made>>

\* resolveDescribeDependency, job by job: it ended, not by being canceled, and nine tenths of
\* its resources are in the index, or it ended a day ago.
CheckDependency(d) ==
    /\ cur # None /\ phase = "check" /\ d \in left
    /\ IF dstatus[d] \in DoneJob /\ d \in settled
       THEN left' = left \ {d} /\ UNCHANGED <<batch, cur, phase>>
       ELSE Leave /\ UNCHANGED batch
    /\ UNCHANGED <<up, describeVars, flowVars, runVars, seq, deps, made>>

BeginNextJob ==
    /\ cur # None /\ phase = "check" /\ left = {}
    /\ cur \in Supported
    /\ phase' = "insert"
    /\ UNCHANGED <<up, describeVars, flowVars, runVars, seq, deps, batch, cur, left, made>>

\* The runners are inserted in one transaction and the sequence is marked after it.
InsertRunners ==
    /\ phase = "insert" /\ made[cur] < MaxMade
    /\ made' = [made EXCEPT ![cur] = @ + 1]
    /\ phase' = "mark"
    /\ UNCHANGED <<up, describeVars, flowVars, runVars, seq, deps, batch, cur, left>>

\* There are none: marked with no ids, nothing inserted.
NoRunners ==
    /\ phase = "insert"
    /\ seq' = [seq EXCEPT ![cur] = "FINISHED"]
    /\ Leave
    /\ UNCHANGED <<up, describeVars, flowVars, runVars, deps, batch, made>>

MarkSequence ==
    /\ phase = "mark"
    /\ seq' = [seq EXCEPT ![cur] = "FINISHED"]
    /\ Leave
    /\ UNCHANGED <<up, describeVars, flowVars, runVars, deps, batch, made>>

\* Any error: a dependency cannot be read, the next job is of another kind, the framework
\* cannot be read, the insertion or the mark fails.
FailSequence ==
    /\ cur # None /\ Leave
    /\ seq' = [seq EXCEPT ![cur] = "Failed"]
    /\ UNCHANGED <<up, describeVars, flowVars, runVars, deps, batch, made>>

\* An error, and Failed cannot be written either: the round ends.
AbortRound ==
    /\ cur # None /\ Leave
    /\ batch' = {}
    /\ UNCHANGED <<up, describeVars, flowVars, runVars, seq, deps, made>>

---------------------------------------------------------------------------
(* The scheduler stops, at any moment, and starts again. *)

Crash ==
    /\ up /\ up' = FALSE
    /\ pc' = [f \in Flows |-> IF pc[f] = "idle" THEN "idle" ELSE "gone"]
    /\ sending' = None
    /\ batch' = {} /\ Leave
    /\ UNCHANGED <<describeVars, scan, parts, asked, todo, at, run, old, sent, queue, working,
                   reports, seq, deps, made>>

WorkerDies(r) ==
    /\ r \in working /\ working' = working \ {r}
    /\ UNCHANGED <<up, describeVars, flowVars, run, old, sending, sent, queue, reports, seqVars>>

Boot ==
    /\ ~up /\ up' = TRUE
    /\ UNCHANGED <<describeVars, flowVars, runVars, seqVars>>

---------------------------------------------------------------------------
Goroutine(f) ==
    \/ StartScan(f) \/ BeginWait(f) \/ Poll(f) \/ CreateScanJob(f) \/ MarkScan(f)
    \/ WatchScanJobs(f) \/ EndScan(f)
    \/ \E p \in Pairs : DescribeOne(f, p)

RunPublisher == BeginRunRound \/ \E r \in Runs : ProduceRun(r) \/ WriteRunQueued(r)
RunWorker(r) == TakeRun(r) \/ FinishRun(r) \/ WorkerDies(r)

SequencerLoop ==
    \/ ListSequences \/ BeginNextJob \/ InsertRunners \/ NoRunners \/ MarkSequence \/ FailSequence
    \/ AbortRound
    \/ \E x \in Seqs : NextSequence(x)
    \/ \E d \in Jobs : CheckDependency(d)

Step ==
    \/ CheckQuickScanSequence \/ RunPublisher \/ SequencerLoop \/ Crash \/ Boot
    \/ \E d \in Jobs : DescribeForOthers(d) \/ JobStep(d) \/ JobComesBack(d) \/ Settle(d)
    \/ \E q \in Scans : CreateSequence(q)
    \/ \E f \in Flows : Goroutine(f) \/ BreakOff(f)
    \/ \E r \in Runs : Age(r) \/ RunWorker(r) \/ ConsumeRunResult(r) \/ CancelRun(r)
    \/ \E x \in Seqs : CreateJobSequence(x)

EndedFor(q, p) == \E d \in ended : parent[d] = q /\ PairOf[d] = p

\* The ghosts follow the rows.
Observe ==
    /\ ended' = ended \cup {d \in Jobs : dstatus'[d] \in DoneJob \cup {"CANCELED"}}
    /\ ranOut' = ranOut \cup {r \in Runs : run'[r] \in EndedRun}
    /\ described' = described \cup {f \in Flows :
                       pc[f] # pc'[f] /\ pc'[f] = "create" /\ \A p \in asked[f] : EndedFor(f[1], p)}
    /\ torn' = [x \in Seqs |->
                   IF cur = x /\ phase = "mark" /\ phase' # "mark" /\ seq'[x] # "FINISHED"
                   THEN torn[x] + 1 ELSE torn[x]]

Next == Step /\ Observe
Spec == Init /\ [][Next]_vars

\* Here every job may be put to work again.
Rows == INSTANCE DescribeTable WITH row <- dstatus, closed <- {}

\* The loops are started again and run on tickers, a goroutine that is not blocked goes on,
\* describe jobs end (DescribeJob: JobsEnd), and time passes.
FairSpec ==
    /\ Spec
    /\ WF_vars(Boot /\ Observe)
    /\ WF_vars(CheckQuickScanSequence /\ Observe)
    /\ WF_vars(RunPublisher /\ Observe)
    /\ WF_vars(SequencerLoop /\ Observe)
    /\ WF_vars((\E r \in Runs : Age(r)) /\ Observe)
    /\ WF_vars((\E d \in Jobs : Settle(d)) /\ Observe)
    /\ \A f \in Flows : WF_vars(Goroutine(f) /\ Observe)
    /\ \A d \in Jobs : WF_vars(JobStep(d) /\ Observe)

---------------------------------------------------------------------------
TypeOK ==
    /\ up \in BOOLEAN
    /\ dstatus \in [Jobs -> {"NONE", "CANCELED"} \cup LiveJob \cup DoneJob]
    /\ parent \in [Jobs -> Scans \cup {None}] /\ settled \in SUBSET Jobs
    /\ scan \in [Scans -> {"NONE", "CREATED"} \cup Begun \cup Outcome]
    /\ parts \in [Scans -> 0..MaxParts]
    /\ pc \in [Flows -> Idle \cup {"start", "describe", "wait", "create", "watch", "ok", "bad"}]
    /\ asked \in [Flows -> SUBSET Pairs] /\ todo \in [Flows -> SUBSET Pairs]
    /\ at \in [Flows -> 0..MaxParts]
    /\ run \in [Runs -> {"NONE"} \cup LiveRun \cup EndedRun]
    /\ old \in SUBSET Runs /\ sending \in {None} \cup Sendings
    /\ sent \in SUBSET Runs /\ queue \in SUBSET Runs /\ working \in SUBSET Runs
    /\ reports \in [Runs -> Seq({"IN_PROGRESS", "SUCCEEDED", "FAILED"})]
    /\ seq \in [Seqs -> {"NONE", "WaitingForDependencies", "FINISHED", "Failed"}]
    /\ deps \in [Seqs -> SUBSET Jobs]
    /\ batch \in SUBSET Seqs /\ cur \in Seqs \cup {None} /\ left \in SUBSET Jobs
    /\ phase \in {"check", "insert", "mark"} /\ (phase # "check" => cur # None)
    /\ made \in [Seqs -> Nat] /\ torn \in [Seqs -> Nat]
    /\ ended \in SUBSET Jobs /\ described \in SUBSET Flows /\ ranOut \in SUBSET Runs

\* A quick scan is FINISHED only after one goroutine of it went on to the compliance jobs
\* when a job of this scan had ended for all the goroutine asked for, and after every one of
\* its compliance jobs ended, though these are looked at one after the other and late results
\* and cancel requests move them, and whatever other goroutines, restarts and retries did.
FinishedWasScanned ==
    \A q \in Scans : scan[q] = "FINISHED" =>
        \E f \in described : f[1] = q /\ \A k \in 1..parts[q] : <<f, k>> \in ranOut

\* The outcome of a quick scan is only overwritten by a second goroutine: one that a round
\* started because the first had not written STARTED yet.
OutcomeStays ==
    [][\A q \in Scans : scan[q] \in Outcome /\ scan'[q] # scan[q] =>
          \E g \in 2..MaxStarts : pc[<<q, g>>] # "idle"]_vars

\* Nobody runs the scan any more.
Orphan(q) == scan[q] \in Begun /\ \A g \in 1..MaxStarts : pc[<<q, g>>] \in Idle

\* A scan whose goroutine is gone before the outcome was written keeps its status: no start
\* of the scheduler looks at rows that have begun.
OrphanStays ==
    [][\A q \in Scans : Orphan(q) => Orphan(q)' /\ scan'[q] = scan[q]]_vars

\* Runners are inserted once for each sequence, and once more for every time the sequence was
\* not marked after an insertion (a restart, or errors of both writes in between); a sequence
\* that was marked Failed after it counts as such too.
RunnersAccounted ==
    \A x \in Seqs :
        made[x] <= torn[x] + (IF seq[x] = "FINISHED" \/ (cur = x /\ phase = "mark") THEN 1 ELSE 0)

\* Runners of a sequence are inserted after each describe job it depends on has ended, though
\* the jobs are looked at one after the other, are retried and get late results meanwhile.
NextJobAfterDependencies ==
    [][\A x \in Seqs : made'[x] # made[x] => deps[x] \subseteq ended]_vars

\* When the scheduler stays up and can write, and the rows of ended describe jobs are not written
\* for ever, a quick scan gets an outcome or is an orphan, and a sequence leaves its waiting
\* state unless a job it waits for is CANCELED, which it takes for one that has not ended.
SequencesEnd ==
    <>[]up /\ <>[][~AbortRound /\ \A d \in Jobs : ~JobComesBack(d)]_vars =>
        /\ \A q \in Scans :
              (scan[q] = "CREATED") ~>
                 (scan[q] \in Outcome \/ Orphan(q) \/ \A g \in 1..MaxStarts : pc[<<q, g>>] = "gone")
        /\ \A x \in Seqs :
              Waiting(x) ~> \/ ~Waiting(x)
                            \/ \E d \in deps[x] : dstatus[d] = "CANCELED"
                            \/ made[x] = MaxMade
=============================================================================
