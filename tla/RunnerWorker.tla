---------------------------- MODULE RunnerWorker ----------------------------
(***************************************************************************)
(* Inside one compliance runner pod (jobs/compliance-runner-job): the      *)
(* message callback, which NATS runs for one message after the other, the  *)
(* pollAPI goroutine started for every message, and the RWMutex around     *)
(* canceledComplianceJobs.                                                 *)
(*                                                                         *)
(* A read section that returns its lock is one step.  Go blocks new        *)
(* readers as soon as a writer waits, so a read lock that is never         *)
(* returned blocks the first writer and then everybody.                    *)
(***************************************************************************)
EXTENDS Naturals

CONSTANTS Msgs,         \* runner job messages
          Parents,      \* compliance jobs
          ParentOf,     \* ParentOf[m]: the compliance job m belongs to
          None

ASSUME ParentAssumption ==
    /\ ParentOf \in [Msgs -> Parents]
    /\ None \notin Msgs

VARIABLES
    canceled,     \* compliance jobs the scheduler reports as canceled
    known,        \* canceledComplianceJobs of the pod
    queue,        \* messages in the stream
    at, cur,      \* where the callback is, and its message
    verdict,      \* result.Status of the callback before the second check
    poll,         \* poll[m]: where the pollAPI goroutine of m is
    writer,       \* the goroutine in Lock(), waiting or not, or None
    leaked,       \* read locks that were not returned
    ctxDone,      \* messages whose context is canceled
    sent,         \* sent[m]: the last report published for m
    interrupted   \* ghost: messages whose query ended after cancelFunc()

vars == <<canceled, known, queue, at, cur, verdict, poll, writer, leaked, ctxDone,
          sent, interrupted>>
pollVars == <<canceled, queue, at, cur, verdict, leaked, sent, interrupted>>

Init ==
    /\ canceled = {} /\ known = {}
    /\ queue = Msgs
    /\ at = "idle" /\ cur = None /\ verdict = "NONE"
    /\ poll = [m \in Msgs |-> "off"]
    /\ writer = None /\ leaked = 0
    /\ ctxDone = {}
    /\ sent = [m \in Msgs |-> "NONE"]
    /\ interrupted = {}

\* CancelJobById or CancelJob of the scheduler (see RunnerPipeline).
CancelJob(j) ==
    /\ j \notin canceled
    /\ canceled' = canceled \cup {j}
    /\ UNCHANGED <<known, queue, at, cur, verdict, poll, writer, leaked, ctxDone,
                   sent, interrupted>>

---------------------------------------------------------------------------
(* The callback of Run, and ProcessMessage. *)

\* Acknowledge, start pollAPI, call ProcessMessage.
Receive(m) ==
    /\ at = "idle" /\ m \in queue
    /\ queue' = queue \ {m}
    /\ at' = "check" /\ cur' = m
    /\ poll' = [poll EXCEPT ![m] = "polling"]
    /\ UNCHANGED <<canceled, known, verdict, writer, leaked, ctxDone, sent, interrupted>>

\* The callback returns; its deferred cancel() ends the context.
Return ==
    /\ at' = "idle" /\ cur' = None
    /\ ctxDone' = ctxDone \cup {cur}

\* The job is known to be canceled: return, between RLock and RUnlock.
SkipCanceled ==
    /\ at = "check" /\ writer = None
    /\ ParentOf[cur] \in known
    /\ leaked' = leaked + 1
    /\ Return
    /\ UNCHANGED <<canceled, known, queue, verdict, poll, writer, sent, interrupted>>

\* Otherwise report IN_PROGRESS and run the query.
StartRun ==
    /\ at = "check" /\ writer = None
    /\ ParentOf[cur] \notin known
    /\ at' = "run"
    /\ sent' \in {sent, [sent EXCEPT ![cur] = "IN_PROGRESS"]}
    /\ UNCHANGED <<canceled, known, queue, cur, verdict, poll, writer, leaked, ctxDone,
                   interrupted>>

RunEnds(v) ==
    /\ at = "run"
    /\ v \in {"SUCCEEDED", "FAILED"}
    /\ at' = "recheck"
    /\ verdict' = v
    /\ interrupted' = IF cur \in ctxDone THEN interrupted \cup {cur} ELSE interrupted
    /\ UNCHANGED <<canceled, known, queue, cur, poll, writer, leaked, ctxDone, sent>>

\* Mutant: the deferred function does not look again.
ReportVerdict ==
    /\ at = "recheck" /\ writer = None
    /\ sent' \in {sent, [sent EXCEPT ![cur] = verdict]}
    /\ verdict' = "NONE"
    /\ Return
    /\ UNCHANGED <<canceled, known, queue, poll, writer, leaked, interrupted>>

\* The deferred function: CANCELED when the job is known to be canceled.  Publishing
\* may fail, and does when the context it is given is canceled.
Report ==
    /\ at = "recheck" /\ writer = None
    /\ LET v == IF ParentOf[cur] \in known THEN "CANCELED" ELSE verdict IN
       sent' \in {sent, [sent EXCEPT ![cur] = v]}
    /\ verdict' = "NONE"
    /\ Return
    /\ UNCHANGED <<canceled, known, queue, poll, writer, leaked, interrupted>>

---------------------------------------------------------------------------
(* pollAPI: asks at once and then every 15 seconds. *)

\* Mutant: the answer is not matched with the job that was asked for.
PollSeesAnyCanceled(m) ==
    /\ poll[m] = "polling" /\ canceled # {}
    /\ poll' = [poll EXCEPT ![m] = "locking"]
    /\ UNCHANGED <<pollVars, known, writer, ctxDone>>

PollSeesCanceled(m) ==
    /\ poll[m] = "polling" /\ ParentOf[m] \in canceled
    /\ poll' = [poll EXCEPT ![m] = "locking"]
    /\ UNCHANGED <<pollVars, known, writer, ctxDone>>

\* Lock() announces the writer, ...
PollLocks(m) ==
    /\ poll[m] = "locking" /\ writer = None
    /\ writer' = m
    /\ UNCHANGED <<pollVars, known, poll, ctxDone>>

\* ... waits for the readers, and the job is noted.
PollNotes(m) ==
    /\ writer = m /\ leaked = 0
    /\ known' = known \cup {ParentOf[m]}
    /\ writer' = None
    /\ poll' = [poll EXCEPT ![m] = "noted"]
    /\ UNCHANGED <<pollVars, ctxDone>>

\* Mutant: the job is noted, its context stays.
PollOnlyNotes(m) ==
    /\ poll[m] = "noted"
    /\ poll' = [poll EXCEPT ![m] = "off"]
    /\ UNCHANGED <<pollVars, known, writer, ctxDone>>

\* cancelFunc()
PollCancels(m) ==
    /\ poll[m] = "noted"
    /\ ctxDone' = ctxDone \cup {m}
    /\ poll' = [poll EXCEPT ![m] = "off"]
    /\ UNCHANGED <<pollVars, known, writer>>

PollStops(m) ==
    /\ poll[m] = "polling" /\ m \in ctxDone
    /\ poll' = [poll EXCEPT ![m] = "off"]
    /\ UNCHANGED <<pollVars, known, writer, ctxDone>>

---------------------------------------------------------------------------
Poll(m) == PollSeesCanceled(m) \/ PollLocks(m) \/ PollNotes(m) \/ PollCancels(m)

Callback == SkipCanceled \/ StartRun \/ Report

Next ==
    \/ \E j \in Parents : CancelJob(j)
    \/ \E m \in Msgs : Receive(m) \/ Poll(m) \/ PollStops(m)
    \/ Callback
    \/ \E v \in {"SUCCEEDED", "FAILED"} : RunEnds(v)

Spec == Init /\ [][Next]_vars

\* Goroutines run, the API is asked again and again; a query may hang for ever, except
\* that it ends when its context is canceled.
FairSpec ==
    /\ Spec
    /\ \A m \in Msgs : WF_vars(Poll(m))
    /\ WF_vars(Callback)
    /\ WF_vars(cur \in ctxDone /\ \E v \in {"SUCCEEDED", "FAILED"} : RunEnds(v))

---------------------------------------------------------------------------
Verdicts == {"SUCCEEDED", "FAILED", "CANCELED"}

TypeOK ==
    /\ canceled \in SUBSET Parents
    /\ known \in SUBSET Parents
    /\ queue \in SUBSET Msgs
    /\ at \in {"idle", "check", "run", "recheck"}
    /\ cur \in Msgs \cup {None}
    /\ at # "idle" => cur # None
    /\ verdict \in {"NONE", "SUCCEEDED", "FAILED"}
    /\ poll \in [Msgs -> {"off", "polling", "locking", "noted"}]
    /\ writer \in Msgs \cup {None}
    /\ leaked \in Nat
    /\ ctxDone \in SUBSET Msgs
    /\ sent \in [Msgs -> {"NONE", "IN_PROGRESS"} \cup Verdicts]
    /\ interrupted \in SUBSET Msgs

\* A query that ended because pollAPI canceled its context is never reported as FAILED
\* or SUCCEEDED: the job is noted before cancelFunc() is called, and is looked up again
\* after the query.
InterruptedIsCanceled ==
    \A m \in interrupted : sent[m] \in {"NONE", "IN_PROGRESS", "CANCELED"}

\* A runner is reported CANCELED only when its own compliance job was canceled, although
\* the pod keeps one map for all jobs and never removes an entry.
CanceledIsCanceled ==
    \A m \in Msgs : sent[m] = "CANCELED" => ParentOf[m] \in canceled

\* As long as no message was skipped, neither goroutine waits for the lock for ever, and
\* a query of a canceled job is stopped even when it hangs.
StopsUnlessSkipped ==
    \A m \in Msgs :
        cur = m /\ at # "idle" /\ ParentOf[m] \in canceled
            ~> at = "idle" \/ cur # m \/ leaked > 0

\* "pollAPI runs every 15 seconds and cancels the process if needed" (service.go:348).
\* It does not hold once a message was skipped: pollAPI then waits for the lock.
PollCancelsProcess ==
    \A m \in Msgs :
        cur = m /\ at = "run" /\ ParentOf[m] \in canceled ~> cur # m \/ at # "run"
=============================================================================
