-------------------------- MODULE RunnerWorkerProofs --------------------------
(* Proofs about RunnerWorker, for any messages and compliance jobs. *)
EXTENDS RunnerWorker, TLAPS

\* A job is noted after the scheduler reported it canceled, by the one goroutine that has
\* the lock.
NotedIsCanceled ==
    /\ known \subseteq canceled
    /\ \A m \in Msgs :
          /\ poll[m] \in {"locking", "noted"} => ParentOf[m] \in canceled
          /\ poll[m] = "noted" => ParentOf[m] \in known
    /\ writer # None => poll[writer] = "locking"

\* A message that waits or is in hand has a live context, unless its job was noted.
LiveContext ==
    /\ cur \notin queue
    /\ \A m \in queue : poll[m] = "off" /\ m \notin ctxDone
    /\ cur \in ctxDone => ParentOf[cur] \in known

InterruptedIsKnown == \A m \in interrupted : ParentOf[m] \in known

\* No verdict was sent about a message that waits or is in hand.
NoVerdictYet ==
    \A m \in Msgs : m \in queue \/ (at # "idle" /\ cur = m)
                    => sent[m] \in {"NONE", "IN_PROGRESS"}

WorkerInv ==
    /\ TypeOK /\ NotedIsCanceled /\ LiveContext /\ InterruptedIsKnown /\ NoVerdictYet
    /\ InterruptedIsCanceled /\ CanceledIsCanceled

\* The steps of the callback.
LEMMA CallbackKeeps ==
    ASSUME WorkerInv, Callback \/ (\E m \in Msgs : Receive(m))
                      \/ \E v \in {"SUCCEEDED", "FAILED"} : RunEnds(v)
    PROVE  WorkerInv'
<1> USE ParentAssumption DEF WorkerInv, TypeOK, Return, Verdicts
<1>1. ASSUME NEW m \in Msgs, Receive(m) PROVE WorkerInv'
  <2>1. TypeOK'
    BY <1>1 DEF Receive
  <2>2. NotedIsCanceled'
    BY <1>1 DEF Receive, NotedIsCanceled, LiveContext
  <2>3. LiveContext'
    BY <1>1 DEF Receive, LiveContext
  <2>4. InterruptedIsKnown' /\ InterruptedIsCanceled' /\ CanceledIsCanceled'
    BY <1>1 DEF Receive, InterruptedIsKnown, InterruptedIsCanceled, CanceledIsCanceled
  <2>5. NoVerdictYet'
    BY <1>1 DEF Receive, NoVerdictYet
  <2> QED  BY <2>1, <2>2, <2>3, <2>4, <2>5
<1>2. CASE SkipCanceled
  <2>1. TypeOK'
    BY <1>2 DEF SkipCanceled
  <2>2. NotedIsCanceled' /\ InterruptedIsKnown' /\ InterruptedIsCanceled' /\ CanceledIsCanceled'
    BY <1>2 DEF SkipCanceled, NotedIsCanceled, InterruptedIsKnown, InterruptedIsCanceled,
       CanceledIsCanceled
  <2>3. LiveContext' /\ NoVerdictYet'
    BY <1>2 DEF SkipCanceled, LiveContext, NoVerdictYet
  <2> QED  BY <2>1, <2>2, <2>3
<1>3. CASE StartRun
  <2>1. TypeOK'
    BY <1>3 DEF StartRun
  <2>2. NotedIsCanceled' /\ LiveContext' /\ InterruptedIsKnown'
    BY <1>3 DEF StartRun, NotedIsCanceled, LiveContext, InterruptedIsKnown
  <2>3. InterruptedIsCanceled' /\ CanceledIsCanceled' /\ NoVerdictYet'
    BY <1>3 DEF StartRun, InterruptedIsCanceled, CanceledIsCanceled, NoVerdictYet
  <2> QED  BY <2>1, <2>2, <2>3
<1>4. CASE Report
  <2> DEFINE v == IF ParentOf[cur] \in known THEN "CANCELED" ELSE verdict
  <2>1. /\ cur \in Msgs /\ v \in {"NONE"} \cup Verdicts
        /\ sent' \in {sent, [sent EXCEPT ![cur] = v]}
    BY <1>4 DEF Report
  <2>2. TypeOK'
    BY <1>4, <2>1 DEF Report
  <2>3. NotedIsCanceled' /\ LiveContext' /\ InterruptedIsKnown'
    BY <1>4 DEF Report, NotedIsCanceled, LiveContext, InterruptedIsKnown
  <2>4. InterruptedIsCanceled'
    BY <1>4, <2>1 DEF Report, InterruptedIsCanceled, InterruptedIsKnown
  <2>5. CanceledIsCanceled'
    BY <1>4, <2>1 DEF Report, CanceledIsCanceled, NotedIsCanceled
  <2>6. NoVerdictYet'
    BY <1>4, <2>1 DEF Report, NoVerdictYet, LiveContext
  <2> QED  BY <2>2, <2>3, <2>4, <2>5, <2>6
<1>5. ASSUME NEW v \in {"SUCCEEDED", "FAILED"}, RunEnds(v) PROVE WorkerInv'
  <2>1. TypeOK'
    BY <1>5 DEF RunEnds
  <2>2. NotedIsCanceled' /\ LiveContext' /\ NoVerdictYet'
    BY <1>5 DEF RunEnds, NotedIsCanceled, LiveContext, NoVerdictYet
  <2>3. InterruptedIsKnown' /\ InterruptedIsCanceled'
    BY <1>5 DEF RunEnds, InterruptedIsKnown, InterruptedIsCanceled, NoVerdictYet, LiveContext
  <2>4. CanceledIsCanceled'
    BY <1>5 DEF RunEnds, CanceledIsCanceled
  <2> QED  BY <2>1, <2>2, <2>3, <2>4
<1> QED  BY <1>1, <1>2, <1>3, <1>4, <1>5 DEF Callback

\* The steps of the pollAPI goroutines, and a cancellation by the scheduler.
LEMMA PollKeeps ==
    ASSUME WorkerInv,
           (\E m \in Msgs : Poll(m) \/ PollStops(m)) \/ \E j \in Parents : CancelJob(j)
    PROVE  WorkerInv'
<1> USE ParentAssumption
    DEF WorkerInv, TypeOK, Verdicts, pollVars, NoVerdictYet, InterruptedIsCanceled
<1>1. ASSUME NEW m \in Msgs, PollSeesCanceled(m) PROVE WorkerInv'
  BY <1>1 DEF PollSeesCanceled, NotedIsCanceled, LiveContext, InterruptedIsKnown,
     CanceledIsCanceled
<1>2. ASSUME NEW m \in Msgs, PollLocks(m) PROVE WorkerInv'
  BY <1>2 DEF PollLocks, NotedIsCanceled, LiveContext, InterruptedIsKnown,
     CanceledIsCanceled
<1>3. ASSUME NEW m \in Msgs, PollNotes(m) PROVE WorkerInv'
  BY <1>3 DEF PollNotes, NotedIsCanceled, LiveContext, InterruptedIsKnown,
     CanceledIsCanceled
<1>4. ASSUME NEW m \in Msgs, PollCancels(m) PROVE WorkerInv'
  BY <1>4 DEF PollCancels, NotedIsCanceled, LiveContext, InterruptedIsKnown,
     CanceledIsCanceled
<1>5. ASSUME NEW m \in Msgs, PollStops(m) PROVE WorkerInv'
  BY <1>5 DEF PollStops, NotedIsCanceled, LiveContext, InterruptedIsKnown,
     CanceledIsCanceled
<1>6. ASSUME NEW j \in Parents, CancelJob(j) PROVE WorkerInv'
  BY <1>6 DEF CancelJob, NotedIsCanceled, LiveContext, InterruptedIsKnown,
     CanceledIsCanceled
<1> QED  BY <1>1, <1>2, <1>3, <1>4, <1>5, <1>6 DEF Poll

THEOREM Invariance == Spec => []WorkerInv
<1>1. Init => WorkerInv
  BY ParentAssumption DEF Init, WorkerInv, TypeOK, Verdicts, NotedIsCanceled, LiveContext,
     InterruptedIsKnown, NoVerdictYet, InterruptedIsCanceled, CanceledIsCanceled
<1>2. WorkerInv /\ [Next]_vars => WorkerInv'
  <2> SUFFICES ASSUME WorkerInv, [Next]_vars PROVE WorkerInv'
    OBVIOUS
  <2>1. CASE Next
    BY <2>1, CallbackKeeps, PollKeeps DEF Next
  <2>2. CASE UNCHANGED vars
    BY <2>2 DEF vars, WorkerInv, TypeOK, NotedIsCanceled, LiveContext, InterruptedIsKnown,
       NoVerdictYet, InterruptedIsCanceled, CanceledIsCanceled
  <2> QED  BY <2>1, <2>2
<1> QED  BY <1>1, <1>2, PTL DEF Spec

\* The variables of a pod keep their types.
THEOREM TypeCorrect == Spec => []TypeOK
BY Invariance, PTL DEF WorkerInv

\* A query that pollAPI interrupted is never reported as SUCCEEDED or FAILED: the verdict
\* is looked up again after the query, and the job was noted before cancelFunc().
THEOREM NeverMisreported == Spec => []InterruptedIsCanceled
BY Invariance, PTL DEF WorkerInv

\* A pod reports CANCELED only about runners of jobs that the scheduler canceled, however
\* its goroutines and its callback are interleaved.
THEOREM CanceledOnlyIfCanceled == Spec => []CanceledIsCanceled
BY Invariance, PTL DEF WorkerInv

---------------------------------------------------------------------------
(* What the pod reports, and what a skipped message does to it. *)

\* The query has ended when the callback looks at its job again.
QueryEnded == at = "recheck" => verdict \in {"SUCCEEDED", "FAILED"}

\* A read lock is kept only when the message's job was noted before.
LeakedByNoted == leaked > 0 => known # {}

LEMMA SideInvariant == Spec => [](QueryEnded /\ LeakedByNoted)
<1>1. Init => QueryEnded /\ LeakedByNoted
  BY DEF Init, QueryEnded, LeakedByNoted
<1>2. WorkerInv /\ QueryEnded /\ LeakedByNoted /\ [Next]_vars => (QueryEnded /\ LeakedByNoted)'
  BY DEF WorkerInv, TypeOK, QueryEnded, LeakedByNoted, Next, vars, pollVars, CancelJob, Receive, Poll,
     PollSeesCanceled, PollLocks, PollNotes, PollCancels, PollStops, Callback, SkipCanceled,
     StartRun, Report, RunEnds, Return
<1> QED  BY <1>1, <1>2, Invariance, PTL DEF Spec

\* A pod speaks only of the message in hand: it says IN_PROGRESS first, if at all, then one
\* verdict, if it can be published, and nothing more about that message, whatever pollAPI
\* goroutines of this and of earlier messages do.  RunnerPipeline's pods keep that order.
ReportsInOrder ==
    [][\A m \in Msgs : sent'[m] # sent[m] =>
          /\ cur = m /\ sent[m] \notin Verdicts
          /\ \/ at = "check" /\ sent[m] = "NONE" /\ sent'[m] = "IN_PROGRESS"
             \/ at = "recheck" /\ sent'[m] \in Verdicts]_vars

\* ProcessMessage (compliance-runner-job/service.go) publishes IN_PROGRESS before the query and
\* one verdict after it, for the message it was called with.
THEOREM SpeaksInOrder == Spec => ReportsInOrder
<1> DEFINE Order ==
      \A m \in Msgs : sent'[m] # sent[m] =>
          /\ cur = m /\ sent[m] \notin Verdicts
          /\ \/ at = "check" /\ sent[m] = "NONE" /\ sent'[m] = "IN_PROGRESS"
             \/ at = "recheck" /\ sent'[m] \in Verdicts
<1>1. WorkerInv /\ QueryEnded /\ [Next]_vars => [Order]_vars
  <2> SUFFICES ASSUME WorkerInv, QueryEnded, Next, NEW m \in Msgs, sent'[m] # sent[m]
               PROVE  /\ cur = m /\ sent[m] \notin Verdicts
                      /\ \/ at = "check" /\ sent[m] = "NONE" /\ sent'[m] = "IN_PROGRESS"
                         \/ at = "recheck" /\ sent'[m] \in Verdicts
    OBVIOUS
  <2> USE DEF WorkerInv, TypeOK, NoVerdictYet, Verdicts
  <2>1. CASE StartRun
    BY <2>1 DEF StartRun
  <2>2. CASE Report
    BY <2>2 DEF Report, QueryEnded
  <2>3. CASE ~StartRun /\ ~Report
    BY <2>3 DEF Next, CancelJob, Receive, Poll, PollSeesCanceled, PollLocks, PollNotes,
       PollCancels, PollStops, Callback, SkipCanceled, RunEnds, Return, pollVars
  <2> QED  BY <2>1, <2>2, <2>3
<1> QED  BY <1>1, Invariance, SideInvariant, PTL DEF Spec, ReportsInOrder

\* The read lock of a skipped message is never returned: from then on the pod notes no
\* other canceled job, and once a pollAPI goroutine waits for the lock, nothing is reported
\* any more, and a callback that is to look at the map stays where it is, with its message.
LocksUp ==
    [][leaked > 0 =>
          /\ leaked' > 0 /\ known' = known /\ known # {}
          /\ writer # None =>
                /\ writer' = writer /\ sent' = sent
                /\ at \in {"check", "recheck"} => at' = at /\ cur' = cur]_vars

\* The callback returns for a canceled job without RUnlock (compliance-runner-job/service.go), and
\* nobody else returns that lock.
THEOREM SkippedLocksUp == Spec => LocksUp
<1> DEFINE Locked ==
      leaked > 0 =>
          /\ leaked' > 0 /\ known' = known /\ known # {}
          /\ writer # None =>
                /\ writer' = writer /\ sent' = sent
                /\ at \in {"check", "recheck"} => at' = at /\ cur' = cur
<1>1. WorkerInv /\ LeakedByNoted /\ [Next]_vars => [Locked]_vars
  BY DEF WorkerInv, TypeOK, LeakedByNoted, Next, vars, pollVars, CancelJob, Receive, Poll,
     PollSeesCanceled, PollLocks, PollNotes, PollCancels, PollStops, Callback, SkipCanceled,
     StartRun, Report, RunEnds, Return
<1> QED  BY <1>1, Invariance, SideInvariant, PTL DEF Spec, LocksUp
=============================================================================
