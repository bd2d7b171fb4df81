------------------------ MODULE ComplianceJobProofs ------------------------
(***************************************************************************)
(* For any number of jobs, rows and summarizers: the invariants of         *)
(* ComplianceJob, and that finished jobs stay finished.                    *)
(***************************************************************************)
EXTENDS ComplianceJob, TLAPS

Known(j) == jobStatus[j] # "NONE"

\* The ghost has seen every row that ended.
EndedSeen == \A r \in Runners : status[r] \in Ended => r \in ended

\* The enqueue cycle only works on jobs whose rows may be missing.
EnqueueOpen == \A j \in enqTodo : ~allQueued[j]

\* A job in the list of a goroutine is its own, and its rows have ended.
ListedReady ==
    \A g \in TriggerTypes : \A j \in listed[g] :
        /\ Known(j) /\ trigger[j] = g
        /\ allQueued[j] /\ RowsOf(j) \subseteq ended

\* What a goroutine is writing: a job of its own that is off its list, or a summarizer.
WriteKnown ==
    \A g \in TriggerTypes :
        /\ at[g] = "mark" => /\ current[g] \in Jobs
                             /\ Known(current[g]) /\ trigger[current[g]] = g
                             /\ current[g] \notin listed[g]
        /\ at[g] = "sent" => current[g] \in Summs

Later == {"SUMMARIZER_IN_PROGRESS", "SUCCEEDED", "FAILED", "TIMEOUT", "CANCELED"}

SummKnown == \A s \in Summs : summOf[s] # None => Known(summOf[s])

\* A summarized job is on no list, and is marked or about to be, unless that was lost.
SummarizedOff ==
    \A s \in Summs : \A j \in Jobs \ unmarked : summOf[s] = j =>
        /\ \A g \in TriggerTypes : j \notin listed[g]
        /\ jobStatus[j] \in Later \/ \E g \in TriggerTypes : Marking(g, j)

\* A job that is marked, closed or about to be closed is on no list and is not going to
\* be marked, and never leaves the later statuses.
FinishedOff ==
    \A j \in Jobs :
        \/ jobStatus[j] \in {"SUMMARIZER_IN_PROGRESS", "SUCCEEDED", "FAILED"}
        \/ \E g \in TriggerTypes : j \in finishing[g]
        => /\ jobStatus[j] \in Later
           /\ \A g \in TriggerTypes : j \notin listed[g] /\ ~Marking(g, j)

\* A summarizer with a verdict ran or could not be sent.
VerdictRan ==
    \A s \in Summs :
        summStatus[s] \in {"SUCCEEDED", "FAILED"} \/ summReport[s] # "NONE" => s \in summRan

\* A job about to be closed has such a summarizer.
FinishingRan ==
    \A g \in TriggerTypes : \A j \in finishing[g] : \E s \in summRan : summOf[s] = j

---------------------------------------------------------------------------
\* Every action on the table keeps the types of its columns.
LEMMA TableTypes ==
    ASSUME TableTypeOK,
           \/ \E R \in SUBSET Runners : RowsCreated(R) \/ RowsTimedOut(R) \/ RowsDeleted(R)
           \/ \E r \in Runners : PipelineStep(r) \/ RowCanceled(r)
           \/ UNCHANGED tableVars
    PROVE  TableTypeOK'
  <1> USE DEF TableTypeOK, RunnerStatus
  <1>1. ASSUME NEW R \in SUBSET Runners, RowsCreated(R) PROVE TableTypeOK'
    BY <1>1 DEF RowsCreated
  <1>2. ASSUME NEW R \in SUBSET Runners, RowsTimedOut(R) PROVE TableTypeOK'
    BY <1>2 DEF RowsTimedOut
  <1>3. ASSUME NEW R \in SUBSET Runners, RowsDeleted(R) PROVE TableTypeOK'
    BY <1>3 DEF RowsDeleted
  <1>4. ASSUME NEW r \in Runners, RowCanceled(r) PROVE TableTypeOK'
    BY <1>4 DEF RowCanceled
  <1>5. ASSUME NEW r \in Runners, PipelineStep(r) PROVE TableTypeOK'
    <2>1. CASE RowSent(r) \/ RowQueued(r) \/ RowAborted(r) \/ RowStarted(r) \/ RowForsaken(r)
      BY <2>1 DEF RowSent, RowQueued, RowAborted, RowStarted, RowForsaken
    <2>2. ASSUME NEW v \in Verdicts, NEW c \in BOOLEAN, RowReported(r, v, c)
          PROVE  TableTypeOK'
      BY <2>2 DEF RowReported, Verdicts
    <2>3. CASE RowsTimedOut({r})
      BY <2>3 DEF RowsTimedOut
    <2> QED
      BY <1>5, <2>1, <2>2, <2>3 DEF PipelineStep
  <1>6. ASSUME UNCHANGED tableVars PROVE TableTypeOK'
    BY <1>6 DEF tableVars
  <1> QED
    BY <1>1, <1>2, <1>3, <1>4, <1>5, <1>6

\* No action on the table brings a row into being, except the insertion of rows.
LEMMA RowsAppearOnlyByCreation ==
    ASSUME TableTypeOK,
           \/ \E R \in SUBSET Runners : RowsTimedOut(R) \/ RowsDeleted(R)
           \/ \E r \in Runners : PipelineStep(r) \/ RowCanceled(r)
           \/ UNCHANGED tableVars
    PROVE  \A q \in Runners : Exists(q)' => Exists(q)
  <1> USE DEF TableTypeOK, Exists
  <1>1. ASSUME NEW R \in SUBSET Runners, RowsTimedOut(R) \/ RowsDeleted(R)
        PROVE  \A q \in Runners : Exists(q)' => Exists(q)
    BY <1>1 DEF RowsTimedOut, RowsDeleted
  <1>2. ASSUME NEW r \in Runners, RowCanceled(r)
        PROVE  \A q \in Runners : Exists(q)' => Exists(q)
    BY <1>2 DEF RowCanceled
  <1>3. ASSUME NEW r \in Runners, PipelineStep(r)
        PROVE  \A q \in Runners : Exists(q)' => Exists(q)
    BY <1>3 DEF PipelineStep, RowSent, RowQueued, RowAborted, RowStarted, RowReported,
                RowForsaken, RowsTimedOut
  <1>4. ASSUME UNCHANGED tableVars
        PROVE  \A q \in Runners : Exists(q)' => Exists(q)
    BY <1>4 DEF tableVars
  <1> QED
    BY <1>1, <1>2, <1>3, <1>4

\* Every step acts on the table in one of the ways RunnerTable allows.
LEMMA StepOnTable ==
    ASSUME ConstantsAssumption, TypeOK, [Next]_vars
    PROVE  \/ \E R \in SUBSET Runners : RowsCreated(R) \/ RowsTimedOut(R) \/ RowsDeleted(R)
           \/ \E r \in Runners : PipelineStep(r) \/ RowCanceled(r)
           \/ UNCHANGED tableVars
  <1> DEFINE Goal ==
           \/ \E R \in SUBSET Runners : RowsCreated(R) \/ RowsTimedOut(R) \/ RowsDeleted(R)
           \/ \E r \in Runners : PipelineStep(r) \/ RowCanceled(r)
           \/ UNCHANGED tableVars
  <1>1. ASSUME NEW J \in SUBSET Jobs, NEW t \in TriggerTypes, CreateJobs(J, t),
     Observe PROVE Goal
    BY <1>1 DEF CreateJobs
  <1>2. ASSUME NEW J \in SUBSET Jobs, TriggerJobs(J), Observe PROVE Goal
    BY <1>2 DEF TriggerJobs, CreateJobs
  <1>3. ASSUME NEW R \in SUBSET Runners, DeleteOldRows(R), Observe PROVE Goal
    BY <1>3 DEF DeleteOldRows
  <1>4. ASSUME NEW j \in Jobs, DayPasses(j), Observe PROVE Goal
    BY <1>4 DEF DayPasses
  <1>5. ASSUME NEW j \in Jobs, SinkMinutesPass(j), Observe PROVE Goal
    BY <1>5 DEF SinkMinutesPass
  <1>6. ASSUME ListUnqueued, Observe PROVE Goal
    BY <1>6 DEF ListUnqueued
  <1>7. ASSUME NEW j \in Jobs, EnqueueRunners(j), Observe PROVE Goal
    BY <1>7 DEF EnqueueRunners
  <1>8. ASSUME NEW j \in Jobs, EnqueueFails(j), Observe PROVE Goal
    BY <1>8 DEF EnqueueFails
  <1>9. ASSUME NEW g \in TriggerTypes, BeginCycle(g), Observe PROVE Goal
    BY <1>9 DEF BeginCycle
  <1>10. ASSUME NEW g \in TriggerTypes, NEW j \in Jobs, WaitForSink(g, j), Observe
     PROVE Goal
    BY <1>10 DEF WaitForSink
  <1>11. ASSUME NEW g \in TriggerTypes, NEW j \in Jobs, KeepWaiting(g, j), Observe
     PROVE Goal
    BY <1>11 DEF KeepWaiting
  <1>12. ASSUME NEW g \in TriggerTypes, NEW j \in Jobs, NEW s \in Summs,
     CreateSummarizer(g, j, s), Observe PROVE Goal
    BY <1>12 DEF CreateSummarizer
  <1>13. ASSUME NEW g \in TriggerTypes, MarkSummarizing(g), Observe PROVE Goal
    BY <1>13 DEF MarkSummarizing
  <1>14. ASSUME NEW g \in TriggerTypes, FetchCreatedSummarizers(g), Observe PROVE
     Goal
    BY <1>14 DEF FetchCreatedSummarizers
  <1>15. ASSUME NEW g \in TriggerTypes, NEW s \in Summs, SendSummarizer(g, s),
     Observe PROVE Goal
    BY <1>15 DEF SendSummarizer
  <1>16. ASSUME NEW g \in TriggerTypes, MarkSent(g), Observe PROVE Goal
    BY <1>16 DEF MarkSent
  <1>17. ASSUME NEW g \in TriggerTypes, NEW s \in Summs, SentButFailed(g, s), Observe
     PROVE Goal
    BY <1>17 DEF SentButFailed
  <1>18. ASSUME NEW g \in TriggerTypes, NEW s \in Summs, SendFails(g, s), Observe
     PROVE Goal
    BY <1>18 DEF SendFails
  <1>19. ASSUME NEW g \in TriggerTypes, ListJobsToFinish(g), Observe PROVE Goal
    BY <1>19 DEF ListJobsToFinish
  <1>20. ASSUME NEW g \in TriggerTypes, NEW j \in Jobs, FinishComplianceJob(g, j),
     Observe PROVE Goal
    BY <1>20 DEF FinishComplianceJob
  <1>21. ASSUME NEW g \in TriggerTypes, AbandonCycle(g), Observe PROVE Goal
    BY <1>21 DEF AbandonCycle
  <1>22. ASSUME NEW s \in Summs, NEW v \in {"SUCCEEDED", "FAILED", "NONE"},
     RunSummarizer(s, v), Observe PROVE Goal
    BY <1>22 DEF RunSummarizer
  <1>23. ASSUME NEW s \in Summs, ConsumeSummarizerResult(s), Observe PROVE Goal
    BY <1>23 DEF ConsumeSummarizerResult
  <1>24. ASSUME NEW j \in Jobs, CancelRead(j), Observe PROVE Goal
    BY <1>24 DEF CancelRead
  <1>25. ASSUME NEW r \in Runners, CancelRow(r), Observe PROVE Goal
    BY <1>25 DEF CancelRow
  <1>26. ASSUME CancelGivesUp, Observe PROVE Goal
    BY <1>26 DEF CancelGivesUp
  <1>27. ASSUME CancelWrite, Observe PROVE Goal
    BY <1>27 DEF CancelWrite
  <1>28. ASSUME NEW r \in Runners, RunnerMoves(r), Observe PROVE Goal
    BY <1>28 DEF RunnerMoves
  <1>29. ASSUME NEW r \in Runners, IngestResults(r), Observe PROVE Goal
    BY <1>29 DEF IngestResults
  <1>30. ASSUME Restart, Observe PROVE Goal
    BY <1>30 DEF Restart
  <1>31. ASSUME UNCHANGED vars PROVE Goal
    BY <1>31 DEF vars
  <1> QED
    BY <1>1, <1>2, <1>3, <1>4, <1>5, <1>6, <1>7, <1>8, <1>9, <1>10, <1>11, <1>12,
       <1>13, <1>14, <1>15, <1>16, <1>17, <1>18, <1>19, <1>20, <1>21, <1>22, <1>23,
       <1>24, <1>25, <1>26, <1>27, <1>28, <1>29, <1>30, <1>31 DEF Next, Step,
       Creator, Enqueuer, Summarizer, Failures, SummarizerWorker, Canceler

\* Every step keeps the types of the job tables, of the streams and of the loops.
LEMMA TypeStep == TypeOK /\ [Next]_vars => TypeOK'
  <1> SUFFICES ASSUME TypeOK, [Next]_vars PROVE TypeOK'
    OBVIOUS
  <1>0. TableTypeOK'
    BY ConstantsAssumption, StepOnTable, TableTypes DEF TypeOK
  <1> USE ConstantsAssumption, <1>0 DEF TypeOK, JobStatus, SummStatus, Observe
  <1>1. ASSUME NEW J \in SUBSET Jobs, NEW t \in TriggerTypes, CreateJobs(J, t),
     Observe PROVE TypeOK'
    BY <1>1 DEF CreateJobs, summVars, loopVars, cancelVars
  <1>2. ASSUME NEW J \in SUBSET Jobs, TriggerJobs(J), Observe PROVE TypeOK'
    BY <1>2 DEF TriggerJobs, CreateJobs, summVars, loopVars, cancelVars
  <1>3. ASSUME NEW R \in SUBSET Runners, DeleteOldRows(R), Observe PROVE TypeOK'
    BY <1>3 DEF DeleteOldRows, jobVars, summVars, loopVars, cancelVars
  <1>4. ASSUME NEW j \in Jobs, DayPasses(j), Observe PROVE TypeOK'
    BY <1>4 DEF DayPasses, summVars, loopVars, cancelVars
  <1>5. ASSUME NEW j \in Jobs, SinkMinutesPass(j), Observe PROVE TypeOK'
    BY <1>5 DEF SinkMinutesPass, summVars, loopVars, cancelVars
  <1>6. ASSUME ListUnqueued, Observe PROVE TypeOK'
    BY <1>6 DEF ListUnqueued, jobVars, summVars, loopVars, cancelVars
  <1>7. ASSUME NEW j \in Jobs, EnqueueRunners(j), Observe PROVE TypeOK'
    <2>1. allQueued' \in [Jobs -> BOOLEAN]
      BY <1>7 DEF EnqueueRunners
    <2> QED  BY <1>7, <2>1 DEF EnqueueRunners, summVars, loopVars, cancelVars
  <1>8. ASSUME NEW j \in Jobs, EnqueueFails(j), Observe PROVE TypeOK'
    BY <1>8 DEF EnqueueFails, jobVars, summVars, loopVars, cancelVars
  <1>9. ASSUME NEW g \in TriggerTypes, BeginCycle(g), Observe PROVE TypeOK'
    BY <1>9 DEF BeginCycle, summVars, cancelVars, SweptStatus, RunnersCompleted,
       RowsOf
  <1>10. ASSUME NEW g \in TriggerTypes, NEW j \in Jobs, WaitForSink(g, j), Observe
     PROVE TypeOK'
    BY <1>10 DEF WaitForSink, summVars, cancelVars, Handled
  <1>11. ASSUME NEW g \in TriggerTypes, NEW j \in Jobs, KeepWaiting(g, j), Observe
     PROVE TypeOK'
    BY <1>11 DEF KeepWaiting, jobVars, summVars, cancelVars, Handled
  <1>12. ASSUME NEW g \in TriggerTypes, NEW j \in Jobs, NEW s \in Summs,
     CreateSummarizer(g, j, s), Observe PROVE TypeOK'
    BY <1>12 DEF CreateSummarizer, jobVars, cancelVars, Handled
  <1>13. ASSUME NEW g \in TriggerTypes, MarkSummarizing(g), Observe PROVE TypeOK'
    BY <1>13 DEF MarkSummarizing, summVars, cancelVars
  <1>14. ASSUME NEW g \in TriggerTypes, FetchCreatedSummarizers(g), Observe PROVE
     TypeOK'
    BY <1>14 DEF FetchCreatedSummarizers, jobVars, summVars, cancelVars
  <1>15. ASSUME NEW g \in TriggerTypes, NEW s \in Summs, SendSummarizer(g, s),
     Observe PROVE TypeOK'
    BY <1>15 DEF SendSummarizer, jobVars, cancelVars
  <1>16. ASSUME NEW g \in TriggerTypes, MarkSent(g), Observe PROVE TypeOK'
    BY <1>16 DEF MarkSent, jobVars, cancelVars
  <1>17. ASSUME NEW g \in TriggerTypes, NEW s \in Summs, SentButFailed(g, s), Observe
     PROVE TypeOK'
    BY <1>17 DEF SentButFailed, jobVars, cancelVars
  <1>18. ASSUME NEW g \in TriggerTypes, NEW s \in Summs, SendFails(g, s), Observe
     PROVE TypeOK'
    BY <1>18 DEF SendFails, jobVars, cancelVars
  <1>19. ASSUME NEW g \in TriggerTypes, ListJobsToFinish(g), Observe PROVE TypeOK'
    BY <1>19 DEF ListJobsToFinish, jobVars, summVars, cancelVars, SummDone
  <1>20. ASSUME NEW g \in TriggerTypes, NEW j \in Jobs, FinishComplianceJob(g, j),
     Observe PROVE TypeOK'
    BY <1>20 DEF FinishComplianceJob, summVars, cancelVars, RowsOf
  <1>21. ASSUME NEW g \in TriggerTypes, AbandonCycle(g), Observe PROVE TypeOK'
    BY <1>21 DEF AbandonCycle, jobVars, summVars, cancelVars, Marking
  <1>22. ASSUME NEW s \in Summs, NEW v \in {"SUCCEEDED", "FAILED", "NONE"},
     RunSummarizer(s, v), Observe PROVE TypeOK'
    BY <1>22 DEF RunSummarizer, jobVars, loopVars, cancelVars
  <1>23. ASSUME NEW s \in Summs, ConsumeSummarizerResult(s), Observe PROVE TypeOK'
    BY <1>23 DEF ConsumeSummarizerResult, jobVars, loopVars, cancelVars
  <1>24. ASSUME NEW j \in Jobs, CancelRead(j), Observe PROVE TypeOK'
    BY <1>24 DEF CancelRead, jobVars, summVars, loopVars, RowsOf
  <1>25. ASSUME NEW r \in Runners, CancelRow(r), Observe PROVE TypeOK'
    BY <1>25 DEF CancelRow, jobVars, summVars, loopVars
  <1>26. ASSUME CancelGivesUp, Observe PROVE TypeOK'
    BY <1>26 DEF CancelGivesUp, jobVars, summVars, loopVars
  <1>27. ASSUME CancelWrite, Observe PROVE TypeOK'
    BY <1>27 DEF CancelWrite, summVars, loopVars
  <1>28. ASSUME NEW r \in Runners, RunnerMoves(r), Observe PROVE TypeOK'
    BY <1>28 DEF RunnerMoves, jobVars, summVars, loopVars, cancelVars
  <1>29. ASSUME NEW r \in Runners, IngestResults(r), Observe PROVE TypeOK'
    BY <1>29 DEF IngestResults, jobVars, summVars, loopVars, cancelVars
  <1>30. ASSUME Restart, Observe PROVE TypeOK'
    BY <1>30 DEF Restart, jobVars, summVars, Marking
  <1>31. ASSUME UNCHANGED vars PROVE TypeOK'
    BY <1>31 DEF vars, jobVars, summVars, loopVars, cancelVars, RowsOf
  <1> HIDE DEF TypeOK
  <1> QED
    BY <1>1, <1>2, <1>3, <1>4, <1>5, <1>6, <1>7, <1>8, <1>9, <1>10, <1>11, <1>12,
       <1>13, <1>14, <1>15, <1>16, <1>17, <1>18, <1>19, <1>20, <1>21, <1>22, <1>23,
       <1>24, <1>25, <1>26, <1>27, <1>28, <1>29, <1>30, <1>31 DEF Next, Step,
       Creator, Enqueuer, Summarizer, Failures, SummarizerWorker, Canceler

\* Jobs are never forgotten, flags and ghosts never reset, summarizers never reassigned.
LEMMA Monotone ==
    ASSUME TypeOK, [Next]_vars
    PROVE  /\ \A j \in Jobs : Known(j) => Known(j)' /\ trigger'[j] = trigger[j]
           /\ \A j \in Jobs : allQueued[j] => allQueued'[j]
           /\ \A s \in Summs : summOf[s] # None => summOf'[s] = summOf[s]
           /\ summRan \subseteq summRan'
           /\ unmarked \subseteq unmarked'
  <1> DEFINE Goal ==
           /\ \A j \in Jobs : Known(j) => Known(j)' /\ trigger'[j] = trigger[j]
           /\ \A j \in Jobs : allQueued[j] => allQueued'[j]
           /\ \A s \in Summs : summOf[s] # None => summOf'[s] = summOf[s]
           /\ summRan \subseteq summRan'
           /\ unmarked \subseteq unmarked'
  <1> SUFFICES Goal
    OBVIOUS
  <1> USE ConstantsAssumption DEF TypeOK, Known
  <1>1. ASSUME NEW J \in SUBSET Jobs, NEW t \in TriggerTypes, CreateJobs(J, t),
     Observe PROVE Goal
    BY <1>1 DEF CreateJobs, summVars, loopVars, cancelVars
  <1>2. ASSUME NEW J \in SUBSET Jobs, TriggerJobs(J), Observe PROVE Goal
    BY <1>2 DEF TriggerJobs, CreateJobs, summVars, loopVars, cancelVars
  <1>3. ASSUME NEW R \in SUBSET Runners, DeleteOldRows(R), Observe PROVE Goal
    BY <1>3 DEF DeleteOldRows, jobVars, summVars, loopVars, cancelVars
  <1>4. ASSUME NEW j \in Jobs, DayPasses(j), Observe PROVE Goal
    BY <1>4 DEF DayPasses, summVars, loopVars, cancelVars
  <1>5. ASSUME NEW j \in Jobs, SinkMinutesPass(j), Observe PROVE Goal
    BY <1>5 DEF SinkMinutesPass, summVars, loopVars, cancelVars
  <1>6. ASSUME ListUnqueued, Observe PROVE Goal
    BY <1>6 DEF ListUnqueued, jobVars, summVars, loopVars, cancelVars
  <1>7. ASSUME NEW j \in Jobs, EnqueueRunners(j), Observe PROVE Goal
    BY <1>7 DEF EnqueueRunners, summVars, loopVars, cancelVars
  <1>8. ASSUME NEW j \in Jobs, EnqueueFails(j), Observe PROVE Goal
    BY <1>8 DEF EnqueueFails, jobVars, summVars, loopVars, cancelVars
  <1>9. ASSUME NEW g \in TriggerTypes, BeginCycle(g), Observe PROVE Goal
    BY <1>9 DEF BeginCycle, summVars, cancelVars, SweptStatus, RunnersCompleted
  <1>10. ASSUME NEW g \in TriggerTypes, NEW j \in Jobs, WaitForSink(g, j), Observe
     PROVE Goal
    BY <1>10 DEF WaitForSink, summVars, cancelVars, Handled
  <1>11. ASSUME NEW g \in TriggerTypes, NEW j \in Jobs, KeepWaiting(g, j), Observe
     PROVE Goal
    BY <1>11 DEF KeepWaiting, jobVars, summVars, cancelVars, Handled
  <1>12. ASSUME NEW g \in TriggerTypes, NEW j \in Jobs, NEW s \in Summs,
     CreateSummarizer(g, j, s), Observe PROVE Goal
    BY <1>12 DEF CreateSummarizer, jobVars, cancelVars, Handled
  <1>13. ASSUME NEW g \in TriggerTypes, MarkSummarizing(g), Observe PROVE Goal
    BY <1>13 DEF MarkSummarizing, summVars, cancelVars
  <1>14. ASSUME NEW g \in TriggerTypes, FetchCreatedSummarizers(g), Observe PROVE
     Goal
    BY <1>14 DEF FetchCreatedSummarizers, jobVars, summVars, cancelVars
  <1>15. ASSUME NEW g \in TriggerTypes, NEW s \in Summs, SendSummarizer(g, s),
     Observe PROVE Goal
    BY <1>15 DEF SendSummarizer, jobVars, cancelVars
  <1>16. ASSUME NEW g \in TriggerTypes, MarkSent(g), Observe PROVE Goal
    BY <1>16 DEF MarkSent, jobVars, cancelVars
  <1>17. ASSUME NEW g \in TriggerTypes, NEW s \in Summs, SentButFailed(g, s), Observe
     PROVE Goal
    BY <1>17 DEF SentButFailed, jobVars, cancelVars
  <1>18. ASSUME NEW g \in TriggerTypes, NEW s \in Summs, SendFails(g, s), Observe
     PROVE Goal
    BY <1>18 DEF SendFails, jobVars, cancelVars
  <1>19. ASSUME NEW g \in TriggerTypes, ListJobsToFinish(g), Observe PROVE Goal
    BY <1>19 DEF ListJobsToFinish, jobVars, summVars, cancelVars, SummDone
  <1>20. ASSUME NEW g \in TriggerTypes, NEW j \in Jobs, FinishComplianceJob(g, j),
     Observe PROVE Goal
    BY <1>20 DEF FinishComplianceJob, summVars, cancelVars
  <1>21. ASSUME NEW g \in TriggerTypes, AbandonCycle(g), Observe PROVE Goal
    BY <1>21 DEF AbandonCycle, jobVars, summVars, cancelVars, Marking
  <1>22. ASSUME NEW s \in Summs, NEW v \in {"SUCCEEDED", "FAILED", "NONE"},
     RunSummarizer(s, v), Observe PROVE Goal
    BY <1>22 DEF RunSummarizer, jobVars, loopVars, cancelVars
  <1>23. ASSUME NEW s \in Summs, ConsumeSummarizerResult(s), Observe PROVE Goal
    BY <1>23 DEF ConsumeSummarizerResult, jobVars, loopVars, cancelVars
  <1>24. ASSUME NEW j \in Jobs, CancelRead(j), Observe PROVE Goal
    BY <1>24 DEF CancelRead, jobVars, summVars, loopVars
  <1>25. ASSUME NEW r \in Runners, CancelRow(r), Observe PROVE Goal
    BY <1>25 DEF CancelRow, jobVars, summVars, loopVars
  <1>26. ASSUME CancelGivesUp, Observe PROVE Goal
    BY <1>26 DEF CancelGivesUp, jobVars, summVars, loopVars
  <1>27. ASSUME CancelWrite, Observe PROVE Goal
    BY <1>27 DEF CancelWrite, summVars, loopVars
  <1>28. ASSUME NEW r \in Runners, RunnerMoves(r), Observe PROVE Goal
    BY <1>28 DEF RunnerMoves, jobVars, summVars, loopVars, cancelVars
  <1>29. ASSUME NEW r \in Runners, IngestResults(r), Observe PROVE Goal
    BY <1>29 DEF IngestResults, jobVars, summVars, loopVars, cancelVars
  <1>30. ASSUME Restart, Observe PROVE Goal
    BY <1>30 DEF Restart, jobVars, summVars, Marking
  <1>31. ASSUME UNCHANGED vars PROVE Goal
    BY <1>31 DEF vars, jobVars, summVars, loopVars, cancelVars
  <1> HIDE DEF TypeOK, Known, Goal
  <1> QED
    BY <1>1, <1>2, <1>3, <1>4, <1>5, <1>6, <1>7, <1>8, <1>9, <1>10, <1>11, <1>12,
       <1>13, <1>14, <1>15, <1>16, <1>17, <1>18, <1>19, <1>20, <1>21, <1>22, <1>23,
       <1>24, <1>25, <1>26, <1>27, <1>28, <1>29, <1>30, <1>31 DEF Next, Step,
       Creator, Enqueuer, Summarizer, Failures, SummarizerWorker, Canceler

\* enqueueRunnersCycle: a job leaves the list in the step that raises its flag.
LEMMA EnqueueStep == TypeOK /\ EnqueueOpen /\ [Next]_vars => EnqueueOpen'
  <1> SUFFICES ASSUME TypeOK, EnqueueOpen, [Next]_vars PROVE EnqueueOpen'
    OBVIOUS
  <1> USE ConstantsAssumption DEF TypeOK, EnqueueOpen
  <1>1. ASSUME NEW J \in SUBSET Jobs, NEW t \in TriggerTypes, CreateJobs(J, t),
     Observe PROVE EnqueueOpen'
    BY <1>1 DEF CreateJobs, summVars, loopVars, cancelVars
  <1>2. ASSUME NEW J \in SUBSET Jobs, TriggerJobs(J), Observe PROVE EnqueueOpen'
    BY <1>2 DEF TriggerJobs, CreateJobs, summVars, loopVars, cancelVars
  <1>3. ASSUME NEW R \in SUBSET Runners, DeleteOldRows(R), Observe PROVE EnqueueOpen'
    BY <1>3 DEF DeleteOldRows, jobVars, summVars, loopVars, cancelVars
  <1>4. ASSUME NEW j \in Jobs, DayPasses(j), Observe PROVE EnqueueOpen'
    BY <1>4 DEF DayPasses, summVars, loopVars, cancelVars
  <1>5. ASSUME NEW j \in Jobs, SinkMinutesPass(j), Observe PROVE EnqueueOpen'
    BY <1>5 DEF SinkMinutesPass, summVars, loopVars, cancelVars
  <1>6. ASSUME ListUnqueued, Observe PROVE EnqueueOpen'
    BY <1>6 DEF ListUnqueued, jobVars, summVars, loopVars, cancelVars
  <1>7. ASSUME NEW j \in Jobs, EnqueueRunners(j), Observe PROVE EnqueueOpen'
    BY <1>7 DEF EnqueueRunners, summVars, loopVars, cancelVars
  <1>8. ASSUME NEW j \in Jobs, EnqueueFails(j), Observe PROVE EnqueueOpen'
    BY <1>8 DEF EnqueueFails, jobVars, summVars, loopVars, cancelVars
  <1>9. ASSUME NEW g \in TriggerTypes, BeginCycle(g), Observe PROVE EnqueueOpen'
    BY <1>9 DEF BeginCycle, summVars, cancelVars, SweptStatus, RunnersCompleted
  <1>10. ASSUME NEW g \in TriggerTypes, NEW j \in Jobs, WaitForSink(g, j), Observe
     PROVE EnqueueOpen'
    BY <1>10 DEF WaitForSink, summVars, cancelVars, Handled
  <1>11. ASSUME NEW g \in TriggerTypes, NEW j \in Jobs, KeepWaiting(g, j), Observe
     PROVE EnqueueOpen'
    BY <1>11 DEF KeepWaiting, jobVars, summVars, cancelVars, Handled
  <1>12. ASSUME NEW g \in TriggerTypes, NEW j \in Jobs, NEW s \in Summs,
     CreateSummarizer(g, j, s), Observe PROVE EnqueueOpen'
    BY <1>12 DEF CreateSummarizer, jobVars, cancelVars, Handled
  <1>13. ASSUME NEW g \in TriggerTypes, MarkSummarizing(g), Observe PROVE
     EnqueueOpen'
    BY <1>13 DEF MarkSummarizing, summVars, cancelVars
  <1>14. ASSUME NEW g \in TriggerTypes, FetchCreatedSummarizers(g), Observe PROVE
     EnqueueOpen'
    BY <1>14 DEF FetchCreatedSummarizers, jobVars, summVars, cancelVars
  <1>15. ASSUME NEW g \in TriggerTypes, NEW s \in Summs, SendSummarizer(g, s),
     Observe PROVE EnqueueOpen'
    BY <1>15 DEF SendSummarizer, jobVars, cancelVars
  <1>16. ASSUME NEW g \in TriggerTypes, MarkSent(g), Observe PROVE EnqueueOpen'
    BY <1>16 DEF MarkSent, jobVars, cancelVars
  <1>17. ASSUME NEW g \in TriggerTypes, NEW s \in Summs, SentButFailed(g, s), Observe
     PROVE EnqueueOpen'
    BY <1>17 DEF SentButFailed, jobVars, cancelVars
  <1>18. ASSUME NEW g \in TriggerTypes, NEW s \in Summs, SendFails(g, s), Observe
     PROVE EnqueueOpen'
    BY <1>18 DEF SendFails, jobVars, cancelVars
  <1>19. ASSUME NEW g \in TriggerTypes, ListJobsToFinish(g), Observe PROVE
     EnqueueOpen'
    BY <1>19 DEF ListJobsToFinish, jobVars, summVars, cancelVars, SummDone
  <1>20. ASSUME NEW g \in TriggerTypes, NEW j \in Jobs, FinishComplianceJob(g, j),
     Observe PROVE EnqueueOpen'
    BY <1>20 DEF FinishComplianceJob, summVars, cancelVars
  <1>21. ASSUME NEW g \in TriggerTypes, AbandonCycle(g), Observe PROVE EnqueueOpen'
    BY <1>21 DEF AbandonCycle, jobVars, summVars, cancelVars, Marking
  <1>22. ASSUME NEW s \in Summs, NEW v \in {"SUCCEEDED", "FAILED", "NONE"},
     RunSummarizer(s, v), Observe PROVE EnqueueOpen'
    BY <1>22 DEF RunSummarizer, jobVars, loopVars, cancelVars
  <1>23. ASSUME NEW s \in Summs, ConsumeSummarizerResult(s), Observe PROVE
     EnqueueOpen'
    BY <1>23 DEF ConsumeSummarizerResult, jobVars, loopVars, cancelVars
  <1>24. ASSUME NEW j \in Jobs, CancelRead(j), Observe PROVE EnqueueOpen'
    BY <1>24 DEF CancelRead, jobVars, summVars, loopVars
  <1>25. ASSUME NEW r \in Runners, CancelRow(r), Observe PROVE EnqueueOpen'
    BY <1>25 DEF CancelRow, jobVars, summVars, loopVars
  <1>26. ASSUME CancelGivesUp, Observe PROVE EnqueueOpen'
    BY <1>26 DEF CancelGivesUp, jobVars, summVars, loopVars
  <1>27. ASSUME CancelWrite, Observe PROVE EnqueueOpen'
    BY <1>27 DEF CancelWrite, summVars, loopVars
  <1>28. ASSUME NEW r \in Runners, RunnerMoves(r), Observe PROVE EnqueueOpen'
    BY <1>28 DEF RunnerMoves, jobVars, summVars, loopVars, cancelVars
  <1>29. ASSUME NEW r \in Runners, IngestResults(r), Observe PROVE EnqueueOpen'
    BY <1>29 DEF IngestResults, jobVars, summVars, loopVars, cancelVars
  <1>30. ASSUME Restart, Observe PROVE EnqueueOpen'
    BY <1>30 DEF Restart, jobVars, summVars, Marking
  <1>31. ASSUME UNCHANGED vars PROVE EnqueueOpen'
    BY <1>31 DEF vars, jobVars, summVars, loopVars, cancelVars
  <1> HIDE DEF TypeOK, EnqueueOpen
  <1> QED
    BY <1>1, <1>2, <1>3, <1>4, <1>5, <1>6, <1>7, <1>8, <1>9, <1>10, <1>11, <1>12,
       <1>13, <1>14, <1>15, <1>16, <1>17, <1>18, <1>19, <1>20, <1>21, <1>22, <1>23,
       <1>24, <1>25, <1>26, <1>27, <1>28, <1>29, <1>30, <1>31 DEF Next, Step,
       Creator, Enqueuer, Summarizer, Failures, SummarizerWorker, Canceler

\* New rows belong to jobs whose flag is not raised.
LEMMA NewRowsOpen ==
    ASSUME TypeOK, EnqueueOpen, [Next]_vars
    PROVE  \A r \in Runners : Exists(r)' /\ ~Exists(r) => ~allQueued[JobOf[r]]
  <1> DEFINE Goal == \A r \in Runners : Exists(r)' /\ ~Exists(r) => ~allQueued[JobOf[r]]
  <1> SUFFICES Goal
    OBVIOUS
  <1> USE ConstantsAssumption DEF Exists
  <1>1. ASSUME NEW J \in SUBSET Jobs, NEW t \in TriggerTypes, CreateJobs(J, t),
     Observe PROVE Goal
    <2>1. \E R \in SUBSET Runners : RowsDeleted(R)
      BY <1>1 DEF CreateJobs
    <2> QED
      BY <2>1, RowsAppearOnlyByCreation DEF TypeOK
  <1>2. ASSUME NEW J \in SUBSET Jobs, TriggerJobs(J), Observe PROVE Goal
    <2>1. \E R \in SUBSET Runners : RowsDeleted(R)
      BY <1>2 DEF TriggerJobs, CreateJobs
    <2> QED
      BY <2>1, RowsAppearOnlyByCreation DEF TypeOK
  <1>3. ASSUME NEW R \in SUBSET Runners, DeleteOldRows(R), Observe PROVE Goal
    <2>1. \E S \in SUBSET Runners : RowsDeleted(S)
      BY <1>3 DEF DeleteOldRows
    <2> QED
      BY <2>1, RowsAppearOnlyByCreation DEF TypeOK
  <1>4. ASSUME NEW j \in Jobs, DayPasses(j), Observe PROVE Goal
    BY <1>4 DEF DayPasses, tableVars
  <1>5. ASSUME NEW j \in Jobs, SinkMinutesPass(j), Observe PROVE Goal
    BY <1>5 DEF SinkMinutesPass, tableVars
  <1>6. ASSUME ListUnqueued, Observe PROVE Goal
    BY <1>6 DEF ListUnqueued, tableVars
  <1>7. ASSUME NEW j \in Jobs, EnqueueRunners(j), Observe PROVE Goal
    <2>1. ~allQueued[j]
      BY <1>7 DEF EnqueueRunners, EnqueueOpen
    <2> QED
      BY <1>7, <2>1 DEF EnqueueRunners, RowsCreated, tableVars, Exists
  <1>8. ASSUME NEW j \in Jobs, EnqueueFails(j), Observe PROVE Goal
    BY <1>8 DEF EnqueueFails, tableVars
  <1>9. ASSUME NEW g \in TriggerTypes, BeginCycle(g), Observe PROVE Goal
    BY <1>9 DEF BeginCycle, tableVars, Exists
  <1>10. ASSUME NEW g \in TriggerTypes, NEW j \in Jobs, WaitForSink(g, j), Observe
     PROVE Goal
    BY <1>10 DEF WaitForSink, tableVars
  <1>11. ASSUME NEW g \in TriggerTypes, NEW j \in Jobs, KeepWaiting(g, j), Observe
     PROVE Goal
    BY <1>11 DEF KeepWaiting, tableVars
  <1>12. ASSUME NEW g \in TriggerTypes, NEW j \in Jobs, NEW s \in Summs,
     CreateSummarizer(g, j, s), Observe PROVE Goal
    BY <1>12 DEF CreateSummarizer, tableVars
  <1>13. ASSUME NEW g \in TriggerTypes, MarkSummarizing(g), Observe PROVE Goal
    BY <1>13 DEF MarkSummarizing, tableVars
  <1>14. ASSUME NEW g \in TriggerTypes, FetchCreatedSummarizers(g), Observe PROVE
     Goal
    BY <1>14 DEF FetchCreatedSummarizers, tableVars
  <1>15. ASSUME NEW g \in TriggerTypes, NEW s \in Summs, SendSummarizer(g, s),
     Observe PROVE Goal
    BY <1>15 DEF SendSummarizer, tableVars
  <1>16. ASSUME NEW g \in TriggerTypes, MarkSent(g), Observe PROVE Goal
    BY <1>16 DEF MarkSent, tableVars
  <1>17. ASSUME NEW g \in TriggerTypes, NEW s \in Summs, SentButFailed(g, s), Observe
     PROVE Goal
    BY <1>17 DEF SentButFailed, tableVars
  <1>18. ASSUME NEW g \in TriggerTypes, NEW s \in Summs, SendFails(g, s), Observe
     PROVE Goal
    BY <1>18 DEF SendFails, tableVars
  <1>19. ASSUME NEW g \in TriggerTypes, ListJobsToFinish(g), Observe PROVE Goal
    BY <1>19 DEF ListJobsToFinish, tableVars
  <1>20. ASSUME NEW g \in TriggerTypes, NEW j \in Jobs, FinishComplianceJob(g, j),
     Observe PROVE Goal
    BY <1>20 DEF FinishComplianceJob, tableVars, Exists
  <1>21. ASSUME NEW g \in TriggerTypes, AbandonCycle(g), Observe PROVE Goal
    BY <1>21 DEF AbandonCycle, tableVars
  <1>22. ASSUME NEW s \in Summs, NEW v \in {"SUCCEEDED", "FAILED", "NONE"},
     RunSummarizer(s, v), Observe PROVE Goal
    BY <1>22 DEF RunSummarizer, tableVars
  <1>23. ASSUME NEW s \in Summs, ConsumeSummarizerResult(s), Observe PROVE Goal
    BY <1>23 DEF ConsumeSummarizerResult, tableVars
  <1>24. ASSUME NEW j \in Jobs, CancelRead(j), Observe PROVE Goal
    BY <1>24 DEF CancelRead, tableVars, Exists
  <1>25. ASSUME NEW r \in Runners, CancelRow(r), Observe PROVE Goal
    <2>1. RowCanceled(r) \/ UNCHANGED tableVars
      BY <1>25 DEF CancelRow
    <2> QED
      BY <2>1, RowsAppearOnlyByCreation DEF TypeOK
  <1>26. ASSUME CancelGivesUp, Observe PROVE Goal
    BY <1>26 DEF CancelGivesUp, tableVars
  <1>27. ASSUME CancelWrite, Observe PROVE Goal
    BY <1>27 DEF CancelWrite, tableVars
  <1>28. ASSUME NEW r \in Runners, RunnerMoves(r), Observe PROVE Goal
    <2>1. PipelineStep(r)
      BY <1>28 DEF RunnerMoves
    <2> QED
      BY <2>1, RowsAppearOnlyByCreation DEF TypeOK
  <1>29. ASSUME NEW r \in Runners, IngestResults(r), Observe PROVE Goal
    BY <1>29 DEF IngestResults, tableVars
  <1>30. ASSUME Restart, Observe PROVE Goal
    BY <1>30 DEF Restart, tableVars
  <1>31. ASSUME UNCHANGED vars PROVE Goal
    BY <1>31 DEF vars, tableVars, Exists
  <1> HIDE DEF Goal, Exists
  <1> QED
    BY <1>1, <1>2, <1>3, <1>4, <1>5, <1>6, <1>7, <1>8, <1>9, <1>10, <1>11, <1>12,
       <1>13, <1>14, <1>15, <1>16, <1>17, <1>18, <1>19, <1>20, <1>21, <1>22, <1>23,
       <1>24, <1>25, <1>26, <1>27, <1>28, <1>29, <1>30, <1>31 DEF Next, Step,
       Creator, Enqueuer, Summarizer, Failures, SummarizerWorker, Canceler

\* Once all runners are queued and have ended, they have ended for good.
LEMMA RowsStayEnded ==
    ASSUME TypeOK, EnqueueOpen, EndedSeen, [Next]_vars
    PROVE  /\ EndedSeen'
           /\ \A j \in Jobs : allQueued[j] /\ RowsOf(j) \subseteq ended
                                 => RowsOf(j)' \subseteq ended'
  <1> USE DEF RowsOf, Exists, EndedSeen
  <1>1. CASE Observe
    <2>1. EndedSeen'
      BY <1>1 DEF Observe, Ended
    <2>2. \A r \in Runners : r \in ended /\ Exists(r)' => r \in ended'
      BY <1>1 DEF Observe
    <2> QED
      BY <2>1, <2>2, NewRowsOpen
  <1>2. CASE UNCHANGED vars
    BY <1>2 DEF vars, tableVars
  <1> QED
    BY <1>1, <1>2 DEF Next

\* MarkSummarizing and MarkSent write what CreateSummarizer and SendSummarizer left.
LEMMA WriteStep ==
    TypeOK /\ ListedReady /\ WriteKnown /\ [Next]_vars => WriteKnown'
  <1> SUFFICES ASSUME TypeOK, ListedReady, WriteKnown, [Next]_vars PROVE WriteKnown'
    OBVIOUS
  <1>0. \A j \in Jobs : Known(j) => Known(j)' /\ trigger'[j] = trigger[j]
    BY Monotone
  <1> USE ConstantsAssumption, <1>0 DEF TypeOK, ListedReady, WriteKnown
  <1>1. ASSUME NEW J \in SUBSET Jobs, NEW t \in TriggerTypes, CreateJobs(J, t),
     Observe PROVE WriteKnown'
    BY <1>1 DEF CreateJobs, summVars, loopVars, cancelVars
  <1>2. ASSUME NEW J \in SUBSET Jobs, TriggerJobs(J), Observe PROVE WriteKnown'
    BY <1>2 DEF TriggerJobs, CreateJobs, summVars, loopVars, cancelVars
  <1>3. ASSUME NEW R \in SUBSET Runners, DeleteOldRows(R), Observe PROVE WriteKnown'
    BY <1>3 DEF DeleteOldRows, jobVars, summVars, loopVars, cancelVars
  <1>4. ASSUME NEW j \in Jobs, DayPasses(j), Observe PROVE WriteKnown'
    BY <1>4 DEF DayPasses, summVars, loopVars, cancelVars
  <1>5. ASSUME NEW j \in Jobs, SinkMinutesPass(j), Observe PROVE WriteKnown'
    BY <1>5 DEF SinkMinutesPass, summVars, loopVars, cancelVars
  <1>6. ASSUME ListUnqueued, Observe PROVE WriteKnown'
    BY <1>6 DEF ListUnqueued, jobVars, summVars, loopVars, cancelVars
  <1>7. ASSUME NEW j \in Jobs, EnqueueRunners(j), Observe PROVE WriteKnown'
    BY <1>7 DEF EnqueueRunners, summVars, loopVars, cancelVars
  <1>8. ASSUME NEW j \in Jobs, EnqueueFails(j), Observe PROVE WriteKnown'
    BY <1>8 DEF EnqueueFails, jobVars, summVars, loopVars, cancelVars
  <1>9. ASSUME NEW g \in TriggerTypes, BeginCycle(g), Observe PROVE WriteKnown'
    BY <1>9 DEF BeginCycle, summVars, cancelVars
  <1>10. ASSUME NEW g \in TriggerTypes, NEW j \in Jobs, WaitForSink(g, j), Observe
     PROVE WriteKnown'
    BY <1>10 DEF WaitForSink, summVars, cancelVars, Handled
  <1>11. ASSUME NEW g \in TriggerTypes, NEW j \in Jobs, KeepWaiting(g, j), Observe
     PROVE WriteKnown'
    BY <1>11 DEF KeepWaiting, jobVars, summVars, cancelVars, Handled
  <1>12. ASSUME NEW g \in TriggerTypes, NEW j \in Jobs, NEW s \in Summs,
     CreateSummarizer(g, j, s), Observe PROVE WriteKnown'
    BY <1>12 DEF CreateSummarizer, jobVars, cancelVars, Handled
  <1>13. ASSUME NEW g \in TriggerTypes, MarkSummarizing(g), Observe PROVE WriteKnown'
    BY <1>13 DEF MarkSummarizing, summVars, cancelVars
  <1>14. ASSUME NEW g \in TriggerTypes, FetchCreatedSummarizers(g), Observe PROVE
     WriteKnown'
    BY <1>14 DEF FetchCreatedSummarizers, jobVars, summVars, cancelVars
  <1>15. ASSUME NEW g \in TriggerTypes, NEW s \in Summs, SendSummarizer(g, s),
     Observe PROVE WriteKnown'
    BY <1>15 DEF SendSummarizer, jobVars, cancelVars
  <1>16. ASSUME NEW g \in TriggerTypes, MarkSent(g), Observe PROVE WriteKnown'
    BY <1>16 DEF MarkSent, jobVars, cancelVars
  <1>17. ASSUME NEW g \in TriggerTypes, NEW s \in Summs, SentButFailed(g, s), Observe
     PROVE WriteKnown'
    BY <1>17 DEF SentButFailed, jobVars, cancelVars
  <1>18. ASSUME NEW g \in TriggerTypes, NEW s \in Summs, SendFails(g, s), Observe
     PROVE WriteKnown'
    BY <1>18 DEF SendFails, jobVars, cancelVars
  <1>19. ASSUME NEW g \in TriggerTypes, ListJobsToFinish(g), Observe PROVE
     WriteKnown'
    BY <1>19 DEF ListJobsToFinish, jobVars, summVars, cancelVars, SummDone
  <1>20. ASSUME NEW g \in TriggerTypes, NEW j \in Jobs, FinishComplianceJob(g, j),
     Observe PROVE WriteKnown'
    BY <1>20 DEF FinishComplianceJob, summVars, cancelVars
  <1>21. ASSUME NEW g \in TriggerTypes, AbandonCycle(g), Observe PROVE WriteKnown'
    BY <1>21 DEF AbandonCycle, jobVars, summVars, cancelVars, Marking
  <1>22. ASSUME NEW s \in Summs, NEW v \in {"SUCCEEDED", "FAILED", "NONE"},
     RunSummarizer(s, v), Observe PROVE WriteKnown'
    BY <1>22 DEF RunSummarizer, jobVars, loopVars, cancelVars
  <1>23. ASSUME NEW s \in Summs, ConsumeSummarizerResult(s), Observe PROVE
     WriteKnown'
    BY <1>23 DEF ConsumeSummarizerResult, jobVars, loopVars, cancelVars
  <1>24. ASSUME NEW j \in Jobs, CancelRead(j), Observe PROVE WriteKnown'
    BY <1>24 DEF CancelRead, jobVars, summVars, loopVars
  <1>25. ASSUME NEW r \in Runners, CancelRow(r), Observe PROVE WriteKnown'
    BY <1>25 DEF CancelRow, jobVars, summVars, loopVars
  <1>26. ASSUME CancelGivesUp, Observe PROVE WriteKnown'
    BY <1>26 DEF CancelGivesUp, jobVars, summVars, loopVars
  <1>27. ASSUME CancelWrite, Observe PROVE WriteKnown'
    BY <1>27 DEF CancelWrite, summVars, loopVars
  <1>28. ASSUME NEW r \in Runners, RunnerMoves(r), Observe PROVE WriteKnown'
    BY <1>28 DEF RunnerMoves, jobVars, summVars, loopVars, cancelVars
  <1>29. ASSUME NEW r \in Runners, IngestResults(r), Observe PROVE WriteKnown'
    BY <1>29 DEF IngestResults, jobVars, summVars, loopVars, cancelVars
  <1>30. ASSUME Restart, Observe PROVE WriteKnown'
    BY <1>30 DEF Restart, jobVars, summVars, Marking
  <1>31. ASSUME UNCHANGED vars PROVE WriteKnown'
    BY <1>31 DEF vars, jobVars, summVars, loopVars, cancelVars
  <1> HIDE DEF TypeOK, ListedReady, WriteKnown
  <1> QED
    BY <1>1, <1>2, <1>3, <1>4, <1>5, <1>6, <1>7, <1>8, <1>9, <1>10, <1>11, <1>12,
       <1>13, <1>14, <1>15, <1>16, <1>17, <1>18, <1>19, <1>20, <1>21, <1>22, <1>23,
       <1>24, <1>25, <1>26, <1>27, <1>28, <1>29, <1>30, <1>31 DEF Next, Step,
       Creator, Enqueuer, Summarizer, Failures, SummarizerWorker, Canceler

\* A list stays true however long its goroutine takes to work through it.
LEMMA ListedStep ==
    TypeOK /\ EnqueueOpen /\ EndedSeen /\ ListedReady /\ [Next]_vars => ListedReady'
  <1> SUFFICES ASSUME TypeOK, EnqueueOpen, EndedSeen, ListedReady, [Next]_vars
               PROVE  ListedReady'
    OBVIOUS
  <1>0. /\ \A j \in Jobs : Known(j) => Known(j)' /\ trigger'[j] = trigger[j]
        /\ \A j \in Jobs : allQueued[j] => allQueued'[j]
        /\ \A j \in Jobs : allQueued[j] /\ RowsOf(j) \subseteq ended
                                 => RowsOf(j)' \subseteq ended'
    BY Monotone, RowsStayEnded
  <1> USE ConstantsAssumption, <1>0 DEF TypeOK, ListedReady
  <1>1. ASSUME NEW J \in SUBSET Jobs, NEW t \in TriggerTypes, CreateJobs(J, t),
     Observe PROVE ListedReady'
    BY <1>1 DEF CreateJobs, summVars, loopVars, cancelVars
  <1>2. ASSUME NEW J \in SUBSET Jobs, TriggerJobs(J), Observe PROVE ListedReady'
    BY <1>2 DEF TriggerJobs, CreateJobs, summVars, loopVars, cancelVars
  <1>3. ASSUME NEW R \in SUBSET Runners, DeleteOldRows(R), Observe PROVE ListedReady'
    BY <1>3 DEF DeleteOldRows, jobVars, summVars, loopVars, cancelVars
  <1>4. ASSUME NEW j \in Jobs, DayPasses(j), Observe PROVE ListedReady'
    BY <1>4 DEF DayPasses, summVars, loopVars, cancelVars
  <1>5. ASSUME NEW j \in Jobs, SinkMinutesPass(j), Observe PROVE ListedReady'
    BY <1>5 DEF SinkMinutesPass, summVars, loopVars, cancelVars
  <1>6. ASSUME ListUnqueued, Observe PROVE ListedReady'
    BY <1>6 DEF ListUnqueued, jobVars, summVars, loopVars, cancelVars
  <1>7. ASSUME NEW j \in Jobs, EnqueueRunners(j), Observe PROVE ListedReady'
    BY <1>7 DEF EnqueueRunners, summVars, loopVars, cancelVars
  <1>8. ASSUME NEW j \in Jobs, EnqueueFails(j), Observe PROVE ListedReady'
    BY <1>8 DEF EnqueueFails, jobVars, summVars, loopVars, cancelVars
  <1>9. ASSUME NEW g \in TriggerTypes, BeginCycle(g), Observe PROVE ListedReady'
    <2>1. \A j \in Jobs : RunnersCompleted(j) => Known(j) /\ allQueued[j] /\ RowsOf(j) \subseteq ended
      BY DEF RunnersCompleted, SweptStatus, Known, RowsOf, EndedSeen
    <2> QED
      BY <1>9, <2>1 DEF BeginCycle
  <1>10. ASSUME NEW g \in TriggerTypes, NEW j \in Jobs, WaitForSink(g, j), Observe
     PROVE ListedReady'
    BY <1>10 DEF WaitForSink, summVars, cancelVars, Handled
  <1>11. ASSUME NEW g \in TriggerTypes, NEW j \in Jobs, KeepWaiting(g, j), Observe
     PROVE ListedReady'
    BY <1>11 DEF KeepWaiting, jobVars, summVars, cancelVars, Handled
  <1>12. ASSUME NEW g \in TriggerTypes, NEW j \in Jobs, NEW s \in Summs,
     CreateSummarizer(g, j, s), Observe PROVE ListedReady'
    BY <1>12 DEF CreateSummarizer, jobVars, cancelVars, Handled
  <1>13. ASSUME NEW g \in TriggerTypes, MarkSummarizing(g), Observe PROVE
     ListedReady'
    BY <1>13 DEF MarkSummarizing, summVars, cancelVars
  <1>14. ASSUME NEW g \in TriggerTypes, FetchCreatedSummarizers(g), Observe PROVE
     ListedReady'
    BY <1>14 DEF FetchCreatedSummarizers, jobVars, summVars, cancelVars
  <1>15. ASSUME NEW g \in TriggerTypes, NEW s \in Summs, SendSummarizer(g, s),
     Observe PROVE ListedReady'
    BY <1>15 DEF SendSummarizer, jobVars, cancelVars
  <1>16. ASSUME NEW g \in TriggerTypes, MarkSent(g), Observe PROVE ListedReady'
    BY <1>16 DEF MarkSent, jobVars, cancelVars
  <1>17. ASSUME NEW g \in TriggerTypes, NEW s \in Summs, SentButFailed(g, s), Observe
     PROVE ListedReady'
    BY <1>17 DEF SentButFailed, jobVars, cancelVars
  <1>18. ASSUME NEW g \in TriggerTypes, NEW s \in Summs, SendFails(g, s), Observe
     PROVE ListedReady'
    BY <1>18 DEF SendFails, jobVars, cancelVars
  <1>19. ASSUME NEW g \in TriggerTypes, ListJobsToFinish(g), Observe PROVE
     ListedReady'
    BY <1>19 DEF ListJobsToFinish, jobVars, summVars, cancelVars, SummDone
  <1>20. ASSUME NEW g \in TriggerTypes, NEW j \in Jobs, FinishComplianceJob(g, j),
     Observe PROVE ListedReady'
    BY <1>20 DEF FinishComplianceJob, summVars, cancelVars
  <1>21. ASSUME NEW g \in TriggerTypes, AbandonCycle(g), Observe PROVE ListedReady'
    BY <1>21 DEF AbandonCycle, jobVars, summVars, cancelVars, Marking
  <1>22. ASSUME NEW s \in Summs, NEW v \in {"SUCCEEDED", "FAILED", "NONE"},
     RunSummarizer(s, v), Observe PROVE ListedReady'
    BY <1>22 DEF RunSummarizer, jobVars, loopVars, cancelVars
  <1>23. ASSUME NEW s \in Summs, ConsumeSummarizerResult(s), Observe PROVE
     ListedReady'
    BY <1>23 DEF ConsumeSummarizerResult, jobVars, loopVars, cancelVars
  <1>24. ASSUME NEW j \in Jobs, CancelRead(j), Observe PROVE ListedReady'
    BY <1>24 DEF CancelRead, jobVars, summVars, loopVars
  <1>25. ASSUME NEW r \in Runners, CancelRow(r), Observe PROVE ListedReady'
    BY <1>25 DEF CancelRow, jobVars, summVars, loopVars
  <1>26. ASSUME CancelGivesUp, Observe PROVE ListedReady'
    BY <1>26 DEF CancelGivesUp, jobVars, summVars, loopVars
  <1>27. ASSUME CancelWrite, Observe PROVE ListedReady'
    BY <1>27 DEF CancelWrite, summVars, loopVars
  <1>28. ASSUME NEW r \in Runners, RunnerMoves(r), Observe PROVE ListedReady'
    BY <1>28 DEF RunnerMoves, jobVars, summVars, loopVars, cancelVars
  <1>29. ASSUME NEW r \in Runners, IngestResults(r), Observe PROVE ListedReady'
    BY <1>29 DEF IngestResults, jobVars, summVars, loopVars, cancelVars
  <1>30. ASSUME Restart, Observe PROVE ListedReady'
    BY <1>30 DEF Restart, jobVars, summVars, Marking
  <1>31. ASSUME UNCHANGED vars PROVE ListedReady'
    BY <1>31 DEF vars, jobVars, summVars, loopVars, cancelVars
  <1> HIDE DEF TypeOK, ListedReady
  <1> QED
    BY <1>1, <1>2, <1>3, <1>4, <1>5, <1>6, <1>7, <1>8, <1>9, <1>10, <1>11, <1>12,
       <1>13, <1>14, <1>15, <1>16, <1>17, <1>18, <1>19, <1>20, <1>21, <1>22, <1>23,
       <1>24, <1>25, <1>26, <1>27, <1>28, <1>29, <1>30, <1>31 DEF Next, Step,
       Creator, Enqueuer, Summarizer, Failures, SummarizerWorker, Canceler

\* CreateSummarizer summarizes listed jobs only.
LEMMA SummStep ==
    TypeOK /\ EnqueueOpen /\ EndedSeen /\ ListedReady /\ SummKnown /\ NoRunnerLeftBehind
      /\ [Next]_vars => SummKnown' /\ NoRunnerLeftBehind'
  <1> SUFFICES ASSUME TypeOK, EnqueueOpen, EndedSeen, ListedReady, SummKnown,
                      NoRunnerLeftBehind, [Next]_vars
               PROVE  SummKnown' /\ NoRunnerLeftBehind'
    OBVIOUS
  <1>0. /\ \A j \in Jobs : Known(j) => Known(j)' /\ trigger'[j] = trigger[j]
        /\ \A j \in Jobs : allQueued[j] => allQueued'[j]
        /\ \A j \in Jobs : allQueued[j] /\ RowsOf(j) \subseteq ended
                                 => RowsOf(j)' \subseteq ended'
    BY Monotone, RowsStayEnded
  <1>a. ASSUME UNCHANGED summOf PROVE SummKnown' /\ NoRunnerLeftBehind'
    BY <1>0, <1>a DEF TypeOK, SummKnown, NoRunnerLeftBehind
  <1>b. ASSUME NEW g \in TriggerTypes, NEW j \in Jobs, NEW s \in Summs,
               CreateSummarizer(g, j, s)
        PROVE  SummKnown' /\ NoRunnerLeftBehind'
    <2>1. /\ Known(j) /\ allQueued[j] /\ RowsOf(j) \subseteq ended
          /\ summOf' = [summOf EXCEPT ![s] = j]
      BY <1>b DEF CreateSummarizer, ListedReady
    <2> QED
      BY <1>0, <2>1 DEF TypeOK, SummKnown, NoRunnerLeftBehind
  <1> DEFINE Goal == \/ UNCHANGED summOf
                     \/ \E g \in TriggerTypes, j \in Jobs, s \in Summs : CreateSummarizer(g, j, s)
  <1>c. SUFFICES Goal
    BY <1>a, <1>b
  <1>1. ASSUME NEW J \in SUBSET Jobs, NEW t \in TriggerTypes, CreateJobs(J, t),
     Observe PROVE Goal
    BY <1>1 DEF CreateJobs, summVars
  <1>2. ASSUME NEW J \in SUBSET Jobs, TriggerJobs(J), Observe PROVE Goal
    BY <1>2 DEF TriggerJobs, CreateJobs, summVars
  <1>3. ASSUME NEW R \in SUBSET Runners, DeleteOldRows(R), Observe PROVE Goal
    BY <1>3 DEF DeleteOldRows, summVars
  <1>4. ASSUME NEW j \in Jobs, DayPasses(j), Observe PROVE Goal
    BY <1>4 DEF DayPasses, summVars
  <1>5. ASSUME NEW j \in Jobs, SinkMinutesPass(j), Observe PROVE Goal
    BY <1>5 DEF SinkMinutesPass, summVars
  <1>6. ASSUME ListUnqueued, Observe PROVE Goal
    BY <1>6 DEF ListUnqueued, summVars
  <1>7. ASSUME NEW j \in Jobs, EnqueueRunners(j), Observe PROVE Goal
    BY <1>7 DEF EnqueueRunners, summVars
  <1>8. ASSUME NEW j \in Jobs, EnqueueFails(j), Observe PROVE Goal
    BY <1>8 DEF EnqueueFails, summVars
  <1>9. ASSUME NEW g \in TriggerTypes, BeginCycle(g), Observe PROVE Goal
    BY <1>9 DEF BeginCycle, summVars
  <1>10. ASSUME NEW g \in TriggerTypes, NEW j \in Jobs, WaitForSink(g, j), Observe
     PROVE Goal
    BY <1>10 DEF WaitForSink, summVars
  <1>11. ASSUME NEW g \in TriggerTypes, NEW j \in Jobs, KeepWaiting(g, j), Observe
     PROVE Goal
    BY <1>11 DEF KeepWaiting, summVars
  <1>12. ASSUME NEW g \in TriggerTypes, NEW j \in Jobs, NEW s \in Summs,
     CreateSummarizer(g, j, s), Observe PROVE Goal
    BY <1>12
  <1>13. ASSUME NEW g \in TriggerTypes, MarkSummarizing(g), Observe PROVE Goal
    BY <1>13 DEF MarkSummarizing, summVars
  <1>14. ASSUME NEW g \in TriggerTypes, FetchCreatedSummarizers(g), Observe PROVE
     Goal
    BY <1>14 DEF FetchCreatedSummarizers, summVars
  <1>15. ASSUME NEW g \in TriggerTypes, NEW s \in Summs, SendSummarizer(g, s),
     Observe PROVE Goal
    BY <1>15 DEF SendSummarizer
  <1>16. ASSUME NEW g \in TriggerTypes, MarkSent(g), Observe PROVE Goal
    BY <1>16 DEF MarkSent
  <1>17. ASSUME NEW g \in TriggerTypes, NEW s \in Summs, SentButFailed(g, s), Observe
     PROVE Goal
    BY <1>17 DEF SentButFailed
  <1>18. ASSUME NEW g \in TriggerTypes, NEW s \in Summs, SendFails(g, s), Observe
     PROVE Goal
    BY <1>18 DEF SendFails
  <1>19. ASSUME NEW g \in TriggerTypes, ListJobsToFinish(g), Observe PROVE Goal
    BY <1>19 DEF ListJobsToFinish, summVars
  <1>20. ASSUME NEW g \in TriggerTypes, NEW j \in Jobs, FinishComplianceJob(g, j),
     Observe PROVE Goal
    BY <1>20 DEF FinishComplianceJob, summVars
  <1>21. ASSUME NEW g \in TriggerTypes, AbandonCycle(g), Observe PROVE Goal
    BY <1>21 DEF AbandonCycle, summVars
  <1>22. ASSUME NEW s \in Summs, NEW v \in {"SUCCEEDED", "FAILED", "NONE"},
     RunSummarizer(s, v), Observe PROVE Goal
    BY <1>22 DEF RunSummarizer
  <1>23. ASSUME NEW s \in Summs, ConsumeSummarizerResult(s), Observe PROVE Goal
    BY <1>23 DEF ConsumeSummarizerResult
  <1>24. ASSUME NEW j \in Jobs, CancelRead(j), Observe PROVE Goal
    BY <1>24 DEF CancelRead, summVars
  <1>25. ASSUME NEW r \in Runners, CancelRow(r), Observe PROVE Goal
    BY <1>25 DEF CancelRow, summVars
  <1>26. ASSUME CancelGivesUp, Observe PROVE Goal
    BY <1>26 DEF CancelGivesUp, summVars
  <1>27. ASSUME CancelWrite, Observe PROVE Goal
    BY <1>27 DEF CancelWrite, summVars
  <1>28. ASSUME NEW r \in Runners, RunnerMoves(r), Observe PROVE Goal
    BY <1>28 DEF RunnerMoves, summVars
  <1>29. ASSUME NEW r \in Runners, IngestResults(r), Observe PROVE Goal
    BY <1>29 DEF IngestResults, summVars
  <1>30. ASSUME Restart, Observe PROVE Goal
    BY <1>30 DEF Restart, summVars
  <1>31. ASSUME UNCHANGED vars PROVE Goal
    BY <1>31 DEF vars, summVars
  <1> HIDE DEF Goal
  <1> QED
    BY <1>1, <1>2, <1>3, <1>4, <1>5, <1>6, <1>7, <1>8, <1>9, <1>10, <1>11, <1>12,
       <1>13, <1>14, <1>15, <1>16, <1>17, <1>18, <1>19, <1>20, <1>21, <1>22, <1>23,
       <1>24, <1>25, <1>26, <1>27, <1>28, <1>29, <1>30, <1>31 DEF Next, Step,
       Creator, Enqueuer, Summarizer, Failures, SummarizerWorker, Canceler

\* A summarized job is never listed again, so no summarizer is created for it, unless its
\* mark was lost.
LEMMA OnceStep ==
    TypeOK /\ ListedReady /\ WriteKnown /\ SummKnown /\ SummarizedOff /\ OneSummarizer
      /\ [Next]_vars => SummarizedOff' /\ OneSummarizer'
  <1> SUFFICES ASSUME TypeOK, ListedReady, WriteKnown, SummKnown, SummarizedOff,
                      OneSummarizer, [Next]_vars
               PROVE  SummarizedOff' /\ OneSummarizer'
    OBVIOUS
  <1> USE ConstantsAssumption DEF TypeOK, SummarizedOff, OneSummarizer, Later, Marking
  <1>1. ASSUME NEW J \in SUBSET Jobs, NEW t \in TriggerTypes, CreateJobs(J, t),
     Observe PROVE SummarizedOff' /\ OneSummarizer'
    BY <1>1 DEF CreateJobs, summVars, loopVars, cancelVars
  <1>2. ASSUME NEW J \in SUBSET Jobs, TriggerJobs(J), Observe PROVE SummarizedOff' /\
     OneSummarizer'
    BY <1>2 DEF TriggerJobs, CreateJobs, summVars, loopVars, cancelVars
  <1>3. ASSUME NEW R \in SUBSET Runners, DeleteOldRows(R), Observe PROVE
     SummarizedOff' /\ OneSummarizer'
    BY <1>3 DEF DeleteOldRows, jobVars, summVars, loopVars, cancelVars
  <1>4. ASSUME NEW j \in Jobs, DayPasses(j), Observe PROVE SummarizedOff' /\
     OneSummarizer'
    BY <1>4 DEF DayPasses, summVars, loopVars, cancelVars
  <1>5. ASSUME NEW j \in Jobs, SinkMinutesPass(j), Observe PROVE SummarizedOff' /\
     OneSummarizer'
    BY <1>5 DEF SinkMinutesPass, summVars, loopVars, cancelVars
  <1>6. ASSUME ListUnqueued, Observe PROVE SummarizedOff' /\ OneSummarizer'
    BY <1>6 DEF ListUnqueued, jobVars, summVars, loopVars, cancelVars
  <1>7. ASSUME NEW j \in Jobs, EnqueueRunners(j), Observe PROVE SummarizedOff' /\
     OneSummarizer'
    BY <1>7 DEF EnqueueRunners, summVars, loopVars, cancelVars
  <1>8. ASSUME NEW j \in Jobs, EnqueueFails(j), Observe PROVE SummarizedOff' /\
     OneSummarizer'
    BY <1>8 DEF EnqueueFails, jobVars, summVars, loopVars, cancelVars
  <1>9. ASSUME NEW g \in TriggerTypes, BeginCycle(g), Observe PROVE SummarizedOff' /\
     OneSummarizer'
    <2>1. \A j \in Jobs : jobStatus[j] \in Later =>
             SweptStatus(j) \in Later /\ ~RunnersCompleted(j)
      BY DEF SweptStatus, RunnersCompleted
    <2>2. /\ at[g] = "finish" /\ at' = [at EXCEPT ![g] = "jobs"] /\ current' = current
          /\ jobStatus' = [j \in Jobs |-> SweptStatus(j)]
          /\ listed' = [listed EXCEPT ![g] =
                {j \in Jobs : trigger[j] = g /\ RunnersCompleted(j)}]
          /\ summOf' = summOf /\ unmarked' = unmarked
      BY <1>9 DEF BeginCycle, loopVars, summVars
    <2>3. OneSummarizer'
      BY <2>2
    <2>4. ASSUME NEW s \in Summs, NEW j \in Jobs \ unmarked, summOf[s] = j
          PROVE  /\ \A h \in TriggerTypes : j \notin listed'[h]
                 /\ jobStatus'[j] \in Later \/ \E h \in TriggerTypes : Marking(h, j)'
      <3>1. CASE jobStatus[j] \in Later
        BY <2>1, <2>2, <2>4, <3>1
      <3>2. CASE jobStatus[j] \notin Later
        <4>1. PICK h \in TriggerTypes : Marking(h, j)
          BY <2>4, <3>2
        <4>2. h # g /\ trigger[j] = h
          BY <2>2, <4>1 DEF WriteKnown
        <4>3. Marking(h, j)'
          BY <2>2, <4>1, <4>2
        <4> QED
          BY <2>2, <2>4, <4>2, <4>3
      <3> QED
        BY <3>1, <3>2
    <2> HIDE DEF Marking, Later
    <2>5. SummarizedOff'
      BY <2>2, <2>4
    <2> QED
      BY <2>3, <2>5
  <1>10. ASSUME NEW g \in TriggerTypes, NEW j \in Jobs, WaitForSink(g, j), Observe
     PROVE SummarizedOff' /\ OneSummarizer'
    BY <1>10 DEF WaitForSink, summVars, cancelVars, Handled
  <1>11. ASSUME NEW g \in TriggerTypes, NEW j \in Jobs, KeepWaiting(g, j), Observe
     PROVE SummarizedOff' /\ OneSummarizer'
    BY <1>11 DEF KeepWaiting, jobVars, summVars, cancelVars, Handled
  <1>12. ASSUME NEW g \in TriggerTypes, NEW j \in Jobs, NEW s \in Summs,
     CreateSummarizer(g, j, s), Observe PROVE SummarizedOff' /\ OneSummarizer'
    <2>1. /\ j \in listed[g] /\ summOf[s] = None
          /\ at' = [at EXCEPT ![g] = "mark"] /\ current' = [current EXCEPT ![g] = j]
          /\ listed' = [listed EXCEPT ![g] = @ \ {j}]
          /\ summOf' = [summOf EXCEPT ![s] = j]
          /\ jobStatus' = jobStatus /\ unmarked' = unmarked
      BY <1>12 DEF CreateSummarizer, Handled, jobVars
    <2>2. at[g] = "jobs"
      BY <1>12 DEF CreateSummarizer
    <2>3. \A t \in Summs : summOf[t] = j => j \in unmarked
      BY <2>1
    <2>4. OneSummarizer'
      BY <2>1, <2>3
    <2>5. \A h \in TriggerTypes : j \notin listed'[h]
      BY <2>1 DEF ListedReady
    <2>6. Marking(g, j)' /\ \A i \in Jobs, h \in TriggerTypes : Marking(h, i) => Marking(h, i)'
      BY <2>1, <2>2
    <2> HIDE DEF Marking, Later
    <2>7. SummarizedOff'
      BY <2>1, <2>5, <2>6
    <2> QED
      BY <2>4, <2>7
  <1>13. ASSUME NEW g \in TriggerTypes, MarkSummarizing(g), Observe PROVE
     SummarizedOff' /\ OneSummarizer'
    BY <1>13 DEF MarkSummarizing, summVars, cancelVars
  <1>14. ASSUME NEW g \in TriggerTypes, FetchCreatedSummarizers(g), Observe PROVE
     SummarizedOff' /\ OneSummarizer'
    BY <1>14 DEF FetchCreatedSummarizers, jobVars, summVars, cancelVars
  <1>15. ASSUME NEW g \in TriggerTypes, NEW s \in Summs, SendSummarizer(g, s),
     Observe PROVE SummarizedOff' /\ OneSummarizer'
    BY <1>15 DEF SendSummarizer, jobVars, cancelVars
  <1>16. ASSUME NEW g \in TriggerTypes, MarkSent(g), Observe PROVE SummarizedOff' /\
     OneSummarizer'
    BY <1>16 DEF MarkSent, jobVars, cancelVars
  <1>17. ASSUME NEW g \in TriggerTypes, NEW s \in Summs, SentButFailed(g, s), Observe
     PROVE SummarizedOff' /\ OneSummarizer'
    BY <1>17 DEF SentButFailed, jobVars, cancelVars
  <1>18. ASSUME NEW g \in TriggerTypes, NEW s \in Summs, SendFails(g, s), Observe
     PROVE SummarizedOff' /\ OneSummarizer'
    BY <1>18 DEF SendFails, jobVars, cancelVars
  <1>19. ASSUME NEW g \in TriggerTypes, ListJobsToFinish(g), Observe PROVE
     SummarizedOff' /\ OneSummarizer'
    BY <1>19 DEF ListJobsToFinish, jobVars, summVars, cancelVars, SummDone
  <1>20. ASSUME NEW g \in TriggerTypes, NEW j \in Jobs, FinishComplianceJob(g, j),
     Observe PROVE SummarizedOff' /\ OneSummarizer'
    BY <1>20 DEF FinishComplianceJob, summVars, cancelVars
  <1>21. ASSUME NEW g \in TriggerTypes, AbandonCycle(g), Observe PROVE SummarizedOff'
     /\ OneSummarizer'
    BY <1>21 DEF AbandonCycle, jobVars, summVars, cancelVars
  <1>22. ASSUME NEW s \in Summs, NEW v \in {"SUCCEEDED", "FAILED", "NONE"},
     RunSummarizer(s, v), Observe PROVE SummarizedOff' /\ OneSummarizer'
    BY <1>22 DEF RunSummarizer, jobVars, loopVars, cancelVars
  <1>23. ASSUME NEW s \in Summs, ConsumeSummarizerResult(s), Observe PROVE
     SummarizedOff' /\ OneSummarizer'
    BY <1>23 DEF ConsumeSummarizerResult, jobVars, loopVars, cancelVars
  <1>24. ASSUME NEW j \in Jobs, CancelRead(j), Observe PROVE SummarizedOff' /\
     OneSummarizer'
    BY <1>24 DEF CancelRead, jobVars, summVars, loopVars
  <1>25. ASSUME NEW r \in Runners, CancelRow(r), Observe PROVE SummarizedOff' /\
     OneSummarizer'
    BY <1>25 DEF CancelRow, jobVars, summVars, loopVars
  <1>26. ASSUME CancelGivesUp, Observe PROVE SummarizedOff' /\ OneSummarizer'
    BY <1>26 DEF CancelGivesUp, jobVars, summVars, loopVars
  <1>27. ASSUME CancelWrite, Observe PROVE SummarizedOff' /\ OneSummarizer'
    BY <1>27 DEF CancelWrite, summVars, loopVars
  <1>28. ASSUME NEW r \in Runners, RunnerMoves(r), Observe PROVE SummarizedOff' /\
     OneSummarizer'
    BY <1>28 DEF RunnerMoves, jobVars, summVars, loopVars, cancelVars
  <1>29. ASSUME NEW r \in Runners, IngestResults(r), Observe PROVE SummarizedOff' /\
     OneSummarizer'
    BY <1>29 DEF IngestResults, jobVars, summVars, loopVars, cancelVars
  <1>30. ASSUME Restart, Observe PROVE SummarizedOff' /\ OneSummarizer'
    BY <1>30 DEF Restart, jobVars, summVars
  <1>31. ASSUME UNCHANGED vars PROVE SummarizedOff' /\ OneSummarizer'
    BY <1>31 DEF vars, jobVars, summVars, loopVars, cancelVars
  <1> HIDE DEF TypeOK, SummarizedOff, OneSummarizer
  <1> QED
    BY <1>1, <1>2, <1>3, <1>4, <1>5, <1>6, <1>7, <1>8, <1>9, <1>10, <1>11, <1>12,
       <1>13, <1>14, <1>15, <1>16, <1>17, <1>18, <1>19, <1>20, <1>21, <1>22, <1>23,
       <1>24, <1>25, <1>26, <1>27, <1>28, <1>29, <1>30, <1>31 DEF Next, Step,
       Creator, Enqueuer, Summarizer, Failures, SummarizerWorker, Canceler

\* A marked or closed job is on no list, so nothing reopens it.
LEMMA FinishedStep ==
    TypeOK /\ ListedReady /\ WriteKnown /\ FinishedOff /\ [Next]_vars => FinishedOff'
  <1> SUFFICES ASSUME TypeOK, ListedReady, WriteKnown, FinishedOff, [Next]_vars
               PROVE  FinishedOff'
    OBVIOUS
  <1> USE ConstantsAssumption DEF TypeOK, FinishedOff, Later, Marking
  <1>1. ASSUME NEW J \in SUBSET Jobs, NEW t \in TriggerTypes, CreateJobs(J, t),
     Observe PROVE FinishedOff'
    BY <1>1 DEF CreateJobs, summVars, loopVars, cancelVars
  <1>2. ASSUME NEW J \in SUBSET Jobs, TriggerJobs(J), Observe PROVE FinishedOff'
    BY <1>2 DEF TriggerJobs, CreateJobs, summVars, loopVars, cancelVars
  <1>3. ASSUME NEW R \in SUBSET Runners, DeleteOldRows(R), Observe PROVE FinishedOff'
    BY <1>3 DEF DeleteOldRows, jobVars, summVars, loopVars, cancelVars
  <1>4. ASSUME NEW j \in Jobs, DayPasses(j), Observe PROVE FinishedOff'
    BY <1>4 DEF DayPasses, summVars, loopVars, cancelVars
  <1>5. ASSUME NEW j \in Jobs, SinkMinutesPass(j), Observe PROVE FinishedOff'
    BY <1>5 DEF SinkMinutesPass, summVars, loopVars, cancelVars
  <1>6. ASSUME ListUnqueued, Observe PROVE FinishedOff'
    BY <1>6 DEF ListUnqueued, jobVars, summVars, loopVars, cancelVars
  <1>7. ASSUME NEW j \in Jobs, EnqueueRunners(j), Observe PROVE FinishedOff'
    BY <1>7 DEF EnqueueRunners, summVars, loopVars, cancelVars
  <1>8. ASSUME NEW j \in Jobs, EnqueueFails(j), Observe PROVE FinishedOff'
    BY <1>8 DEF EnqueueFails, jobVars, summVars, loopVars, cancelVars
  <1>9. ASSUME NEW g \in TriggerTypes, BeginCycle(g), Observe PROVE FinishedOff'
    <2>1. \A j \in Jobs : jobStatus[j] \in Later =>
             SweptStatus(j) \in Later /\ ~RunnersCompleted(j)
      BY DEF SweptStatus, RunnersCompleted
    <2>2. \A j \in Jobs :
             SweptStatus(j) \in {"SUMMARIZER_IN_PROGRESS", "SUCCEEDED", "FAILED"}
                => jobStatus[j] \in {"SUMMARIZER_IN_PROGRESS", "SUCCEEDED", "FAILED"}
      BY DEF SweptStatus
    <2>3. /\ at' = [at EXCEPT ![g] = "jobs"] /\ current' = current
          /\ finishing' = finishing
          /\ jobStatus' = [j \in Jobs |-> SweptStatus(j)]
          /\ listed' = [listed EXCEPT ![g] =
                {j \in Jobs : trigger[j] = g /\ RunnersCompleted(j)}]
      BY <1>9 DEF BeginCycle, loopVars
    <2> HIDE DEF Later
    <2> QED
      BY <2>1, <2>2, <2>3
  <1>10. ASSUME NEW g \in TriggerTypes, NEW j \in Jobs, WaitForSink(g, j), Observe
     PROVE FinishedOff'
    BY <1>10 DEF WaitForSink, summVars, cancelVars, Handled, ListedReady
  <1>11. ASSUME NEW g \in TriggerTypes, NEW j \in Jobs, KeepWaiting(g, j), Observe
     PROVE FinishedOff'
    BY <1>11 DEF KeepWaiting, jobVars, summVars, cancelVars, Handled
  <1>12. ASSUME NEW g \in TriggerTypes, NEW j \in Jobs, NEW s \in Summs,
     CreateSummarizer(g, j, s), Observe PROVE FinishedOff'
    BY <1>12 DEF CreateSummarizer, jobVars, cancelVars, Handled, ListedReady
  <1>13. ASSUME NEW g \in TriggerTypes, MarkSummarizing(g), Observe PROVE
     FinishedOff'
    BY <1>13 DEF MarkSummarizing, summVars, cancelVars, ListedReady, WriteKnown
  <1>14. ASSUME NEW g \in TriggerTypes, FetchCreatedSummarizers(g), Observe PROVE
     FinishedOff'
    BY <1>14 DEF FetchCreatedSummarizers, jobVars, summVars, cancelVars
  <1>15. ASSUME NEW g \in TriggerTypes, NEW s \in Summs, SendSummarizer(g, s),
     Observe PROVE FinishedOff'
    BY <1>15 DEF SendSummarizer, jobVars, cancelVars
  <1>16. ASSUME NEW g \in TriggerTypes, MarkSent(g), Observe PROVE FinishedOff'
    BY <1>16 DEF MarkSent, jobVars, cancelVars
  <1>17. ASSUME NEW g \in TriggerTypes, NEW s \in Summs, SentButFailed(g, s), Observe
     PROVE FinishedOff'
    BY <1>17 DEF SentButFailed, jobVars, cancelVars
  <1>18. ASSUME NEW g \in TriggerTypes, NEW s \in Summs, SendFails(g, s), Observe
     PROVE FinishedOff'
    BY <1>18 DEF SendFails, jobVars, cancelVars
  <1>19. ASSUME NEW g \in TriggerTypes, ListJobsToFinish(g), Observe PROVE
     FinishedOff'
    BY <1>19 DEF ListJobsToFinish, jobVars, summVars, cancelVars, SummDone
  <1>20. ASSUME NEW g \in TriggerTypes, NEW j \in Jobs, FinishComplianceJob(g, j),
     Observe PROVE FinishedOff'
    BY <1>20 DEF FinishComplianceJob, summVars, cancelVars
  <1>21. ASSUME NEW g \in TriggerTypes, AbandonCycle(g), Observe PROVE FinishedOff'
    BY <1>21 DEF AbandonCycle, jobVars, summVars, cancelVars
  <1>22. ASSUME NEW s \in Summs, NEW v \in {"SUCCEEDED", "FAILED", "NONE"},
     RunSummarizer(s, v), Observe PROVE FinishedOff'
    BY <1>22 DEF RunSummarizer, jobVars, loopVars, cancelVars
  <1>23. ASSUME NEW s \in Summs, ConsumeSummarizerResult(s), Observe PROVE
     FinishedOff'
    BY <1>23 DEF ConsumeSummarizerResult, jobVars, loopVars, cancelVars
  <1>24. ASSUME NEW j \in Jobs, CancelRead(j), Observe PROVE FinishedOff'
    BY <1>24 DEF CancelRead, jobVars, summVars, loopVars
  <1>25. ASSUME NEW r \in Runners, CancelRow(r), Observe PROVE FinishedOff'
    BY <1>25 DEF CancelRow, jobVars, summVars, loopVars
  <1>26. ASSUME CancelGivesUp, Observe PROVE FinishedOff'
    BY <1>26 DEF CancelGivesUp, jobVars, summVars, loopVars
  <1>27. ASSUME CancelWrite, Observe PROVE FinishedOff'
    BY <1>27 DEF CancelWrite, summVars, loopVars
  <1>28. ASSUME NEW r \in Runners, RunnerMoves(r), Observe PROVE FinishedOff'
    BY <1>28 DEF RunnerMoves, jobVars, summVars, loopVars, cancelVars
  <1>29. ASSUME NEW r \in Runners, IngestResults(r), Observe PROVE FinishedOff'
    BY <1>29 DEF IngestResults, jobVars, summVars, loopVars, cancelVars
  <1>30. ASSUME Restart, Observe PROVE FinishedOff'
    BY <1>30 DEF Restart, jobVars, summVars
  <1>31. ASSUME UNCHANGED vars PROVE FinishedOff'
    BY <1>31 DEF vars, jobVars, summVars, loopVars, cancelVars
  <1> HIDE DEF TypeOK, FinishedOff
  <1> QED
    BY <1>1, <1>2, <1>3, <1>4, <1>5, <1>6, <1>7, <1>8, <1>9, <1>10, <1>11, <1>12,
       <1>13, <1>14, <1>15, <1>16, <1>17, <1>18, <1>19, <1>20, <1>21, <1>22, <1>23,
       <1>24, <1>25, <1>26, <1>27, <1>28, <1>29, <1>30, <1>31 DEF Next, Step,
       Creator, Enqueuer, Summarizer, Failures, SummarizerWorker, Canceler

\* Only a job with a summarizer that ran or could not be sent is closed.
LEMMA RanStep ==
    TypeOK /\ VerdictRan /\ FinishingRan /\ SuccessWasSummarized /\ [Next]_vars
      => VerdictRan' /\ FinishingRan' /\ SuccessWasSummarized'
  <1> SUFFICES ASSUME TypeOK, VerdictRan, FinishingRan, SuccessWasSummarized, [Next]_vars
               PROVE  VerdictRan' /\ FinishingRan' /\ SuccessWasSummarized'
    OBVIOUS
  <1>0. \A j \in Jobs, s \in summRan : summOf[s] = j => s \in summRan' /\ summOf'[s] = j
    BY ConstantsAssumption, Monotone DEF TypeOK
  <1> USE ConstantsAssumption, <1>0 DEF TypeOK, VerdictRan, FinishingRan, SuccessWasSummarized
  <1>1. ASSUME NEW J \in SUBSET Jobs, NEW t \in TriggerTypes, CreateJobs(J, t),
     Observe PROVE VerdictRan' /\ FinishingRan' /\ SuccessWasSummarized'
    BY <1>1 DEF CreateJobs, summVars, loopVars, cancelVars
  <1>2. ASSUME NEW J \in SUBSET Jobs, TriggerJobs(J), Observe PROVE VerdictRan' /\
     FinishingRan' /\ SuccessWasSummarized'
    BY <1>2 DEF TriggerJobs, CreateJobs, summVars, loopVars, cancelVars
  <1>3. ASSUME NEW R \in SUBSET Runners, DeleteOldRows(R), Observe PROVE VerdictRan'
     /\ FinishingRan' /\ SuccessWasSummarized'
    BY <1>3 DEF DeleteOldRows, jobVars, summVars, loopVars, cancelVars
  <1>4. ASSUME NEW j \in Jobs, DayPasses(j), Observe PROVE VerdictRan' /\
     FinishingRan' /\ SuccessWasSummarized'
    BY <1>4 DEF DayPasses, summVars, loopVars, cancelVars
  <1>5. ASSUME NEW j \in Jobs, SinkMinutesPass(j), Observe PROVE VerdictRan' /\
     FinishingRan' /\ SuccessWasSummarized'
    BY <1>5 DEF SinkMinutesPass, summVars, loopVars, cancelVars
  <1>6. ASSUME ListUnqueued, Observe PROVE VerdictRan' /\ FinishingRan' /\
     SuccessWasSummarized'
    BY <1>6 DEF ListUnqueued, jobVars, summVars, loopVars, cancelVars
  <1>7. ASSUME NEW j \in Jobs, EnqueueRunners(j), Observe PROVE VerdictRan' /\
     FinishingRan' /\ SuccessWasSummarized'
    BY <1>7 DEF EnqueueRunners, summVars, loopVars, cancelVars
  <1>8. ASSUME NEW j \in Jobs, EnqueueFails(j), Observe PROVE VerdictRan' /\
     FinishingRan' /\ SuccessWasSummarized'
    BY <1>8 DEF EnqueueFails, jobVars, summVars, loopVars, cancelVars
  <1>9. ASSUME NEW g \in TriggerTypes, BeginCycle(g), Observe PROVE VerdictRan' /\
     FinishingRan' /\ SuccessWasSummarized'
    BY <1>9 DEF BeginCycle, summVars, cancelVars, SweptStatus
  <1>10. ASSUME NEW g \in TriggerTypes, NEW j \in Jobs, WaitForSink(g, j), Observe
     PROVE VerdictRan' /\ FinishingRan' /\ SuccessWasSummarized'
    BY <1>10 DEF WaitForSink, summVars, cancelVars, Handled
  <1>11. ASSUME NEW g \in TriggerTypes, NEW j \in Jobs, KeepWaiting(g, j), Observe
     PROVE VerdictRan' /\ FinishingRan' /\ SuccessWasSummarized'
    BY <1>11 DEF KeepWaiting, jobVars, summVars, cancelVars, Handled
  <1>12. ASSUME NEW g \in TriggerTypes, NEW j \in Jobs, NEW s \in Summs,
     CreateSummarizer(g, j, s), Observe PROVE VerdictRan' /\ FinishingRan' /\
     SuccessWasSummarized'
    BY <1>12 DEF CreateSummarizer, jobVars, cancelVars, Handled
  <1>13. ASSUME NEW g \in TriggerTypes, MarkSummarizing(g), Observe PROVE VerdictRan'
     /\ FinishingRan' /\ SuccessWasSummarized'
    BY <1>13 DEF MarkSummarizing, summVars, cancelVars
  <1>14. ASSUME NEW g \in TriggerTypes, FetchCreatedSummarizers(g), Observe PROVE
     VerdictRan' /\ FinishingRan' /\ SuccessWasSummarized'
    BY <1>14 DEF FetchCreatedSummarizers, jobVars, summVars, cancelVars
  <1>15. ASSUME NEW g \in TriggerTypes, NEW s \in Summs, SendSummarizer(g, s),
     Observe PROVE VerdictRan' /\ FinishingRan' /\ SuccessWasSummarized'
    BY <1>15 DEF SendSummarizer, jobVars, cancelVars
  <1>16. ASSUME NEW g \in TriggerTypes, MarkSent(g), Observe PROVE VerdictRan' /\
     FinishingRan' /\ SuccessWasSummarized'
    BY <1>16 DEF MarkSent, jobVars, cancelVars
  <1>17. ASSUME NEW g \in TriggerTypes, NEW s \in Summs, SentButFailed(g, s), Observe
     PROVE VerdictRan' /\ FinishingRan' /\ SuccessWasSummarized'
    BY <1>17 DEF SentButFailed, jobVars, cancelVars
  <1>18. ASSUME NEW g \in TriggerTypes, NEW s \in Summs, SendFails(g, s), Observe
     PROVE VerdictRan' /\ FinishingRan' /\ SuccessWasSummarized'
    BY <1>18 DEF SendFails, jobVars, cancelVars
  <1>19. ASSUME NEW g \in TriggerTypes, ListJobsToFinish(g), Observe PROVE
     VerdictRan' /\ FinishingRan' /\ SuccessWasSummarized'
    BY <1>19 DEF ListJobsToFinish, jobVars, summVars, cancelVars, SummDone
  <1>20. ASSUME NEW g \in TriggerTypes, NEW j \in Jobs, FinishComplianceJob(g, j),
     Observe PROVE VerdictRan' /\ FinishingRan' /\ SuccessWasSummarized'
    BY <1>20 DEF FinishComplianceJob, summVars, cancelVars
  <1>21. ASSUME NEW g \in TriggerTypes, AbandonCycle(g), Observe PROVE VerdictRan' /\
     FinishingRan' /\ SuccessWasSummarized'
    BY <1>21 DEF AbandonCycle, jobVars, summVars, cancelVars, Marking
  <1>22. ASSUME NEW s \in Summs, NEW v \in {"SUCCEEDED", "FAILED", "NONE"},
     RunSummarizer(s, v), Observe PROVE VerdictRan' /\ FinishingRan' /\
     SuccessWasSummarized'
    BY <1>22 DEF RunSummarizer, jobVars, loopVars, cancelVars
  <1>23. ASSUME NEW s \in Summs, ConsumeSummarizerResult(s), Observe PROVE
     VerdictRan' /\ FinishingRan' /\ SuccessWasSummarized'
    BY <1>23 DEF ConsumeSummarizerResult, jobVars, loopVars, cancelVars
  <1>24. ASSUME NEW j \in Jobs, CancelRead(j), Observe PROVE VerdictRan' /\
     FinishingRan' /\ SuccessWasSummarized'
    BY <1>24 DEF CancelRead, jobVars, summVars, loopVars
  <1>25. ASSUME NEW r \in Runners, CancelRow(r), Observe PROVE VerdictRan' /\
     FinishingRan' /\ SuccessWasSummarized'
    BY <1>25 DEF CancelRow, jobVars, summVars, loopVars
  <1>26. ASSUME CancelGivesUp, Observe PROVE VerdictRan' /\ FinishingRan' /\
     SuccessWasSummarized'
    BY <1>26 DEF CancelGivesUp, jobVars, summVars, loopVars
  <1>27. ASSUME CancelWrite, Observe PROVE VerdictRan' /\ FinishingRan' /\
     SuccessWasSummarized'
    BY <1>27 DEF CancelWrite, summVars, loopVars
  <1>28. ASSUME NEW r \in Runners, RunnerMoves(r), Observe PROVE VerdictRan' /\
     FinishingRan' /\ SuccessWasSummarized'
    BY <1>28 DEF RunnerMoves, jobVars, summVars, loopVars, cancelVars
  <1>29. ASSUME NEW r \in Runners, IngestResults(r), Observe PROVE VerdictRan' /\
     FinishingRan' /\ SuccessWasSummarized'
    BY <1>29 DEF IngestResults, jobVars, summVars, loopVars, cancelVars
  <1>30. ASSUME Restart, Observe PROVE VerdictRan' /\ FinishingRan' /\
     SuccessWasSummarized'
    BY <1>30 DEF Restart, jobVars, summVars, Marking
  <1>31. ASSUME UNCHANGED vars PROVE VerdictRan' /\ FinishingRan' /\ SuccessWasSummarized'
    BY <1>31 DEF vars, jobVars, summVars, loopVars, cancelVars
  <1> HIDE DEF TypeOK, VerdictRan, FinishingRan, SuccessWasSummarized
  <1> QED
    BY <1>1, <1>2, <1>3, <1>4, <1>5, <1>6, <1>7, <1>8, <1>9, <1>10, <1>11, <1>12,
       <1>13, <1>14, <1>15, <1>16, <1>17, <1>18, <1>19, <1>20, <1>21, <1>22, <1>23,
       <1>24, <1>25, <1>26, <1>27, <1>28, <1>29, <1>30, <1>31 DEF Next, Step,
       Creator, Enqueuer, Summarizer, Failures, SummarizerWorker, Canceler

\* Only a cancel request writes anything else into a SUCCEEDED or FAILED job.
LEMMA FinishedKept ==
    ASSUME TypeOK, WriteKnown, FinishedOff, [Next]_vars
    PROVE  \A k \in Jobs : jobStatus[k] \in {"SUCCEEDED", "FAILED"} =>
              jobStatus'[k] \in {"SUCCEEDED", "FAILED", "CANCELED"}
  <1> DEFINE Goal ==
           \A k \in Jobs : jobStatus[k] \in {"SUCCEEDED", "FAILED"} =>
              jobStatus'[k] \in {"SUCCEEDED", "FAILED", "CANCELED"}
  <1> SUFFICES Goal
    OBVIOUS
  <1> USE ConstantsAssumption DEF TypeOK, FinishedOff, Marking
  <1>1. ASSUME NEW J \in SUBSET Jobs, NEW t \in TriggerTypes, CreateJobs(J, t),
     Observe PROVE Goal
    BY <1>1 DEF CreateJobs, summVars, loopVars, cancelVars
  <1>2. ASSUME NEW J \in SUBSET Jobs, TriggerJobs(J), Observe PROVE Goal
    BY <1>2 DEF TriggerJobs, CreateJobs, summVars, loopVars, cancelVars
  <1>3. ASSUME NEW R \in SUBSET Runners, DeleteOldRows(R), Observe PROVE Goal
    BY <1>3 DEF DeleteOldRows, jobVars, summVars, loopVars, cancelVars
  <1>4. ASSUME NEW j \in Jobs, DayPasses(j), Observe PROVE Goal
    BY <1>4 DEF DayPasses, summVars, loopVars, cancelVars
  <1>5. ASSUME NEW j \in Jobs, SinkMinutesPass(j), Observe PROVE Goal
    BY <1>5 DEF SinkMinutesPass, summVars, loopVars, cancelVars
  <1>6. ASSUME ListUnqueued, Observe PROVE Goal
    BY <1>6 DEF ListUnqueued, jobVars, summVars, loopVars, cancelVars
  <1>7. ASSUME NEW j \in Jobs, EnqueueRunners(j), Observe PROVE Goal
    BY <1>7 DEF EnqueueRunners, summVars, loopVars, cancelVars
  <1>8. ASSUME NEW j \in Jobs, EnqueueFails(j), Observe PROVE Goal
    BY <1>8 DEF EnqueueFails, jobVars, summVars, loopVars, cancelVars
  <1>9. ASSUME NEW g \in TriggerTypes, BeginCycle(g), Observe PROVE Goal
    BY <1>9 DEF BeginCycle, summVars, cancelVars, SweptStatus
  <1>10. ASSUME NEW g \in TriggerTypes, NEW j \in Jobs, WaitForSink(g, j), Observe
     PROVE Goal
    BY <1>10 DEF WaitForSink, summVars, cancelVars
  <1>11. ASSUME NEW g \in TriggerTypes, NEW j \in Jobs, KeepWaiting(g, j), Observe
     PROVE Goal
    BY <1>11 DEF KeepWaiting, jobVars, summVars, cancelVars
  <1>12. ASSUME NEW g \in TriggerTypes, NEW j \in Jobs, NEW s \in Summs,
     CreateSummarizer(g, j, s), Observe PROVE Goal
    BY <1>12 DEF CreateSummarizer, jobVars, cancelVars
  <1>13. ASSUME NEW g \in TriggerTypes, MarkSummarizing(g), Observe PROVE Goal
    BY <1>13 DEF MarkSummarizing, summVars, cancelVars, WriteKnown
  <1>14. ASSUME NEW g \in TriggerTypes, FetchCreatedSummarizers(g), Observe PROVE
     Goal
    BY <1>14 DEF FetchCreatedSummarizers, jobVars, summVars, cancelVars
  <1>15. ASSUME NEW g \in TriggerTypes, NEW s \in Summs, SendSummarizer(g, s),
     Observe PROVE Goal
    BY <1>15 DEF SendSummarizer, jobVars, cancelVars
  <1>16. ASSUME NEW g \in TriggerTypes, MarkSent(g), Observe PROVE Goal
    BY <1>16 DEF MarkSent, jobVars, cancelVars
  <1>17. ASSUME NEW g \in TriggerTypes, NEW s \in Summs, SentButFailed(g, s), Observe
     PROVE Goal
    BY <1>17 DEF SentButFailed, jobVars, cancelVars
  <1>18. ASSUME NEW g \in TriggerTypes, NEW s \in Summs, SendFails(g, s), Observe
     PROVE Goal
    BY <1>18 DEF SendFails, jobVars, cancelVars
  <1>19. ASSUME NEW g \in TriggerTypes, ListJobsToFinish(g), Observe PROVE Goal
    BY <1>19 DEF ListJobsToFinish, jobVars, summVars, cancelVars
  <1>20. ASSUME NEW g \in TriggerTypes, NEW j \in Jobs, FinishComplianceJob(g, j),
     Observe PROVE Goal
    BY <1>20 DEF FinishComplianceJob, summVars, cancelVars
  <1>21. ASSUME NEW g \in TriggerTypes, AbandonCycle(g), Observe PROVE Goal
    BY <1>21 DEF AbandonCycle, jobVars, summVars, cancelVars
  <1>22. ASSUME NEW s \in Summs, NEW v \in {"SUCCEEDED", "FAILED", "NONE"},
     RunSummarizer(s, v), Observe PROVE Goal
    BY <1>22 DEF RunSummarizer, jobVars, loopVars, cancelVars
  <1>23. ASSUME NEW s \in Summs, ConsumeSummarizerResult(s), Observe PROVE Goal
    BY <1>23 DEF ConsumeSummarizerResult, jobVars, loopVars, cancelVars
  <1>24. ASSUME NEW j \in Jobs, CancelRead(j), Observe PROVE Goal
    BY <1>24 DEF CancelRead, jobVars, summVars, loopVars
  <1>25. ASSUME NEW r \in Runners, CancelRow(r), Observe PROVE Goal
    BY <1>25 DEF CancelRow, jobVars, summVars, loopVars
  <1>26. ASSUME CancelGivesUp, Observe PROVE Goal
    BY <1>26 DEF CancelGivesUp, jobVars, summVars, loopVars
  <1>27. ASSUME CancelWrite, Observe PROVE Goal
    BY <1>27 DEF CancelWrite, summVars, loopVars
  <1>28. ASSUME NEW r \in Runners, RunnerMoves(r), Observe PROVE Goal
    BY <1>28 DEF RunnerMoves, jobVars, summVars, loopVars, cancelVars
  <1>29. ASSUME NEW r \in Runners, IngestResults(r), Observe PROVE Goal
    BY <1>29 DEF IngestResults, jobVars, summVars, loopVars, cancelVars
  <1>30. ASSUME Restart, Observe PROVE Goal
    BY <1>30 DEF Restart, jobVars, summVars
  <1>31. ASSUME UNCHANGED vars PROVE Goal
    BY <1>31 DEF vars, jobVars, summVars, loopVars, cancelVars
  <1> HIDE DEF TypeOK, FinishedOff, Goal
  <1> QED
    BY <1>1, <1>2, <1>3, <1>4, <1>5, <1>6, <1>7, <1>8, <1>9, <1>10, <1>11, <1>12,
       <1>13, <1>14, <1>15, <1>16, <1>17, <1>18, <1>19, <1>20, <1>21, <1>22, <1>23,
       <1>24, <1>25, <1>26, <1>27, <1>28, <1>29, <1>30, <1>31 DEF Next, Step,
       Creator, Enqueuer, Summarizer, Failures, SummarizerWorker, Canceler

---------------------------------------------------------------------------
IInv ==
    /\ TypeOK
    /\ EndedSeen /\ EnqueueOpen
    /\ ListedReady /\ WriteKnown
    /\ SummKnown /\ NoRunnerLeftBehind
    /\ SummarizedOff /\ OneSummarizer
    /\ FinishedOff
    /\ VerdictRan /\ FinishingRan /\ SuccessWasSummarized

LEMMA InitIInv == Init => IInv
  <1> SUFFICES ASSUME Init PROVE IInv
    OBVIOUS
  <1> USE ConstantsAssumption DEF Init, TableInit
  <1>1. TypeOK
    BY DEF TypeOK, TableTypeOK, RunnerStatus, JobStatus, SummStatus
  <1>2. EndedSeen /\ EnqueueOpen /\ ListedReady /\ WriteKnown
    BY DEF EndedSeen, Ended, EnqueueOpen, ListedReady, WriteKnown
  <1>3. SummKnown /\ NoRunnerLeftBehind /\ SummarizedOff /\ OneSummarizer
    BY DEF SummKnown, NoRunnerLeftBehind, SummarizedOff, OneSummarizer
  <1>4. FinishedOff /\ VerdictRan /\ FinishingRan /\ SuccessWasSummarized
    BY DEF FinishedOff, VerdictRan, FinishingRan, SuccessWasSummarized
  <1> QED
    BY <1>1, <1>2, <1>3, <1>4 DEF IInv

\* The invariants hold in every reachable state, for any number of jobs, rows,
\* summarizers and goroutines.
THEOREM Invariance == Spec => []IInv
  <1>1. IInv /\ [Next]_vars => IInv'
    BY TypeStep, EnqueueStep, RowsStayEnded, ListedStep, WriteStep, SummStep, OnceStep,
       FinishedStep, RanStep DEF IInv
  <1> QED
    BY InitIInv, <1>1, PTL DEF Spec

\* Every column, list and ghost keeps its type.
THEOREM TypeCorrect == Spec => []TypeOK
  <1>1. IInv => TypeOK
    BY DEF IInv
  <1> QED
    BY Invariance, <1>1, PTL

\* enqueueRunnersCycle, ListJobsWithRunnersCompleted, CreateSummarizer: a summarized job
\* has all its runners queued, and every row it still has ended once.
THEOREM NoneLeftBehind == Spec => []NoRunnerLeftBehind
  <1>1. IInv => NoRunnerLeftBehind
    BY DEF IInv
  <1> QED
    BY Invariance, <1>1, PTL

\* CreateSummarizer: two summarizers of a job are a mark that was lost.
THEOREM SummarizedOnce == Spec => []OneSummarizer
  <1>1. IInv => OneSummarizer
    BY DEF IInv
  <1> QED
    BY Invariance, <1>1, PTL

\* finishComplianceJob: a SUCCEEDED or FAILED job has a summarizer that ran or could not
\* be sent.
THEOREM ClosedWasSummarized == Spec => []SuccessWasSummarized
  <1>1. IInv => SuccessWasSummarized
    BY DEF IInv
  <1> QED
    BY Invariance, <1>1, PTL

\* No list, however stale, reopens a job that SUCCEEDED or FAILED.
THEOREM FinishedForGood == Spec => FinishedStaysFinished
  <1>1. IInv /\ [Next]_vars =>
          [\A j \in Jobs : jobStatus[j] \in {"SUCCEEDED", "FAILED"} =>
              jobStatus'[j] \in {"SUCCEEDED", "FAILED", "CANCELED"}]_vars
    BY FinishedKept DEF IInv
  <1> QED
    BY Invariance, <1>1, PTL DEF Spec, FinishedStaysFinished

---------------------------------------------------------------------------
(* The job-level code and the runner rows. *)

\* EnqueueRunners, CreateJobs, CancelRow: whatever the job-level code does to the rows of
\* compliance_runners, RunnerTable allows it.  RunnerPipeline implements the same table
\* (RefinesTable), so the two halves agree on it.
THEOREM UsesTable == Spec => TableSpec
  <1>1. Init => TableInit
    BY DEF Init
  <1>2. IInv /\ [Next]_vars => [TableNext]_tableVars
    BY StepOnTable, ConstantsAssumption DEF IInv, TableNext
  <1> QED
    BY Invariance, <1>1, <1>2, PTL DEF Spec, TableSpec

\* A job that waits for its documents while one of its rows is CANCELED, and that no
\* goroutine or request has in hand.
HeldByRow(j) ==
    /\ jobStatus[j] = "SINK_IN_PROGRESS"
    /\ \E r \in RowsOf(j) : status[r] = "CANCELED"
    /\ \A g \in TriggerTypes : j \notin listed[g] /\ ~Marking(g, j)
    /\ cancelJob # j

\* The exception of JobEnds is for good: as long as the row is there and CANCELED, no cycle,
\* timeout, request, restart or newer job takes the job out of SINK_IN_PROGRESS.
CanceledRowHolds ==
    [][\A j \in Jobs :
          HeldByRow(j) /\ (\E r \in RowsOf(j) : status[r] = "CANCELED" /\ status'[r] = "CANCELED")
              => HeldByRow(j)']_vars

\* No action of the job-level code takes up such a job.
LEMMA HeldStep ==
    ASSUME TypeOK, WriteKnown, FinishedOff, NEW k \in Jobs, HeldByRow(k),
           NEW q \in RowsOf(k), status[q] = "CANCELED", status'[q] = "CANCELED", [Next]_vars
    PROVE  HeldByRow(k)'
  <1> DEFINE Goal ==
          /\ jobStatus'[k] = "SINK_IN_PROGRESS"
          /\ \A g \in TriggerTypes : k \notin listed'[g] /\ ~(at'[g] = "mark" /\ current'[g] = k)
          /\ cancelJob' # k
  <1>0. (\E r \in RowsOf(k) : status[r] = "CANCELED")'
    BY DEF RowsOf, Exists
  <1> SUFFICES Goal
    BY <1>0 DEF HeldByRow, Marking
  <1> USE ConstantsAssumption
      DEF TypeOK, FinishedOff, Marking, HeldByRow, RowsOf, Ended, SweptStatus, RunnersCompleted, Handled,
          WriteKnown, jobVars, summVars, loopVars, cancelVars
  <1>1. ASSUME NEW J \in SUBSET Jobs, NEW t \in TriggerTypes, CreateJobs(J, t),
     Observe PROVE Goal
    BY <1>1 DEF CreateJobs
  <1>2. ASSUME NEW J \in SUBSET Jobs, TriggerJobs(J), Observe PROVE Goal
    BY <1>2 DEF TriggerJobs, CreateJobs
  <1>3. ASSUME NEW R \in SUBSET Runners, DeleteOldRows(R), Observe PROVE Goal
    BY <1>3 DEF DeleteOldRows
  <1>4. ASSUME NEW j \in Jobs, DayPasses(j), Observe PROVE Goal
    BY <1>4 DEF DayPasses
  <1>5. ASSUME NEW j \in Jobs, SinkMinutesPass(j), Observe PROVE Goal
    BY <1>5 DEF SinkMinutesPass
  <1>6. ASSUME ListUnqueued, Observe PROVE Goal
    BY <1>6 DEF ListUnqueued
  <1>7. ASSUME NEW j \in Jobs, EnqueueRunners(j), Observe PROVE Goal
    BY <1>7 DEF EnqueueRunners
  <1>8. ASSUME NEW j \in Jobs, EnqueueFails(j), Observe PROVE Goal
    BY <1>8 DEF EnqueueFails
  <1>9. ASSUME NEW g \in TriggerTypes, BeginCycle(g), Observe PROVE Goal
    BY <1>9 DEF BeginCycle
  <1>10. ASSUME NEW g \in TriggerTypes, NEW j \in Jobs, WaitForSink(g, j), Observe
     PROVE Goal
    BY <1>10 DEF WaitForSink
  <1>11. ASSUME NEW g \in TriggerTypes, NEW j \in Jobs, KeepWaiting(g, j), Observe
     PROVE Goal
    BY <1>11 DEF KeepWaiting
  <1>12. ASSUME NEW g \in TriggerTypes, NEW j \in Jobs, NEW s \in Summs,
     CreateSummarizer(g, j, s), Observe PROVE Goal
    BY <1>12 DEF CreateSummarizer
  <1>13. ASSUME NEW g \in TriggerTypes, MarkSummarizing(g), Observe PROVE Goal
    BY <1>13 DEF MarkSummarizing
  <1>14. ASSUME NEW g \in TriggerTypes, FetchCreatedSummarizers(g), Observe PROVE Goal
    BY <1>14 DEF FetchCreatedSummarizers
  <1>15. ASSUME NEW g \in TriggerTypes, NEW s \in Summs, SendSummarizer(g, s),
     Observe PROVE Goal
    BY <1>15 DEF SendSummarizer
  <1>16. ASSUME NEW g \in TriggerTypes, MarkSent(g), Observe PROVE Goal
    BY <1>16 DEF MarkSent
  <1>17. ASSUME NEW g \in TriggerTypes, NEW s \in Summs, SentButFailed(g, s), Observe
     PROVE Goal
    BY <1>17 DEF SentButFailed
  <1>18. ASSUME NEW g \in TriggerTypes, NEW s \in Summs, SendFails(g, s), Observe
     PROVE Goal
    BY <1>18 DEF SendFails
  <1>19. ASSUME NEW g \in TriggerTypes, ListJobsToFinish(g), Observe PROVE Goal
    BY <1>19 DEF ListJobsToFinish
  <1>20. ASSUME NEW g \in TriggerTypes, NEW j \in Jobs, FinishComplianceJob(g, j),
     Observe PROVE Goal
    BY <1>20 DEF FinishComplianceJob, Later
  <1>21. ASSUME NEW g \in TriggerTypes, AbandonCycle(g), Observe PROVE Goal
    BY <1>21 DEF AbandonCycle
  <1>22. ASSUME NEW s \in Summs, NEW v \in {"SUCCEEDED", "FAILED", "NONE"},
     RunSummarizer(s, v), Observe PROVE Goal
    BY <1>22 DEF RunSummarizer
  <1>23. ASSUME NEW s \in Summs, ConsumeSummarizerResult(s), Observe PROVE Goal
    BY <1>23 DEF ConsumeSummarizerResult
  <1>24. ASSUME NEW j \in Jobs, CancelRead(j), Observe PROVE Goal
    BY <1>24 DEF CancelRead
  <1>25. ASSUME NEW r \in Runners, CancelRow(r), Observe PROVE Goal
    BY <1>25 DEF CancelRow
  <1>26. ASSUME CancelGivesUp, Observe PROVE Goal
    BY <1>26 DEF CancelGivesUp
  <1>27. ASSUME CancelWrite, Observe PROVE Goal
    BY <1>27 DEF CancelWrite
  <1>28. ASSUME NEW r \in Runners, RunnerMoves(r), Observe PROVE Goal
    BY <1>28 DEF RunnerMoves
  <1>29. ASSUME NEW r \in Runners, IngestResults(r), Observe PROVE Goal
    BY <1>29 DEF IngestResults
  <1>30. ASSUME Restart, Observe PROVE Goal
    BY <1>30 DEF Restart
  <1>31. ASSUME UNCHANGED vars PROVE Goal
    BY <1>31 DEF vars
  <1> HIDE DEF TypeOK, FinishedOff, HeldByRow, Goal
  <1> QED
    BY <1>1, <1>2, <1>3, <1>4, <1>5, <1>6, <1>7, <1>8, <1>9, <1>10, <1>11, <1>12,
       <1>13, <1>14, <1>15, <1>16, <1>17, <1>18, <1>19, <1>20, <1>21, <1>22, <1>23,
       <1>24, <1>25, <1>26, <1>27, <1>28, <1>29, <1>30, <1>31 DEF Next, Step,
       Creator, Enqueuer, Summarizer, Failures, SummarizerWorker, Canceler

\* ListJobsWithRunnersCompleted and UpdateComplianceJobsTimedOut (db/compliance_job.go): a
\* CANCELED row is no completed one, and SINK_IN_PROGRESS is no status that times out.
THEOREM HeldForGood == Spec => CanceledRowHolds
  <1>1. IInv /\ [Next]_vars =>
          [\A j \in Jobs :
              HeldByRow(j) /\ (\E r \in RowsOf(j) : status[r] = "CANCELED" /\ status'[r] = "CANCELED")
                  => HeldByRow(j)']_vars
    BY HeldStep DEF IInv
  <1> QED
    BY Invariance, <1>1, PTL DEF Spec, CanceledRowHolds
=============================================================================
