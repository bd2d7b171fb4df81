------------------------ MODULE RunnerPipelineProofs ------------------------
(***************************************************************************)
(* For any number of rows and of worker pods: the invariants of            *)
(* RunnerPipeline, and that it keeps the promise of RunnerTable.           *)
(*                                                                         *)
(* The argument rests on where a message can be: not published, in the     *)
(* queue, or with one worker (OneHolder), and on what its place says about *)
(* the number of runs (RunsKnown) and about the reports (ReportsKnown).    *)
(***************************************************************************)
EXTENDS RunnerPipeline, TLAPS

\* A message is in one place: the stream forgets what a worker took, nothing is taken
\* twice, and only what was published can be taken.
OneHolder ==
    /\ queue \subseteq published
    /\ \A w \in Workers : job[w] # None => job[w] \in published \ queue
    /\ \A w, v \in Workers : job[w] # None /\ job[w] = job[v] => w = v

\* A message that is still to be taken, or taken and not begun, has not been run.
RunsKnown ==
    /\ \A r \in Runners : r \notin published \/ r \in queue => runs[r] = 0
    /\ \A w \in Workers : job[w] # None /\ ~running[w] => runs[job[w]] = 0

\* A message that was deleted from the stream is nowhere any more.
WithdrawnGone ==
    \A r \in withdrawn :
        /\ r \in published \ queue
        /\ \A w \in Workers : job[w] # r

\* What is being run, and what was reported, has been run.
ReportsKnown ==
    /\ \A w \in Workers : job[w] # None /\ running[w] => runs[job[w]] >= 1
    /\ \A r \in Runners : reports[r] # <<>> => runs[r] >= 1

\* Rows known to the publisher are rows that exist or existed, and were sent if it says so.
RowsKnown ==
    /\ \A r \in Runners : Exists(r) => r \in used
    /\ published \subseteq used
    /\ batch \subseteq used
    /\ sending # None => sending \in published

\* A verdict is the last report, and nobody runs the row any more.
VerdictLast ==
    \A r \in Runners : \A i \in 1..Len(reports[r]) :
        reports[r][i] # "IN_PROGRESS" =>
            i = Len(reports[r]) /\ \A w \in Workers : job[w] # r

---------------------------------------------------------------------------
\* Every step keeps the types: the codomain of status is a row's eight statuses, and
\* reports stay sequences of worker reports.
LEMMA TypeStep == TypeOK /\ [Next]_vars => TypeOK'
  <1> SUFFICES ASSUME TypeOK, [Next]_vars PROVE TypeOK'
    OBVIOUS
  <1> USE NoneAssumption DEF TypeOK, RunnerStatus, Report
  <1>1. ASSUME NEW R \in SUBSET Runners, CreateRunnerJobs(R) PROVE TypeOK'
    BY <1>1 DEF CreateRunnerJobs, workerVars, publisherVars, cancelVars
  <1>2. ASSUME NEW R \in SUBSET Runners, TimeOutRunners(R) PROVE TypeOK'
    BY <1>2 DEF TimeOutRunners, workerVars, publisherVars, cancelVars
  <1>3. ASSUME DeleteOldRunnerJob PROVE TypeOK'
    BY <1>3 DEF DeleteOldRunnerJob, workerVars, publisherVars, cancelVars, Exists
  <1>4. ASSUME FetchCreatedRunners PROVE TypeOK'
    BY <1>4 DEF FetchCreatedRunners, dbVars, workerVars, cancelVars
  <1>5. ASSUME NEW r \in Runners, PublishUnfit(r) PROVE TypeOK'
    BY <1>5 DEF PublishUnfit, workerVars, cancelVars, UpdateRunnerJob, Exists
  <1>6. ASSUME NEW r \in Runners, PublishRunner(r) PROVE TypeOK'
    BY <1>6 DEF PublishRunner, dbVars, workerVars, cancelVars, Produce
  <1>7. ASSUME PublisherReturns PROVE TypeOK'
    BY <1>7 DEF PublisherReturns, dbVars, workerVars, cancelVars
  <1>8. ASSUME MarkQueued PROVE TypeOK'
    BY <1>8 DEF MarkQueued, workerVars, cancelVars, UpdateRunnerJob, Exists
  <1>9. ASSUME SchedulerRestart PROVE TypeOK'
    BY <1>9 DEF SchedulerRestart, dbVars, workerVars
  <1>10. ASSUME NEW w \in Workers, NEW r \in Runners, TakeMessage(w, r) PROVE TypeOK'
    BY <1>10 DEF TakeMessage, dbVars, publisherVars, cancelVars
  <1>11. ASSUME NEW w \in Workers, SkipCanceled(w) PROVE TypeOK'
    BY <1>11 DEF SkipCanceled, dbVars, publisherVars, cancelVars
  <1>12. ASSUME NEW w \in Workers, ReportInProgress(w) PROVE TypeOK'
    BY <1>12 DEF ReportInProgress, dbVars, publisherVars, cancelVars
  <1>13. ASSUME NEW w \in Workers, PollSeesCanceled(w) PROVE TypeOK'
    BY <1>13 DEF PollSeesCanceled, dbVars, publisherVars, cancelVars
  <1>14. ASSUME NEW w \in Workers, NEW v \in Report, FinishRun(w, v) PROVE TypeOK'
    BY <1>14 DEF FinishRun, dbVars, publisherVars, cancelVars
  <1>15. ASSUME NEW w \in Workers, WorkerCrash(w) PROVE TypeOK'
    BY <1>15 DEF WorkerCrash, dbVars, publisherVars, cancelVars
  <1>16. ASSUME NEW r \in Runners, ConsumeReport(r) PROVE TypeOK'
    BY <1>16 DEF ConsumeReport, workerVars, publisherVars, cancelVars,
       UpdateRunnerJob, StatusOf, Exists
  <1>17. ASSUME NEW r \in Runners, LoseReport(r) PROVE TypeOK'
    BY <1>17 DEF LoseReport, dbVars, workerVars, publisherVars, cancelVars
  <1>18. ASSUME NEW k \in {"byId", "batch"}, CancelStart(k) PROVE TypeOK'
    BY <1>18 DEF CancelStart, dbVars, workerVars, publisherVars, Exists
  <1>19. ASSUME NEW r \in Runners, CancelCreatedRunner(r) PROVE TypeOK'
    BY <1>19 DEF CancelCreatedRunner, workerVars, publisherVars, UpdateRunnerJob,
       Exists
  <1>20. ASSUME NEW r \in Runners, CancelQueuedRunner(r) PROVE TypeOK'
    BY <1>20 DEF CancelQueuedRunner, workerVars, publisherVars, UpdateRunnerJob,
       Exists
  <1>21. ASSUME NEW r \in Runners, CancelQueuedFails(r) PROVE TypeOK'
    BY <1>21 DEF CancelQueuedFails, workerVars, publisherVars, UpdateRunnerJob,
       Exists
  <1>22. ASSUME CancelEnd PROVE TypeOK'
    BY <1>22 DEF CancelEnd, dbVars, workerVars, publisherVars
  <1>23. ASSUME UNCHANGED vars PROVE TypeOK'
    BY <1>23 DEF vars
  <1> QED
    BY <1>1, <1>2, <1>3, <1>4, <1>5, <1>6, <1>7, <1>8, <1>9, <1>10, <1>11,
       <1>12, <1>13, <1>14, <1>15, <1>16, <1>17, <1>18, <1>19, <1>20, <1>21, <1>22,
       <1>23 DEF Next, Publisher, Worker, Consumer, Canceler

\* Every step keeps each message in one place.
LEMMA HolderStep == TypeOK /\ OneHolder /\ [Next]_vars => OneHolder'
  <1> SUFFICES ASSUME TypeOK, OneHolder, [Next]_vars PROVE OneHolder'
    OBVIOUS
  <1> USE NoneAssumption DEF TypeOK, OneHolder
  <1>1. ASSUME NEW R \in SUBSET Runners, CreateRunnerJobs(R) PROVE OneHolder'
    BY <1>1 DEF CreateRunnerJobs, workerVars, publisherVars, cancelVars
  <1>2. ASSUME NEW R \in SUBSET Runners, TimeOutRunners(R) PROVE OneHolder'
    BY <1>2 DEF TimeOutRunners, workerVars, publisherVars, cancelVars
  <1>3. ASSUME DeleteOldRunnerJob PROVE OneHolder'
    BY <1>3 DEF DeleteOldRunnerJob, workerVars, publisherVars, cancelVars
  <1>4. ASSUME FetchCreatedRunners PROVE OneHolder'
    BY <1>4 DEF FetchCreatedRunners, workerVars, cancelVars
  <1>5. ASSUME NEW r \in Runners, PublishUnfit(r) PROVE OneHolder'
    BY <1>5 DEF PublishUnfit, workerVars, cancelVars
  <1>6. ASSUME NEW r \in Runners, PublishRunner(r) PROVE OneHolder'
    BY <1>6 DEF PublishRunner, workerVars, cancelVars, Produce
  <1>7. ASSUME PublisherReturns PROVE OneHolder'
    BY <1>7 DEF PublisherReturns, workerVars, cancelVars
  <1>8. ASSUME MarkQueued PROVE OneHolder'
    BY <1>8 DEF MarkQueued, workerVars, cancelVars
  <1>9. ASSUME SchedulerRestart PROVE OneHolder'
    BY <1>9 DEF SchedulerRestart, workerVars
  <1>10. ASSUME NEW w \in Workers, NEW r \in Runners, TakeMessage(w, r) PROVE OneHolder'
    BY <1>10 DEF TakeMessage, publisherVars, cancelVars
  <1>11. ASSUME NEW w \in Workers, SkipCanceled(w) PROVE OneHolder'
    BY <1>11 DEF SkipCanceled, publisherVars, cancelVars
  <1>12. ASSUME NEW w \in Workers, ReportInProgress(w) PROVE OneHolder'
    BY <1>12 DEF ReportInProgress, publisherVars, cancelVars
  <1>13. ASSUME NEW w \in Workers, PollSeesCanceled(w) PROVE OneHolder'
    BY <1>13 DEF PollSeesCanceled, publisherVars, cancelVars
  <1>14. ASSUME NEW w \in Workers, NEW v \in Report, FinishRun(w, v) PROVE OneHolder'
    BY <1>14 DEF FinishRun, publisherVars, cancelVars
  <1>15. ASSUME NEW w \in Workers, WorkerCrash(w) PROVE OneHolder'
    BY <1>15 DEF WorkerCrash, publisherVars, cancelVars
  <1>16. ASSUME NEW r \in Runners, ConsumeReport(r) PROVE OneHolder'
    BY <1>16 DEF ConsumeReport, workerVars, publisherVars, cancelVars
  <1>17. ASSUME NEW r \in Runners, LoseReport(r) PROVE OneHolder'
    BY <1>17 DEF LoseReport, workerVars, publisherVars, cancelVars
  <1>18. ASSUME NEW k \in {"byId", "batch"}, CancelStart(k) PROVE OneHolder'
    BY <1>18 DEF CancelStart, workerVars, publisherVars
  <1>19. ASSUME NEW r \in Runners, CancelCreatedRunner(r) PROVE OneHolder'
    BY <1>19 DEF CancelCreatedRunner, workerVars, publisherVars
  <1>20. ASSUME NEW r \in Runners, CancelQueuedRunner(r) PROVE OneHolder'
    BY <1>20 DEF CancelQueuedRunner, workerVars, publisherVars
  <1>21. ASSUME NEW r \in Runners, CancelQueuedFails(r) PROVE OneHolder'
    BY <1>21 DEF CancelQueuedFails, workerVars, publisherVars
  <1>22. ASSUME CancelEnd PROVE OneHolder'
    BY <1>22 DEF CancelEnd, workerVars, publisherVars
  <1>23. ASSUME UNCHANGED vars PROVE OneHolder'
    BY <1>23 DEF vars
  <1> QED
    BY <1>1, <1>2, <1>3, <1>4, <1>5, <1>6, <1>7, <1>8, <1>9, <1>10, <1>11,
       <1>12, <1>13, <1>14, <1>15, <1>16, <1>17, <1>18, <1>19, <1>20, <1>21, <1>22,
       <1>23 DEF Next, Publisher, Worker, Consumer, Canceler

\* Only a message that was never run is run.
LEMMA RunsStep ==
    TypeOK /\ OneHolder /\ RunsKnown /\ AtMostOnce /\ [Next]_vars
        => RunsKnown' /\ AtMostOnce'
  <1> SUFFICES ASSUME TypeOK, OneHolder, RunsKnown, AtMostOnce, [Next]_vars
               PROVE  RunsKnown' /\ AtMostOnce'
    OBVIOUS
  <1> USE NoneAssumption DEF TypeOK, OneHolder, RunsKnown, AtMostOnce
  <1>1. ASSUME NEW R \in SUBSET Runners, CreateRunnerJobs(R) PROVE RunsKnown' /\ AtMostOnce'
    BY <1>1 DEF CreateRunnerJobs, workerVars, publisherVars, cancelVars
  <1>2. ASSUME NEW R \in SUBSET Runners, TimeOutRunners(R) PROVE RunsKnown' /\ AtMostOnce'
    BY <1>2 DEF TimeOutRunners, workerVars, publisherVars, cancelVars
  <1>3. ASSUME DeleteOldRunnerJob PROVE RunsKnown' /\ AtMostOnce'
    BY <1>3 DEF DeleteOldRunnerJob, workerVars, publisherVars, cancelVars
  <1>4. ASSUME FetchCreatedRunners PROVE RunsKnown' /\ AtMostOnce'
    BY <1>4 DEF FetchCreatedRunners, workerVars, cancelVars
  <1>5. ASSUME NEW r \in Runners, PublishUnfit(r) PROVE RunsKnown' /\ AtMostOnce'
    BY <1>5 DEF PublishUnfit, workerVars, cancelVars
  <1>6. ASSUME NEW r \in Runners, PublishRunner(r) PROVE RunsKnown' /\ AtMostOnce'
    BY <1>6 DEF PublishRunner, workerVars, cancelVars, Produce
  <1>7. ASSUME PublisherReturns PROVE RunsKnown' /\ AtMostOnce'
    BY <1>7 DEF PublisherReturns, workerVars, cancelVars
  <1>8. ASSUME MarkQueued PROVE RunsKnown' /\ AtMostOnce'
    BY <1>8 DEF MarkQueued, workerVars, cancelVars
  <1>9. ASSUME SchedulerRestart PROVE RunsKnown' /\ AtMostOnce'
    BY <1>9 DEF SchedulerRestart, workerVars
  <1>10. ASSUME NEW w \in Workers, NEW r \in Runners, TakeMessage(w, r) PROVE RunsKnown' /\ AtMostOnce'
    BY <1>10 DEF TakeMessage, publisherVars, cancelVars
  <1>11. ASSUME NEW w \in Workers, SkipCanceled(w) PROVE RunsKnown' /\ AtMostOnce'
    BY <1>11 DEF SkipCanceled, publisherVars, cancelVars
  <1>12. ASSUME NEW w \in Workers, ReportInProgress(w) PROVE RunsKnown' /\ AtMostOnce'
    BY <1>12 DEF ReportInProgress, publisherVars, cancelVars
  <1>13. ASSUME NEW w \in Workers, PollSeesCanceled(w) PROVE RunsKnown' /\ AtMostOnce'
    BY <1>13 DEF PollSeesCanceled, publisherVars, cancelVars
  <1>14. ASSUME NEW w \in Workers, NEW v \in Report, FinishRun(w, v) PROVE RunsKnown' /\ AtMostOnce'
    BY <1>14 DEF FinishRun, publisherVars, cancelVars
  <1>15. ASSUME NEW w \in Workers, WorkerCrash(w) PROVE RunsKnown' /\ AtMostOnce'
    BY <1>15 DEF WorkerCrash, publisherVars, cancelVars
  <1>16. ASSUME NEW r \in Runners, ConsumeReport(r) PROVE RunsKnown' /\ AtMostOnce'
    BY <1>16 DEF ConsumeReport, workerVars, publisherVars, cancelVars
  <1>17. ASSUME NEW r \in Runners, LoseReport(r) PROVE RunsKnown' /\ AtMostOnce'
    BY <1>17 DEF LoseReport, workerVars, publisherVars, cancelVars
  <1>18. ASSUME NEW k \in {"byId", "batch"}, CancelStart(k) PROVE RunsKnown' /\ AtMostOnce'
    BY <1>18 DEF CancelStart, workerVars, publisherVars
  <1>19. ASSUME NEW r \in Runners, CancelCreatedRunner(r) PROVE RunsKnown' /\ AtMostOnce'
    BY <1>19 DEF CancelCreatedRunner, workerVars, publisherVars
  <1>20. ASSUME NEW r \in Runners, CancelQueuedRunner(r) PROVE RunsKnown' /\ AtMostOnce'
    BY <1>20 DEF CancelQueuedRunner, workerVars, publisherVars
  <1>21. ASSUME NEW r \in Runners, CancelQueuedFails(r) PROVE RunsKnown' /\ AtMostOnce'
    BY <1>21 DEF CancelQueuedFails, workerVars, publisherVars
  <1>22. ASSUME CancelEnd PROVE RunsKnown' /\ AtMostOnce'
    BY <1>22 DEF CancelEnd, workerVars, publisherVars
  <1>23. ASSUME UNCHANGED vars PROVE RunsKnown' /\ AtMostOnce'
    BY <1>23 DEF vars
  <1> QED
    BY <1>1, <1>2, <1>3, <1>4, <1>5, <1>6, <1>7, <1>8, <1>9, <1>10, <1>11,
       <1>12, <1>13, <1>14, <1>15, <1>16, <1>17, <1>18, <1>19, <1>20, <1>21, <1>22,
       <1>23 DEF Next, Publisher, Worker, Consumer, Canceler

\* A deleted message is not published again, its id being known to the stream.
LEMMA WithdrawnStep ==
    TypeOK /\ OneHolder /\ RunsKnown /\ WithdrawnGone /\ WithdrawnNeverRuns /\ [Next]_vars
        => WithdrawnGone' /\ WithdrawnNeverRuns'
  <1> SUFFICES ASSUME TypeOK, OneHolder, RunsKnown, WithdrawnGone, WithdrawnNeverRuns,
                      [Next]_vars
               PROVE  WithdrawnGone' /\ WithdrawnNeverRuns'
    OBVIOUS
  <1> USE NoneAssumption DEF TypeOK, OneHolder, RunsKnown, WithdrawnGone, WithdrawnNeverRuns
  <1>1. ASSUME NEW R \in SUBSET Runners, CreateRunnerJobs(R) PROVE WithdrawnGone' /\ WithdrawnNeverRuns'
    BY <1>1 DEF CreateRunnerJobs, workerVars, publisherVars, cancelVars
  <1>2. ASSUME NEW R \in SUBSET Runners, TimeOutRunners(R) PROVE WithdrawnGone' /\ WithdrawnNeverRuns'
    BY <1>2 DEF TimeOutRunners, workerVars, publisherVars, cancelVars
  <1>3. ASSUME DeleteOldRunnerJob PROVE WithdrawnGone' /\ WithdrawnNeverRuns'
    BY <1>3 DEF DeleteOldRunnerJob, workerVars, publisherVars, cancelVars
  <1>4. ASSUME FetchCreatedRunners PROVE WithdrawnGone' /\ WithdrawnNeverRuns'
    BY <1>4 DEF FetchCreatedRunners, workerVars, cancelVars
  <1>5. ASSUME NEW r \in Runners, PublishUnfit(r) PROVE WithdrawnGone' /\ WithdrawnNeverRuns'
    BY <1>5 DEF PublishUnfit, workerVars, cancelVars
  <1>6. ASSUME NEW r \in Runners, PublishRunner(r) PROVE WithdrawnGone' /\ WithdrawnNeverRuns'
    BY <1>6 DEF PublishRunner, workerVars, cancelVars, Produce
  <1>7. ASSUME PublisherReturns PROVE WithdrawnGone' /\ WithdrawnNeverRuns'
    BY <1>7 DEF PublisherReturns, workerVars, cancelVars
  <1>8. ASSUME MarkQueued PROVE WithdrawnGone' /\ WithdrawnNeverRuns'
    BY <1>8 DEF MarkQueued, workerVars, cancelVars
  <1>9. ASSUME SchedulerRestart PROVE WithdrawnGone' /\ WithdrawnNeverRuns'
    BY <1>9 DEF SchedulerRestart, workerVars
  <1>10. ASSUME NEW w \in Workers, NEW r \in Runners, TakeMessage(w, r) PROVE WithdrawnGone' /\ WithdrawnNeverRuns'
    BY <1>10 DEF TakeMessage, publisherVars, cancelVars
  <1>11. ASSUME NEW w \in Workers, SkipCanceled(w) PROVE WithdrawnGone' /\ WithdrawnNeverRuns'
    BY <1>11 DEF SkipCanceled, publisherVars, cancelVars
  <1>12. ASSUME NEW w \in Workers, ReportInProgress(w) PROVE WithdrawnGone' /\ WithdrawnNeverRuns'
    BY <1>12 DEF ReportInProgress, publisherVars, cancelVars
  <1>13. ASSUME NEW w \in Workers, PollSeesCanceled(w) PROVE WithdrawnGone' /\ WithdrawnNeverRuns'
    BY <1>13 DEF PollSeesCanceled, publisherVars, cancelVars
  <1>14. ASSUME NEW w \in Workers, NEW v \in Report, FinishRun(w, v) PROVE WithdrawnGone' /\ WithdrawnNeverRuns'
    BY <1>14 DEF FinishRun, publisherVars, cancelVars
  <1>15. ASSUME NEW w \in Workers, WorkerCrash(w) PROVE WithdrawnGone' /\ WithdrawnNeverRuns'
    BY <1>15 DEF WorkerCrash, publisherVars, cancelVars
  <1>16. ASSUME NEW r \in Runners, ConsumeReport(r) PROVE WithdrawnGone' /\ WithdrawnNeverRuns'
    BY <1>16 DEF ConsumeReport, workerVars, publisherVars, cancelVars
  <1>17. ASSUME NEW r \in Runners, LoseReport(r) PROVE WithdrawnGone' /\ WithdrawnNeverRuns'
    BY <1>17 DEF LoseReport, workerVars, publisherVars, cancelVars
  <1>18. ASSUME NEW k \in {"byId", "batch"}, CancelStart(k) PROVE WithdrawnGone' /\ WithdrawnNeverRuns'
    BY <1>18 DEF CancelStart, workerVars, publisherVars
  <1>19. ASSUME NEW r \in Runners, CancelCreatedRunner(r) PROVE WithdrawnGone' /\ WithdrawnNeverRuns'
    BY <1>19 DEF CancelCreatedRunner, workerVars, publisherVars
  <1>20. ASSUME NEW r \in Runners, CancelQueuedRunner(r) PROVE WithdrawnGone' /\ WithdrawnNeverRuns'
    BY <1>20 DEF CancelQueuedRunner, workerVars, publisherVars
  <1>21. ASSUME NEW r \in Runners, CancelQueuedFails(r) PROVE WithdrawnGone' /\ WithdrawnNeverRuns'
    BY <1>21 DEF CancelQueuedFails, workerVars, publisherVars
  <1>22. ASSUME CancelEnd PROVE WithdrawnGone' /\ WithdrawnNeverRuns'
    BY <1>22 DEF CancelEnd, workerVars, publisherVars
  <1>23. ASSUME UNCHANGED vars PROVE WithdrawnGone' /\ WithdrawnNeverRuns'
    BY <1>23 DEF vars
  <1> QED
    BY <1>1, <1>2, <1>3, <1>4, <1>5, <1>6, <1>7, <1>8, <1>9, <1>10, <1>11,
       <1>12, <1>13, <1>14, <1>15, <1>16, <1>17, <1>18, <1>19, <1>20, <1>21, <1>22,
       <1>23 DEF Next, Publisher, Worker, Consumer, Canceler

\* Counts and SUCCEEDED come from reports, and reports from runs.
LEMMA CountsStep ==
    TypeOK /\ ReportsKnown /\ CountTellsRun /\ [Next]_vars
        => ReportsKnown' /\ CountTellsRun'
  <1> SUFFICES ASSUME TypeOK, ReportsKnown, CountTellsRun, [Next]_vars
               PROVE  ReportsKnown' /\ CountTellsRun'
    OBVIOUS
  <1> USE NoneAssumption DEF TypeOK, ReportsKnown, CountTellsRun, Report
  <1>1. ASSUME NEW R \in SUBSET Runners, CreateRunnerJobs(R) PROVE ReportsKnown' /\ CountTellsRun'
    BY <1>1 DEF CreateRunnerJobs, workerVars, publisherVars, cancelVars
  <1>2. ASSUME NEW R \in SUBSET Runners, TimeOutRunners(R) PROVE ReportsKnown' /\ CountTellsRun'
    BY <1>2 DEF TimeOutRunners, workerVars, publisherVars, cancelVars
  <1>3. ASSUME DeleteOldRunnerJob PROVE ReportsKnown' /\ CountTellsRun'
    BY <1>3 DEF DeleteOldRunnerJob, workerVars, publisherVars, cancelVars, Exists
  <1>4. ASSUME FetchCreatedRunners PROVE ReportsKnown' /\ CountTellsRun'
    BY <1>4 DEF FetchCreatedRunners, dbVars, workerVars, cancelVars
  <1>5. ASSUME NEW r \in Runners, PublishUnfit(r) PROVE ReportsKnown' /\ CountTellsRun'
    BY <1>5 DEF PublishUnfit, workerVars, cancelVars, UpdateRunnerJob, Exists
  <1>6. ASSUME NEW r \in Runners, PublishRunner(r) PROVE ReportsKnown' /\ CountTellsRun'
    BY <1>6 DEF PublishRunner, dbVars, workerVars, cancelVars, Produce
  <1>7. ASSUME PublisherReturns PROVE ReportsKnown' /\ CountTellsRun'
    BY <1>7 DEF PublisherReturns, dbVars, workerVars, cancelVars
  <1>8. ASSUME MarkQueued PROVE ReportsKnown' /\ CountTellsRun'
    BY <1>8 DEF MarkQueued, workerVars, cancelVars, UpdateRunnerJob, Exists
  <1>9. ASSUME SchedulerRestart PROVE ReportsKnown' /\ CountTellsRun'
    BY <1>9 DEF SchedulerRestart, dbVars, workerVars
  <1>10. ASSUME NEW w \in Workers, NEW r \in Runners, TakeMessage(w, r) PROVE ReportsKnown' /\ CountTellsRun'
    BY <1>10 DEF TakeMessage, dbVars, publisherVars, cancelVars
  <1>11. ASSUME NEW w \in Workers, SkipCanceled(w) PROVE ReportsKnown' /\ CountTellsRun'
    BY <1>11 DEF SkipCanceled, dbVars, publisherVars, cancelVars
  <1>12. ASSUME NEW w \in Workers, ReportInProgress(w) PROVE ReportsKnown' /\ CountTellsRun'
    BY <1>12 DEF ReportInProgress, dbVars, publisherVars, cancelVars
  <1>13. ASSUME NEW w \in Workers, PollSeesCanceled(w) PROVE ReportsKnown' /\ CountTellsRun'
    BY <1>13 DEF PollSeesCanceled, dbVars, publisherVars, cancelVars
  <1>14. ASSUME NEW w \in Workers, NEW v \in Report, FinishRun(w, v) PROVE ReportsKnown' /\ CountTellsRun'
    BY <1>14 DEF FinishRun, dbVars, publisherVars, cancelVars
  <1>15. ASSUME NEW w \in Workers, WorkerCrash(w) PROVE ReportsKnown' /\ CountTellsRun'
    BY <1>15 DEF WorkerCrash, dbVars, publisherVars, cancelVars
  <1>16. ASSUME NEW r \in Runners, ConsumeReport(r) PROVE ReportsKnown' /\ CountTellsRun'
    BY <1>16 DEF ConsumeReport, workerVars, publisherVars, cancelVars,
       UpdateRunnerJob, StatusOf, Exists
  <1>17. ASSUME NEW r \in Runners, LoseReport(r) PROVE ReportsKnown' /\ CountTellsRun'
    BY <1>17 DEF LoseReport, dbVars, workerVars, publisherVars, cancelVars
  <1>18. ASSUME NEW k \in {"byId", "batch"}, CancelStart(k) PROVE ReportsKnown' /\ CountTellsRun'
    BY <1>18 DEF CancelStart, dbVars, workerVars, publisherVars, Exists
  <1>19. ASSUME NEW r \in Runners, CancelCreatedRunner(r) PROVE ReportsKnown' /\ CountTellsRun'
    BY <1>19 DEF CancelCreatedRunner, workerVars, publisherVars, UpdateRunnerJob,
       Exists
  <1>20. ASSUME NEW r \in Runners, CancelQueuedRunner(r) PROVE ReportsKnown' /\ CountTellsRun'
    BY <1>20 DEF CancelQueuedRunner, workerVars, publisherVars, UpdateRunnerJob,
       Exists
  <1>21. ASSUME NEW r \in Runners, CancelQueuedFails(r) PROVE ReportsKnown' /\ CountTellsRun'
    BY <1>21 DEF CancelQueuedFails, workerVars, publisherVars, UpdateRunnerJob,
       Exists
  <1>22. ASSUME CancelEnd PROVE ReportsKnown' /\ CountTellsRun'
    BY <1>22 DEF CancelEnd, dbVars, workerVars, publisherVars
  <1>23. ASSUME UNCHANGED vars PROVE ReportsKnown' /\ CountTellsRun'
    BY <1>23 DEF vars
  <1> QED
    BY <1>1, <1>2, <1>3, <1>4, <1>5, <1>6, <1>7, <1>8, <1>9, <1>10, <1>11,
       <1>12, <1>13, <1>14, <1>15, <1>16, <1>17, <1>18, <1>19, <1>20, <1>21, <1>22,
       <1>23 DEF Next, Publisher, Worker, Consumer, Canceler

\* The publisher only holds rows of the table, and marks only what it has sent.
LEMMA RowsStep == TypeOK /\ RowsKnown /\ [Next]_vars => RowsKnown'
  <1> SUFFICES ASSUME TypeOK, RowsKnown, [Next]_vars PROVE RowsKnown'
    OBVIOUS
  <1> USE NoneAssumption DEF TypeOK, RowsKnown, Exists
  <1>1. ASSUME NEW R \in SUBSET Runners, CreateRunnerJobs(R) PROVE RowsKnown'
    BY <1>1 DEF CreateRunnerJobs, workerVars, publisherVars, cancelVars
  <1>2. ASSUME NEW R \in SUBSET Runners, TimeOutRunners(R) PROVE RowsKnown'
    BY <1>2 DEF TimeOutRunners, workerVars, publisherVars, cancelVars
  <1>3. ASSUME DeleteOldRunnerJob PROVE RowsKnown'
    BY <1>3 DEF DeleteOldRunnerJob, workerVars, publisherVars, cancelVars, Exists
  <1>4. ASSUME FetchCreatedRunners PROVE RowsKnown'
    BY <1>4 DEF FetchCreatedRunners, dbVars, workerVars, cancelVars
  <1>5. ASSUME NEW r \in Runners, PublishUnfit(r) PROVE RowsKnown'
    BY <1>5 DEF PublishUnfit, workerVars, cancelVars, UpdateRunnerJob, Exists
  <1>6. ASSUME NEW r \in Runners, PublishRunner(r) PROVE RowsKnown'
    BY <1>6 DEF PublishRunner, dbVars, workerVars, cancelVars, Produce
  <1>7. ASSUME PublisherReturns PROVE RowsKnown'
    BY <1>7 DEF PublisherReturns, dbVars, workerVars, cancelVars
  <1>8. ASSUME MarkQueued PROVE RowsKnown'
    BY <1>8 DEF MarkQueued, workerVars, cancelVars, UpdateRunnerJob, Exists
  <1>9. ASSUME SchedulerRestart PROVE RowsKnown'
    BY <1>9 DEF SchedulerRestart, dbVars, workerVars
  <1>10. ASSUME NEW w \in Workers, NEW r \in Runners, TakeMessage(w, r) PROVE RowsKnown'
    BY <1>10 DEF TakeMessage, dbVars, publisherVars, cancelVars
  <1>11. ASSUME NEW w \in Workers, SkipCanceled(w) PROVE RowsKnown'
    BY <1>11 DEF SkipCanceled, dbVars, publisherVars, cancelVars
  <1>12. ASSUME NEW w \in Workers, ReportInProgress(w) PROVE RowsKnown'
    BY <1>12 DEF ReportInProgress, dbVars, publisherVars, cancelVars
  <1>13. ASSUME NEW w \in Workers, PollSeesCanceled(w) PROVE RowsKnown'
    BY <1>13 DEF PollSeesCanceled, dbVars, publisherVars, cancelVars
  <1>14. ASSUME NEW w \in Workers, NEW v \in Report, FinishRun(w, v) PROVE RowsKnown'
    BY <1>14 DEF FinishRun, dbVars, publisherVars, cancelVars
  <1>15. ASSUME NEW w \in Workers, WorkerCrash(w) PROVE RowsKnown'
    BY <1>15 DEF WorkerCrash, dbVars, publisherVars, cancelVars
  <1>16. ASSUME NEW r \in Runners, ConsumeReport(r) PROVE RowsKnown'
    BY <1>16 DEF ConsumeReport, workerVars, publisherVars, cancelVars,
       UpdateRunnerJob, StatusOf, Exists
  <1>17. ASSUME NEW r \in Runners, LoseReport(r) PROVE RowsKnown'
    BY <1>17 DEF LoseReport, dbVars, workerVars, publisherVars, cancelVars
  <1>18. ASSUME NEW k \in {"byId", "batch"}, CancelStart(k) PROVE RowsKnown'
    BY <1>18 DEF CancelStart, dbVars, workerVars, publisherVars, Exists
  <1>19. ASSUME NEW r \in Runners, CancelCreatedRunner(r) PROVE RowsKnown'
    BY <1>19 DEF CancelCreatedRunner, workerVars, publisherVars, UpdateRunnerJob,
       Exists
  <1>20. ASSUME NEW r \in Runners, CancelQueuedRunner(r) PROVE RowsKnown'
    BY <1>20 DEF CancelQueuedRunner, workerVars, publisherVars, UpdateRunnerJob,
       Exists
  <1>21. ASSUME NEW r \in Runners, CancelQueuedFails(r) PROVE RowsKnown'
    BY <1>21 DEF CancelQueuedFails, workerVars, publisherVars, UpdateRunnerJob,
       Exists
  <1>22. ASSUME CancelEnd PROVE RowsKnown'
    BY <1>22 DEF CancelEnd, dbVars, workerVars, publisherVars
  <1>23. ASSUME UNCHANGED vars PROVE RowsKnown'
    BY <1>23 DEF vars
  <1> QED
    BY <1>1, <1>2, <1>3, <1>4, <1>5, <1>6, <1>7, <1>8, <1>9, <1>10, <1>11,
       <1>12, <1>13, <1>14, <1>15, <1>16, <1>17, <1>18, <1>19, <1>20, <1>21, <1>22,
       <1>23 DEF Next, Publisher, Worker, Consumer, Canceler

\* A worker reports nothing after its verdict, and a row is run once.
LEMMA VerdictStep ==
    TypeOK /\ OneHolder /\ RunsKnown /\ ReportsKnown /\ VerdictLast /\ [Next]_vars
        => VerdictLast'
  <1> SUFFICES ASSUME TypeOK, OneHolder, RunsKnown, ReportsKnown, VerdictLast, [Next]_vars
               PROVE  VerdictLast'
    OBVIOUS
  <1> USE NoneAssumption DEF TypeOK, OneHolder, RunsKnown, ReportsKnown, VerdictLast
  <1>1. ASSUME NEW R \in SUBSET Runners, CreateRunnerJobs(R) PROVE VerdictLast'
    BY <1>1 DEF CreateRunnerJobs, workerVars, publisherVars, cancelVars
  <1>2. ASSUME NEW R \in SUBSET Runners, TimeOutRunners(R) PROVE VerdictLast'
    BY <1>2 DEF TimeOutRunners, workerVars, publisherVars, cancelVars
  <1>3. ASSUME DeleteOldRunnerJob PROVE VerdictLast'
    BY <1>3 DEF DeleteOldRunnerJob, workerVars, publisherVars, cancelVars
  <1>4. ASSUME FetchCreatedRunners PROVE VerdictLast'
    BY <1>4 DEF FetchCreatedRunners, workerVars, cancelVars
  <1>5. ASSUME NEW r \in Runners, PublishUnfit(r) PROVE VerdictLast'
    BY <1>5 DEF PublishUnfit, workerVars, cancelVars
  <1>6. ASSUME NEW r \in Runners, PublishRunner(r) PROVE VerdictLast'
    BY <1>6 DEF PublishRunner, workerVars, cancelVars, Produce
  <1>7. ASSUME PublisherReturns PROVE VerdictLast'
    BY <1>7 DEF PublisherReturns, workerVars, cancelVars
  <1>8. ASSUME MarkQueued PROVE VerdictLast'
    BY <1>8 DEF MarkQueued, workerVars, cancelVars
  <1>9. ASSUME SchedulerRestart PROVE VerdictLast'
    BY <1>9 DEF SchedulerRestart, workerVars
  <1>10. ASSUME NEW w \in Workers, NEW r \in Runners, TakeMessage(w, r) PROVE VerdictLast'
    BY <1>10 DEF TakeMessage, publisherVars, cancelVars
  <1>11. ASSUME NEW w \in Workers, SkipCanceled(w) PROVE VerdictLast'
    BY <1>11 DEF SkipCanceled, publisherVars, cancelVars
  <1>12. ASSUME NEW w \in Workers, ReportInProgress(w) PROVE VerdictLast'
    BY <1>12 DEF ReportInProgress, publisherVars, cancelVars
  <1>13. ASSUME NEW w \in Workers, PollSeesCanceled(w) PROVE VerdictLast'
    BY <1>13 DEF PollSeesCanceled, publisherVars, cancelVars
  <1>14. ASSUME NEW w \in Workers, NEW v \in Report, FinishRun(w, v) PROVE VerdictLast'
    BY <1>14 DEF FinishRun, publisherVars, cancelVars
  <1>15. ASSUME NEW w \in Workers, WorkerCrash(w) PROVE VerdictLast'
    BY <1>15 DEF WorkerCrash, publisherVars, cancelVars
  <1>16. ASSUME NEW r \in Runners, ConsumeReport(r) PROVE VerdictLast'
    BY <1>16 DEF ConsumeReport, workerVars, publisherVars, cancelVars
  <1>17. ASSUME NEW r \in Runners, LoseReport(r) PROVE VerdictLast'
    BY <1>17 DEF LoseReport, workerVars, publisherVars, cancelVars
  <1>18. ASSUME NEW k \in {"byId", "batch"}, CancelStart(k) PROVE VerdictLast'
    BY <1>18 DEF CancelStart, workerVars, publisherVars
  <1>19. ASSUME NEW r \in Runners, CancelCreatedRunner(r) PROVE VerdictLast'
    BY <1>19 DEF CancelCreatedRunner, workerVars, publisherVars
  <1>20. ASSUME NEW r \in Runners, CancelQueuedRunner(r) PROVE VerdictLast'
    BY <1>20 DEF CancelQueuedRunner, workerVars, publisherVars
  <1>21. ASSUME NEW r \in Runners, CancelQueuedFails(r) PROVE VerdictLast'
    BY <1>21 DEF CancelQueuedFails, workerVars, publisherVars
  <1>22. ASSUME CancelEnd PROVE VerdictLast'
    BY <1>22 DEF CancelEnd, workerVars, publisherVars
  <1>23. ASSUME UNCHANGED vars PROVE VerdictLast'
    BY <1>23 DEF vars
  <1> QED
    BY <1>1, <1>2, <1>3, <1>4, <1>5, <1>6, <1>7, <1>8, <1>9, <1>10, <1>11,
       <1>12, <1>13, <1>14, <1>15, <1>16, <1>17, <1>18, <1>19, <1>20, <1>21, <1>22,
       <1>23 DEF Next, Publisher, Worker, Consumer, Canceler

---------------------------------------------------------------------------
IInv ==
    /\ TypeOK
    /\ OneHolder /\ RunsKnown /\ AtMostOnce
    /\ WithdrawnGone /\ WithdrawnNeverRuns
    /\ ReportsKnown /\ CountTellsRun
    /\ RowsKnown /\ VerdictLast

\* The empty tables and queues of the initial state satisfy the inductive invariant.
LEMMA InitIInv == Init => IInv
  <1> SUFFICES ASSUME Init PROVE IInv
    OBVIOUS
  <1> USE DEF Init
  <1>1. TypeOK
    <2>1. reports \in [Runners -> Seq(Report)]
      OBVIOUS
    <2> QED
      BY <2>1 DEF TypeOK, RunnerStatus
  <1>2. OneHolder /\ RunsKnown /\ AtMostOnce
    BY DEF OneHolder, RunsKnown, AtMostOnce
  <1>3. WithdrawnGone /\ WithdrawnNeverRuns
    BY DEF WithdrawnGone, WithdrawnNeverRuns
  <1>4. ReportsKnown /\ CountTellsRun
    BY DEF ReportsKnown, CountTellsRun
  <1>5. RowsKnown /\ VerdictLast
    BY DEF RowsKnown, VerdictLast, Exists
  <1> QED
    BY <1>1, <1>2, <1>3, <1>4, <1>5 DEF IInv

\* The inductive invariant holds in every reachable state.
THEOREM Invariance == Spec => []IInv
  <1>1. IInv /\ [Next]_vars => IInv'
    BY TypeStep, HolderStep, RunsStep, WithdrawnStep, CountsStep, RowsStep, VerdictStep
       DEF IInv
  <1> QED
    BY InitIInv, <1>1, PTL DEF Spec

\* All variables keep their types, for any rows and workers.
THEOREM TypeCorrect == Spec => []TypeOK
  <1>1. IInv => TypeOK
    BY DEF IInv
  <1> QED
    BY Invariance, <1>1, PTL

\* publisher.go:133-145 and service.go:212: no row is executed twice, however often it is
\* published and however the scheduler and the workers crash.
THEOREM RunAtMostOnce == Spec => []AtMostOnce
  <1>1. IInv => AtMostOnce
    BY DEF IInv
  <1> QED
    BY Invariance, <1>1, PTL

\* server.go:2750-2815: a runner whose queued message was deleted is never executed.
THEOREM CanceledNeverRun == Spec => []WithdrawnNeverRuns
  <1>1. IInv => WithdrawnNeverRuns
    BY DEF IInv
  <1> QED
    BY Invariance, <1>1, PTL

\* consumer.go:40: the finding count of a row tells whether its query was run.
THEOREM CountsAreTrue == Spec => []CountTellsRun
  <1>1. IInv => CountTellsRun
    BY DEF IInv
  <1> QED
    BY Invariance, <1>1, PTL

---------------------------------------------------------------------------
(* Refinement: every step is a step of RunnerTable or leaves its variables alone. *)

TableStep == [Table!TableNext]_(Table!tableVars)

\* No row, nothing published: the empty table.
LEMMA TableInitially == Init => Table!TableInit
  BY DEF Init, Table!TableInit, Phase, PhaseOf, Exists

\* Each action is the action of the table its comment in RunnerTable names.
LEMMA TableStepByStep == IInv /\ [Next]_vars => TableStep
  <1> SUFFICES ASSUME IInv, [Next]_vars PROVE TableStep
    OBVIOUS
  <1> USE NoneAssumption DEF IInv, TypeOK, Phase, PhaseOf, Outstanding, Exists, TableStep,
                             Table!TableNext, Table!tableVars, Table!Exists
  <1>1. ASSUME NEW R \in SUBSET Runners, CreateRunnerJobs(R) PROVE TableStep
    BY <1>1 DEF CreateRunnerJobs, workerVars, publisherVars, cancelVars,
       Table!RowsCreated, RowsKnown
  <1>2. ASSUME NEW R \in SUBSET Runners, TimeOutRunners(R) PROVE TableStep
    BY <1>2 DEF TimeOutRunners, workerVars, publisherVars, cancelVars,
       Table!RowsTimedOut
  <1>3. ASSUME DeleteOldRunnerJob PROVE TableStep
    <2>1. Table!RowsDeleted(Runners)
      BY <1>3 DEF DeleteOldRunnerJob, workerVars, publisherVars, cancelVars, Table!RowsDeleted
    <2> QED
      BY <2>1
  <1>4. ASSUME FetchCreatedRunners PROVE TableStep
    BY <1>4 DEF FetchCreatedRunners, dbVars, workerVars, cancelVars
  <1>5. ASSUME NEW r \in Runners, PublishUnfit(r) PROVE TableStep
    BY <1>5 DEF PublishUnfit, workerVars, cancelVars, UpdateRunnerJob,
       Table!PipelineStep, Table!RowAborted
  <1>6. ASSUME NEW r \in Runners, PublishRunner(r) PROVE TableStep
    <2> USE <1>6 DEF PublishRunner, Produce, dbVars, workerVars, cancelVars
    <2>1. \A q \in Runners \ {r} : PhaseOf(q)' = PhaseOf(q)
      OBVIOUS
    <2>2. CASE PhaseOf(r)' = PhaseOf(r) /\ status' = status /\ counted' = counted
      <3>1. Phase' = Phase
        <4> HIDE DEF PhaseOf
        <4> QED
          BY <2>1, <2>2
      <3> QED
        BY <2>2, <3>1
    <2>3. CASE PhaseOf(r)' # PhaseOf(r)
      <3>1. PhaseOf(r) = "unsent" /\ PhaseOf(r)' = "out"
        BY <2>3
      <3>2. Phase' = [Phase EXCEPT ![r] = "out"] /\ Phase[r] = "unsent"
        <4> HIDE DEF PhaseOf
        <4> QED
          BY <2>1, <3>1
      <3>3. Table!RowSent(r)
        BY <2>3, <3>1, <3>2 DEF Table!RowSent
      <3> QED
        BY <3>3 DEF Table!PipelineStep
    <2> QED
      BY <2>2, <2>3
  <1>7. ASSUME PublisherReturns PROVE TableStep
    BY <1>7 DEF PublisherReturns, dbVars, workerVars, cancelVars
  <1>8. ASSUME MarkQueued PROVE TableStep
    <2> USE <1>8 DEF MarkQueued, UpdateRunnerJob, workerVars, cancelVars
    <2>1. CASE status' = status
      BY <2>1
    <2>2. CASE status' # status
      <3>1. PICK s \in {"QUEUED", "FAILED"} :
               Exists(sending) /\ status' = [status EXCEPT ![sending] = s]
        BY <2>2
      <3>2. Table!RowQueued(sending) \/ Table!RowAborted(sending)
        BY <3>1 DEF RowsKnown, Table!RowQueued, Table!RowAborted
      <3> QED
        BY <3>2 DEF Table!PipelineStep
    <2> QED
      BY <2>1, <2>2
  <1>9. ASSUME SchedulerRestart PROVE TableStep
    BY <1>9 DEF SchedulerRestart, dbVars, workerVars
  <1>10. ASSUME NEW w \in Workers, NEW r \in Runners, TakeMessage(w, r) PROVE TableStep
    BY <1>10 DEF TakeMessage, dbVars, publisherVars, cancelVars
  <1>11. ASSUME NEW w \in Workers, SkipCanceled(w) PROVE TableStep
    <2> USE <1>11 DEF SkipCanceled, dbVars, publisherVars, cancelVars
    <2> PICK r \in Runners : job[w] = r
      OBVIOUS
    <2>1. \A q \in Runners \ {r} : PhaseOf(q)' = PhaseOf(q)
      OBVIOUS
    <2>2. CASE PhaseOf(r)' = PhaseOf(r) /\ status' = status /\ counted' = counted
      <3>1. Phase' = Phase
        <4> HIDE DEF PhaseOf
        <4> QED
          BY <2>1, <2>2
      <3> QED
        BY <2>2, <3>1
    <2>3. CASE PhaseOf(r)' # PhaseOf(r)
      <3>1. PhaseOf(r) = "out" /\ PhaseOf(r)' = "over"
        BY <2>3
      <3>2. Phase' = [Phase EXCEPT ![r] = "over"] /\ Phase[r] = "out"
        <4> HIDE DEF PhaseOf
        <4> QED
          BY <2>1, <3>1
      <3>3. Table!RowForsaken(r)
        BY <2>3, <3>1, <3>2 DEF Table!RowForsaken
      <3> QED
        BY <3>3 DEF Table!PipelineStep
    <2> QED
      BY <2>2, <2>3
  <1>12. ASSUME NEW w \in Workers, ReportInProgress(w) PROVE TableStep
    BY <1>12 DEF ReportInProgress, dbVars, publisherVars, cancelVars
  <1>13. ASSUME NEW w \in Workers, PollSeesCanceled(w) PROVE TableStep
    BY <1>13 DEF PollSeesCanceled, dbVars, publisherVars, cancelVars
  <1>14. ASSUME NEW w \in Workers, NEW v \in Report, FinishRun(w, v) PROVE TableStep
    <2> USE <1>14 DEF FinishRun, dbVars, publisherVars, cancelVars
    <2>1. reports'[job[w]] # <<>>
      BY DEF Report
    <2>2. \A q \in Runners : PhaseOf(q)' = PhaseOf(q)
      BY <2>1
    <2> HIDE DEF PhaseOf
    <2> QED
      BY <2>2
  <1>15. ASSUME NEW w \in Workers, WorkerCrash(w) PROVE TableStep
    <2> USE <1>15 DEF WorkerCrash, dbVars, publisherVars, cancelVars
    <2> PICK r \in Runners : job[w] = r
      OBVIOUS
    <2>1. \A q \in Runners \ {r} : PhaseOf(q)' = PhaseOf(q)
      OBVIOUS
    <2>2. CASE PhaseOf(r)' = PhaseOf(r) /\ status' = status /\ counted' = counted
      <3>1. Phase' = Phase
        <4> HIDE DEF PhaseOf
        <4> QED
          BY <2>1, <2>2
      <3> QED
        BY <2>2, <3>1
    <2>3. CASE PhaseOf(r)' # PhaseOf(r)
      <3>1. PhaseOf(r) = "out" /\ PhaseOf(r)' = "over"
        BY <2>3
      <3>2. Phase' = [Phase EXCEPT ![r] = "over"] /\ Phase[r] = "out"
        <4> HIDE DEF PhaseOf
        <4> QED
          BY <2>1, <3>1
      <3>3. Table!RowForsaken(r)
        BY <2>3, <3>1, <3>2 DEF Table!RowForsaken
      <3> QED
        BY <3>3 DEF Table!PipelineStep
    <2> QED
      BY <2>2, <2>3
  <1>16. ASSUME NEW r \in Runners, ConsumeReport(r) PROVE TableStep
    <2> PICK m \in Report : m = Head(reports[r])
      BY <1>16 DEF ConsumeReport
    <2> USE <1>16 DEF ConsumeReport, UpdateRunnerJob, workerVars, publisherVars, cancelVars
    <2>1. \A q \in Runners \ {r} : PhaseOf(q)' = PhaseOf(q)
      OBVIOUS
    <2>2. CASE ~Exists(r)
      BY <2>2
    <2>3. CASE Exists(r)
      <3>1. PhaseOf(r) = "out"
        BY <2>3 DEF RunsKnown, ReportsKnown
      <3>2. status' = [status EXCEPT ![r] = StatusOf(m)] /\ StatusOf(m) # "NONE"
        BY <2>3 DEF StatusOf, Report
      <3>3. CASE m = "IN_PROGRESS"
        <4>1. PhaseOf(r)' \in {"out", "over"}
          BY <2>3, <3>1, <3>2
        <4>2. Phase[r] = "out" /\ Phase' \in {Phase, [Phase EXCEPT ![r] = "over"]}
          <5> HIDE DEF PhaseOf
          <5> QED
            BY <2>1, <3>1, <4>1
        <4>3. counted' = counted
          BY <3>3
        <4>4. Table!RowStarted(r)
          BY <2>3, <3>2, <3>3, <4>2, <4>3 DEF Table!RowStarted, StatusOf
        <4> QED
          BY <4>4 DEF Table!PipelineStep
      <3>4. CASE m # "IN_PROGRESS"
        <4>1. reports'[r] = <<>> /\ \A x \in Workers : job[x] # r
          BY <3>4 DEF VerdictLast
        <4>2. PhaseOf(r)' = "over"
          BY <3>1, <3>2, <4>1 DEF RunsKnown, ReportsKnown
        <4>3. Phase[r] = "out" /\ Phase' = [Phase EXCEPT ![r] = "over"]
          <5> HIDE DEF PhaseOf
          <5> QED
            BY <2>1, <3>1, <4>2
        <4> DEFINE c == m \in {"SUCCEEDED", "CANCELED_COUNTED"}
        <4>4. c \in BOOLEAN
          OBVIOUS
        <4>5. counted' = [counted EXCEPT ![r] = @ \/ c]
          BY <2>3, <4>4
        <4>6. StatusOf(m) \in Table!Verdicts
          BY <3>4 DEF StatusOf, Report, Table!Verdicts
        <4>7. Table!RowReported(r, StatusOf(m), c)
          BY <2>3, <3>2, <3>4, <4>3, <4>4, <4>5 DEF Table!RowReported, StatusOf, Report
        <4>8. \E v \in Table!Verdicts, d \in BOOLEAN : Table!RowReported(r, v, d)
          <5> HIDE DEF c
          <5> QED
            BY <4>4, <4>6, <4>7, Zenon
        <4> QED
          BY <4>8 DEF Table!PipelineStep
      <3> QED
        BY <3>3, <3>4
    <2> QED
      BY <2>2, <2>3
  <1>17. ASSUME NEW r \in Runners, LoseReport(r) PROVE TableStep
    <2> USE <1>17 DEF LoseReport, dbVars, workerVars, publisherVars, cancelVars
    <2>1. \A q \in Runners \ {r} : PhaseOf(q)' = PhaseOf(q)
      OBVIOUS
    <2>2. CASE PhaseOf(r)' = PhaseOf(r) /\ status' = status /\ counted' = counted
      <3>1. Phase' = Phase
        <4> HIDE DEF PhaseOf
        <4> QED
          BY <2>1, <2>2
      <3> QED
        BY <2>2, <3>1
    <2>3. CASE PhaseOf(r)' # PhaseOf(r)
      <3>1. PhaseOf(r) = "out" /\ PhaseOf(r)' = "over"
        BY <2>3
      <3>2. Phase' = [Phase EXCEPT ![r] = "over"] /\ Phase[r] = "out"
        <4> HIDE DEF PhaseOf
        <4> QED
          BY <2>1, <3>1
      <3>3. Table!RowForsaken(r)
        BY <2>3, <3>1, <3>2 DEF Table!RowForsaken
      <3> QED
        BY <3>3 DEF Table!PipelineStep
    <2> QED
      BY <2>2, <2>3
  <1>18. ASSUME NEW k \in {"byId", "batch"}, CancelStart(k) PROVE TableStep
    BY <1>18 DEF CancelStart, dbVars, workerVars, publisherVars
  <1>19. ASSUME NEW r \in Runners, CancelCreatedRunner(r) PROVE TableStep
    <2> USE <1>19 DEF CancelCreatedRunner, UpdateRunnerJob, workerVars, publisherVars
    <2>1. CASE ~Exists(r)
      <3>1. status' = status /\ counted' = counted
        BY <2>1
      <3>2. Phase' = Phase
        BY <2>1, <3>1
      <3> QED
        BY <3>1, <3>2
    <2>2. CASE Exists(r)
      <3>1. Table!RowCanceled(r)
        BY <2>2 DEF Table!RowCanceled
      <3> QED
        BY <3>1 DEF Table!RowCanceled
    <2> QED
      BY <2>1, <2>2
  <1>20. ASSUME NEW r \in Runners, CancelQueuedRunner(r) PROVE TableStep
    <2> USE <1>20 DEF CancelQueuedRunner, UpdateRunnerJob, workerVars, publisherVars
    <2>1. \A q \in Runners \ {r} : PhaseOf(q)' = PhaseOf(q)
      OBVIOUS
    <2>2. CASE ~Exists(r)
      BY <2>2
    <2>3. CASE Exists(r)
      <3>1. status' = [status EXCEPT ![r] = "CANCELED"]
        BY <2>3
      <3>2. PhaseOf(r)' = PhaseOf(r) \/ (PhaseOf(r) = "out" /\ PhaseOf(r)' = "over")
        <4>1. CASE r \notin published
          BY <2>3, <3>1, <4>1
        <4>2. CASE r \in published
          <5>1. Outstanding(r)' => Outstanding(r)
            OBVIOUS
          <5>2. Exists(r)' /\ r \in published'
            BY <2>3, <3>1, <4>2
          <5> HIDE DEF Outstanding
          <5> QED
            BY <2>3, <4>2, <5>1, <5>2
        <4> QED
          BY <4>1, <4>2
      <3>3. Phase' = Phase \/ (Phase[r] = "out" /\ Phase' = [Phase EXCEPT ![r] = "over"])
        <4> HIDE DEF PhaseOf
        <4> QED
          BY <2>1, <3>2
      <3>4. Table!RowCanceled(r)
        BY <2>3, <3>1, <3>3 DEF Table!RowCanceled
      <3> QED
        BY <3>4
    <2> QED
      BY <2>2, <2>3
  <1>21. ASSUME NEW r \in Runners, CancelQueuedFails(r) PROVE TableStep
    <2> USE <1>21 DEF CancelQueuedFails, workerVars, publisherVars, UpdateRunnerJob
    <2>1. CASE status' = status
      BY <2>1
    <2>2. CASE status' # status
      <3>1. Exists(r) /\ status' = [status EXCEPT ![r] = "CANCELED"]
        BY <2>2
      <3>2. Table!RowCanceled(r)
        BY <3>1 DEF Table!RowCanceled
      <3> QED
        BY <3>2
    <2> QED
      BY <2>1, <2>2
  <1>22. ASSUME CancelEnd PROVE TableStep
    BY <1>22 DEF CancelEnd, dbVars, workerVars, publisherVars
  <1>23. ASSUME UNCHANGED vars PROVE TableStep
    BY <1>23 DEF vars
  <1> QED
    BY <1>1, <1>2, <1>3, <1>4, <1>5, <1>6, <1>7, <1>8, <1>9, <1>10, <1>11,
       <1>12, <1>13, <1>14, <1>15, <1>16, <1>17, <1>18, <1>19, <1>20, <1>21, <1>22,
       <1>23 DEF Next, Publisher, Worker, Consumer, Canceler

\* RunnerPipeline keeps the promise of RunnerTable: what ComplianceJob assumes of the
\* compliance_runners rows is what publisher, workers, consumer and handlers do.
THEOREM RefinesTable == Spec => ImplementsTable
  <1>1. Init => Table!TableInit
    BY TableInitially
  <1>2. IInv /\ [Next]_vars => [Table!TableNext]_(Table!tableVars)
    BY TableStepByStep DEF TableStep
  <1> QED
    BY Invariance, <1>1, <1>2, PTL DEF Spec, ImplementsTable, Table!TableSpec

---------------------------------------------------------------------------
(* The safety half of Settles: what has settled and is in nobody's hands stays. *)

\* Nobody has anything left to do with the row: it has one of the last statuses, and no
\* message, run or report of it is outstanding, no list of the publisher or of a cancel
\* handler holds it, and its QUEUED is not waiting to be written.
AtRest(r) ==
    /\ status[r] \in Settled
    /\ ~Outstanding(r)
    /\ r \notin batch /\ sending # r
    /\ r \notin seenCreated \cup seenQueued

\* A row at rest keeps status and count until it is deleted: no retry of the publisher, no
\* late report, sweep, cancel request or restart comes back to it, although none of their
\* writes looks at the status.
RestIsFinal ==
    [][\A r \in Runners : AtRest(r) =>
          \/ AtRest(r)' /\ status'[r] = status[r] /\ counted'[r] = counted[r]
          \/ status'[r] = "NONE"]_vars

Stays(r) ==
    \/ AtRest(r)' /\ status'[r] = status[r] /\ counted'[r] = counted[r]
    \/ status'[r] = "NONE"

\* No action touches a row at rest, but the deletion of all rows.
LEMMA RestStep ==
    ASSUME TypeOK, RowsKnown, NEW q \in Runners, AtRest(q), [Next]_vars
    PROVE  Stays(q)
  <1> USE NoneAssumption DEF TypeOK, RowsKnown, Exists, AtRest, Stays, Outstanding, Settled,
                             dbVars, workerVars, publisherVars, cancelVars, UpdateRunnerJob
  <1>1. ASSUME NEW R \in SUBSET Runners, CreateRunnerJobs(R) PROVE Stays(q)
    BY <1>1 DEF CreateRunnerJobs
  <1>2. ASSUME NEW R \in SUBSET Runners, TimeOutRunners(R) PROVE Stays(q)
    BY <1>2 DEF TimeOutRunners
  <1>3. ASSUME DeleteOldRunnerJob PROVE Stays(q)
    BY <1>3 DEF DeleteOldRunnerJob
  <1>4. ASSUME FetchCreatedRunners PROVE Stays(q)
    BY <1>4 DEF FetchCreatedRunners
  <1>5. ASSUME NEW r \in Runners, PublishUnfit(r) PROVE Stays(q)
    BY <1>5 DEF PublishUnfit
  <1>6. ASSUME NEW r \in Runners, PublishRunner(r) PROVE Stays(q)
    BY <1>6 DEF PublishRunner, Produce
  <1>7. ASSUME PublisherReturns PROVE Stays(q)
    BY <1>7 DEF PublisherReturns
  <1>8. ASSUME MarkQueued PROVE Stays(q)
    BY <1>8 DEF MarkQueued
  <1>9. ASSUME SchedulerRestart PROVE Stays(q)
    BY <1>9 DEF SchedulerRestart
  <1>10. ASSUME NEW w \in Workers, NEW r \in Runners, TakeMessage(w, r) PROVE Stays(q)
    BY <1>10 DEF TakeMessage
  <1>11. ASSUME NEW w \in Workers, SkipCanceled(w) PROVE Stays(q)
    BY <1>11 DEF SkipCanceled
  <1>12. ASSUME NEW w \in Workers, ReportInProgress(w) PROVE Stays(q)
    BY <1>12 DEF ReportInProgress
  <1>13. ASSUME NEW w \in Workers, PollSeesCanceled(w) PROVE Stays(q)
    BY <1>13 DEF PollSeesCanceled
  <1>14. ASSUME NEW w \in Workers, NEW v \in Report, FinishRun(w, v) PROVE Stays(q)
    BY <1>14 DEF FinishRun
  <1>15. ASSUME NEW w \in Workers, WorkerCrash(w) PROVE Stays(q)
    BY <1>15 DEF WorkerCrash
  <1>16. ASSUME NEW r \in Runners, ConsumeReport(r) PROVE Stays(q)
    BY <1>16 DEF ConsumeReport
  <1>17. ASSUME NEW r \in Runners, LoseReport(r) PROVE Stays(q)
    BY <1>17 DEF LoseReport
  <1>18. ASSUME NEW k \in {"byId", "batch"}, CancelStart(k) PROVE Stays(q)
    BY <1>18 DEF CancelStart
  <1>19. ASSUME NEW r \in Runners, CancelCreatedRunner(r) PROVE Stays(q)
    BY <1>19 DEF CancelCreatedRunner
  <1>20. ASSUME NEW r \in Runners, CancelQueuedRunner(r) PROVE Stays(q)
    BY <1>20 DEF CancelQueuedRunner
  <1>21. ASSUME NEW r \in Runners, CancelQueuedFails(r) PROVE Stays(q)
    BY <1>21 DEF CancelQueuedFails
  <1>22. ASSUME CancelEnd PROVE Stays(q)
    BY <1>22 DEF CancelEnd
  <1>23. ASSUME UNCHANGED vars PROVE Stays(q)
    BY <1>23 DEF vars
  <1> QED
    BY <1>1, <1>2, <1>3, <1>4, <1>5, <1>6, <1>7, <1>8, <1>9, <1>10, <1>11,
       <1>12, <1>13, <1>14, <1>15, <1>16, <1>17, <1>18, <1>19, <1>20, <1>21, <1>22,
       <1>23 DEF Next, Publisher, Worker, Consumer, Canceler

\* publisher.go, consumer.go, server.go: nothing is written to a row that has settled and
\* that nobody holds any more.
THEOREM RestStays == Spec => RestIsFinal
  <1>1. IInv /\ [Next]_vars =>
          [\A r \in Runners : AtRest(r) =>
              \/ AtRest(r)' /\ status'[r] = status[r] /\ counted'[r] = counted[r]
              \/ status'[r] = "NONE"]_vars
    BY RestStep DEF IInv, Stays
  <1> QED
    BY Invariance, <1>1, PTL DEF Spec, RestIsFinal
=============================================================================
