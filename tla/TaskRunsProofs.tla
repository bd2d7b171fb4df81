---------------------------- MODULE TaskRunsProofs ----------------------------
(* Proofs about TaskRuns, for any runs, schedules, frequencies, timeout and limit. *)
EXTENDS TaskRuns, FiniteSetTheorems, SequenceTheorems, TLAPS

Reported == {"IN_PROGRESS"} \cup Verdict

\* The schedules are stored in the order of the specification, so a load that meets a
\* schedule meets the first one, unless a request went on storing behind their deletion.
FirstIsStored ==
    ~crossed =>
        /\ \A l \in Loaders : Underway(l) => Order # <<>> /\ Head(Order) \in schedules
        /\ schedules # {} => Order # <<>> /\ Head(Order) \in schedules
        /\ broken => schedules # {} /\ \A l \in Loaders : ~Underway(l)

\* The post-install job has a load under way only where it waits for one.
MigratorLoads == loading[Migrator] # None => job = "loading"

\* The message of a run that was never stored or delivered a second time is in one place,
\* and nothing comes after the verdict of its worker.
OneMessage ==
    \A r \in Runs \ again :
        /\ r \notin stored => r \notin queue /\ r \notin working /\ reports[r] = <<>>
                              /\ status[r] # "FINISHED"
        /\ r \in queue => r \notin working /\ reports[r] = <<>> /\ status[r] # "FINISHED"
        /\ r \in working => status[r] # "FINISHED"
        /\ status[r] = "FINISHED" => reports[r] = <<>>

VerdictIsLast ==
    \A r \in Runs \ again : \A i \in 1 .. Len(reports[r]) :
        reports[r][i] \in Verdict => i = Len(reports[r]) /\ r \notin working

\* The running runs that count, and those the round will still make count.
Booked == (RunningIn(status) \ offBooks) \cup Listed

BookedKept == Cardinality(Booked) <= Max + listed

TaskInv == TypeOK /\ FirstIsStored /\ MigratorLoads /\ OneMessage /\ VerdictIsLast /\ BookedKept

---------------------------------------------------------------------------
LEMMA OneReportMore ==
    ASSUME NEW S, NEW s \in Seq(S), NEW x \in S
    PROVE  /\ Append(s, x) \in Seq(S) /\ Append(s, x) # <<>>
           /\ Len(Append(s, x)) = Len(s) + 1
           /\ \A i \in 1 .. Len(s) + 1 :
                 Append(s, x)[i] = IF i = Len(s) + 1 THEN x ELSE s[i]
<1>1. /\ Append(s, x) \in Seq(S) /\ Len(Append(s, x)) = Len(s) + 1
      /\ \A i \in 1 .. Len(s) + 1 :
            Append(s, x)[i] = IF i = Len(s) + 1 THEN x ELSE s[i]
  OBVIOUS
<1>2. Append(s, x) # <<>>
  BY <1>1, LenProperties, EmptySeq
<1> QED  BY <1>1, <1>2

LEMMA OneReportLess ==
    ASSUME NEW S, NEW s \in Seq(S), s # <<>>
    PROVE  /\ Head(s) \in S /\ Head(s) = s[1] /\ Tail(s) \in Seq(S)
           /\ Len(s) \in Nat \ {0} /\ Len(Tail(s)) = Len(s) - 1
           /\ \A i \in 1 .. Len(s) - 1 : Tail(s)[i] = s[i + 1]
           /\ Len(s) = 1 => Tail(s) = <<>>
<1>1. Len(s) \in Nat \ {0} /\ Len(Tail(s)) = Len(s) - 1
  BY EmptySeq, HeadTailProperties
<1>2. Head(s) \in S /\ Head(s) = s[1] /\ Tail(s) \in Seq(S)
  BY <1>1, HeadTailProperties
<1>3. \A i \in 1 .. Len(s) - 1 : Tail(s)[i] = s[i + 1]
  BY <1>1
<1>4. ASSUME Len(s) = 1 PROVE Tail(s) = <<>>
  <2>1. Len(Tail(s)) = 0 /\ Tail(s) \in Seq(S)
    BY <1>1, <1>2, <1>4
  <2>2. Tail(s) # <<>> => Len(Tail(s)) \in Nat \ {0}
    BY <2>1, EmptySeq
  <2> QED  BY <2>1, <2>2
<1> QED  BY <1>1, <1>2, <1>3, <1>4

\* Whole minutes, rounded down, are less than a minute short of the timeout.
LEMMA WholeMinutes ==
    ASSUME NEW t \in Nat, NEW m \in Nat \ {0}
    PROVE  (t \div m) * m \in Nat /\ t < (t \div m) * m + m
OBVIOUS

LEMMA ObserveTypes ==
    ASSUME TypeOK, batch' \in SUBSET Runs, Observe
    PROVE  /\ offBooks' \in SUBSET Runs /\ listed' \in Nat
           /\ broken' \in BOOLEAN /\ crossed' \in BOOLEAN
<1>1. listed' \in Nat
  <2>1. IsFiniteSet(batch') => Cardinality(batch') \in Nat
    BY FS_CardinalityType
  <2>2. IsFiniteSet(batch')
    BY TaskAssumption, FS_Subset
  <2> QED  BY <2>1, <2>2 DEF Observe, TypeOK
<1>2. broken' \in BOOLEAN /\ crossed' \in BOOLEAN
  <2>1. (\E l \in Requests : Underway(l)) \in BOOLEAN /\ crossed \in BOOLEAN
    BY DEF TypeOK
  <2> QED  BY <2>1 DEF Observe
<1> QED  BY <1>1, <1>2 DEF Observe

\* A step that lists no run anew.
LEMMA BookedShrinks ==
    ASSUME TaskInv, Observe, TypeOK', Listed' \subseteq Listed, batch = {} => batch' = {}
    PROVE  BookedKept'
<1>1. Booked' \subseteq Booked
  BY DEF Booked, Observe, RunningIn
<1>2. listed' = listed
  BY DEF Observe
<1>3. IsFiniteSet(Booked)
  <2>1. Booked \subseteq Runs
    BY DEF Booked, RunningIn, Listed, TaskInv, TypeOK
  <2> QED  BY <2>1, TaskAssumption, FS_Subset
<1>4. Cardinality(Booked') <= Cardinality(Booked)
  BY <1>1, <1>3, FS_Subset
<1>5. Cardinality(Booked) \in Nat /\ Cardinality(Booked') \in Nat
  <2>1. IsFiniteSet(Booked')
    BY <1>1, <1>3, FS_Subset
  <2> HIDE DEF Booked
  <2> QED  BY <2>1, <1>3, FS_CardinalityType
<1> QED  BY <1>2, <1>4, <1>5, TaskAssumption DEF BookedKept, TaskInv, TypeOK

\* A step that leaves the specification alone.
LEMMA LoadKept ==
    ASSUME TaskInv, Observe, UNCHANGED loadVars
    PROVE  FirstIsStored' /\ MigratorLoads'
BY DEF TaskInv, FirstIsStored, MigratorLoads, BrokenOff, Underway, Observe, loadVars

LEMMA AgainGrows ==
    ASSUME Observe
    PROVE  Runs \ again' \subseteq Runs \ again
BY DEF Observe

\* A step that changes no message and finishes no run.
LEMMA QuietStep ==
    ASSUME TaskInv, Observe, UNCHANGED <<stored, queue, reports>>, working' \subseteq working,
           \A r \in Runs : status'[r] = "FINISHED" => status[r] = "FINISHED"
    PROVE  OneMessage' /\ VerdictIsLast'
BY AgainGrows DEF TaskInv, OneMessage, VerdictIsLast

\* Loads, the post-install job and restarts of the service.
Deployment == (\E l \in Loaders : Load(l)) \/ PostInstall \/ Crash \/ Boot

\* They touch no run; a stop forgets what the publisher listed.
LEMMA DeploymentLeavesRuns ==
    ASSUME Deployment
    PROVE  /\ UNCHANGED <<status, age, stored, queue, reports, cancels>>
           /\ working' \subseteq working
           /\ batch' \subseteq batch /\ sending' \in {sending, None}
BY DEF Deployment, Load, LoadTask, StoreSchedule, LoadEnds, Crash, Boot, ServiceStops, PostInstall,
   DeleteTasks, DeleteSchedules, SkipSpecification, RestartService, JobDies, loadVars,
   serviceVars, publisherVars, streamVars, workerVars

LEMMA StoreKeepsFirst ==
    ASSUME TaskInv, Observe, NEW l \in Loaders, StoreSchedule(l)
    PROVE  FirstIsStored'
<1>1. /\ loading[l] \in Seq(Schedules) /\ loading[l] # <<>> /\ loading[l] # None
      /\ schedules' = schedules \cup {Head(loading[l])}
      /\ loading' = [loading EXCEPT ![l] = Tail(@)]
  BY DEF StoreSchedule, Storing, TaskInv, TypeOK
<1>2. crossed' = crossed
  BY <1>1 DEF Observe
<1>3. ASSUME ~crossed PROVE Order # <<>> /\ Head(Order) \in schedules'
  <2>1. CASE loading[l] = Order
    BY <1>1, <2>1
  <2>2. CASE loading[l] # Order
    BY <1>1, <1>3, <2>2 DEF TaskInv, FirstIsStored, Underway
  <2> QED  BY <2>1, <2>2
<1>4. ASSUME ~crossed, broken', NEW k \in Loaders PROVE ~Underway(k)'
  <2>1. CASE broken
    <3>1. loading[l] = Order /\ Order # <<>> /\ Head(Order) \in schedules
      BY <1>1, <1>4, <2>1 DEF TaskInv, FirstIsStored, Underway
    <3> QED  BY <1>1, <3>1 DEF StoreSchedule
  <2>2. CASE ~broken
    BY <1>4, <2>2 DEF Observe, BrokenOff
  <2> QED  BY <2>1, <2>2
<1>5. broken' => schedules' # {}
  BY DEF Observe
<1> QED  BY <1>2, <1>3, <1>4, <1>5 DEF FirstIsStored

\* The service's requests and the post-install job, on the tables of specifications.
LEMMA LoadersKeepFirst ==
    ASSUME TaskInv, Observe,
           (\E l \in Loaders : Load(l)) \/ Crash \/ PostInstall
    PROVE  /\ job' \in JobPhase /\ taskRow' \in BOOLEAN /\ schedules' \in SUBSET Schedules
           /\ loading' \in [Loaders -> Seq(Schedules) \cup {None}]
           /\ FirstIsStored'
<1> USE DEF loadVars, serviceVars
<1>0. Order \in Seq(Schedules) /\ Migrator \in Loaders /\ Requests \subseteq Loaders
  BY TaskAssumption DEF Loaders
<1>1. ASSUME NEW l \in Loaders, StoreSchedule(l)
      PROVE  /\ UNCHANGED <<job, taskRow>> /\ schedules' \in SUBSET Schedules
             /\ loading' \in [Loaders -> Seq(Schedules) \cup {None}]
  <2>1. /\ loading[l] \in Seq(Schedules) /\ loading[l] # <<>>
        /\ UNCHANGED <<job, taskRow>>
        /\ schedules' = schedules \cup {Head(loading[l])}
        /\ loading' = [loading EXCEPT ![l] = Tail(@)]
    BY <1>1 DEF StoreSchedule, Storing, TaskInv, TypeOK
  <2>2. Head(loading[l]) \in Schedules /\ Tail(loading[l]) \in Seq(Schedules)
    BY <2>1, HeadTailProperties
  <2> QED  BY <2>1, <2>2 DEF TaskInv, TypeOK
<1>2. ASSUME NEW l \in Loaders, LoadTask(l) \/ LoadEnds(l)
      PROVE  /\ job' \in JobPhase /\ taskRow' \in BOOLEAN /\ schedules' = schedules
             /\ loading' = [loading EXCEPT ![l] = Order] \/ loading' = [loading EXCEPT ![l] = None]
  BY <1>2 DEF LoadTask, LoadEnds, JobPhase, TaskInv, TypeOK
<1>3. ASSUME Crash \/ RestartService \/ SkipSpecification
      PROVE  /\ job' \in JobPhase /\ taskRow' = taskRow /\ schedules' = schedules
             /\ loading' \in [Loaders -> Seq(Schedules) \cup {None}]
             /\ \A l \in Loaders : loading'[l] \in {loading[l], None}
  BY <1>0, <1>3 DEF Crash, RestartService, SkipSpecification, ServiceStops, JobPhase, TaskInv, TypeOK
<1>4. ASSUME JobDies \/ DeleteTasks
      PROVE  /\ job' \in JobPhase /\ taskRow' \in BOOLEAN /\ schedules' = schedules
             /\ loading' \in [Loaders -> Seq(Schedules) \cup {None}]
             /\ \A l \in Loaders : loading'[l] \in {loading[l], None}
  BY <1>0, <1>4 DEF JobDies, DeleteTasks, JobPhase, TaskInv, TypeOK
<1>5. ASSUME schedules' = schedules, \A l \in Loaders : Underway(l)' => Underway(l)
      PROVE  FirstIsStored'
  <2>1. crossed' = crossed /\ (broken' => broken \/ BrokenOff')
    BY <1>5 DEF Observe
  <2> QED  BY <1>5, <2>1 DEF TaskInv, FirstIsStored, BrokenOff
<1>6. CASE DeleteSchedules
  <2>1. /\ job' \in JobPhase /\ taskRow' = taskRow /\ loading' = loading
        /\ schedules' \in {schedules, {}}
    BY <1>6 DEF DeleteSchedules, JobPhase
  <2>2. \A l \in Loaders : Underway(l)' => Underway(l)
    BY <2>1 DEF Underway
  <2>3. CASE schedules' # schedules
    <3>1. schedules' = {} /\ ~broken' /\ (~crossed' => \A l \in Requests : ~Underway(l))
      BY <2>1, <2>3 DEF Observe
    <3>2. ~Underway(Migrator)
      BY <1>6 DEF TaskInv, MigratorLoads, DeleteSchedules, Underway
    <3> QED  BY <2>1, <2>2, <3>1, <3>2 DEF FirstIsStored, Loaders, TaskInv, TypeOK
  <2> QED  BY <1>5, <2>1, <2>2, <2>3 DEF TaskInv, TypeOK
<1>7. ASSUME NEW l \in Loaders, LoadTask(l) \/ LoadEnds(l)
      PROVE  /\ loading' \in [Loaders -> Seq(Schedules) \cup {None}]
             /\ \A k \in Loaders : Underway(k)' => Underway(k)
  BY <1>0, <1>2, <1>7 DEF Underway, TaskInv, TypeOK
<1>8. ASSUME Crash \/ RestartService \/ SkipSpecification \/ JobDies \/ DeleteTasks
      PROVE  \A l \in Loaders : Underway(l)' => Underway(l)
  BY <1>3, <1>4, <1>8 DEF Underway
<1>9. CASE \E l \in Loaders : Load(l)
  BY <1>1, <1>2, <1>5, <1>7, <1>9, StoreKeepsFirst DEF Load, TaskInv, TypeOK
<1>10. CASE Crash \/ PostInstall
  BY <1>3, <1>4, <1>5, <1>6, <1>8, <1>10 DEF PostInstall, TaskInv, TypeOK
<1> QED  BY <1>9, <1>10

LEMMA LoaderKeeps ==
    ASSUME TaskInv, Observe, Deployment
    PROVE  TaskInv'
<1> USE DEF Deployment, Load, LoadTask, StoreSchedule, LoadEnds, Crash, Boot, ServiceStops,
            PostInstall, DeleteTasks, DeleteSchedules, SkipSpecification, RestartService, JobDies,
            serviceVars
<1>1. /\ job' \in JobPhase /\ taskRow' \in BOOLEAN /\ schedules' \in SUBSET Schedules
      /\ loading' \in [Loaders -> Seq(Schedules) \cup {None}]
      /\ FirstIsStored'
  <2>1. CASE Boot
    BY <2>1, LoadKept DEF TaskInv, TypeOK, loadVars
  <2> QED  BY <2>1, LoadersKeepFirst
<1>2. MigratorLoads'
  <2>1. Migrator \in Loaders /\ Migrator \notin Requests
    BY TaskAssumption DEF Loaders
  <2>2. ASSUME NEW l \in Loaders, Load(l) PROVE MigratorLoads'
    BY <2>1, <2>2 DEF TaskInv, TypeOK, MigratorLoads, Storing
  <2>3. CASE Crash \/ PostInstall \/ Boot
    BY <2>1, <2>3 DEF TaskInv, TypeOK, MigratorLoads, loadVars
  <2> QED  BY <2>2, <2>3
<1>3. /\ UNCHANGED <<status, age, stored, queue, reports, cancels>>
      /\ working' \subseteq working
      /\ batch' \in SUBSET Runs /\ sending' \in Runs \cup {None}
      /\ Listed' \subseteq Listed /\ (batch = {} => batch' = {})
  BY DeploymentLeavesRuns DEF TaskInv, TypeOK, Listed
<1>4. up' \in BOOLEAN /\ started' \in BOOLEAN
  BY DEF TaskInv, TypeOK
<1>5. again' \in SUBSET Runs
  BY <1>3 DEF TaskInv, TypeOK, Observe
<1>6. TypeOK'
  BY <1>1, <1>3, <1>4, <1>5, ObserveTypes DEF TaskInv, TypeOK
<1> QED  BY <1>1, <1>2, <1>3, <1>6, QuietStep, BookedShrinks DEF TaskInv

\* Steps that create runs, and time.
LEMMA CreateKeeps ==
    ASSUME TaskInv, Observe, NEW r,
           (r \in Runs /\ (CreateScheduled(r) \/ RunTask(r) \/ CancelTaskRun(r))) \/ Tick
    PROVE  TaskInv'
<1> USE DEF loadVars, serviceVars, publisherVars, streamVars, workerVars, Write
<1>1. status' \in [Runs -> RunStatus] /\ age' \in [Runs -> 0 .. MaxAge] /\ cancels' \in SUBSET Runs
      /\ \A q \in Runs : status'[q] = "FINISHED" => status[q] = "FINISHED"
  <2>1. CASE r \in Runs /\ (CreateScheduled(r) \/ RunTask(r))
    <3>1. status' = [status EXCEPT ![r] = "CREATED"] /\ age' = age /\ cancels' = cancels
      BY <2>1 DEF CreateScheduled, RunTask
    <3> QED  BY <2>1, <3>1 DEF TaskInv, TypeOK, RunStatus, Live
  <2>2. CASE r \in Runs /\ CancelTaskRun(r)
    BY <2>2 DEF CancelTaskRun, TaskInv, TypeOK
  <2>3. CASE Tick
    BY <2>3, TaskAssumption DEF Tick, TaskInv, TypeOK
  <2> QED  BY <2>1, <2>2, <2>3
<1>2. UNCHANGED <<loadVars, serviceVars, publisherVars, streamVars, working, reports>>
  BY DEF CreateScheduled, RunTask, CancelTaskRun, Tick
<1>3. again' = again
  BY <1>2 DEF Observe, TaskInv, TypeOK
<1>4. TypeOK'
  BY <1>1, <1>2, <1>3, ObserveTypes DEF TaskInv, TypeOK
<1> QED  BY <1>1, <1>2, <1>4, QuietStep, BookedShrinks, LoadKept DEF TaskInv, Listed

LEMMA BeginRoundKeeps ==
    ASSUME TaskInv, Observe, BeginRound
    PROVE  TaskInv'
<1> USE DEF loadVars, serviceVars, publisherVars, streamVars, workerVars
<1>1. /\ batch = {} /\ sending = None /\ sending' = sending /\ status' = Swept
      /\ batch' = IF Cardinality(RunningIn(Swept)) > Max THEN {} ELSE CreatedIn(Swept)
      /\ UNCHANGED <<loadVars, serviceVars, age, streamVars, workerVars>>
  BY DEF BeginRound
<1>2. /\ status' \in [Runs -> RunStatus] /\ batch' \in SUBSET Runs
      /\ \A q \in Runs : status'[q] = "FINISHED" => status[q] = "FINISHED"
  BY <1>1 DEF Swept, CreatedIn, TaskInv, TypeOK, RunStatus
<1>3. again' = again
  BY <1>1 DEF Observe, TaskInv, TypeOK
<1>4. TypeOK'
  BY <1>1, <1>2, <1>3, ObserveTypes DEF TaskInv, TypeOK
<1>5. CASE batch' = {}
  <2>1. Listed' \subseteq Listed
    BY <1>1, <1>5 DEF Listed
  <2> QED  BY <1>1, <1>2, <1>4, <1>5, <2>1, QuietStep, BookedShrinks, LoadKept DEF TaskInv
<1>6. CASE batch' # {}
  <2> DEFINE R == RunningIn(Swept)  L == CreatedIn(Swept)
  <2>1. ~(Cardinality(R) > Max) /\ batch' = L /\ listed' = Cardinality(L)
    BY <1>1, <1>6 DEF Observe
  <2>2. IsFiniteSet(R) /\ IsFiniteSet(L)
    <3>1. R \subseteq Runs /\ L \subseteq Runs
      BY DEF RunningIn, CreatedIn
    <3> QED  BY <3>1, TaskAssumption, FS_Subset
  <2>3. Booked' \subseteq R \cup L
    BY <1>1, <2>1 DEF Booked, Listed, RunningIn
  <2>4. R \cap L = {}
    BY DEF RunningIn, CreatedIn, Running
  <2>5. Cardinality(R) \in Nat /\ Cardinality(L) \in Nat /\ Cardinality(R \cap L) = 0
    BY <2>2, <2>4, FS_CardinalityType, FS_EmptySet
  <2>6. /\ IsFiniteSet(R \cup L)
        /\ Cardinality(R \cup L) = Cardinality(R) + Cardinality(L) - Cardinality(R \cap L)
    BY <2>2, FS_Union
  <2>7. Cardinality(Booked') <= Cardinality(R \cup L) /\ Cardinality(Booked') \in Nat
    BY <2>3, <2>6, FS_Subset, FS_CardinalityType
  <2>8. BookedKept'
    <3> HIDE DEF R, L
    <3> QED  BY <2>1, <2>5, <2>6, <2>7, TaskAssumption DEF BookedKept
  <2> QED  BY <1>1, <1>2, <1>4, <2>8, QuietStep, LoadKept DEF TaskInv
<1> QED  BY <1>5, <1>6

LEMMA PublishKeeps ==
    ASSUME TaskInv, Observe, NEW r, (r \in Runs /\ Publish(r)) \/ WriteQueued \/ AbortRound
    PROVE  TaskInv'
<1> USE DEF loadVars, serviceVars, publisherVars, streamVars, workerVars
<1> USE DEF Publish, Produce, ProduceAfterSetup, ProduceFails, FailRound, WriteQueued,
            AbortRound, NextRun
<1>1. /\ status' \in [Runs -> RunStatus]
      /\ \A q \in Runs : status'[q] = "FINISHED" => status[q] = "FINISHED"
  <2>1. "QUEUED" \in RunStatus /\ "FAILED" \in RunStatus
    BY DEF RunStatus, Live, Running, Verdict
  <2>2. status \in [Runs -> RunStatus] /\ sending \in Runs \cup {None}
    BY DEF TaskInv, TypeOK
  <2> QED  BY <2>1, <2>2 DEF TryWrite, Write
<1>2. UNCHANGED <<loadVars, serviceVars, age, workerVars>>
  OBVIOUS
<1>3. /\ batch' \in SUBSET Runs /\ sending' \in Runs \cup {None}
      /\ Listed' \subseteq Listed /\ (batch = {} => batch' = {})
  BY DEF TaskInv, TypeOK, Listed
<1>4. UNCHANGED streamVars \/ (r \in Runs /\ Stored(r))
  OBVIOUS
<1>5. stored' \in SUBSET Runs /\ queue' \in SUBSET Runs /\ again' \in SUBSET Runs
  BY <1>2, <1>4 DEF Stored, TaskInv, TypeOK, Observe
<1>6. TypeOK'
  BY <1>1, <1>2, <1>3, <1>5, ObserveTypes DEF TaskInv, TypeOK
<1>7. OneMessage' /\ VerdictIsLast'
  <2>1. CASE UNCHANGED streamVars
    BY <1>1, <1>2, <2>1, QuietStep
  <2>2. CASE r \in Runs /\ Stored(r)
    <3>1. VerdictIsLast'
      BY <1>2, AgainGrows DEF TaskInv, VerdictIsLast
    <3>2. stored' = stored \cup {r} /\ (queue' = queue \cup {r} \/ queue' = queue)
      BY <2>2 DEF Stored
    <3>3. r \in stored /\ r \in queue' /\ r \notin queue => r \in again'
      BY <2>2 DEF Observe
    <3>4. \A q \in Runs \ again' : q \in queue' => q \in queue \/ (q = r /\ r \notin stored)
      BY <3>2, <3>3
    <3> QED  BY <1>1, <1>2, <3>1, <3>2, <3>4, AgainGrows DEF TaskInv, OneMessage
  <2> QED  BY <1>4, <2>1, <2>2
<1> QED  BY <1>2, <1>3, <1>6, <1>7, BookedShrinks, LoadKept DEF TaskInv

LEMMA ReportTypes ==
    ASSUME TypeOK, NEW r \in Runs, NEW s \in Reported, Report(r, s)
    PROVE  /\ reports' \in [Runs -> Seq(Reported)]
           /\ \A i \in Runs \ {r} : reports'[i] = reports[i]
           /\ \/ reports' = reports
              \/ /\ reports'[r] # <<>> /\ Len(reports'[r]) = Len(reports[r]) + 1
                 /\ \A i \in 1 .. Len(reports[r]) + 1 :
                       reports'[r][i] = IF i = Len(reports[r]) + 1 THEN s ELSE reports[r][i]
<1>1. reports \in [Runs -> Seq(Reported)]
  BY DEF TypeOK, Reported
<1>2. CASE reports' = [reports EXCEPT ![r] = Append(@, s)]
  <2> DEFINE q == Append(reports[r], s)
  <2>1. /\ q \in Seq(Reported) /\ q # <<>> /\ Len(q) = Len(reports[r]) + 1
        /\ \A i \in 1 .. Len(reports[r]) + 1 :
              q[i] = IF i = Len(reports[r]) + 1 THEN s ELSE reports[r][i]
    BY <1>1, OneReportMore
  <2> HIDE DEF q
  <2>2. reports'[r] = q /\ \A i \in Runs \ {r} : reports'[i] = reports[i]
    BY <1>1, <1>2 DEF q
  <2>3. reports' \in [Runs -> Seq(Reported)]
    BY <1>1, <1>2, <2>1 DEF q
  <2> QED  BY <2>1, <2>2, <2>3
<1> QED  BY <1>1, <1>2 DEF Report

LEMMA TakeKeeps ==
    ASSUME TaskInv, Observe, NEW r \in Runs, TakeRun(r)
    PROVE  TaskInv'
<1> USE DEF loadVars, serviceVars, publisherVars, streamVars, workerVars
<1>0. \A i \in Runs : reports[i] \in Seq(Reported) /\ Len(reports[i]) \in Nat
  BY LenProperties DEF TaskInv, TypeOK, Reported
<1>1. /\ r \in queue /\ (queue' = queue \ {r} \/ queue' = queue)
      /\ working' = working \cup {r}
      /\ UNCHANGED <<loadVars, serviceVars, status, age, publisherVars, stored, cancels>>
  BY DEF TakeRun
<1>2. /\ reports' \in [Runs -> Seq(Reported)]
      /\ \A i \in Runs \ {r} : reports'[i] = reports[i]
      /\ reports[r] = <<>> => \A i \in 1 .. Len(reports'[r]) : reports'[r][i] \notin Verdict
  <2>1. "IN_PROGRESS" \in Reported /\ "IN_PROGRESS" \notin Verdict
    BY DEF Reported, Verdict
  <2>2. Report(r, "IN_PROGRESS")
    BY DEF TakeRun
  <2>3. Len(<<>>) = 0
    BY EmptySeq
  <2> QED  BY <2>1, <2>2, <2>3, <1>0, ReportTypes DEF TaskInv
<1>3. again' \in SUBSET Runs /\ (r \notin again' => r \notin queue' /\ r \notin again)
  BY <1>1 DEF Observe, TaskInv, TypeOK, OneMessage
<1>4. TypeOK'
  BY <1>1, <1>2, <1>3, ObserveTypes DEF TaskInv, TypeOK, Reported
<1>5. OneMessage'
  BY <1>1, <1>2, <1>3, AgainGrows DEF TaskInv, OneMessage
<1>6. VerdictIsLast'
  <2>1. r \notin again' => \A i \in 1 .. Len(reports'[r]) : reports'[r][i] \notin Verdict
    BY <1>1, <1>2, <1>3 DEF TaskInv, OneMessage
  <2> QED  BY <2>1, <1>1, <1>2, AgainGrows DEF TaskInv, VerdictIsLast
<1> QED  BY <1>1, <1>4, <1>5, <1>6, BookedShrinks, LoadKept DEF TaskInv, Listed

LEMMA FinishKeeps ==
    ASSUME TaskInv, Observe, NEW r \in Runs, WorkerDies(r) \/ \E v \in Verdict : FinishRun(r, v)
    PROVE  TaskInv'
<1> USE DEF loadVars, serviceVars, publisherVars, streamVars, workerVars
<1>0. \A i \in Runs : reports[i] \in Seq(Reported) /\ Len(reports[i]) \in Nat
  BY LenProperties DEF TaskInv, TypeOK, Reported
<1>1. /\ r \in working /\ working' = working \ {r} /\ cancels' = cancels \ {r}
      /\ UNCHANGED <<loadVars, serviceVars, status, age, publisherVars, streamVars>>
  BY DEF FinishRun, WorkerDies
<1>2. PICK v \in Reported : reports' = reports \/ (v \in Verdict /\ Report(r, v))
  BY DEF FinishRun, WorkerDies, Reported
<1>3. /\ reports' \in [Runs -> Seq(Reported)]
      /\ \A i \in Runs \ {r} : reports'[i] = reports[i]
      /\ \/ reports' = reports
         \/ /\ Len(reports'[r]) = Len(reports[r]) + 1
            /\ \A i \in 1 .. Len(reports[r]) + 1 :
                  reports'[r][i] = IF i = Len(reports[r]) + 1 THEN v ELSE reports[r][i]
  BY <1>0, <1>2, ReportTypes DEF TaskInv, TypeOK, Reported
<1>4. again' = again
  BY <1>1 DEF Observe, TaskInv, TypeOK
<1>5. TypeOK'
  BY <1>1, <1>3, <1>4, ObserveTypes DEF TaskInv, TypeOK, Reported
<1>6. OneMessage'
  BY <1>1, <1>3, <1>4 DEF TaskInv, OneMessage
<1>7. VerdictIsLast'
  <2>1. ASSUME r \notin again, NEW i \in 1 .. Len(reports'[r]), reports'[r][i] \in Verdict
        PROVE  i = Len(reports'[r])
    <3>1. \A k \in 1 .. Len(reports[r]) : reports[r][k] \notin Verdict
      BY <1>1, <2>1 DEF TaskInv, VerdictIsLast
    <3>2. CASE reports' = reports
      BY <2>1, <3>1, <3>2
    <3>3. CASE reports' # reports
      <4>1. i # Len(reports'[r]) => i \in 1 .. Len(reports[r]) /\ reports'[r][i] = reports[r][i]
        BY <3>3, <1>0, <1>3
      <4> QED  BY <4>1, <3>1, <2>1
    <3> QED  BY <3>2, <3>3
  <2> QED  BY <2>1, <1>1, <1>3, <1>4 DEF TaskInv, VerdictIsLast
<1> QED  BY <1>1, <1>5, <1>6, <1>7, BookedShrinks, LoadKept DEF TaskInv, Listed

LEMMA ConsumeKeeps ==
    ASSUME TaskInv, Observe, NEW r \in Runs, ConsumeResponse(r)
    PROVE  TaskInv'
<1> USE DEF loadVars, serviceVars, publisherVars, streamVars, workerVars
<1> DEFINE q == reports[r]
<1>0. q \in Seq(Reported) /\ q # <<>> /\ reports \in [Runs -> Seq(Reported)]
  BY DEF ConsumeResponse, TaskInv, TypeOK, Reported
<1>1. /\ Head(q) \in Reported /\ Head(q) = q[1] /\ Tail(q) \in Seq(Reported)
      /\ Len(q) \in Nat \ {0} /\ Len(Tail(q)) = Len(q) - 1
      /\ \A i \in 1 .. Len(q) - 1 : Tail(q)[i] = q[i + 1]
      /\ Len(q) = 1 => Tail(q) = <<>>
  <2> HIDE DEF q
  <2> QED  BY <1>0, OneReportLess
<1>2. /\ reports'[r] = Tail(q) /\ \A i \in Runs \ {r} : reports'[i] = reports[i]
      /\ reports' \in [Runs -> Seq(Reported)]
      /\ UNCHANGED <<loadVars, serviceVars, age, publisherVars, streamVars, working, cancels>>
  BY <1>0, <1>1 DEF ConsumeResponse
<1>3. /\ status' \in [Runs -> RunStatus]
      /\ \A i \in Runs \ {r} : status'[i] = status[i]
      /\ status'[r] = status[r] \/ status'[r] = q[1]
  <2>1. Head(q) \in RunStatus
    BY <1>1 DEF Reported, RunStatus, Live, Running
  <2> QED  BY <1>1, <2>1 DEF ConsumeResponse, TryWrite, Write, TaskInv, TypeOK
<1>4. again' = again
  BY <1>2 DEF Observe, TaskInv, TypeOK
<1>5. TypeOK'
  BY <1>2, <1>3, <1>4, ObserveTypes DEF TaskInv, TypeOK, Reported
<1>6. OneMessage'
  <2>1. ASSUME r \notin again, status'[r] = "FINISHED"
        PROVE  reports'[r] = <<>> /\ r \notin working /\ r \notin queue /\ r \in stored
    <3>1. q[1] = "FINISHED"
      BY <1>0, <1>3, <2>1 DEF TaskInv, OneMessage
    <3>2. 1 \in 1 .. Len(reports[r]) /\ reports[r][1] \in Verdict
      BY <1>1, <3>1 DEF Verdict
    <3>3. Len(q) = 1 /\ r \notin working
      BY <3>2, <2>1 DEF TaskInv, VerdictIsLast
    <3> QED  BY <1>0, <1>1, <1>2, <3>3, <2>1 DEF TaskInv, OneMessage
  <2> QED  BY <2>1, <1>0, <1>2, <1>3, <1>4 DEF TaskInv, OneMessage
<1>7. VerdictIsLast'
  <2> SUFFICES ASSUME r \notin again, NEW i \in 1 .. Len(Tail(q)), Tail(q)[i] \in Verdict
               PROVE  i = Len(Tail(q)) /\ r \notin working
    BY <1>2, <1>4 DEF TaskInv, VerdictIsLast
  <2>1. i + 1 \in 1 .. Len(q) /\ q[i + 1] \in Verdict
    BY <1>1
  <2>2. i + 1 = Len(q) /\ r \notin working
    BY <2>1 DEF TaskInv, VerdictIsLast
  <2> QED  BY <2>2, <1>1
<1> QED  BY <1>2, <1>5, <1>6, <1>7, BookedShrinks, LoadKept DEF TaskInv, Listed

LEMMA TaskInvStep ==
    ASSUME TaskInv, [Next]_vars
    PROVE  TaskInv'
<1>1. CASE UNCHANGED vars
  BY <1>1 DEF vars, loadVars, serviceVars, publisherVars, streamVars, workerVars, TaskInv,
     TypeOK, FirstIsStored, Underway, MigratorLoads, OneMessage, VerdictIsLast, BookedKept,
     Booked, RunningIn, Listed
<1>2. CASE Next
  <2>1. ASSUME NEW r \in Runs, Worker(r) PROVE TaskInv'
    BY <1>2, <2>1, TakeKeeps, FinishKeeps DEF Next, Worker
  <2>2. ASSUME Publisher PROVE TaskInv'
    BY <1>2, <2>2, BeginRoundKeeps, PublishKeeps DEF Next, Publisher
  <2> QED  BY <1>2, <2>1, <2>2, LoaderKeeps, CreateKeeps, ConsumeKeeps
       DEF Next, Step, Deployment
<1> QED  BY <1>1, <1>2

LEMMA TaskInvariant == Spec => []TaskInv
<1>1. ASSUME Init PROVE TaskInv
  <2>1. TypeOK
    <3>1. <<>> \in Seq(Reported)
      BY EmptySeq
    <3>2. reports \in [Runs -> Seq({"IN_PROGRESS"} \cup Verdict)]
      BY <1>1, <3>1 DEF Init, Reported
    <3>3. /\ up \in BOOLEAN /\ taskRow \in BOOLEAN /\ started \in BOOLEAN
          /\ broken \in BOOLEAN /\ crossed \in BOOLEAN /\ job \in JobPhase
      BY <1>1 DEF Init, JobPhase
    <3> QED  BY <1>1, <3>2, <3>3, TaskAssumption DEF Init, TypeOK, RunStatus
  <2>2. FirstIsStored /\ MigratorLoads /\ OneMessage
    BY <1>1, TaskAssumption DEF Init, FirstIsStored, Underway, MigratorLoads, Loaders, OneMessage
  <2>3. VerdictIsLast
    <3>1. Len(<<>>) = 0
      BY EmptySeq
    <3> QED  BY <1>1, <3>1 DEF Init, VerdictIsLast
  <2>4. BookedKept
    <3>1. Booked = {}
      BY <1>1 DEF Init, Booked, RunningIn, Running, Listed
    <3> QED  BY <1>1, <3>1, FS_EmptySet, TaskAssumption DEF Init, BookedKept
  <2> QED  BY <2>1, <2>2, <2>3, <2>4 DEF TaskInv
<1> QED  BY <1>1, TaskInvStep, PTL DEF Spec

\* The tasks service keeps its types.
THEOREM TypeCorrect == Spec => []TypeOK
BY TaskInvariant, PTL DEF TaskInv

\* The number of running runs exceeds the limit by one round's list at most, for any limit
\* and any number of runs.
THEOREM LimitHolds == Spec => []LimitKept
<1>1. TaskInv => LimitKept
  <2> SUFFICES ASSUME TaskInv PROVE LimitKept
    OBVIOUS
  <2> DEFINE S == RunningIn(status) \ offBooks
  <2>1. S \subseteq Booked /\ Booked \subseteq Runs
    BY DEF Booked, RunningIn, Listed, TaskInv, TypeOK
  <2>2. IsFiniteSet(Booked) /\ IsFiniteSet(S)
    BY <2>1, TaskAssumption, FS_Subset
  <2>3. /\ Cardinality(S) <= Cardinality(Booked)
        /\ Cardinality(S) \in Nat /\ Cardinality(Booked) \in Nat
    <3> HIDE DEF S, Booked
    <3> QED  BY <2>1, <2>2, FS_Subset, FS_CardinalityType
  <2> QED  BY <2>3, TaskAssumption DEF LimitKept, TaskInv, TypeOK, BookedKept
<1> QED  BY <1>1, TaskInvariant, PTL

\* What a step of the service can make of a row: it is timed out by a sweep only.
LEMMA OnlySweepsTimeOut ==
    ASSUME TypeOK, Step, NEW r \in Runs, status[r] # "TIMEOUT", status'[r] = "TIMEOUT"
    PROVE  Overdue(r)
<1> USE DEF loadVars, serviceVars, publisherVars, streamVars, workerVars
<1>1. CASE Deployment \/ Tick \/ AbortRound
  BY <1>1, DeploymentLeavesRuns DEF Tick, AbortRound
<1>2. CASE BeginRound
  BY <1>2 DEF BeginRound, Swept
<1>3. CASE WriteQueued
  BY <1>3 DEF WriteQueued, TryWrite, Write, TypeOK
<1>4. ASSUME NEW q \in Runs, Publish(q) PROVE FALSE
  BY <1>4 DEF Publish, Produce, ProduceAfterSetup, ProduceFails, FailRound, TryWrite, Write,
     TypeOK
<1>5. ASSUME NEW q \in Runs, CreateScheduled(q) \/ RunTask(q) \/ CancelTaskRun(q) \/ Worker(q)
      PROVE  FALSE
  BY <1>5 DEF CreateScheduled, RunTask, CancelTaskRun, Worker, TakeRun, FinishRun, WorkerDies,
     Write, TypeOK
<1>6. ASSUME NEW q \in Runs, ConsumeResponse(q) PROVE FALSE
  <2>1. reports[q] \in Seq(Reported) /\ reports[q] # <<>>
    BY <1>6 DEF ConsumeResponse, TypeOK, Reported
  <2>2. Head(reports[q]) # "TIMEOUT"
    <3>1. Head(reports[q]) \in Reported
      BY <2>1, HeadTailProperties
    <3> QED  BY <3>1 DEF Reported, Verdict
  <2> QED  BY <1>6, <2>2 DEF ConsumeResponse, TryWrite, Write, TypeOK
<1> QED  BY <1>1, <1>2, <1>3, <1>4, <1>5, <1>6 DEF Step, Publisher, Deployment

\* A run is timed out less than a minute early, for any timeout.
THEOREM NeverMuchTooEarly == Spec => NotMuchTooEarly
<1>1. ASSUME TaskInv, Next, NEW r \in Runs, status[r] # "TIMEOUT", status'[r] = "TIMEOUT"
      PROVE  age[r] + Minute > Timeout
  <2>1. age[r] > (Timeout \div Minute) * Minute /\ age[r] \in Nat
    BY <1>1, OnlySweepsTimeOut, TaskAssumption DEF Next, TaskInv, TypeOK, Overdue
  <2>2. (Timeout \div Minute) * Minute \in Nat /\ Timeout < (Timeout \div Minute) * Minute + Minute
    BY WholeMinutes, TaskAssumption
  <2> HIDE DEF Overdue
  <2> DEFINE w == (Timeout \div Minute) * Minute
  <2>3. age[r] > w /\ w \in Nat /\ Timeout < w + Minute
    BY <2>1, <2>2
  <2> HIDE DEF w
  <2> QED  BY <2>1, <2>3, TaskAssumption
<1>2. TaskInv /\ [Next]_vars =>
         [\A r \in Runs : status[r] # "TIMEOUT" /\ status'[r] = "TIMEOUT" =>
             age[r] + Minute > Timeout]_vars
  BY <1>1
<1> QED  BY <1>2, TaskInvariant, PTL DEF Spec, NotMuchTooEarly

\* A load that broke off is completed by no later one, whatever the specification, the number of
\* requests and the moment the post-install job comes.
THEOREM BrokenStays == Spec => PartialLoadStays
<1>1. ASSUME TaskInv, Next, broken, ~crossed, schedules' # schedules PROVE schedules' = {}
  <2>1. ASSUME NEW l \in Loaders, StoreSchedule(l) PROVE FALSE
    <3>1. loading[l] = Order /\ Head(loading[l]) \notin schedules
      BY <1>1, <2>1 DEF StoreSchedule, Storing, TaskInv, FirstIsStored, Underway
    <3>2. Head(Order) \in schedules
      BY <1>1 DEF TaskInv, FirstIsStored
    <3> QED  BY <3>1, <3>2
  <2>2. CASE DeleteSchedules
    BY <1>1, <2>2 DEF DeleteSchedules
  <2>3. CASE ~DeleteSchedules
    BY <1>1, <2>1, <2>3 DEF Next, Step, Load, LoadTask, LoadEnds, Crash, Boot, PostInstall,
       DeleteTasks, SkipSpecification, RestartService, JobDies, Tick, Publisher,
       BeginRound, WriteQueued, AbortRound, Publish, Produce, ProduceAfterSetup, ProduceFails,
       FailRound, CreateScheduled, RunTask, Worker, TakeRun, FinishRun, WorkerDies,
       ConsumeResponse, CancelTaskRun, loadVars
  <2> QED  BY <2>2, <2>3
<1>2. TaskInv /\ [Next]_vars =>
         [broken /\ ~crossed /\ schedules' # schedules => schedules' = {}]_vars
  BY <1>1
<1> QED  BY <1>2, TaskInvariant, PTL DEF Spec, PartialLoadStays

\* A finished run is reopened only by its publication or by a second delivery.
THEOREM FinishedKept == Spec => FinishedStays
<1>1. ASSUME TaskInv, Next, NEW r \in Runs, status[r] = "FINISHED", status'[r] # "FINISHED"
      PROVE  r \in Listed \cup again
  <2> USE DEF loadVars, serviceVars, publisherVars, streamVars, workerVars
  <2>1. CASE Deployment \/ Tick \/ AbortRound
    BY <1>1, <2>1, DeploymentLeavesRuns DEF Tick, AbortRound
  <2>2. CASE BeginRound
    BY <1>1, <2>2 DEF BeginRound, Swept, Live, Running
  <2>3. CASE WriteQueued
    BY <1>1, <2>3 DEF WriteQueued, TryWrite, Write, TaskInv, TypeOK, Listed
  <2>4. ASSUME NEW q \in Runs, Publish(q) PROVE r \in Listed
    BY <1>1, <2>4 DEF Publish, Produce, ProduceAfterSetup, ProduceFails, FailRound, NextRun,
       TryWrite, Write, TaskInv, TypeOK, Listed
  <2>5. ASSUME NEW q \in Runs, CreateScheduled(q) \/ RunTask(q) \/ CancelTaskRun(q) \/ Worker(q)
        PROVE  FALSE
    BY <1>1, <2>5 DEF CreateScheduled, RunTask, CancelTaskRun, Worker, TakeRun, FinishRun,
       WorkerDies, Write, TaskInv, TypeOK
  <2>6. ASSUME NEW q \in Runs, ConsumeResponse(q) PROVE r \in again
    BY <1>1, <2>6 DEF ConsumeResponse, TryWrite, Write, TaskInv, TypeOK, OneMessage
  <2> QED  BY <1>1, <2>1, <2>2, <2>3, <2>4, <2>5, <2>6 DEF Next, Step, Publisher, Deployment
<1>2. TaskInv /\ [Next]_vars =>
         [\A r \in Runs : status[r] = "FINISHED" /\ status'[r] # "FINISHED" =>
             r \in Listed \cup again]_vars
  BY <1>1
<1> QED  BY <1>2, TaskInvariant, PTL DEF Spec, FinishedStays

---------------------------------------------------------------------------
(* The safety half of Settles: what is over and in nobody's hands stays. *)

\* The run has one of the last statuses, no message, execution or result of it is outstanding,
\* and the publisher does not hold it.
AtRest(r) ==
    /\ status[r] \in Verdict \cup {"TIMEOUT"}
    /\ r \notin queue \cup working /\ reports[r] = <<>>
    /\ r \notin Listed

\* No round, time out, restart, cancel request or result comes back to such a run; messages come
\* again only while the stream has them.
RestIsFinal ==
    [][\A r \in Runs : AtRest(r) => AtRest(r)' /\ status'[r] = status[r]]_vars

\* services/tasks, publisher, consumer and handlers: a run that every part of the service is done
\* with is never written again.
THEOREM RestStays == Spec => RestIsFinal
<1>1. ASSUME TaskInv, Next, NEW r \in Runs, AtRest(r)
      PROVE  AtRest(r)' /\ status'[r] = status[r]
  <2> DEFINE Held == AtRest(r)' /\ status'[r] = status[r]
  <2> USE DEF AtRest, loadVars, serviceVars, publisherVars, streamVars, workerVars
  <2>0. r \notin batch /\ sending # r
    BY <1>1, TaskAssumption DEF Listed
  <2>1. ASSUME Deployment \/ Tick \/ AbortRound PROVE Held
    BY <1>1, <2>1, DeploymentLeavesRuns DEF Tick, AbortRound, Listed
  <2>2. ASSUME BeginRound PROVE Held
    BY <1>1, <2>2 DEF BeginRound, Swept, Live, Running, Verdict, CreatedIn, Listed
  <2>3. ASSUME WriteQueued PROVE Held
    BY <1>1, <2>0, <2>3 DEF WriteQueued, TryWrite, Write, TaskInv, TypeOK, Listed
  <2>4. ASSUME NEW q \in Runs, Publish(q) PROVE Held
    <3> USE DEF Publish, Produce, ProduceAfterSetup, ProduceFails, FailRound, NextRun, Stored
    <3>1. q # r
      BY <2>0, <2>4
    <3>2. status'[r] = status[r] /\ UNCHANGED <<working, reports>>
      BY <2>4, <3>1, <1>1 DEF TryWrite, Write, TaskInv, TypeOK
    <3>3. r \notin queue' /\ r \notin Listed'
      BY <1>1, <2>0, <2>4, <3>1 DEF Listed
    <3> QED  BY <1>1, <3>2, <3>3
  <2>5. ASSUME NEW q \in Runs, CreateScheduled(q) \/ RunTask(q) \/ CancelTaskRun(q) PROVE Held
    BY <1>1, <2>5 DEF CreateScheduled, RunTask, CancelTaskRun, Write, TaskInv, TypeOK, Verdict,
       Listed
  <2>6. ASSUME NEW q \in Runs, Worker(q) PROVE Held
    BY <1>1, <2>6 DEF Worker, TakeRun, FinishRun, WorkerDies, Report, TaskInv, TypeOK, Listed
  <2>7. ASSUME NEW q \in Runs, ConsumeResponse(q) PROVE Held
    BY <1>1, <2>7 DEF ConsumeResponse, TryWrite, Write, TaskInv, TypeOK, Listed
  <2> QED  BY <1>1, <2>1, <2>2, <2>3, <2>4, <2>5, <2>6, <2>7 DEF Next, Step, Publisher, Deployment
<1>2. TaskInv /\ [Next]_vars =>
         [\A r \in Runs : AtRest(r) => AtRest(r)' /\ status'[r] = status[r]]_vars
  BY <1>1
<1> QED  BY <1>2, TaskInvariant, PTL DEF Spec, RestIsFinal
=============================================================================
