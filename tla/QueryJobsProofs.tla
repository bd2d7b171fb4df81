--------------------------- MODULE QueryJobsProofs ---------------------------
(* Proofs about QueryJobs, for any jobs of both kinds and any limit. *)
EXTENDS QueryJobs, FiniteSetTheorems, SequenceTheorems, TLAPS

\* Each publisher has jobs of its own kind only, and only runners are canceled on request.
KeptApart ==
    /\ \A k \in Kinds : batch[k] \subseteq JobsOf(k) /\ sending[k] \in JobsOf(k) \cup {None}
    /\ cancelJob \in Runners \cup {None}

\* A message is stored once and is in one place; a worker's verdict is the last that comes
\* of a job.
OneMessage ==
    \A j \in Jobs :
        /\ j \notin stored => j \notin queue /\ j \notin withdrawn /\ runs[j] = 0
        /\ j \in queue => j \notin withdrawn /\ runs[j] = 0
        /\ runs[j] <= 1
        /\ j \in withdrawn => runs[j] = 0
        /\ runs[j] = 0 => j \notin working /\ reports[j] = <<>>

VerdictIsLast ==
    \A j \in Jobs : \A i \in 1 .. Len(reports[j]) :
        reports[j][i] \in Verdict => i = Len(reports[j]) /\ j \notin working

NothingFollows ==
    \A j \in concluded :
        status[j] \in Verdict /\ reports[j] = <<>> /\ j \notin working /\ runs[j] = 1

\* The running validators that count, and those a round will still make count.
Booked == (RunningOf("validator") \ offBooks) \cup Listed("validator")

RoomForBooked == ~flooded => Cardinality(Booked) <= Cap

QueryInv ==
    TypeOK /\ KeptApart /\ OneMessage /\ VerdictIsLast /\ NothingFollows /\ RoomForBooked

Reported == {"IN_PROGRESS"} \cup Verdict

---------------------------------------------------------------------------
LEMMA OneReportMore ==
    ASSUME NEW S, NEW s \in Seq(S), NEW x \in S
    PROVE  /\ Append(s, x) \in Seq(S) /\ Append(s, x) # <<>>
           /\ Len(Append(s, x)) = Len(s) + 1
           /\ \A i \in 1 .. Len(s) + 1 :
                 Append(s, x)[i] = IF i = Len(s) + 1 THEN x ELSE s[i]
<1>1. /\ Append(s, x) \in Seq(S) /\ Len(Append(s, x)) = Len(s) + 1
      /\ \A i \in 1 .. Len(s) + 1 :
            Append(s, x)[i] = IF i = Len(s) + 1 THEN x ELSE s[i]
  OBVIOUS
<1>2. Append(s, x) # <<>>
  BY <1>1, LenProperties, EmptySeq
<1> QED  BY <1>1, <1>2

LEMMA OneReportLess ==
    ASSUME NEW S, NEW s \in Seq(S), s # <<>>
    PROVE  /\ Head(s) \in S /\ Head(s) = s[1] /\ Tail(s) \in Seq(S)
           /\ Len(s) \in Nat \ {0} /\ Len(Tail(s)) = Len(s) - 1
           /\ \A i \in 1 .. Len(s) - 1 : Tail(s)[i] = s[i + 1]
           /\ Len(s) = 1 => Tail(s) = <<>>
<1>1. Len(s) \in Nat \ {0} /\ Len(Tail(s)) = Len(s) - 1
  BY EmptySeq, HeadTailProperties
<1>2. Head(s) \in S /\ Head(s) = s[1] /\ Tail(s) \in Seq(S)
  BY <1>1, HeadTailProperties
<1>3. \A i \in 1 .. Len(s) - 1 : Tail(s)[i] = s[i + 1]
  BY <1>1
<1>4. ASSUME Len(s) = 1 PROVE Tail(s) = <<>>
  <2>1. Len(Tail(s)) = 0 /\ Tail(s) \in Seq(S)
    BY <1>1, <1>2, <1>4
  <2>2. Tail(s) # <<>> => Len(Tail(s)) \in Nat \ {0}
    BY <2>1, EmptySeq
  <2> QED  BY <2>1, <2>2
<1> QED  BY <1>1, <1>2, <1>3, <1>4

\* What the ghosts become has the right type, whatever the step.
LEMMA ObserveTypes ==
    ASSUME TypeOK, Observe
    PROVE  /\ concluded' \in SUBSET Jobs /\ offBooks' \in SUBSET Jobs /\ flooded' \in BOOLEAN
<1>1. concluded' \in SUBSET Jobs /\ offBooks' \in SUBSET Jobs
  BY DEF Observe, JobsOf
<1>2. flooded' \in BOOLEAN
  <2>1. CASE batch["validator"] = {} /\ batch'["validator"] # {}
    BY <2>1 DEF Observe
  <2>2. CASE ~(batch["validator"] = {} /\ batch'["validator"] # {})
    <3>1. flooded' = flooded
      BY <2>2, Zenon DEF Observe
    <3> QED  BY <3>1, Zenon DEF TypeOK
  <2> QED  BY <2>1, <2>2
<1> QED  BY <1>1, <1>2

\* A step that lists no job anew and keeps the messages: the ghosts follow.
LEMMA BookedShrinks ==
    ASSUME QueryInv, Observe, TypeOK',
           batch'["validator"] \subseteq batch["validator"],
           Listed("validator")' \subseteq Listed("validator")
    PROVE  RoomForBooked'
<1>1. Booked' \subseteq Booked
  BY DEF Booked, Observe, RunningOf, JobsOf, KindOf, TypeOK
<1>2. flooded' = flooded
  BY Zenon DEF Observe
<1>3. IsFiniteSet(Booked)
  <2>1. Booked \subseteq Jobs
    BY DEF Booked, RunningOf, JobsOf, Listed, QueryInv, TypeOK, Kinds
  <2> QED  BY <2>1, JobsAssumption, FS_Subset
<1>4. Cardinality(Booked') <= Cardinality(Booked)
  BY <1>1, <1>3, FS_Subset
<1> QED  BY <1>1, <1>2, <1>3, <1>4, FS_Subset, FS_CardinalityType, JobsAssumption
         DEF RoomForBooked, QueryInv

\* The rows may change, and no job gets reports or messages.
ConcludedFollow == \A j \in concluded' :
    \/ j \in concluded /\ status'[j] \in Verdict
    \/ /\ reports[j] # <<>> /\ reports'[j] = Tail(reports[j])
       /\ Head(reports[j]) \in Verdict /\ status'[j] \in Verdict

LEMMA ConcludedComeFrom ==
    ASSUME Observe
    PROVE  ConcludedFollow
BY DEF Observe, ConcludedFollow

\* A step that no worker or consumer takes.
LEMMA OuterStep ==
    ASSUME QueryInv, Observe, TypeOK', UNCHANGED workerVars
    PROVE  NothingFollows' /\ VerdictIsLast'
<1> USE DEF workerVars
<1>1. VerdictIsLast'
  BY DEF QueryInv, VerdictIsLast
<1>2. NothingFollows'
  <2> SUFFICES ASSUME NEW j \in concluded'
               PROVE  j \in concluded /\ status'[j] \in Verdict
    BY DEF QueryInv, NothingFollows
  <2>1. \/ j \in concluded /\ status'[j] \in Verdict
        \/ reports[j] # <<>> /\ reports[j] = Tail(reports[j])
    BY ConcludedComeFrom DEF ConcludedFollow
  <2>2. j \in Jobs
    BY DEF TypeOK
  <2>3. reports[j] # <<>> => reports[j] # Tail(reports[j])
    <3>1. reports[j] \in Seq(Reported)
      BY <2>2 DEF QueryInv, TypeOK, Reported
    <3> HIDE DEF Reported
    <3>2. reports[j] # <<>> => Len(Tail(reports[j])) # Len(reports[j])
      BY <3>1, OneReportLess
    <3> QED  BY <3>2
  <2> QED  BY <2>1, <2>3
<1> QED  BY <1>1, <1>2

\* A step of the tables only.
LEMMA RowStep ==
    ASSUME QueryInv, Observe, status' \in [Jobs -> JobStatus], seqKnown' \in SUBSET Jobs,
           UNCHANGED <<publisherVars, streamVars, workerVars, cancelVars>>
    PROVE  QueryInv'
<1> USE DEF publisherVars, streamVars, workerVars, cancelVars
<1>1. TypeOK'
  BY ObserveTypes DEF QueryInv, TypeOK
<1>2. KeptApart' /\ OneMessage'
  BY DEF QueryInv, KeptApart, OneMessage
<1>3. RoomForBooked'
  BY <1>1, BookedShrinks DEF Listed
<1> QED  BY <1>1, <1>2, <1>3, OuterStep DEF QueryInv

LEMMA BeginRoundKeeps ==
    ASSUME QueryInv, Observe, NEW k \in Kinds, BeginRound(k)
    PROVE  QueryInv'
<1> USE DEF rowVars, publisherVars, streamVars, workerVars, cancelVars
<1>1. PICK L \in SUBSET CreatedOf(k) :
          /\ L # {}
          /\ IF k = "runner" THEN L = CreatedOf(k)
             ELSE WithinLimit(L, Cardinality(RunningOf(k)))
          /\ batch' = [batch EXCEPT ![k] = L]
  BY DEF BeginRound
<1>2. TypeOK' /\ KeptApart' /\ OneMessage'
  <2>1. L \subseteq JobsOf(k) /\ L \subseteq Jobs
    BY <1>1 DEF CreatedOf, JobsOf
  <2> QED  BY <1>1, <2>1, ObserveTypes
           DEF BeginRound, QueryInv, TypeOK, KeptApart, OneMessage
<1>3. CASE k = "runner"
  <2>1. batch'["validator"] = batch["validator"] /\ sending' = sending
    BY <1>1, <1>3 DEF BeginRound, QueryInv, TypeOK, Kinds
  <2>2. RoomForBooked'
    BY <1>2, <2>1, BookedShrinks DEF Listed
  <2> QED  BY <1>2, <2>2, OuterStep DEF BeginRound, QueryInv
<1>4. CASE k = "validator"
  <2>1. /\ batch["validator"] = {} /\ batch'["validator"] = L /\ sending'["validator"] = None
        /\ status' = status
    BY <1>1, <1>4 DEF BeginRound, QueryInv, TypeOK, Kinds
  <2>2. flooded' = (Cardinality(RunningOf("validator")) > Cap)
    BY <1>1, <2>1, Zenon DEF Observe
  <2>3. ASSUME ~flooded' PROVE Cardinality(Booked') <= Cap
    <3> DEFINE R == RunningOf("validator")
    <3>1. IsFiniteSet(R) /\ IsFiniteSet(L)
      <4>1. R \subseteq Jobs /\ L \subseteq Jobs
        BY <1>1 DEF RunningOf, CreatedOf, JobsOf
      <4> QED  BY <4>1, JobsAssumption, FS_Subset
    <3>2. ~(Cardinality(R) > Cap)
      BY <2>2, <2>3
    <3>3. Cardinality(L) <= Cap - Cardinality(R)
      BY <3>2, <1>1, <1>4 DEF WithinLimit
    <3>4. Booked' \subseteq R \cup L
      BY <2>1 DEF Booked, Listed, RunningOf, JobsOf
    <3>5. R \cap L = {}
      BY <1>1 DEF RunningOf, CreatedOf, Running
    <3>6. Cardinality(R \cup L) = Cardinality(R) + Cardinality(L) /\ IsFiniteSet(R \cup L)
      <4>1. Cardinality(R \cap L) = 0
        BY <3>5, FS_EmptySet
      <4>2. Cardinality(R) \in Nat /\ Cardinality(L) \in Nat
        BY <3>1, FS_CardinalityType
      <4>3. /\ IsFiniteSet(R \cup L)
            /\ Cardinality(R \cup L) = Cardinality(R) + Cardinality(L) - Cardinality(R \cap L)
        BY <3>1, FS_Union
      <4> HIDE DEF R
      <4> QED  BY <4>1, <4>2, <4>3
    <3>7. Cardinality(Booked') <= Cardinality(R \cup L) /\ Cardinality(Booked') \in Nat
      BY <3>4, <3>6, FS_Subset, FS_CardinalityType
    <3> HIDE DEF R
    <3> QED  BY <3>1, <3>3, <3>6, <3>7, FS_CardinalityType, JobsAssumption
  <2> QED  BY <1>2, <2>3, OuterStep DEF BeginRound, QueryInv, RoomForBooked
<1> QED  BY <1>3, <1>4 DEF Kinds

\* The steps of a round, and the restart.
LEMMA RoundKeeps ==
    ASSUME QueryInv, Observe, NEW k \in Kinds, NEW j,
           (j \in Jobs /\ Publish(k, j)) \/ WriteQueued(k) \/ Restart
    PROVE  QueryInv'
<1> USE DEF rowVars, publisherVars, streamVars, workerVars, cancelVars
<1> USE DEF Publish, Produce, FailJob, FailRound, AbortRound, WriteQueued, Restart,
            NextIs, NextJob, EndRound
<1>0. \A n \in Jobs, s \in JobStatus : [status EXCEPT ![n] = s] \in [Jobs -> JobStatus]
  BY DEF QueryInv, TypeOK
<1>1. status' \in [Jobs -> JobStatus] /\ seqKnown' \in SUBSET Jobs
  <2>1. "QUEUED" \in JobStatus /\ "FAILED" \in JobStatus
    BY DEF JobStatus, Verdict, Live, Running
  <2>2. status \in [Jobs -> JobStatus] /\ sending \in [Kinds -> Jobs \cup {None}]
        /\ seqKnown \in SUBSET Jobs
    BY DEF QueryInv, TypeOK
  <2>3. CASE j \in Jobs /\ Publish(k, j)
    BY <1>0, <2>1, <2>2, <2>3 DEF TryWrite, Write
  <2>4. CASE WriteQueued(k)
    BY <1>0, <2>1, <2>2, <2>4 DEF TryWrite, Write
  <2> QED  BY <2>2, <2>3, <2>4
<1>2. /\ batch' \in [Kinds -> SUBSET Jobs] /\ sending' \in [Kinds -> Jobs \cup {None}]
      /\ KeptApart'
      /\ batch'["validator"] \subseteq batch["validator"]
      /\ Listed("validator")' \subseteq Listed("validator")
  BY DEF QueryInv, TypeOK, KeptApart, Kinds, Listed
<1>3. stored' \in SUBSET Jobs /\ queue' \in SUBSET Jobs /\ OneMessage'
  BY DEF QueryInv, TypeOK, OneMessage
<1>4. /\ cancelJob' \in Jobs \cup {None} /\ cancelSaw' \in {"NONE", "CREATED", "QUEUED"}
      /\ UNCHANGED workerVars /\ withdrawn' = withdrawn
  BY DEF QueryInv, TypeOK
<1>5. TypeOK'
  BY <1>1, <1>2, <1>3, <1>4, ObserveTypes DEF QueryInv, TypeOK
<1> QED  BY <1>2, <1>3, <1>4, <1>5, BookedShrinks, OuterStep DEF QueryInv

LEMMA CancelKeeps ==
    ASSUME QueryInv, Observe, Canceler
    PROVE  QueryInv'
<1> USE DEF rowVars, publisherVars, streamVars, workerVars, cancelVars
<1> USE DEF Canceler, CancelRead, CancelWrite, CancelFails
<1>1. status' \in [Jobs -> JobStatus]
  <2>1. "CANCELED" \in JobStatus
    BY DEF JobStatus
  <2> QED  BY <2>1 DEF Write, QueryInv, TypeOK
<1>2. /\ cancelJob' \in Jobs \cup {None} /\ cancelSaw' \in {"NONE", "CREATED", "QUEUED"}
      /\ withdrawn' \in SUBSET Jobs /\ queue' \in SUBSET Jobs
      /\ UNCHANGED <<seqKnown, publisherVars, stored, workerVars>>
  BY DEF QueryInv, TypeOK
<1>3. TypeOK'
  BY <1>1, <1>2, ObserveTypes DEF QueryInv, TypeOK
<1>4. KeptApart'
  BY <1>2 DEF QueryInv, TypeOK, KeptApart
<1>5. OneMessage'
  BY <1>2 DEF QueryInv, TypeOK, OneMessage
<1>6. RoomForBooked'
  BY <1>2, <1>3, BookedShrinks DEF Listed
<1> QED  BY <1>2, <1>3, <1>4, <1>5, <1>6, OuterStep DEF QueryInv

\* What a worker or a consumer keeps in any case.
LEMMA InnerKeeps ==
    ASSUME QueryInv, Observe, TypeOK', UNCHANGED <<publisherVars, cancelVars>>
    PROVE  KeptApart' /\ RoomForBooked'
<1>1. KeptApart'
  BY DEF QueryInv, KeptApart, publisherVars, cancelVars
<1> QED  BY <1>1, BookedShrinks DEF publisherVars, Listed

LEMMA ReportTypes ==
    ASSUME TypeOK, NEW j \in Jobs, NEW s \in Reported, Report(j, s)
    PROVE  /\ reports' \in [Jobs -> Seq(Reported)]
           /\ \A i \in Jobs \ {j} : reports'[i] = reports[i]
           /\ \/ reports' = reports
              \/ /\ reports'[j] # <<>> /\ Len(reports'[j]) = Len(reports[j]) + 1
                 /\ \A i \in 1 .. Len(reports[j]) + 1 :
                       reports'[j][i] = IF i = Len(reports[j]) + 1 THEN s ELSE reports[j][i]
<1>1. reports \in [Jobs -> Seq(Reported)]
  BY DEF TypeOK, Reported
<1> DEFINE more == Append(reports[j], s)
<1>2. /\ more \in Seq(Reported) /\ more # <<>>
      /\ Len(more) = Len(reports[j]) + 1
      /\ \A i \in 1 .. Len(reports[j]) + 1 :
            more[i] = IF i = Len(reports[j]) + 1 THEN s ELSE reports[j][i]
  BY <1>1, OneReportMore
<1>3. reports' = [reports EXCEPT ![j] = more] \/ reports' = reports
  BY DEF Report
<1> HIDE DEF more
<1>4. CASE reports' = reports
  BY <1>1, <1>4
<1>5. CASE reports' = [reports EXCEPT ![j] = more]
  <2>1. reports' \in [Jobs -> Seq(Reported)] /\ \A i \in Jobs \ {j} : reports'[i] = reports[i]
    BY <1>1, <1>2, <1>5
  <2>2. reports'[j] = more
    BY <1>1, <1>5
  <2> QED  BY <1>2, <2>1, <2>2
<1> QED  BY <1>3, <1>4, <1>5

LEMMA WorkerKeeps ==
    ASSUME QueryInv, Observe, NEW j \in Jobs, Worker(j)
    PROVE  QueryInv'
<1> USE DEF rowVars, publisherVars, streamVars, workerVars, cancelVars
<1>0. \A i \in Jobs : reports[i] \in Seq(Reported) /\ Len(reports[i]) \in Nat
  BY LenProperties DEF QueryInv, TypeOK, Reported
<1>1. PICK s \in Reported : Report(j, s) \/ UNCHANGED reports
  BY DEF Worker, TakeJob, FinishJob, WorkerDies, Reported
<1>2. /\ reports' \in [Jobs -> Seq(Reported)]
      /\ \A i \in Jobs \ {j} : reports'[i] = reports[i]
      /\ \/ reports' = reports
         \/ reports'[j] # <<>> /\ Len(reports'[j]) = Len(reports[j]) + 1
  BY <1>1, <1>0, ReportTypes DEF QueryInv, TypeOK, Reported
<1>3. UNCHANGED <<rowVars, publisherVars, stored, cancelVars>>
  BY DEF Worker, TakeJob, FinishJob, WorkerDies
<1>4. TypeOK'
  BY <1>2, <1>3, ObserveTypes
     DEF Worker, TakeJob, FinishJob, WorkerDies, QueryInv, TypeOK, Reported
<1>5. OneMessage'
  <2>1. CASE TakeJob(j)
    <3>1. runs[j] = 0 /\ j \notin withdrawn /\ j \in stored
      BY <2>1 DEF TakeJob, QueryInv, OneMessage
    <3>2. runs'[j] = 1 /\ \A i \in Jobs \ {j} : runs'[i] = runs[i]
      BY <2>1, <3>1 DEF TakeJob, QueryInv, TypeOK
    <3> QED  BY <2>1, <3>1, <3>2, <1>2, <1>3 DEF TakeJob, QueryInv, OneMessage
  <2>2. CASE FinishJob(j) \/ WorkerDies(j)
    <3>1. runs[j] # 0 /\ UNCHANGED <<queue, runs, withdrawn, stored>> /\ working' \subseteq working
      BY <2>2, <1>3 DEF FinishJob, WorkerDies, QueryInv, OneMessage
    <3> QED  BY <3>1, <1>2 DEF QueryInv, OneMessage
  <2> QED  BY <2>1, <2>2 DEF Worker
<1>6. VerdictIsLast'
  <2>1. CASE TakeJob(j)
    <3>1. reports[j] = <<>> /\ j \notin working
      BY <2>1 DEF TakeJob, QueryInv, OneMessage
    <3>2. \A i \in 1 .. Len(reports'[j]) : reports'[j][i] \notin Verdict
      BY <2>1, <3>1, <1>0, ReportTypes DEF TakeJob, Report, Verdict, Reported, QueryInv
    <3> QED  BY <2>1, <3>2, <1>2, <1>3 DEF TakeJob, QueryInv, VerdictIsLast
  <2>2. CASE FinishJob(j)
    <3>1. PICK v \in Verdict : Report(j, v)
      BY <2>2 DEF FinishJob
    <3>2. \A i \in 1 .. Len(reports[j]) : reports[j][i] \notin Verdict
      BY <2>2 DEF FinishJob, QueryInv, VerdictIsLast
    <3>3. \/ reports' = reports
          \/ /\ Len(reports'[j]) = Len(reports[j]) + 1
             /\ \A i \in 1 .. Len(reports[j]) + 1 :
                   reports'[j][i] = IF i = Len(reports[j]) + 1 THEN v ELSE reports[j][i]
      <4>1. v \in Reported
        BY DEF Reported
      <4> QED  BY <3>1, <4>1, ReportTypes DEF QueryInv
    <3>4. \A i \in 1 .. Len(reports'[j]) :
             reports'[j][i] \in Verdict => i = Len(reports'[j])
      <4> SUFFICES ASSUME NEW i \in 1 .. Len(reports'[j]), i # Len(reports'[j])
                   PROVE  reports'[j][i] \notin Verdict
        OBVIOUS
      <4>1. CASE reports' = reports
        BY <4>1, <3>2
      <4>2. CASE reports' # reports
        <5>1. i \in 1 .. Len(reports[j]) /\ reports'[j][i] = reports[j][i]
          BY <4>2, <3>3, <1>0
        <5> QED  BY <5>1, <3>2
      <4> QED  BY <4>1, <4>2
    <3> QED  BY <2>2, <3>4, <1>2, <1>3 DEF FinishJob, QueryInv, VerdictIsLast
  <2>3. CASE WorkerDies(j)
    BY <2>3 DEF WorkerDies, QueryInv, VerdictIsLast
  <2> QED  BY <2>1, <2>2, <2>3 DEF Worker
<1>7. NothingFollows'
  <2> SUFFICES ASSUME NEW i \in concluded'
               PROVE  /\ status'[i] \in Verdict /\ reports'[i] = <<>>
                      /\ i \notin working' /\ runs'[i] = 1
    BY DEF NothingFollows
  <2>1. i \in Jobs
    BY <1>4 DEF TypeOK
  <2>2. ~(reports[i] # <<>> /\ reports'[i] = Tail(reports[i]))
    <3>1. reports[i] # <<>> => Len(Tail(reports[i])) = Len(reports[i]) - 1
      BY <2>1, <1>0, OneReportLess
    <3> QED  BY <3>1, <2>1, <1>0, <1>2
  <2>3. i \in concluded /\ status'[i] \in Verdict
    BY <2>2, ConcludedComeFrom DEF ConcludedFollow
  <2>4. i # j
    BY <2>3 DEF Worker, TakeJob, FinishJob, WorkerDies, QueryInv, OneMessage, NothingFollows
  <2>5. runs'[i] = runs[i] /\ reports'[i] = reports[i] /\ i \notin working'
    BY <2>1, <2>3, <2>4, <1>2
       DEF Worker, TakeJob, FinishJob, WorkerDies, QueryInv, TypeOK, NothingFollows
  <2> QED  BY <2>3, <2>5 DEF QueryInv, NothingFollows
<1> QED  BY <1>3, <1>4, <1>5, <1>6, <1>7, InnerKeeps DEF QueryInv

LEMMA ConsumeKeeps ==
    ASSUME QueryInv, Observe, NEW j \in Jobs, ConsumeReport(j)
    PROVE  QueryInv'
<1> USE DEF rowVars, publisherVars, streamVars, workerVars, cancelVars
<1> DEFINE q == reports[j]
<1>0. q \in Seq(Reported) /\ q # <<>> /\ reports \in [Jobs -> Seq(Reported)]
  BY DEF ConsumeReport, QueryInv, TypeOK, Reported
<1>1. /\ Head(q) \in Reported /\ Head(q) = q[1] /\ Tail(q) \in Seq(Reported)
      /\ Len(q) \in Nat \ {0} /\ Len(Tail(q)) = Len(q) - 1
      /\ \A i \in 1 .. Len(q) - 1 : Tail(q)[i] = q[i + 1]
      /\ Len(q) = 1 => Tail(q) = <<>>
  <2> HIDE DEF q
  <2> QED  BY <1>0, OneReportLess
<1>2. reports'[j] = Tail(q) /\ \A i \in Jobs \ {j} : reports'[i] = reports[i]
  BY <1>0 DEF ConsumeReport
<1>3. /\ reports' \in [Jobs -> Seq(Reported)]
      /\ UNCHANGED <<seqKnown, publisherVars, streamVars, working, runs, cancelVars>>
  BY <1>0, <1>1 DEF ConsumeReport
<1>4. status' \in [Jobs -> JobStatus]
  <2>1. Head(q) \in JobStatus
    BY <1>1 DEF Reported, JobStatus, Live, Running
  <2> QED  BY <2>1 DEF ConsumeReport, TryWrite, Write, QueryInv, TypeOK
<1>5. TypeOK'
  BY <1>3, <1>4, ObserveTypes DEF QueryInv, TypeOK, Reported
<1>6. OneMessage'
  BY <1>0, <1>2, <1>3 DEF QueryInv, OneMessage
<1>7. VerdictIsLast'
  <2> SUFFICES ASSUME NEW i \in 1 .. Len(Tail(q)), Tail(q)[i] \in Verdict
               PROVE  i = Len(Tail(q)) /\ j \notin working
    BY <1>2, <1>3 DEF QueryInv, VerdictIsLast
  <2>1. i + 1 \in 1 .. Len(q) /\ q[i + 1] \in Verdict
    BY <1>1
  <2>2. i + 1 = Len(q) /\ j \notin working
    BY <2>1 DEF QueryInv, VerdictIsLast
  <2> QED  BY <2>2, <1>1
<1>8. NothingFollows'
  <2> SUFFICES ASSUME NEW i \in concluded'
               PROVE  /\ status'[i] \in Verdict /\ reports'[i] = <<>>
                      /\ i \notin working /\ runs[i] = 1
    BY <1>3 DEF NothingFollows
  <2>1. i \in Jobs
    BY <1>5 DEF TypeOK
  <2>2. CASE i # j
    <3>1. reports[i] # <<>> => reports'[i] # Tail(reports[i])
      <4>1. reports[i] # <<>> => Len(Tail(reports[i])) # Len(reports[i])
        BY <2>1, <1>0, OneReportLess
      <4> QED  BY <4>1, <2>1, <2>2, <1>2
    <3>2. i \in concluded /\ status'[i] \in Verdict
      BY <3>1, ConcludedComeFrom DEF ConcludedFollow
    <3> QED  BY <3>2, <2>1, <2>2, <1>2 DEF QueryInv, NothingFollows
  <2>3. CASE i = j
    <3>1. q[1] \in Verdict /\ status'[j] \in Verdict
      BY <2>3, <1>0, <1>1, ConcludedComeFrom DEF ConcludedFollow, QueryInv, NothingFollows
    <3>2. Len(q) = 1 /\ j \notin working
      <4>1. 1 \in 1 .. Len(reports[j]) /\ reports[j][1] \in Verdict
        BY <3>1, <1>1
      <4> QED  BY <4>1 DEF QueryInv, VerdictIsLast
    <3>3. runs[j] = 1
      BY <1>0 DEF QueryInv, TypeOK, OneMessage
    <3> QED  BY <2>3, <3>1, <3>2, <3>3, <1>1, <1>2
  <2> QED  BY <2>2, <2>3
<1> QED  BY <1>3, <1>5, <1>6, <1>7, <1>8, InnerKeeps DEF QueryInv

LEMMA QueryInvStep == QueryInv /\ [Next]_vars => QueryInv'
<1> SUFFICES ASSUME QueryInv, [Next]_vars PROVE QueryInv'
  OBVIOUS
<1>1. ASSUME NEW j \in Jobs, CreateJob(j) \/ SweepJob(j), Observe PROVE QueryInv'
  <2>1. "CREATED" \in JobStatus /\ "TIMEOUT" \in JobStatus
    BY DEF JobStatus, Live
  <2>2. status' \in [Jobs -> JobStatus] /\ seqKnown' \in SUBSET Jobs
    BY <1>1, <2>1 DEF CreateJob, SweepJob, Write, QueryInv, TypeOK
  <2> QED  BY <1>1, <2>2, RowStep DEF CreateJob, SweepJob
<1>2. ASSUME NEW k \in Kinds, Publisher(k) \/ Restart, Observe PROVE QueryInv'
  <2>1. CASE \E j \in Jobs : Publish(k, j)
    BY <1>2, <2>1, RoundKeeps
  <2>2. CASE BeginRound(k)
    BY <1>2, <2>2, BeginRoundKeeps
  <2>3. CASE WriteQueued(k) \/ Restart
    BY <1>2, <2>3, RoundKeeps
  <2> QED  BY <1>2, <2>1, <2>2, <2>3 DEF Publisher
<1>3. ASSUME Canceler, Observe PROVE QueryInv'
  BY <1>3, CancelKeeps
<1>4. ASSUME UNCHANGED vars PROVE QueryInv'
  BY <1>4 DEF vars, rowVars, publisherVars, streamVars, workerVars, cancelVars, QueryInv, TypeOK,
     KeptApart, OneMessage, VerdictIsLast, NothingFollows, RoomForBooked, Booked, RunningOf,
     JobsOf, Listed
<1> QED  BY <1>1, <1>2, <1>3, <1>4, WorkerKeeps, ConsumeKeeps DEF Next, Step, Kinds

LEMMA QueryInvariant == Spec => []QueryInv
<1>1. Init => QueryInv
  <2> SUFFICES ASSUME Init PROVE QueryInv
    OBVIOUS
  <2>0. TypeOK
    <3>1. <<>> \in Seq(Reported)
      BY EmptySeq
    <3>2. reports \in [Jobs -> Seq({"IN_PROGRESS"} \cup Verdict)]
      BY <3>1 DEF Init, Reported
    <3> QED  BY <3>2 DEF Init, TypeOK, JobStatus
  <2>1. KeptApart /\ OneMessage
    BY DEF Init, KeptApart, OneMessage
  <2>2. VerdictIsLast /\ NothingFollows
    BY DEF Init, VerdictIsLast, NothingFollows
  <2>3. Booked = {}
    BY DEF Init, Booked, Listed, RunningOf, Running, JobsOf, Kinds
  <2>4. RoomForBooked
    BY <2>3, FS_EmptySet, JobsAssumption DEF RoomForBooked
  <2> QED  BY <2>0, <2>1, <2>2, <2>4 DEF QueryInv
<1> QED  BY <1>1, QueryInvStep, PTL DEF Spec

\* The rows, publishers, streams and workers of query jobs keep their types.
THEOREM TypeCorrect == Spec => []TypeOK
BY QueryInvariant, PTL DEF QueryInv

\* A query runs once at most, and never once its message was deleted by a cancel request.
THEOREM RunOnce == Spec => []RunsOnce
<1>1. QueryInv => RunsOnce
  BY DEF QueryInv, OneMessage, RunsOnce
<1> QED  BY <1>1, QueryInvariant, PTL

\* The limit of running validators holds for listed jobs, for any limit, until a round
\* finds more of them running.
THEOREM CapHolds == Spec => []CapKept
<1>1. QueryInv => CapKept
  <2> SUFFICES ASSUME QueryInv, ~flooded
               PROVE  Cardinality(RunningOf("validator") \ offBooks) <= Cap
    BY DEF CapKept
  <2>1. RunningOf("validator") \ offBooks \subseteq Booked /\ Booked \subseteq Jobs
    BY DEF Booked, RunningOf, JobsOf, Listed, QueryInv, TypeOK, Kinds
  <2>2. IsFiniteSet(Booked)
    BY <2>1, JobsAssumption, FS_Subset
  <2> HIDE DEF Booked
  <2> QED  BY <2>1, <2>2, FS_Subset, FS_CardinalityType, JobsAssumption DEF QueryInv, RoomForBooked
<1> QED  BY <1>1, QueryInvariant, PTL

\* A worker's verdict is only overwritten by the publisher or by an earlier cancel request.
THEOREM VerdictKept == Spec => VerdictStays
<1>1. QueryInv /\ [Next]_vars =>
         [\A j \in concluded : status'[j] # status[j] =>
             j \in Listed(KindOf(j)) \/ cancelJob = j]_vars
  <2> SUFFICES ASSUME QueryInv, Next, NEW j \in concluded, status'[j] # status[j]
               PROVE  j \in Listed(KindOf(j)) \/ cancelJob = j
    OBVIOUS
  <2>1. j \in Jobs /\ status[j] \in Verdict /\ reports[j] = <<>>
    BY DEF QueryInv, TypeOK, NothingFollows
  <2>2. ASSUME NEW k \in Kinds, NEW i \in Jobs, Publish(k, i) PROVE j \in Listed(KindOf(j))
    BY <2>1, <2>2 DEF Publish, Produce, FailJob, FailRound, AbortRound, NextIs, NextJob,
       TryWrite, Write, Listed, QueryInv, TypeOK, KeptApart, JobsOf, rowVars
  <2>3. ASSUME NEW k \in Kinds, WriteQueued(k) PROVE j \in Listed(KindOf(j))
    BY <2>1, <2>3 DEF WriteQueued, TryWrite, Write, Listed, QueryInv, TypeOK, KeptApart, JobsOf
  <2>4. ASSUME Canceler PROVE cancelJob = j
    BY <2>1, <2>4 DEF Canceler, CancelRead, CancelWrite, CancelFails, Write, QueryInv, TypeOK,
       rowVars
  <2>5. ASSUME NEW i \in Jobs, CreateJob(i) \/ SweepJob(i) PROVE FALSE
    BY <2>1, <2>5 DEF CreateJob, SweepJob, Write, Verdict, Running, QueryInv, TypeOK
  <2>6. ASSUME NEW i \in Jobs, Worker(i) \/ ConsumeReport(i) PROVE FALSE
    BY <2>1, <2>6 DEF Worker, TakeJob, FinishJob, WorkerDies, ConsumeReport, TryWrite, Write,
       QueryInv, TypeOK, rowVars
  <2>7. ASSUME Restart \/ \E k \in Kinds : BeginRound(k) PROVE FALSE
    BY <2>7 DEF Restart, BeginRound, rowVars
  <2> QED  BY <2>2, <2>3, <2>4, <2>5, <2>6, <2>7 DEF Next, Step, Publisher
<1> QED  BY <1>1, QueryInvariant, PTL DEF Spec, VerdictStays

\* A validator without message, worker, result or publisher stays among the running ones.
THEOREM StrandedStays == Spec => StrandedForEver
<1>1. QueryInv /\ [Next]_vars => [\A j \in Jobs : Stranded(j) => Stranded(j)']_vars
  <2> SUFFICES ASSUME QueryInv, Next, NEW j \in Jobs, Stranded(j) PROVE Stranded(j)'
    OBVIOUS
  <2> USE DEF Stranded, rowVars, publisherVars, streamVars, workerVars, cancelVars
  <2>0. /\ j \notin batch["validator"] /\ sending["validator"] # j
        /\ j \notin batch["runner"] /\ sending["runner"] # j /\ cancelJob # j
    BY JobsAssumption DEF Listed, QueryInv, KeptApart, Kinds, JobsOf, KindOf
  <2>1. ASSUME NEW k \in Kinds, NEW i \in Jobs, Publish(k, i) PROVE Stranded(j)'
    <3> USE DEF Publish, Produce, FailJob, FailRound, AbortRound, NextIs, NextJob, EndRound
    <3>1. i # j
      BY <2>0, <2>1 DEF Kinds
    <3>2. status'[j] = status[j] /\ UNCHANGED <<working, reports>>
      BY <2>1, <3>1 DEF TryWrite, Write, QueryInv, TypeOK
    <3>3. j \notin queue'
      BY <2>1, <3>1
    <3>4. Listed("validator")' \subseteq Listed("validator") \cup {i}
      BY <2>1 DEF Listed, QueryInv, TypeOK, Kinds
    <3> QED  BY <3>1, <3>2, <3>3, <3>4
  <2>2. ASSUME NEW k \in Kinds, WriteQueued(k) PROVE Stranded(j)'
    BY <2>0, <2>2 DEF WriteQueued, TryWrite, Write, Listed, QueryInv, TypeOK, Kinds
  <2>3. ASSUME Canceler PROVE Stranded(j)'
    BY <2>0, <2>3 DEF Canceler, CancelRead, CancelWrite, CancelFails, Write, QueryInv, TypeOK,
       Listed
  <2>4. ASSUME NEW i \in Jobs, CreateJob(i) \/ SweepJob(i) PROVE Stranded(j)'
    BY <2>4 DEF CreateJob, SweepJob, Write, Running, QueryInv, TypeOK, Listed
  <2>5. ASSUME NEW i \in Jobs, Worker(i) PROVE Stranded(j)'
    BY <2>5 DEF Worker, TakeJob, FinishJob, WorkerDies, Report, QueryInv, TypeOK, Listed
  <2>6. ASSUME NEW i \in Jobs, ConsumeReport(i) PROVE Stranded(j)'
    BY <2>6 DEF ConsumeReport, TryWrite, Write, QueryInv, TypeOK, Listed
  <2>7. ASSUME NEW k \in Kinds, BeginRound(k) PROVE Stranded(j)'
    BY <2>0, <2>7 DEF BeginRound, CreatedOf, Running, QueryInv, TypeOK, Listed, Kinds
  <2>8. ASSUME Restart PROVE Stranded(j)'
    BY <2>8, JobsAssumption DEF Restart, Listed, Kinds
  <2> QED  BY <2>1, <2>2, <2>3, <2>4, <2>5, <2>6, <2>7, <2>8 DEF Next, Step, Publisher
<1> QED  BY <1>1, QueryInvariant, PTL DEF Spec, StrandedForEver

---------------------------------------------------------------------------
(* The safety half of RunnersEnd: what is over and in nobody's hands stays. *)

\* The row has one of the last statuses, no message, run or result of it is outstanding, and
\* neither a publisher nor the cancel handler holds it.
AtRest(j) ==
    /\ status[j] \in Verdict \cup {"TIMEOUT", "CANCELED"}
    /\ j \notin queue \cup working /\ reports[j] = <<>>
    /\ j \notin Listed(KindOf(j)) /\ cancelJob # j

\* No round of either publisher, repetition of a message, late result, sweep, request or restart
\* comes back to such a row, although none of the writes but the sweep's looks at the status.
RestIsFinal ==
    [][\A j \in Jobs : AtRest(j) => AtRest(j)' /\ status'[j] = status[j]]_vars

\* schedulers/query-runner and query-validator, publishers and consumers, and the cancel handler:
\* what a reader of the row sees then is what any later reader sees.
THEOREM RestStays == Spec => RestIsFinal
<1>1. QueryInv /\ [Next]_vars =>
         [\A j \in Jobs : AtRest(j) => AtRest(j)' /\ status'[j] = status[j]]_vars
  <2> SUFFICES ASSUME QueryInv, Next, NEW j \in Jobs, AtRest(j)
               PROVE  AtRest(j)' /\ status'[j] = status[j]
    OBVIOUS
  <2> DEFINE Held == AtRest(j)' /\ status'[j] = status[j]
  <2> USE DEF AtRest, rowVars, publisherVars, streamVars, workerVars, cancelVars
  <2>0. \A k \in Kinds : j \notin batch[k] /\ sending[k] # j
    BY JobsAssumption DEF Listed, QueryInv, KeptApart, Kinds, JobsOf, KindOf
  <2>k. KindOf(j) \in Kinds
    BY DEF KindOf, Kinds
  <2>1. ASSUME NEW k \in Kinds, NEW i \in Jobs, Publish(k, i) PROVE Held
    <3> USE DEF Publish, Produce, FailJob, FailRound, AbortRound, NextIs, NextJob, EndRound
    <3>1. i # j
      BY <2>0, <2>1
    <3>2. status'[j] = status[j] /\ UNCHANGED <<working, reports, cancelJob>>
      BY <2>1, <3>1 DEF TryWrite, Write, QueryInv, TypeOK
    <3>3. j \notin queue'
      BY <2>1, <3>1
    <3>4. Listed(KindOf(j))' \subseteq Listed(KindOf(j)) \cup {i}
      BY <2>1, <2>k DEF Listed, QueryInv, TypeOK, KindOf, Kinds
    <3> QED  BY <3>1, <3>2, <3>3, <3>4
  <2>2. ASSUME NEW k \in Kinds, WriteQueued(k) PROVE Held
    BY <2>0, <2>2, <2>k DEF WriteQueued, TryWrite, Write, Listed, QueryInv, TypeOK
  <2>3. ASSUME Canceler PROVE Held
    BY <2>3, JobsAssumption DEF Canceler, CancelRead, CancelWrite, CancelFails, Write, QueryInv, TypeOK,
       Listed, Verdict
  <2>4. ASSUME NEW i \in Jobs, CreateJob(i) \/ SweepJob(i) PROVE Held
    BY <2>4 DEF CreateJob, SweepJob, Write, Running, Verdict, QueryInv, TypeOK, Listed
  <2>5. ASSUME NEW i \in Jobs, Worker(i) PROVE Held
    BY <2>5 DEF Worker, TakeJob, FinishJob, WorkerDies, Report, QueryInv, TypeOK, Listed
  <2>6. ASSUME NEW i \in Jobs, ConsumeReport(i) PROVE Held
    BY <2>6 DEF ConsumeReport, TryWrite, Write, QueryInv, TypeOK, Listed
  <2>7. ASSUME NEW k \in Kinds, BeginRound(k) PROVE Held
    BY <2>0, <2>7, <2>k DEF BeginRound, CreatedOf, Verdict, QueryInv, TypeOK, Listed
  <2>8. ASSUME Restart PROVE Held
    BY <2>8, <2>k, JobsAssumption DEF Restart, Listed
  <2> QED  BY <2>1, <2>2, <2>3, <2>4, <2>5, <2>6, <2>7, <2>8 DEF Next, Step, Publisher
<1> QED  BY <1>1, QueryInvariant, PTL DEF Spec, RestIsFinal
=============================================================================
