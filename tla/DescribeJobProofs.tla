-------------------------- MODULE DescribeJobProofs --------------------------
(* Proofs about DescribeJob, for any jobs, integrations, requests, rate limit and pages. *)
EXTENDS DescribeJob, FiniteSetTheorems, TLAPS

---------------------------------------------------------------------------
(* Types. *)

LEMMA CreationTypes ==
    ASSUME TypeOK, NEW c \in Callers, Creation(c), Observe PROVE TypeOK'
<1> USE ConstantsAssumption DEF TypeOK, Observe, rowVars, enqVars, resultVars, deleteVars,
    cancelVars, callerVars, JobStatus, Live, Over
<1>1. ASSUME NEW p \in Pairs, CheckLast(c, p) PROVE TypeOK'
  BY <1>1 DEF CheckLast
<1>2. ASSUME NEW j \in Jobs, CreateJob(c, j) PROVE TypeOK'
  BY <1>2 DEF CreateJob, Touch
<1>3. CASE CreateFails(c)
  BY <1>3 DEF CreateFails
<1> QED  BY <1>1, <1>2, <1>3 DEF Creation

LEMMA RetryTypes ==
    ASSUME TypeOK, Retry \/ \E t \in {"scheduled", "manual"} : BeginCycle(t), Observe
    PROVE  TypeOK'
<1> USE ConstantsAssumption DEF TypeOK, Observe, rowVars, enqVars, resultVars, deleteVars,
    cancelVars, callerVars, JobStatus, Live, Over
<1>1. ASSUME NEW R \in SUBSET Jobs, ListFailed(R) PROVE TypeOK'
  BY <1>1 DEF ListFailed
<1>2. ASSUME NEW j \in Jobs, RetryJob(j) PROVE TypeOK'
  BY <1>2 DEF RetryJob, Write
<1>3. CASE RetryFails
  BY <1>3 DEF RetryFails
<1>4. ASSUME NEW t \in {"scheduled", "manual"}, BeginCycle(t) PROVE TypeOK'
  BY <1>4 DEF BeginCycle
<1> QED  BY <1>1, <1>2, <1>3, <1>4 DEF Retry

LEMMA EnqueueTypes ==
    ASSUME TypeOK, NEW j \in Jobs, Enqueue(j), Observe PROVE TypeOK'
<1> USE ConstantsAssumption DEF TypeOK, Observe, rowVars, enqVars, resultVars, deleteVars,
    cancelVars, callerVars, JobStatus, Live, Over, Write
<1>1. CASE EnqueueUnfit(j)  BY <1>1 DEF EnqueueUnfit
<1>2. CASE QueueJob(j)      BY <1>2 DEF QueueJob
<1>3. CASE Produce(j)       BY <1>3 DEF Produce
<1>4. CASE EnqueueFails(j)  BY <1>4 DEF EnqueueFails
<1>5. CASE RecordSeqNum(j)  BY <1>5 DEF RecordSeqNum
<1>6. CASE SentButFailed(j) BY <1>6 DEF SentButFailed
<1> QED  BY <1>1, <1>2, <1>3, <1>4, <1>5, <1>6 DEF Enqueue

LEMMA DescriberTypes ==
    ASSUME TypeOK, NEW j \in Jobs, Describer(j) \/ TimePasses(j) \/ Sweep(j), Observe
    PROVE  TypeOK'
<1> USE ConstantsAssumption DEF TypeOK, Observe, rowVars, enqVars, resultVars, deleteVars,
    cancelVars, callerVars, JobStatus, Live, Over, Touch
<1>1. CASE TakeMessage(j)   BY <1>1 DEF TakeMessage
<1>2. CASE SetInProgress(j) BY <1>2 DEF SetInProgress
<1>3. CASE DescriberDies(j) BY <1>3 DEF DescriberDies
<1>4. ASSUME NEW v \in Verdict, DeliverResult(j, v) PROVE TypeOK'
  BY <1>4 DEF DeliverResult
<1>5. CASE TimePasses(j)    BY <1>5 DEF TimePasses
<1>6. CASE Sweep(j)         BY <1>6 DEF Sweep
<1> QED  BY <1>1, <1>2, <1>3, <1>4, <1>5, <1>6 DEF Describer

LEMMA IngestedType ==
    ASSUME TypeOK, NEW j \in Jobs, NEW P \in SUBSET Obsolete[j]
    PROVE  Ingested(j, P) \in SUBSET (Jobs \X Pages)
BY ConstantsAssumption DEF Ingested, OtherTasks, TypeOK

LEMMA ConsumerTypes ==
    ASSUME TypeOK, Consumer, Observe PROVE TypeOK'
<1> USE ConstantsAssumption DEF Observe, rowVars, enqVars, resultVars, deleteVars,
    cancelVars, callerVars
<1>1. ASSUME NEW j \in Jobs, CleanupFails(j) PROVE TypeOK'
  <2>1. tasks' \in SUBSET (Jobs \X Pages)
    BY <1>1, IngestedType DEF CleanupFails, FoundPages
  <2> QED  BY <1>1, <2>1 DEF CleanupFails, TypeOK
<1>2. ASSUME NEW j \in Jobs, NEW v \in Verdict, ConsumeResult(j, v) PROVE TypeOK'
  <2>1. tasks' \in SUBSET (Jobs \X Pages)
    BY <1>2, IngestedType DEF ConsumeResult, FoundPages, TypeOK
  <2>2. handling' \in Jobs \X Verdict \X (Verdict \cup {"OLD_RESOURCE_DELETION"})
    BY <1>2 DEF ConsumeResult, Verdict
  <2> QED  BY <1>2, <2>1, <2>2 DEF ConsumeResult, TypeOK
<1>3. CASE WriteResult
  <2>1. handling[1] \in Jobs /\ handling[3] \in JobStatus
    BY <1>3 DEF WriteResult, TypeOK, Verdict, JobStatus, Live, Over
  <2> QED  BY <1>3, <2>1 DEF WriteResult, TypeOK, Write
<1>4. CASE WriteResultFails
  BY <1>4 DEF WriteResultFails, TypeOK
<1> QED  BY <1>1, <1>2, <1>3, <1>4 DEF Consumer

LEMMA DeleterTypes ==
    ASSUME TypeOK, Deleter, Observe PROVE TypeOK'
<1> USE ConstantsAssumption DEF TypeOK, Observe, rowVars, enqVars, resultVars, deleteVars,
    cancelVars, callerVars
<1>1. CASE ListTasks  BY <1>1 DEF ListTasks
<1>2. ASSUME NEW j \in Jobs, NEW p \in Pages, DeleteResources(j, p) PROVE TypeOK'
  BY <1>2 DEF DeleteResources
<1>3. ASSUME NEW j \in Jobs, NEW p \in Pages, SkipTask(j, p) PROVE TypeOK'
  BY <1>3 DEF SkipTask
<1>4. CASE MarkDeleted
  <2>1. deleting[1] \in Jobs /\ deleting[2] \in Pages /\ "SUCCEEDED" \in JobStatus
    BY <1>4 DEF MarkDeleted, JobStatus, Over
  <2> QED  BY <1>4, <2>1 DEF MarkDeleted, Write
<1>5. CASE MarkFails  BY <1>5 DEF MarkFails
<1>6. CASE RemoveTask BY <1>6 DEF RemoveTask, OtherTasks
<1>7. CASE RoundFails BY <1>7 DEF RoundFails
<1> QED  BY <1>1, <1>2, <1>3, <1>4, <1>5, <1>6, <1>7 DEF Deleter

LEMMA CancelerTypes ==
    ASSUME TypeOK, Canceler \/ Restart, Observe PROVE TypeOK'
<1> USE ConstantsAssumption DEF TypeOK, Observe, rowVars, enqVars, resultVars, deleteVars,
    cancelVars, callerVars
<1>1. ASSUME NEW j \in Jobs, CancelRead(j) PROVE TypeOK'
  BY <1>1 DEF CancelRead
<1>2. CASE CancelWrite BY <1>2 DEF CancelWrite, Write, JobStatus, Over
<1>3. CASE CancelFails BY <1>3 DEF CancelFails
<1>4. CASE Restart     BY <1>4 DEF Restart
<1> QED  BY <1>1, <1>2, <1>3, <1>4 DEF Canceler

\* The variables keep their types.
THEOREM TypeCorrect == Spec => []TypeOK
<1>1. Init => TypeOK
  BY ConstantsAssumption DEF Init, TypeOK, JobStatus
<1>2. TypeOK /\ [Next]_vars => TypeOK'
  <2> SUFFICES ASSUME TypeOK, [Next]_vars PROVE TypeOK'
    OBVIOUS
  <2>1. CASE Next
    BY <2>1, CreationTypes, RetryTypes, EnqueueTypes, DescriberTypes, ConsumerTypes,
       DeleterTypes, CancelerTypes DEF Next, Step
  <2>2. CASE UNCHANGED vars
    BY <2>2 DEF vars, TypeOK, rowVars, enqVars, resultVars, deleteVars, cancelVars, callerVars
  <2> QED  BY <2>1, <2>2
<1> QED  BY <1>1, <1>2, PTL DEF Spec

---------------------------------------------------------------------------
(* SUCCEEDED is true. *)

\* What waits to become SUCCEEDED was delivered as such, and its resources are deleted:
\* results, the result in hand, tasks, and the task that was carried out.
VerdictsTrue ==
    /\ \A r \in results : r[2] = "SUCCEEDED" => r[1] \in delivered
    /\ handling # None /\ handling[3] = "SUCCEEDED" =>
          /\ handling[1] \in delivered
          /\ Obsolete[handling[1]] \subseteq deleted[PairOf[handling[1]]]
    /\ \A t \in tasks \cup listed : t[1] \in delivered /\ t[2] \in Obsolete[t[1]]
    /\ deleting # None =>
          /\ deleting[1] \in delivered
          /\ deleting[2] \in Obsolete[deleting[1]]
          /\ deleting[2] \in deleted[PairOf[deleting[1]]]

\* What the status column promises.
CleanedUp(j) ==
    /\ j \in delivered
    /\ IF Cardinality(Obsolete[j]) > 1
       THEN deleted[PairOf[j]] # {}
       ELSE Obsolete[j] \subseteq deleted[PairOf[j]]

NewlySucceeded(j) == status[j] # "SUCCEEDED" /\ status'[j] = "SUCCEEDED"

\* Deleting everything, or one page, is enough.
LEMMA AllIsClean ==
    ASSUME TypeOK, NEW j \in Jobs, j \in delivered, Obsolete[j] \subseteq deleted[PairOf[j]]
    PROVE  CleanedUp(j)
<1>1. CASE Obsolete[j] = {}
  BY <1>1, FS_EmptySet DEF CleanedUp
<1>2. CASE Obsolete[j] # {}
  BY <1>2 DEF CleanedUp
<1> QED  BY <1>1, <1>2

LEMMA OnePageIsClean ==
    ASSUME TypeOK, NEW j \in Jobs, NEW p \in Obsolete[j], j \in delivered,
           p \in deleted[PairOf[j]]
    PROVE  CleanedUp(j)
<1>1. IsFiniteSet(Obsolete[j])
  BY ConstantsAssumption, FS_Subset
<1>2. CASE Cardinality(Obsolete[j]) > 1
  BY <1>2 DEF CleanedUp
<1>3. CASE ~(Cardinality(Obsolete[j]) > 1)
  <2>1. Cardinality({p}) = 1 /\ {p} \subseteq Obsolete[j]
    BY FS_Singleton
  <2>2. Cardinality(Obsolete[j]) \in Nat
    BY <1>1, FS_CardinalityType
  <2>3. Obsolete[j] = {p}
    BY <1>1, <1>3, <2>1, <2>2, FS_Subset
  <2> QED  BY <1>3, <2>3 DEF CleanedUp
<1> QED  BY <1>2, <1>3

LEMMA OthersKeepTrue ==
    ASSUME TypeOK, VerdictsTrue,
           \/ \E c \in Callers : Creation(c)
           \/ Retry
           \/ \E t \in {"scheduled", "manual"} : BeginCycle(t)
           \/ \E j \in Jobs : Enqueue(j) \/ TimePasses(j) \/ Sweep(j)
           \/ Canceler \/ Restart
    PROVE  VerdictsTrue' /\ \A j \in Jobs : ~NewlySucceeded(j)
<1> USE DEF VerdictsTrue, NewlySucceeded, TypeOK, Touch, Write, rowVars, resultVars, deleteVars
<1>1. ASSUME NEW c \in Callers, Creation(c)
      PROVE  VerdictsTrue' /\ \A j \in Jobs : ~NewlySucceeded(j)
  BY <1>1 DEF Creation, CheckLast, CreateJob, CreateFails
<1>2. CASE Retry
  BY <1>2 DEF Retry, ListFailed, RetryJob, RetryFails
<1>3. ASSUME NEW t \in {"scheduled", "manual"}, BeginCycle(t)
      PROVE  VerdictsTrue' /\ \A j \in Jobs : ~NewlySucceeded(j)
  BY <1>3 DEF BeginCycle
<1>4. ASSUME NEW i \in Jobs, Enqueue(i)
      PROVE  VerdictsTrue' /\ \A j \in Jobs : ~NewlySucceeded(j)
  BY <1>4 DEF Enqueue, EnqueueUnfit, QueueJob, Produce, EnqueueFails, RecordSeqNum,
     SentButFailed
<1>5. ASSUME NEW i \in Jobs, TimePasses(i) \/ Sweep(i)
      PROVE  VerdictsTrue' /\ \A j \in Jobs : ~NewlySucceeded(j)
  BY <1>5 DEF TimePasses, Sweep
<1>6. CASE Canceler
  BY <1>6 DEF Canceler, CancelRead, CancelWrite, CancelFails
<1>7. CASE Restart
  BY <1>7 DEF Restart
<1> QED  BY <1>1, <1>2, <1>3, <1>4, <1>5, <1>6, <1>7

LEMMA DescriberKeepsTrue ==
    ASSUME TypeOK, VerdictsTrue, NEW i \in Jobs, Describer(i)
    PROVE  VerdictsTrue' /\ \A j \in Jobs : ~NewlySucceeded(j)
<1> USE DEF VerdictsTrue, NewlySucceeded, TypeOK, Touch, rowVars, deleteVars
<1>1. CASE TakeMessage(i)   BY <1>1 DEF TakeMessage
<1>2. CASE SetInProgress(i) BY <1>2 DEF SetInProgress, resultVars
<1>3. CASE DescriberDies(i) BY <1>3 DEF DescriberDies
<1>4. ASSUME NEW v \in Verdict, DeliverResult(i, v)
      PROVE  VerdictsTrue' /\ \A j \in Jobs : ~NewlySucceeded(j)
  BY <1>4 DEF DeliverResult
<1> QED  BY <1>1, <1>2, <1>3, <1>4 DEF Describer

LEMMA ConsumerKeepsTrue ==
    ASSUME TypeOK, VerdictsTrue, Consumer
    PROVE  VerdictsTrue' /\ \A j \in Jobs : NewlySucceeded(j) => CleanedUp(j)
<1> USE DEF VerdictsTrue, NewlySucceeded, rowVars, resultVars
<1>1. ASSUME NEW i \in Jobs, CleanupFails(i)
      PROVE  VerdictsTrue' /\ \A j \in Jobs : ~NewlySucceeded(j)
  BY <1>1 DEF CleanupFails, FoundPages, Ingested, OtherTasks
<1>2. ASSUME NEW i \in Jobs, NEW v \in Verdict, ConsumeResult(i, v)
      PROVE  VerdictsTrue' /\ \A j \in Jobs : ~NewlySucceeded(j)
  <2>1. CASE v = "SUCCEEDED"
    <3>1. PICK P \in FoundPages(i) :
             /\ tasks' = Ingested(i, P)
             /\ handling' = <<i, v, IF P = {} THEN "SUCCEEDED" ELSE "OLD_RESOURCE_DELETION">>
      BY <1>2, <2>1 DEF ConsumeResult
    <3>2. i \in delivered /\ \A t \in tasks' : t[1] \in delivered /\ t[2] \in Obsolete[t[1]]
      BY <1>2, <2>1, <3>1 DEF ConsumeResult, FoundPages, Ingested, OtherTasks
    <3>3. P = {} => Obsolete[i] \subseteq deleted[PairOf[i]]
      BY <3>1 DEF FoundPages
    <3> QED  BY <1>2, <3>1, <3>2, <3>3 DEF ConsumeResult
  <2>2. CASE v # "SUCCEEDED"
    BY <1>2, <2>2 DEF ConsumeResult
  <2> QED  BY <2>1, <2>2
<1>3. CASE WriteResult
  <2>1. VerdictsTrue'
    BY <1>3 DEF WriteResult, deleteVars
  <2>2. ASSUME NEW j \in Jobs, NewlySucceeded(j) PROVE CleanedUp(j)
    <3>1. j = handling[1] /\ handling[3] = "SUCCEEDED"
      BY <1>3, <2>2 DEF WriteResult, Write, TypeOK
    <3> QED  BY <1>3, <3>1, AllIsClean DEF WriteResult
  <2> QED  BY <2>1, <2>2
<1>4. CASE WriteResultFails
  BY <1>4 DEF WriteResultFails, deleteVars
<1> QED  BY <1>1, <1>2, <1>3, <1>4 DEF Consumer

LEMMA DeleterKeepsTrue ==
    ASSUME TypeOK, VerdictsTrue, Deleter
    PROVE  VerdictsTrue' /\ \A j \in Jobs : NewlySucceeded(j) => CleanedUp(j)
<1> USE DEF VerdictsTrue, NewlySucceeded, rowVars, resultVars
<1>1. CASE ListTasks
  BY <1>1 DEF ListTasks
<1>2. ASSUME NEW i \in Jobs, NEW p \in Pages, DeleteResources(i, p)
      PROVE  VerdictsTrue' /\ \A j \in Jobs : ~NewlySucceeded(j)
  <2>1. /\ i \in delivered /\ p \in Obsolete[i]
        /\ \A q \in Pairs : deleted[q] \subseteq deleted'[q]
        /\ p \in deleted'[PairOf[i]]
    BY <1>2, ConstantsAssumption DEF DeleteResources, TypeOK
  <2>2. handling # None => handling[1] \in Jobs
    BY DEF TypeOK
  <2> QED  BY <1>2, <2>1, <2>2, ConstantsAssumption DEF DeleteResources
<1>3. ASSUME NEW i \in Jobs, NEW p \in Pages, SkipTask(i, p)
      PROVE  VerdictsTrue' /\ \A j \in Jobs : ~NewlySucceeded(j)
  BY <1>3 DEF SkipTask
<1>4. CASE MarkDeleted
  <2>1. VerdictsTrue'
    BY <1>4 DEF MarkDeleted
  <2>2. ASSUME NEW j \in Jobs, NewlySucceeded(j) PROVE CleanedUp(j)
    <3>1. j = deleting[1]
      BY <1>4, <2>2 DEF MarkDeleted, Write, TypeOK
    <3> QED  BY <1>4, <3>1, OnePageIsClean DEF MarkDeleted
  <2> QED  BY <2>1, <2>2
<1>5. CASE MarkFails
  BY <1>5 DEF MarkFails
<1>6. CASE RemoveTask
  BY <1>6 DEF RemoveTask, OtherTasks
<1>7. CASE RoundFails
  BY <1>7 DEF RoundFails
<1> QED  BY <1>1, <1>2, <1>3, <1>4, <1>5, <1>6, <1>7 DEF Deleter

\* A job becomes SUCCEEDED only when its describer said so and resources it no longer found
\* are deleted: all of them if they fit one page, some of them otherwise.
THEOREM SucceededWasCleaned == Spec => SucceededIsTrue
<1>1. Init => VerdictsTrue
  BY DEF Init, VerdictsTrue
<1>2. TypeOK /\ VerdictsTrue /\ [Next]_vars =>
         VerdictsTrue' /\ \A j \in Jobs : NewlySucceeded(j) => CleanedUp(j)
  <2> SUFFICES ASSUME TypeOK, VerdictsTrue, [Next]_vars
               PROVE  VerdictsTrue' /\ \A j \in Jobs : NewlySucceeded(j) => CleanedUp(j)
    OBVIOUS
  <2>1. CASE Next
    BY <2>1, OthersKeepTrue, DescriberKeepsTrue, ConsumerKeepsTrue, DeleterKeepsTrue
       DEF Next, Step
  <2>2. CASE UNCHANGED vars
    BY <2>2 DEF vars, rowVars, resultVars, deleteVars, VerdictsTrue, NewlySucceeded
  <2> QED  BY <2>1, <2>2
<1>3. TypeOK /\ VerdictsTrue /\ [Next]_vars =>
         [\A j \in Jobs : status[j] # "SUCCEEDED" /\ status'[j] = "SUCCEEDED" =>
             /\ j \in delivered
             /\ IF Cardinality(Obsolete[j]) > 1
                THEN deleted[PairOf[j]] # {}
                ELSE Obsolete[j] \subseteq deleted[PairOf[j]]]_vars
  BY <1>2 DEF NewlySucceeded, CleanedUp
<1> QED  BY <1>1, <1>2, <1>3, TypeCorrect, PTL DEF Spec, SucceededIsTrue

---------------------------------------------------------------------------
(* One live job, and the rate limit. *)

\* A row that does not exist is nowhere in the program.
NoGhosts ==
    \A j \in Jobs : status[j] = "NONE" =>
        /\ enq[j] = "idle"
        /\ j \notin retrying \cup queue \cup taken
        /\ cancelJob # j
        /\ \A r \in results : r[1] # j
        /\ \A t \in tasks \cup listed : t[1] # j
        /\ handling # None => handling[1] # j
        /\ deleting # None => deleting[1] # j

\* Nothing is created, updated_at is refreshed for live jobs only, and nobody finds a
\* pair free or forgets that it no longer is.
Orderly ==
    /\ \A j \in Jobs : status[j] = "NONE" => status'[j] = "NONE"
    /\ \A p \in Pairs : last'[p] = last[p] \/
          \E j \in Jobs : PairOf[j] = p /\ status[j] \in Live /\ last'[p] = j
    /\ \A c \in Callers : passed'[c] # None =>
          passed'[c] = passed[c] /\ (c \in outdated => c \in outdated')

\* QUEUED is written for picked jobs only, and none is picked.
NoneBooked ==
    \A j \in Jobs :
        /\ status'[j] = "QUEUED" => status[j] = "QUEUED" \/ enq[j] = "picked"
        /\ enq'[j] = "picked" => enq[j] = "picked"

LEMMA CallerSteps ==
    ASSUME TypeOK, NoGhosts, NEW c \in Callers
    PROVE  /\ \A p \in Pairs : CheckLast(c, p) => NoGhosts' /\ NoneBooked
           /\ \A i \in Jobs : CreateJob(c, i) => NoGhosts' /\ NoneBooked
           /\ CreateFails(c) => NoGhosts' /\ Orderly /\ NoneBooked
<1> USE DEF NoGhosts, Orderly, NoneBooked, rowVars, enqVars, resultVars, deleteVars, cancelVars
<1>1. ASSUME NEW p \in Pairs, CheckLast(c, p) PROVE NoGhosts' /\ NoneBooked
  BY <1>1 DEF CheckLast
<1>2. ASSUME NEW i \in Jobs, CreateJob(c, i) PROVE NoGhosts' /\ NoneBooked
  BY <1>2 DEF CreateJob, Touch, TypeOK
<1>3. ASSUME CreateFails(c) PROVE NoGhosts' /\ Orderly /\ NoneBooked
  BY <1>3 DEF CreateFails, TypeOK
<1> QED  BY <1>1, <1>2, <1>3

LEMMA RetrySteps ==
    ASSUME TypeOK, NoGhosts, Retry PROVE NoGhosts' /\ Orderly /\ NoneBooked
<1> USE DEF NoGhosts, Orderly, NoneBooked, rowVars, enqVars, resultVars, deleteVars,
    cancelVars, callerVars
<1>1. ASSUME NEW R \in SUBSET Jobs, ListFailed(R) PROVE NoGhosts' /\ Orderly /\ NoneBooked
  BY <1>1 DEF ListFailed
<1>2. ASSUME NEW i \in Jobs, RetryJob(i) PROVE NoGhosts' /\ Orderly /\ NoneBooked
  BY <1>2 DEF RetryJob, Write, TypeOK
<1>3. ASSUME RetryFails PROVE NoGhosts' /\ Orderly /\ NoneBooked
  BY <1>3 DEF RetryFails
<1> QED  BY <1>1, <1>2, <1>3 DEF Retry

LEMMA CycleSteps ==
    ASSUME TypeOK, NoGhosts, NEW t \in {"scheduled", "manual"}, BeginCycle(t)
    PROVE  NoGhosts' /\ Orderly
BY DEF BeginCycle, TypeOK, NoGhosts, Orderly, rowVars, resultVars, deleteVars, cancelVars,
   callerVars

LEMMA EnqueueSteps ==
    ASSUME TypeOK, NoGhosts, NEW i \in Jobs, Enqueue(i)
    PROVE  NoGhosts' /\ Orderly /\ NoneBooked
<1> USE DEF NoGhosts, Orderly, NoneBooked, rowVars, resultVars, deleteVars, cancelVars,
    callerVars, Write, TypeOK
<1>1. CASE EnqueueUnfit(i)  BY <1>1 DEF EnqueueUnfit
<1>2. CASE QueueJob(i)      BY <1>2 DEF QueueJob
<1>3. CASE Produce(i)       BY <1>3 DEF Produce
<1>4. CASE EnqueueFails(i)  BY <1>4 DEF EnqueueFails
<1>5. CASE RecordSeqNum(i)  BY <1>5 DEF RecordSeqNum
<1>6. CASE SentButFailed(i) BY <1>6 DEF SentButFailed
<1> QED  BY <1>1, <1>2, <1>3, <1>4, <1>5, <1>6 DEF Enqueue

LEMMA DescriberSteps ==
    ASSUME TypeOK, NoGhosts, NEW i \in Jobs, Describer(i) \/ TimePasses(i) \/ Sweep(i)
    PROVE  NoGhosts' /\ Orderly /\ NoneBooked
<1> USE ConstantsAssumption
    DEF NoGhosts, Orderly, NoneBooked, rowVars, enqVars, deleteVars, cancelVars, callerVars,
        Touch, TypeOK, Live
<1>1. CASE TakeMessage(i)   BY <1>1 DEF TakeMessage
<1>2. CASE SetInProgress(i) BY <1>2 DEF SetInProgress, resultVars
<1>3. CASE DescriberDies(i) BY <1>3 DEF DescriberDies
<1>4. ASSUME NEW v \in Verdict, DeliverResult(i, v) PROVE NoGhosts' /\ Orderly /\ NoneBooked
  BY <1>4 DEF DeliverResult
<1>5. CASE TimePasses(i)    BY <1>5 DEF TimePasses, resultVars
<1>6. CASE Sweep(i)         BY <1>6 DEF Sweep, resultVars
<1> QED  BY <1>1, <1>2, <1>3, <1>4, <1>5, <1>6 DEF Describer

LEMMA ConsumerSteps ==
    ASSUME TypeOK, NoGhosts, Consumer PROVE NoGhosts' /\ Orderly /\ NoneBooked
<1> USE DEF NoGhosts, Orderly, NoneBooked, rowVars, enqVars, resultVars, cancelVars, callerVars
<1>1. ASSUME NEW i \in Jobs, CleanupFails(i) PROVE NoGhosts' /\ Orderly /\ NoneBooked
  BY <1>1 DEF CleanupFails, Ingested, OtherTasks
<1>2. ASSUME NEW i \in Jobs, NEW v \in Verdict, ConsumeResult(i, v)
      PROVE  NoGhosts' /\ Orderly /\ NoneBooked
  <2>1. \A t \in tasks' : t \in tasks \/ t[1] = i
    BY <1>2 DEF ConsumeResult, Ingested, OtherTasks
  <2>2. status[i] # "NONE" /\ handling'[1] = i
    BY <1>2 DEF ConsumeResult
  <2> QED  BY <1>2, <2>1, <2>2 DEF ConsumeResult
<1>3. CASE WriteResult
  <2>1. handling[1] \in Jobs /\ handling[3] \notin {"NONE", "QUEUED"}
    BY <1>3 DEF WriteResult, TypeOK, Verdict
  <2> QED  BY <1>3, <2>1 DEF WriteResult, Write, TypeOK, deleteVars
<1>4. CASE WriteResultFails
  BY <1>4 DEF WriteResultFails, deleteVars
<1> QED  BY <1>1, <1>2, <1>3, <1>4 DEF Consumer

LEMMA DeleterSteps ==
    ASSUME TypeOK, NoGhosts, Deleter PROVE NoGhosts' /\ Orderly /\ NoneBooked
<1> USE DEF NoGhosts, Orderly, NoneBooked, rowVars, enqVars, resultVars, cancelVars, callerVars
<1>1. CASE ListTasks  BY <1>1 DEF ListTasks
<1>2. ASSUME NEW i \in Jobs, NEW p \in Pages, DeleteResources(i, p)
      PROVE  NoGhosts' /\ Orderly /\ NoneBooked
  BY <1>2 DEF DeleteResources
<1>3. ASSUME NEW i \in Jobs, NEW p \in Pages, SkipTask(i, p)
      PROVE  NoGhosts' /\ Orderly /\ NoneBooked
  BY <1>3 DEF SkipTask
<1>4. CASE MarkDeleted
  <2>1. deleting[1] \in Jobs
    BY <1>4 DEF MarkDeleted, TypeOK
  <2> QED  BY <1>4, <2>1 DEF MarkDeleted, Write, TypeOK
<1>5. CASE MarkFails  BY <1>5 DEF MarkFails
<1>6. CASE RemoveTask BY <1>6 DEF RemoveTask, OtherTasks
<1>7. CASE RoundFails BY <1>7 DEF RoundFails
<1> QED  BY <1>1, <1>2, <1>3, <1>4, <1>5, <1>6, <1>7 DEF Deleter

LEMMA CancelerSteps ==
    ASSUME TypeOK, NoGhosts, Canceler \/ Restart PROVE NoGhosts' /\ Orderly /\ NoneBooked
<1> USE ConstantsAssumption
    DEF NoGhosts, Orderly, NoneBooked, rowVars, resultVars, deleteVars, callerVars, TypeOK
<1>1. ASSUME NEW i \in Jobs, CancelRead(i) PROVE NoGhosts' /\ Orderly /\ NoneBooked
  BY <1>1 DEF CancelRead, enqVars
<1>2. CASE CancelWrite BY <1>2 DEF CancelWrite, Write
<1>3. CASE CancelFails BY <1>3 DEF CancelFails
<1>4. CASE Restart     BY <1>4 DEF Restart
<1> QED  BY <1>1, <1>2, <1>3, <1>4 DEF Canceler

\* Three kinds of step: a check, a creation, and orderly ones.
LEMMA StepKinds ==
    ASSUME TypeOK, NoGhosts, Step
    PROVE  /\ NoGhosts'
           /\ \/ Orderly
              \/ \E c \in Callers : \/ \E p \in Pairs : CheckLast(c, p)
                                    \/ \E i \in Jobs : CreateJob(c, i)
           /\ NoneBooked \/ \E t \in {"scheduled", "manual"} : BeginCycle(t)
BY CallerSteps, RetrySteps, CycleSteps, EnqueueSteps, DescriberSteps, ConsumerSteps,
   DeleterSteps, CancelerSteps DEF Step, Creation

\* Of the jobs of a pair that is not mixed up, only the one updated last may be live.
LastIsLive ==
    \A j \in Jobs : status[j] \in Live /\ PairOf[j] \notin mixedUp => last[PairOf[j]] = j

\* A caller that found a pair free is right until a job is created, or comes back to life.
FreeIsFree ==
    \A c \in Callers :
        passed[c] # None /\ c \notin outdated /\ passed[c] \notin mixedUp
            => \A j \in Jobs : PairOf[j] = passed[c] => status[j] \notin Live

\* Where a pair is not mixed up after a step that creates nothing, its live jobs were so.
LEMMA NoReturn ==
    ASSUME TypeOK, Orderly, Observe, NEW k \in Jobs, status'[k] \in Live,
           PairOf[k] \notin mixedUp'
    PROVE  status[k] \in Live /\ PairOf[k] \notin mixedUp
<1>1. k \in LiveJobs(PairOf[k])' /\ PairOf[k] \in Pairs
  BY ConstantsAssumption DEF LiveJobs
<1>2. PairOf[k] \notin mixedUp /\ ~BreaksOrder(k)
  BY <1>1 DEF Observe
<1>3. status[k] # "NONE" /\ status[k] \notin Over
  BY <1>2 DEF BreaksOrder, Orderly, Live
<1> QED  BY <1>2, <1>3 DEF TypeOK, JobStatus

LEMMA OrderlyKeeps ==
    ASSUME TypeOK, Orderly, Observe, LastIsLive, FreeIsFree
    PROVE  LastIsLive' /\ FreeIsFree'
<1>1. ASSUME NEW k \in Jobs, status'[k] \in Live, PairOf[k] \notin mixedUp'
      PROVE  last'[PairOf[k]] = k
  <2>1. status[k] \in Live /\ PairOf[k] \notin mixedUp
    BY <1>1, NoReturn
  <2> QED  BY <2>1, ConstantsAssumption DEF LastIsLive, Orderly
<1>2. ASSUME NEW c \in Callers, passed'[c] # None, c \notin outdated', passed'[c] \notin mixedUp',
             NEW k \in Jobs, PairOf[k] = passed'[c], status'[k] \in Live
      PROVE  FALSE
  <2>1. passed'[c] = passed[c] /\ c \notin outdated
    BY <1>2 DEF Orderly
  <2>2. status[k] \in Live /\ passed[c] \notin mixedUp
    BY <1>2, <2>1, NoReturn
  <2> QED  BY <1>2, <2>1, <2>2 DEF FreeIsFree
<1> QED  BY <1>1, <1>2 DEF LastIsLive, FreeIsFree

LEMMA CheckKeeps ==
    ASSUME TypeOK, Observe, LastIsLive, FreeIsFree, NEW c \in Callers, NEW p \in Pairs,
           CheckLast(c, p)
    PROVE  LastIsLive' /\ FreeIsFree'
<1> USE ConstantsAssumption DEF CheckLast, rowVars
<1>1. /\ status' = status /\ last' = last
      /\ \A q \in Pairs : q \in mixedUp /\ (\E k \in Jobs : PairOf[k] = q /\ status[k] \in Live)
            => q \in mixedUp'
  BY DEF LiveJobs, Observe
<1>2. LastIsLive'
  <2> SUFFICES ASSUME NEW k \in Jobs, status[k] \in Live, PairOf[k] \notin mixedUp'
               PROVE  last[PairOf[k]] = k
    BY <1>1 DEF LastIsLive
  <2> QED  BY <1>1 DEF LastIsLive
<1>3. ASSUME NEW k \in Jobs, PairOf[k] = p, status[k] \in Live PROVE p \in mixedUp'
  <2>1. p \notin mixedUp => last[p] = k
    BY <1>3 DEF LastIsLive
  <2> QED  BY <1>1, <1>3, <2>1
<1>4. FreeIsFree'
  <2> SUFFICES ASSUME NEW d \in Callers, passed'[d] # None, d \notin outdated',
                      passed'[d] \notin mixedUp',
                      NEW k \in Jobs, PairOf[k] = passed'[d], status'[k] \in Live
               PROVE  FALSE
    BY DEF FreeIsFree
  <2>1. CASE d = c
    BY <1>1, <1>3, <2>1 DEF TypeOK
  <2>2. CASE d # c
    <3>1. passed'[d] = passed[d] /\ d \notin outdated /\ passed[d] \in Pairs
      BY <2>2 DEF TypeOK
    <3> QED  BY <1>1, <3>1 DEF FreeIsFree
  <2> QED  BY <2>1, <2>2
<1> QED  BY <1>2, <1>4

LEMMA CreateKeeps ==
    ASSUME TypeOK, Observe, LastIsLive, FreeIsFree, NEW c \in Callers, NEW i \in Jobs,
           CreateJob(c, i)
    PROVE  LastIsLive' /\ FreeIsFree'
<1> USE ConstantsAssumption DEF CreateJob, Touch
<1>1. /\ status[i] = "NONE" /\ status'[i] = "CREATED" /\ PairOf[i] \in Pairs
      /\ \A k \in Jobs \ {i} : status'[k] = status[k]
      /\ last'[PairOf[i]] = i /\ \A q \in Pairs \ {PairOf[i]} : last'[q] = last[q]
  BY DEF TypeOK
<1>2. \A q \in Pairs : q \in mixedUp /\ (\E k \in Jobs : PairOf[k] = q /\ status'[k] \in Live)
         => q \in mixedUp'
  BY DEF Observe, LiveJobs
<1>3. c \in outdated => PairOf[i] \in mixedUp'
  <2> SUFFICES ASSUME c \in outdated PROVE PairOf[i] \in mixedUp'
    OBVIOUS
  <2>1. passed[c] # None /\ passed'[c] = None
    <3>1. passed \in [Callers -> Pairs \cup {None}]
      BY DEF TypeOK
    <3>2. passed[c] = PairOf[i] /\ passed' = [passed EXCEPT ![c] = None]
      OBVIOUS
    <3> QED  BY <1>1, <3>1, <3>2
  <2>2. BreaksOrder(i)
    BY <1>1, <2>1 DEF BreaksOrder
  <2>3. i \in LiveJobs(PairOf[i])'
    BY <1>1 DEF LiveJobs, Live
  <2> QED  BY <1>1, <2>2, <2>3 DEF Observe
<1>4. ASSUME NEW k \in Jobs, status'[k] \in Live, PairOf[k] \notin mixedUp'
      PROVE  last'[PairOf[k]] = k
  <2>1. PairOf[k] \notin mixedUp
    BY <1>2, <1>4
  <2>2. CASE k = i
    BY <1>1, <2>2
  <2>3. CASE k # i
    <3>1. status[k] \in Live
      BY <1>1, <1>4, <2>3
    <3>2. PairOf[k] # PairOf[i]
      <4> SUFFICES ASSUME PairOf[k] = PairOf[i] PROVE FALSE
        OBVIOUS
      <4>1. passed[c] = PairOf[k] /\ passed[c] # None /\ c \notin outdated
        BY <1>3, <1>4
      <4> QED  BY <2>1, <3>1, <4>1 DEF FreeIsFree
    <3> QED  BY <1>1, <2>1, <3>1, <3>2 DEF LastIsLive
  <2> QED  BY <2>2, <2>3
<1>5. ASSUME NEW d \in Callers, passed'[d] # None, d \notin outdated',
             passed'[d] \notin mixedUp',
             NEW k \in Jobs, PairOf[k] = passed'[d], status'[k] \in Live
      PROVE  FALSE
  <2>1. d # c /\ passed'[d] = passed[d] /\ d \notin outdated /\ passed[d] # PairOf[i]
    BY <1>5 DEF TypeOK
  <2>2. k # i /\ status[k] \in Live /\ passed[d] \notin mixedUp
    BY <1>1, <1>2, <1>5, <2>1
  <2> QED  BY <1>5, <2>1, <2>2 DEF FreeIsFree
<1> QED  BY <1>4, <1>5 DEF LastIsLive, FreeIsFree

\* Unless callers race or a job returns to life, an integration has one live job.
THEOREM NeverTwoLive == Spec => []OneLive
<1>1. Init => NoGhosts /\ LastIsLive /\ FreeIsFree
  <2> SUFFICES ASSUME Init PROVE NoGhosts /\ LastIsLive /\ FreeIsFree
    OBVIOUS
  <2>1. NoGhosts
    BY ConstantsAssumption DEF Init, NoGhosts
  <2>2. LastIsLive /\ FreeIsFree
    BY DEF Init, LastIsLive, FreeIsFree, Live
  <2> QED  BY <2>1, <2>2
<1>2. TypeOK /\ NoGhosts /\ LastIsLive /\ FreeIsFree /\ [Next]_vars
         => NoGhosts' /\ LastIsLive' /\ FreeIsFree'
  <2> SUFFICES ASSUME TypeOK, NoGhosts, LastIsLive, FreeIsFree, [Next]_vars
               PROVE  NoGhosts' /\ LastIsLive' /\ FreeIsFree'
    OBVIOUS
  <2>1. CASE Next
    BY <2>1, StepKinds, OrderlyKeeps, CheckKeeps, CreateKeeps DEF Next
  <2>2. CASE UNCHANGED vars
    BY <2>2 DEF vars, rowVars, callerVars, enqVars, resultVars, deleteVars, cancelVars,
       NoGhosts, LastIsLive, FreeIsFree
  <2> QED  BY <2>1, <2>2
<1>3. LastIsLive => OneLive
  BY ConstantsAssumption DEF LastIsLive, OneLive
<1> QED  BY <1>1, <1>2, <1>3, TypeCorrect, PTL DEF Spec

---------------------------------------------------------------------------
(* The rate limit. *)

OffBooksRun == \A j \in offBooks : status[j] \in Running \ {"QUEUED"}

\* The jobs that count, and those that are about to.
Booked(t) ==
    {j \in JobsOf(t) : \/ status[j] \in Running /\ j \notin offBooks
                       \/ enq[j] = "picked"}

BookedFits == \A t \in {"scheduled", "manual"} : Cardinality(Booked(t)) <= MaxRunning

LEMMA BookedFinite ==
    ASSUME NEW t \in {"scheduled", "manual"}, NEW S \in SUBSET JobsOf(t)
    PROVE  IsFiniteSet(S) /\ Cardinality(S) \in Nat
<1>1. S \subseteq Jobs
  BY ConstantsAssumption DEF JobsOf
<1> QED  BY <1>1, ConstantsAssumption, FS_Subset, FS_CardinalityType

\* Nothing but a cycle books a job.
LEMMA NoBooking ==
    ASSUME TypeOK, OffBooksRun, Observe, NEW t \in {"scheduled", "manual"},
           \A j \in JobsOf(t) :
              /\ status'[j] = "QUEUED" => status[j] = "QUEUED" \/ enq[j] = "picked"
              /\ enq'[j] = "picked" => enq[j] = "picked"
    PROVE  Cardinality(Booked(t)') <= Cardinality(Booked(t))
<1>1. ASSUME NEW j \in JobsOf(t), status'[j] \in Running, j \notin offBooks'
      PROVE  j \in Booked(t)
  <2>1. j \in Jobs
    BY ConstantsAssumption DEF JobsOf
  <2>2. CASE status'[j] = "QUEUED"
    BY <2>1, <2>2 DEF Booked, OffBooksRun, Running
  <2>3. CASE status'[j] # "QUEUED"
    BY <1>1, <2>1, <2>3 DEF Booked, Observe
  <2> QED  BY <2>2, <2>3
<1>2. Booked(t)' \subseteq Booked(t)
  BY <1>1 DEF Booked
<1>3. Booked(t) \subseteq JobsOf(t)
  BY DEF Booked
<1> QED  BY <1>2, <1>3, BookedFinite, FS_Subset

\* A cycle books no more than there is room for.
LEMMA CycleBooks ==
    ASSUME TypeOK, OffBooksRun, Observe, BookedFits,
           NEW t \in {"scheduled", "manual"}, BeginCycle(t)
    PROVE  BookedFits'
<1> USE ConstantsAssumption
<1>1. PICK P \in SUBSET {j \in JobsOf(t) : status[j] = "CREATED"} :
         /\ Cardinality(P) + Cardinality({j \in JobsOf(t) : status[j] \in Running})
               <= MaxRunning
         /\ enq' = [j \in Jobs |-> IF j \in P THEN "picked" ELSE enq[j]]
  BY DEF BeginCycle
<1>2. status' = status /\ JobsOf(t) \subseteq Jobs
  BY DEF BeginCycle, rowVars, JobsOf
<1> DEFINE R == {j \in JobsOf(t) : status[j] \in Running}
           B == Booked(t)'
<1>3. B \subseteq P \cup R
  BY <1>1, <1>2 DEF Booked, BeginCycle
<1>4. /\ IsFiniteSet(P) /\ Cardinality(P) \in Nat /\ IsFiniteSet(R) /\ Cardinality(R) \in Nat
      /\ IsFiniteSet(P \cup R) /\ Cardinality(P \cup R) \in Nat /\ Cardinality(B) \in Nat
  <2>1. P \in SUBSET JobsOf(t) /\ R \in SUBSET JobsOf(t) /\ P \cup R \in SUBSET JobsOf(t)
        /\ B \in SUBSET JobsOf(t)
    BY DEF Booked, JobsOf
  <2> QED  BY <2>1, BookedFinite
<1>5. Cardinality(P) + Cardinality(R) <= MaxRunning
  BY <1>1
<1> HIDE DEF R, B
<1>6. Cardinality(B) <= Cardinality(P) + Cardinality(R)
  <2>1. Cardinality(B) <= Cardinality(P \cup R)
    BY <1>3, <1>4, FS_Subset
  <2>2. Cardinality(P \cup R) = Cardinality(P) + Cardinality(R) - Cardinality(P \cap R)
    BY <1>4, FS_Union
  <2>3. Cardinality(P \cap R) \in Nat
    BY <1>4, FS_Intersection, FS_CardinalityType
  <2> QED  BY <1>4, <2>1, <2>2, <2>3
<1>7. Cardinality(Booked(t)') <= MaxRunning
  BY <1>4, <1>5, <1>6 DEF B
<1>8. ASSUME NEW u \in {"scheduled", "manual"}, u # t
      PROVE  Cardinality(Booked(u)') <= MaxRunning
  <2>1. \A j \in JobsOf(u) : j \in Jobs /\ j \notin P
    BY <1>1, <1>8 DEF JobsOf
  <2>2. \A j \in JobsOf(u) :
           /\ status'[j] = "QUEUED" => status[j] = "QUEUED" \/ enq[j] = "picked"
           /\ enq'[j] = "picked" => enq[j] = "picked"
    BY <1>1, <1>2, <2>1
  <2>3. Cardinality(Booked(u)') <= Cardinality(Booked(u))
    BY <2>2, NoBooking
  <2>4. /\ Cardinality(Booked(u)) <= MaxRunning
        /\ Cardinality(Booked(u)) \in Nat /\ Cardinality(Booked(u)') \in Nat
    BY BookedFinite DEF BookedFits, Booked, JobsOf
  <2> QED  BY <2>3, <2>4
<1> QED  BY <1>7, <1>8 DEF BookedFits

LEMMA OthersBookNone ==
    ASSUME TypeOK, OffBooksRun, Observe, BookedFits, NoneBooked
    PROVE  BookedFits'
<1> SUFFICES ASSUME NEW t \in {"scheduled", "manual"}
             PROVE  Cardinality(Booked(t)') <= MaxRunning
  BY DEF BookedFits
<1>1. \A j \in JobsOf(t) : j \in Jobs
  BY ConstantsAssumption DEF JobsOf
<1>2. Cardinality(Booked(t)') <= Cardinality(Booked(t))
  BY <1>1, NoBooking DEF NoneBooked
<1>3. /\ Cardinality(Booked(t)) <= MaxRunning
      /\ Cardinality(Booked(t)) \in Nat /\ Cardinality(Booked(t)') \in Nat
  BY BookedFinite DEF BookedFits, Booked, JobsOf
<1> QED  BY <1>2, <1>3, ConstantsAssumption

\* The rate limit holds for the jobs that a QUEUED write started.
THEOREM CapHolds == Spec => []CapKept
<1>1. Init => NoGhosts /\ OffBooksRun /\ BookedFits
  <2> SUFFICES ASSUME Init PROVE NoGhosts /\ OffBooksRun /\ BookedFits
    OBVIOUS
  <2>1. NoGhosts /\ OffBooksRun
    BY ConstantsAssumption DEF Init, NoGhosts, OffBooksRun
  <2>2. \A t \in {"scheduled", "manual"} : Booked(t) = {}
    BY ConstantsAssumption DEF Init, Booked, JobsOf, Running
  <2>3. Cardinality({}) = 0 /\ 0 <= MaxRunning
    BY ConstantsAssumption, FS_EmptySet
  <2>4. BookedFits
    BY <2>2, <2>3 DEF BookedFits
  <2> QED  BY <2>1, <2>4
<1>2. TypeOK /\ NoGhosts /\ OffBooksRun /\ BookedFits /\ [Next]_vars
         => NoGhosts' /\ OffBooksRun' /\ BookedFits'
  <2> SUFFICES ASSUME TypeOK, NoGhosts, OffBooksRun, BookedFits, [Next]_vars
               PROVE  NoGhosts' /\ OffBooksRun' /\ BookedFits'
    OBVIOUS
  <2>1. CASE Next
    <3>1. OffBooksRun'
      BY <2>1 DEF Next, Observe, OffBooksRun
    <3> QED  BY <2>1, <3>1, StepKinds, CycleBooks, OthersBookNone DEF Next
  <2>2. CASE UNCHANGED vars
    BY <2>2 DEF vars, rowVars, callerVars, enqVars, resultVars, deleteVars, cancelVars,
       NoGhosts, OffBooksRun, BookedFits, Booked
  <2> QED  BY <2>1, <2>2
<1>3. BookedFits => CapKept
  <2> SUFFICES ASSUME BookedFits, NEW t \in {"scheduled", "manual"}
               PROVE  Cardinality({j \in JobsOf(t) \ offBooks : status[j] \in Running})
                         <= MaxRunning
    BY DEF CapKept
  <2> DEFINE R == {j \in JobsOf(t) \ offBooks : status[j] \in Running}
             B == Booked(t)
  <2>1. R \subseteq B
    BY DEF Booked
  <2>2. R \in SUBSET JobsOf(t) /\ B \in SUBSET JobsOf(t) /\ Cardinality(B) <= MaxRunning
    BY DEF Booked, BookedFits
  <2> HIDE DEF R, B
  <2>3. /\ Cardinality(R) <= Cardinality(B)
        /\ Cardinality(R) \in Nat /\ Cardinality(B) \in Nat
    BY <2>1, <2>2, BookedFinite, FS_Subset
  <2>4. Cardinality(R) <= MaxRunning
    BY <2>2, <2>3, ConstantsAssumption
  <2> QED  BY <2>4 DEF R
<1> QED  BY <1>1, <1>2, <1>3, TypeCorrect, PTL DEF Spec

---------------------------------------------------------------------------
(* The rows are those of DescribeTable. *)

\* Where the goroutines that put jobs to work are.
Unheld(j) == enq[j] # "picked" /\ j \notin retrying /\ (j \in Scheduled => j \in queuedOnce)

LEMMA ClosedIs == \A j : j \in Closed <=> j \in Jobs /\ status[j] \notin {"NONE"} \cup AtWorkRow /\ Unheld(j)
BY DEF Closed, Unheld

\* A job that is not at work stays so, and nobody gets hold of it, unless somebody had it.
LEMMA NobodyPutsToWork ==
    ASSUME TypeOK, NoGhosts, Step, NEW j \in Closed
    PROVE  status'[j] \notin {"NONE"} \cup AtWorkRow /\ Unheld(j)'
<1>0. j \in Jobs /\ status[j] \notin {"NONE"} \cup AtWorkRow /\ Unheld(j)
  BY ClosedIs
<1> USE DEF rowVars, enqVars, AtWorkRow, TypeOK, Write, Touch, Unheld
<1>1. ASSUME NEW c \in Callers, Creation(c)
      PROVE  status'[j] \notin {"NONE"} \cup AtWorkRow /\ Unheld(j)'
  BY <1>0, <1>1 DEF Creation, CheckLast, CreateJob, CreateFails
<1>2. ASSUME Retry PROVE status'[j] \notin {"NONE"} \cup AtWorkRow /\ Unheld(j)'
  BY <1>0, <1>2 DEF Retry, ListFailed, RetryJob, RetryFails
<1>3. ASSUME NEW t \in {"scheduled", "manual"}, BeginCycle(t)
      PROVE  status'[j] \notin {"NONE"} \cup AtWorkRow /\ Unheld(j)'
  BY <1>0, <1>3 DEF BeginCycle
<1>4. ASSUME NEW i \in Jobs, Enqueue(i)
      PROVE  status'[j] \notin {"NONE"} \cup AtWorkRow /\ Unheld(j)'
  BY <1>0, <1>4 DEF Enqueue, EnqueueUnfit, QueueJob, Produce, EnqueueFails, RecordSeqNum,
     SentButFailed
<1>5. ASSUME NEW i \in Jobs, Describer(i) \/ TimePasses(i) \/ Sweep(i)
      PROVE  status'[j] \notin {"NONE"} \cup AtWorkRow /\ Unheld(j)'
  BY <1>0, <1>5 DEF Describer, TakeMessage, SetInProgress, DescriberDies, DeliverResult,
     TimePasses, Sweep
<1>6. ASSUME Consumer PROVE status'[j] \notin {"NONE"} \cup AtWorkRow /\ Unheld(j)'
  BY <1>0, <1>6 DEF Consumer, CleanupFails, ConsumeResult, WriteResult, WriteResultFails, Verdict
<1>7. ASSUME Deleter PROVE status'[j] \notin {"NONE"} \cup AtWorkRow /\ Unheld(j)'
  BY <1>0, <1>7 DEF Deleter, ListTasks, DeleteResources, SkipTask, MarkDeleted, MarkFails,
     RemoveTask, RoundFails
<1>8. ASSUME Canceler \/ Restart PROVE status'[j] \notin {"NONE"} \cup AtWorkRow /\ Unheld(j)'
  BY <1>0, <1>8 DEF Canceler, CancelRead, CancelWrite, CancelFails, Restart
<1> QED  BY <1>1, <1>2, <1>3, <1>4, <1>5, <1>6, <1>7, <1>8 DEF Step

\* Each action is the action of the table its comment there names.
LEMMA RowWrites ==
    ASSUME TypeOK, NEW j \in Jobs, status[j] # "NONE", NEW s, Write(j, s) \/ Touch(j, s)
    PROVE  /\ s \in {"SUCCEEDED", "FAILED", "CANCELED", "OLD_RESOURCE_DELETION"} => Table!RowWritten(j)
           /\ s \in AtWorkRow /\ j \notin Closed => Table!RowAtWork(j)
           /\ s = "TIMEOUT" /\ status[j] \in Live => Table!RowTimedOut(j)
<1> DEFINE Row(t) == IF t \in AtWorkRow THEN "LIVE" ELSE t
<1>1. status' = [status EXCEPT ![j] = s] /\ status \in [Jobs -> JobStatus]
  BY DEF TypeOK, Write, Touch
<1>2. [i \in Jobs |-> Row(status'[i])] = [[i \in Jobs |-> Row(status[i])] EXCEPT ![j] = Row(s)]
  BY <1>1
<1>3. Row(status[j]) # "NONE" /\ (status[j] \in Live => Row(status[j]) \in {"LIVE", "OLD_RESOURCE_DELETION"})
  BY DEF AtWorkRow, Live
<1>4. CASE s \in {"SUCCEEDED", "FAILED", "CANCELED", "OLD_RESOURCE_DELETION"}
  BY <1>2, <1>3, <1>4 DEF Table!RowWritten, Table!WriteRow, AtWorkRow
<1>5. CASE s \in AtWorkRow
  BY <1>2, <1>3, <1>5 DEF Table!RowAtWork, Table!WriteRow, AtWorkRow
<1>6. CASE s = "TIMEOUT"
  BY <1>2, <1>3, <1>6 DEF Table!RowTimedOut, Table!WriteRow, AtWorkRow
<1> QED  BY <1>4, <1>5, <1>6 DEF AtWorkRow

TableMove ==
    \/ \E D \in SUBSET Jobs : Table!RowsInserted(D)
    \/ \E j \in Jobs : Table!RowAtWork(j) \/ Table!RowWritten(j) \/ Table!RowTimedOut(j)
    \/ UNCHANGED status

LEMMA RowsMove ==
    ASSUME TypeOK, NoGhosts, Step
    PROVE  TableMove
<1> USE DEF TableMove
<1>1. ASSUME NEW c \in Callers, Creation(c) PROVE TableMove
  <2>1. ASSUME NEW j \in Jobs, CreateJob(c, j) PROVE Table!RowsInserted({j})
    BY <2>1 DEF CreateJob, Touch, Table!RowsInserted, TypeOK, AtWorkRow
  <2> QED  BY <1>1, <2>1 DEF Creation, CheckLast, CreateFails, rowVars
<1>2. ASSUME Retry PROVE TableMove
  <2>1. ASSUME NEW j \in Jobs, RetryJob(j) PROVE Table!RowAtWork(j)
    <3>1. j \notin Closed /\ status[j] # "NONE" /\ Write(j, "CREATED")
      BY <2>1 DEF RetryJob, NoGhosts, Closed
    <3> QED  BY <3>1, RowWrites DEF AtWorkRow
  <2> QED  BY <1>2, <2>1 DEF Retry, ListFailed, RetryFails, rowVars
<1>3. ASSUME NEW i \in Jobs, Enqueue(i) PROVE TableMove
  <2>0. status[i] # "NONE"
    BY <1>3 DEF NoGhosts, Enqueue, EnqueueUnfit, QueueJob, Produce, EnqueueFails, RecordSeqNum,
       SentButFailed
  <2>1. ASSUME QueueJob(i), status' # status PROVE Table!RowAtWork(i)
    <3>1. i \notin Closed /\ Write(i, "QUEUED")
      BY <2>1 DEF QueueJob, Closed, rowVars
    <3> QED  BY <2>0, <3>1, RowWrites DEF AtWorkRow
  <2>2. ASSUME Write(i, "FAILED") PROVE Table!RowWritten(i)
    BY <2>0, <2>2, RowWrites
  <2> QED  BY <1>3, <2>1, <2>2 DEF Enqueue, EnqueueUnfit, Produce, EnqueueFails, RecordSeqNum,
           SentButFailed, rowVars
<1>4. ASSUME NEW i \in Jobs, Describer(i) \/ TimePasses(i) \/ Sweep(i) PROVE TableMove
  <2>1. ASSUME SetInProgress(i) PROVE Table!RowAtWork(i)
    <3>1. i \notin Closed /\ status[i] # "NONE" /\ Touch(i, "IN_PROGRESS")
      BY <2>1 DEF SetInProgress, Closed, AtWorkRow
    <3> QED  BY <3>1, RowWrites DEF AtWorkRow
  <2>2. ASSUME Sweep(i) PROVE Table!RowTimedOut(i)
    <3>1. status[i] \in Live /\ status[i] # "NONE" /\ Touch(i, "TIMEOUT")
      BY <2>2 DEF Sweep, Live
    <3> QED  BY <3>1, RowWrites
  <2> QED  BY <1>4, <2>1, <2>2 DEF Describer, TakeMessage, DescriberDies, DeliverResult,
           TimePasses, rowVars
<1>5. ASSUME Consumer PROVE TableMove
  <2>1. ASSUME WriteResult PROVE Table!RowWritten(handling[1])
    <3>1. /\ handling[1] \in Jobs /\ status[handling[1]] # "NONE"
          /\ handling[3] \in {"SUCCEEDED", "FAILED", "OLD_RESOURCE_DELETION"}
          /\ Write(handling[1], handling[3])
      BY <2>1 DEF WriteResult, NoGhosts, TypeOK, Verdict
    <3> QED  BY <3>1, RowWrites
  <2>2. WriteResult => handling[1] \in Jobs
    BY DEF WriteResult, TypeOK
  <2> QED  BY <1>5, <2>1, <2>2 DEF Consumer, CleanupFails, ConsumeResult, WriteResultFails, rowVars
<1>6. ASSUME Deleter PROVE TableMove
  <2>1. ASSUME MarkDeleted PROVE deleting[1] \in Jobs /\ Table!RowWritten(deleting[1])
    <3>1. /\ deleting[1] \in Jobs /\ status[deleting[1]] # "NONE"
          /\ Write(deleting[1], "SUCCEEDED")
      BY <2>1 DEF MarkDeleted, NoGhosts, TypeOK
    <3> QED  BY <3>1, RowWrites
  <2> QED  BY <1>6, <2>1 DEF Deleter, ListTasks, DeleteResources, SkipTask, MarkFails, RemoveTask,
           RoundFails, rowVars
<1>7. ASSUME Canceler \/ Restart PROVE TableMove
  <2>1. ASSUME CancelWrite PROVE cancelJob \in Jobs /\ Table!RowWritten(cancelJob)
    <3>1. /\ cancelJob \in Jobs /\ status[cancelJob] # "NONE" /\ Write(cancelJob, "CANCELED")
      BY <2>1 DEF CancelWrite, NoGhosts, TypeOK
    <3> QED  BY <3>1, RowWrites
  <2> QED  BY <1>7, <2>1 DEF Canceler, CancelRead, CancelFails, Restart, rowVars
<1> QED  BY <1>1, <1>2, <1>3, <1>4, <1>5, <1>6, <1>7 DEF Step, BeginCycle, rowVars

\* The rows of describe jobs do what DescribeTable allows: in particular nothing puts a job
\* to work again that is over, was QUEUED once and is in nobody's hands.
THEOREM RowsOfTable == Spec => Table!TableSpec
<1>1. Init => Table!TableInit /\ NoGhosts
  BY ConstantsAssumption DEF Init, Table!TableInit, Closed, AtWorkRow, NoGhosts
<1>2. TypeOK /\ TypeOK' /\ NoGhosts /\ [Next]_vars => NoGhosts' /\ [Table!TableNext]_(Table!tableVars)
  <2> SUFFICES ASSUME TypeOK, TypeOK', NoGhosts, [Next]_vars
               PROVE  NoGhosts' /\ [Table!TableNext]_(Table!tableVars)
    OBVIOUS
  <2>1. CASE Next
    <3>1. NoGhosts'
      BY <2>1, StepKinds DEF Next
    <3>2. Table!Closing
      <4>1. Closed \subseteq Closed'
        BY <2>1, NobodyPutsToWork, ClosedIs DEF Next, Closed, Unheld
      <4>2. \A j \in Closed' : /\ j \in Jobs /\ status'[j] \notin {"NONE", "LIVE"}
                                /\ status'[j] \notin AtWorkRow
        BY DEF Closed, TypeOK, JobStatus, Live, Over
      <4> QED  BY <4>1, <4>2 DEF Table!Closing
    <3>3. Table!TableNext
      BY <2>1, <3>2, RowsMove DEF Next, TableMove, Table!TableNext
    <3> QED  BY <3>1, <3>3
  <2>2. CASE UNCHANGED vars
    BY <2>2 DEF vars, rowVars, callerVars, enqVars, resultVars, deleteVars, cancelVars,
       NoGhosts, Closed, Table!tableVars
  <2> QED  BY <2>1, <2>2
<1> QED  BY <1>1, <1>2, TypeCorrect, PTL DEF Spec, Table!TableSpec
=============================================================================
