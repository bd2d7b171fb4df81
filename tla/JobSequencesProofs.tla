-------------------------- MODULE JobSequencesProofs --------------------------
(* Proofs about JobSequences, for any scans, sequences, describe jobs and goroutines. *)
EXTENDS JobSequences, SequenceTheorems, TLAPS

\* A describe job that was never made has no history, and one that is over has ended.
HistoryKept ==
    \A d \in Jobs :
        /\ dstatus[d] = "NONE" => d \notin ended /\ parent[d] = None
        /\ dstatus[d] \in DoneJob \cup {"CANCELED"} => d \in ended

\* What a goroutine has described, and that it waits for all of it and then for all jobs it made.
AskedFor(q, p) == \E d \in Jobs : parent[d] = q /\ PairOf[d] = p

FlowKnows(f) ==
    /\ pc[f] # "idle" => scan[f[1]] # "NONE"
    /\ pc[f] = "describe" => \A p \in asked[f] \ todo[f] : AskedFor(f[1], p)
    /\ pc[f] = "wait" => \A p \in asked[f] : AskedFor(f[1], p)
    /\ pc[f] \in {"create", "watch", "ok"} => f \in described
    /\ pc[f] = "watch" => \A k \in 1 .. at[f] : <<f, k>> \in ranOut
    /\ pc[f] = "ok" => \A k \in 1 .. parts[f[1]] : <<f, k>> \in ranOut

FlowsKnow == \A f \in Flows : FlowKnows(f)

\* An outcome was written by the first goroutine, which is gone, or there is a second one.
OutcomeIsOf ==
    \A q \in Scans : scan[q] \in Outcome =>
        \/ <<q, 1>> \in Flows /\ pc[<<q, 1>>] = "gone"
        \/ \E g \in 2 .. MaxStarts : pc[<<q, g>>] # "idle"

\* Only jobs that were made are published, run and reported.
RunsWereMade ==
    \A r \in Runs :
        /\ run[r] \in EndedRun => r \in ranOut
        /\ run[r] = "NONE" => /\ r \notin queue \cup working /\ reports[r] = <<>>
                              /\ sending # <<r, "listed">> /\ sending # <<r, "sent">>

\* The loop has waiting sequences only, one of them in hand.
LoopHasWaiting ==
    /\ cur \notin batch
    /\ \A x \in batch : Waiting(x)
    /\ cur # None => Waiting(cur) /\ deps[cur] \ left \subseteq ended
    /\ phase = "insert" => left = {}

SeqInv ==
    /\ TypeOK /\ HistoryKept /\ FlowsKnow /\ FinishedWasScanned /\ OutcomeIsOf
    /\ RunsWereMade /\ LoopHasWaiting /\ RunnersAccounted

---------------------------------------------------------------------------
(* The types, group by group. *)

Reported == {"IN_PROGRESS", "SUCCEEDED", "FAILED"}
JobStatus == {"NONE", "CANCELED"} \cup LiveJob \cup DoneJob
RunStatus == {"NONE"} \cup LiveRun \cup EndedRun

DescribeTypes ==
    /\ dstatus \in [Jobs -> JobStatus]
    /\ parent \in [Jobs -> Scans \cup {None}] /\ settled \in SUBSET Jobs
FlowTypes ==
    /\ scan \in [Scans -> {"NONE", "CREATED"} \cup Begun \cup Outcome]
    /\ parts \in [Scans -> 0 .. MaxParts]
    /\ pc \in [Flows -> Idle \cup {"start", "describe", "wait", "create", "watch", "ok", "bad"}]
    /\ asked \in [Flows -> SUBSET Pairs] /\ todo \in [Flows -> SUBSET Pairs]
    /\ at \in [Flows -> 0 .. MaxParts]
RunTypes ==
    /\ run \in [Runs -> RunStatus]
    /\ old \in SUBSET Runs /\ sending \in {None} \cup Sendings
    /\ sent \in SUBSET Runs /\ queue \in SUBSET Runs /\ working \in SUBSET Runs
    /\ reports \in [Runs -> Seq(Reported)]
LoopTypes ==
    /\ seq \in [Seqs -> {"NONE", "WaitingForDependencies", "FINISHED", "Failed"}]
    /\ deps \in [Seqs -> SUBSET Jobs]
    /\ batch \in SUBSET Seqs /\ cur \in Seqs \cup {None} /\ left \in SUBSET Jobs
    /\ phase \in {"check", "insert", "mark"} /\ (phase # "check" => cur # None)
    /\ made \in [Seqs -> Nat]
GhostTypes ==
    /\ torn \in [Seqs -> Nat]
    /\ ended \in SUBSET Jobs /\ described \in SUBSET Flows /\ ranOut \in SUBSET Runs

LEMMA TypeParts ==
    TypeOK <=> /\ up \in BOOLEAN
               /\ DescribeTypes /\ FlowTypes /\ RunTypes /\ LoopTypes /\ GhostTypes
BY Zenon DEF TypeOK, DescribeTypes, FlowTypes, RunTypes, LoopTypes, GhostTypes, JobStatus,
             RunStatus, Reported

LEMMA TypePartsNext ==
    ASSUME up' \in BOOLEAN, DescribeTypes', FlowTypes', RunTypes', LoopTypes', GhostTypes'
    PROVE  TypeOK'
BY Zenon DEF TypeOK, DescribeTypes, FlowTypes, RunTypes, LoopTypes, GhostTypes, JobStatus,
             RunStatus, Reported

LEMMA GhostTypesKept ==
    ASSUME TypeOK, Observe
    PROVE  GhostTypes'
<1>1. torn' \in [Seqs -> Nat]
  BY TypeParts DEF GhostTypes, Observe
<1> QED  BY <1>1, TypeParts DEF GhostTypes, Observe

DescribeStep ==
    \E d \in Jobs : DescribeForOthers(d) \/ JobStep(d) \/ JobComesBack(d) \/ Settle(d)
FlowStep ==
    \/ CheckQuickScanSequence
    \/ \E q \in Scans : CreateSequence(q)
    \/ \E f \in Flows : Goroutine(f) \/ BreakOff(f)
RunStep ==
    \/ RunPublisher
    \/ \E r \in Runs : Age(r) \/ RunWorker(r) \/ ConsumeRunResult(r) \/ CancelRun(r)
LoopStep == SequencerLoop \/ \E x \in Seqs : CreateJobSequence(x)

LEMMA StepParts == Step => DescribeStep \/ FlowStep \/ RunStep \/ LoopStep \/ Crash \/ Boot
BY DEF Step, DescribeStep, FlowStep, RunStep, LoopStep

---------------------------------------------------------------------------
(* Describe jobs. *)

\* A job that was made keeps its place, and only a new one gets a parent.
NeverForgotten ==
    /\ \A d \in Jobs : dstatus[d] # "NONE" => dstatus'[d] # "NONE" /\ parent'[d] = parent[d]
    /\ \A d \in Jobs : parent'[d] # parent[d] => dstatus'[d] # "NONE"

LEMMA DescribeTypesKept ==
    ASSUME SeqInv, Observe,
           DescribeStep \/ FlowStep \/ LoopStep \/ UNCHANGED describeVars
    PROVE  DescribeTypes' /\ NeverForgotten
<1> USE DEF DescribeTypes, describeVars, NeverForgotten
<1>0. DescribeTypes
  BY TypeParts DEF SeqInv
<1>1. CASE UNCHANGED describeVars
  BY <1>0, <1>1
<1>2. CASE DescribeStep
  BY <1>0, <1>2 DEF DescribeStep, DescribeForOthers, JobStep, JobComesBack, Settle, JobStatus,
     LiveJob, DoneJob
<1>3. ASSUME NEW f \in Flows, NEW p \in Pairs, DescribeOne(f, p)
      PROVE  DescribeTypes' /\ NeverForgotten
  <2>1. f[1] \in Scans
    BY DEF Flows
  <2> QED  BY <1>0, <1>3, <2>1 DEF DescribeOne, JobStatus, LiveJob
<1>4. CASE FlowStep /\ ~\E f \in Flows, p \in Pairs : DescribeOne(f, p)
  BY <1>1, <1>4 DEF FlowStep, CheckQuickScanSequence, CreateSequence, Goroutine, BreakOff,
     StartScan, BeginWait, Poll, CreateScanJob, MarkScan, WatchScanJobs, EndScan
<1>5. CASE SequencerLoop
  <2>1. UNCHANGED describeVars
    BY <1>5 DEF SequencerLoop, ListSequences, BeginNextJob, InsertRunners, NoRunners,
       MarkSequence, FailSequence, AbortRound, NextSequence, CheckDependency
  <2> QED  BY <1>1, <2>1
<1>6. ASSUME NEW x \in Seqs, CreateJobSequence(x)
      PROVE  DescribeTypes' /\ NeverForgotten
  <2>1. PICK D \in SUBSET Jobs : dstatus' = [d \in Jobs |-> IF d \in D THEN "LIVE" ELSE dstatus[d]]
    BY <1>6 DEF CreateJobSequence
  <2>2. UNCHANGED <<parent, settled>>
    BY <1>6 DEF CreateJobSequence
  <2> QED  BY <1>0, <2>1, <2>2 DEF JobStatus, LiveJob
<1> QED  BY <1>1, <1>2, <1>3, <1>4, <1>5, <1>6 DEF LoopStep

LEMMA HistoryStays ==
    ASSUME SeqInv, Observe, DescribeTypes', NeverForgotten
    PROVE  /\ HistoryKept'
           /\ \A q, p : AskedFor(q, p) /\ q # None => AskedFor(q, p)'
           /\ \A q, p : EndedFor(q, p) /\ q # None => EndedFor(q, p)'
<1> USE DEF NeverForgotten
<1>1. HistoryKept'
  BY DEF SeqInv, HistoryKept, Observe, DoneJob, LiveJob
<1>2. \A d \in Jobs : parent[d] # None => parent'[d] = parent[d]
  BY DEF SeqInv, HistoryKept
<1>3. ended \subseteq ended' /\ ended \subseteq Jobs
  BY TypeParts DEF Observe, SeqInv, GhostTypes
<1>4. \A d \in Jobs : d \in ended => parent'[d] = parent[d]
  BY DEF SeqInv, HistoryKept
<1> QED  BY <1>1, <1>2, <1>3, <1>4 DEF AskedFor, EndedFor

---------------------------------------------------------------------------
(* The goroutines of the quick scans. *)

\* What only depends on what others keep.
LEMMA FlowsKnowStill ==
    ASSUME SeqInv, Observe, DescribeTypes', NeverForgotten, UNCHANGED flowVars
    PROVE  FlowsKnow'
<1>1. \A f \in Flows : f[1] # None
  BY SequencesAssumption DEF Flows
<1>2. ranOut \subseteq ranOut' /\ described \subseteq described'
  BY DEF Observe
<1>3. \A f \in Flows : \A p : AskedFor(f[1], p) => AskedFor(f[1], p)'
  BY <1>1, HistoryStays
<1> QED  BY <1>2, <1>3 DEF SeqInv, FlowsKnow, FlowKnows, flowVars

\* A step that leaves the scans alone.
LEMMA ScansKept ==
    ASSUME SeqInv, Observe, UNCHANGED <<scan, parts, pc>>
    PROVE  FinishedWasScanned' /\ OutcomeIsOf'
<1>1. ranOut \subseteq ranOut' /\ described \subseteq described'
  BY DEF Observe
<1>2. FinishedWasScanned'
  BY <1>1 DEF SeqInv, FinishedWasScanned
<1>3. OutcomeIsOf'
  BY DEF SeqInv, OutcomeIsOf
<1> QED  BY <1>2, <1>3

LEMMA PairsOfFlows ==
    ASSUME NEW f \in Flows
    PROVE  f[1] \in Scans /\ f[2] \in 1 .. MaxStarts /\ f = <<f[1], f[2]>>
BY DEF Flows

LEMMA FlowTypesKept ==
    ASSUME SeqInv, FlowStep
    PROVE  FlowTypes'
<1>0. FlowTypes /\ 0 \in 0 .. MaxParts
  BY TypeParts, SequencesAssumption DEF SeqInv
<1> USE DEF FlowTypes, Goto, WriteScan
<1>1. CASE CheckQuickScanSequence
  BY <1>0, <1>1 DEF CheckQuickScanSequence
<1>2. ASSUME NEW q \in Scans, CreateSequence(q) PROVE FlowTypes'
  BY <1>0, <1>2 DEF CreateSequence
<1>3. ASSUME NEW f \in Flows, Goroutine(f) \/ BreakOff(f) PROVE FlowTypes'
  <2>0. f[1] \in Scans
    BY PairsOfFlows
  <2>1. CASE StartScan(f)
    <3>1. Needs[f[1]] \in SUBSET Pairs
      BY <2>0, SequencesAssumption
    <3>2. PICK P \in SUBSET Pairs : asked' = [asked EXCEPT ![f] = P] /\ todo' = [todo EXCEPT ![f] = P]
      BY <2>1, <3>1 DEF StartScan
    <3> QED  BY <1>0, <2>0, <2>1, <3>2 DEF StartScan, Begun
  <2>2. CASE \E p \in Pairs : DescribeOne(f, p)
    BY <1>0, <2>2 DEF DescribeOne
  <2>3. CASE BeginWait(f) \/ MarkScan(f)
    BY <1>0, <2>0, <2>3 DEF BeginWait, MarkScan, Begun
  <2>4. CASE EndScan(f)
    BY <1>0, <2>0, <2>4 DEF EndScan, Outcome, Idle
  <2>5. CASE Poll(f) \/ BreakOff(f)
    BY <1>0, <2>5 DEF Poll, BreakOff
  <2>6. CASE CreateScanJob(f) \/ WatchScanJobs(f)
    <3>1. at[f] < parts[f[1]] => at[f] + 1 \in 0 .. MaxParts
      BY <1>0, <2>0, SequencesAssumption
    <3> QED  BY <1>0, <2>6, <3>1 DEF CreateScanJob, WatchScanJobs
  <2> QED  BY <1>3, <2>1, <2>2, <2>3, <2>4, <2>5, <2>6 DEF Goroutine
<1> QED  BY <1>1, <1>2, <1>3 DEF FlowStep

\* What a step of one goroutine leaves alone.
LEMMA OtherFlows ==
    ASSUME SeqInv, NEW f \in Flows, Goroutine(f) \/ BreakOff(f)
    PROVE  /\ \A g \in Flows \ {f} : /\ pc'[g] = pc[g] /\ asked'[g] = asked[g]
                                     /\ todo'[g] = todo[g] /\ at'[g] = at[g]
           /\ \A q \in Scans : scan'[q] = scan[q] \/ q = f[1]
           /\ scan' = scan \/ scan'[f[1]] \in Begun \cup Outcome
           /\ parts' = parts /\ pc[f] \notin Idle /\ pc'[f] # "idle"
<1>0. FlowTypes /\ f[1] \in Scans
  BY TypeParts, PairsOfFlows DEF SeqInv
<1> USE DEF FlowTypes, Goto, WriteScan, Idle
<1>1. CASE StartScan(f) \/ BeginWait(f) \/ MarkScan(f)
  BY <1>0, <1>1 DEF StartScan, BeginWait, MarkScan, Begun
<1>2. CASE EndScan(f)
  BY <1>0, <1>2 DEF EndScan, Outcome
<1>3. CASE Poll(f) \/ CreateScanJob(f) \/ WatchScanJobs(f) \/ BreakOff(f)
  BY <1>0, <1>3 DEF Poll, CreateScanJob, WatchScanJobs, BreakOff
<1>4. CASE \E p \in Pairs : DescribeOne(f, p)
  BY <1>0, <1>4 DEF DescribeOne
<1> QED  BY <1>1, <1>2, <1>3, <1>4 DEF Goroutine

LEMMA FlowsKnowKept ==
    ASSUME SeqInv, Observe, FlowStep, DescribeTypes', NeverForgotten
    PROVE  FlowsKnow'
<1> USE DEF Goto, WriteScan
<1>0. FlowTypes /\ HistoryKept /\ FlowsKnow /\ (\A f \in Flows : f[1] # None /\ f[1] \in Scans)
      /\ ranOut \subseteq ranOut' /\ described \subseteq described' /\ RunsWereMade
  BY TypeParts, PairsOfFlows, SequencesAssumption DEF SeqInv, Observe
<1>1. \A f \in Flows : \A p : AskedFor(f[1], p) => AskedFor(f[1], p)'
  BY <1>0, HistoryStays
<1> USE DEF FlowTypes
<1>2. CASE CheckQuickScanSequence
  <2>1. \A f \in Flows : pc'[f] = pc[f] \/ (pc'[f] = "start" /\ scan[f[1]] = "CREATED")
    BY <1>2 DEF CheckQuickScanSequence
  <2>2. UNCHANGED <<scan, parts, asked, todo, at>>
    BY <1>2 DEF CheckQuickScanSequence
  <2> QED  BY <1>0, <1>1, <2>1, <2>2 DEF FlowsKnow, FlowKnows
<1>3. ASSUME NEW q \in Scans, CreateSequence(q) PROVE FlowsKnow'
  <2>1. /\ scan[q] = "NONE" /\ scan' = [scan EXCEPT ![q] = "CREATED"]
        /\ \A r \in Scans \ {q} : parts'[r] = parts[r]
        /\ UNCHANGED <<pc, asked, todo, at>>
    BY <1>0, <1>3 DEF CreateSequence
  <2>2. \A f \in Flows : f[1] = q => pc'[f] = "idle"
    BY <1>0, <2>1 DEF FlowsKnow, FlowKnows
  <2> QED  BY <1>0, <1>1, <2>1, <2>2 DEF FlowsKnow, FlowKnows
<1>4. ASSUME NEW f \in Flows, Goroutine(f) \/ BreakOff(f) PROVE FlowsKnow'
  <2>0. \A g \in Flows \ {f} : FlowKnows(g)'
    <3>1. \A q \in Scans : scan[q] # "NONE" => scan'[q] # "NONE"
      BY <1>0, <1>4, OtherFlows DEF Begun, Outcome
    <3> SUFFICES ASSUME NEW g \in Flows \ {f} PROVE FlowKnows(g)'
      OBVIOUS
    <3>2. /\ pc'[g] = pc[g] /\ asked'[g] = asked[g] /\ todo'[g] = todo[g] /\ at'[g] = at[g]
          /\ parts' = parts
      BY <1>4, OtherFlows
    <3>3. FlowKnows(g) /\ g[1] \in Scans
      BY <1>0 DEF FlowsKnow
    <3> QED  BY <1>0, <1>1, <3>1, <3>2, <3>3 DEF FlowKnows
  <2>a. FlowKnows(f) /\ scan'[f[1]] # "NONE" /\ f[1] \in Scans
    BY <1>0, <1>4, OtherFlows DEF Begun, Outcome, FlowsKnow, FlowKnows, Idle
  <2> USE DEF FlowKnows
  <2>1. CASE StartScan(f)
    <3>1. asked'[f] = todo'[f] /\ pc'[f] = "describe"
      BY <1>0, <2>1 DEF StartScan
    <3> QED  BY <2>0, <2>a, <3>1 DEF FlowsKnow
  <2>2. ASSUME NEW p \in Pairs, DescribeOne(f, p)
        PROVE  FlowKnows(f)'
    <3>1. CASE pc' = pc
      <4>1. PICK d \in Jobs : /\ PairOf[d] = p
                              /\ parent' = [parent EXCEPT ![d] = f[1]]
                              /\ todo' = [todo EXCEPT ![f] = @ \ {p}]
        BY <1>0, <2>2, <3>1 DEF DescribeOne
      <4>2. AskedFor(f[1], p)'
        <5>1. parent'[d] = f[1]
          BY <4>1, TypeParts DEF SeqInv, DescribeTypes
        <5> QED  BY <4>1, <5>1 DEF AskedFor
      <4>3. asked' = asked /\ pc[f] = "describe" /\ todo'[f] = todo[f] \ {p}
        BY <1>0, <2>2, <4>1 DEF DescribeOne
      <4> QED  BY <1>1, <2>a, <3>1, <4>2, <4>3
    <3>2. CASE pc' = [pc EXCEPT ![f] = "bad"]
      BY <1>0, <2>a, <3>2
    <3> QED  BY <2>2, <3>1, <3>2 DEF DescribeOne
  <2>3. CASE BeginWait(f)
    BY <1>0, <1>1, <2>0, <2>a, <2>3 DEF BeginWait, FlowsKnow
  <2>4. CASE Poll(f)
    <3>1. ASSUME NEW p \in asked[f] PROVE EndedFor(f[1], p)
      <4>1. PICK d \in Jobs : parent[d] = f[1] /\ PairOf[d] = p
        BY <2>a, <2>4, <3>1 DEF Poll, AskedFor
      <4>2. dstatus[d] \notin LiveJob
        BY <2>4, <4>1 DEF Poll, JobsNotDone
      <4>3. dstatus[d] \in DoneJob \cup {"CANCELED"}
        BY <1>0, <4>1, <4>2, TypeParts DEF SeqInv, DescribeTypes, JobStatus, HistoryKept
      <4> QED  BY <1>0, <4>1, <4>3 DEF HistoryKept, EndedFor
    <3>2. pc'[f] = "create" /\ pc[f] = "wait"
      BY <1>0, <2>4 DEF Poll
    <3>3. f \in described'
      BY <3>1, <3>2 DEF Observe
    <3> QED  BY <2>0, <2>a, <3>2, <3>3 DEF FlowsKnow
  <2>5. CASE WatchScanJobs(f)
    <3>1. CASE at[f] < parts[f[1]] /\ run[<<f, at[f] + 1>>] \in EndedRun
      <4>1. <<f, at[f] + 1>> \in Runs
        BY <1>0, <2>a, <3>1, SequencesAssumption DEF Runs
      <4>2. <<f, at[f] + 1>> \in ranOut
        BY <1>0, <3>1, <4>1 DEF RunsWereMade
      <4>3. pc' = pc /\ pc[f] = "watch" /\ at'[f] = at[f] + 1
        BY <1>0, <2>5, <3>1 DEF WatchScanJobs
      <4>4. \A k \in 1 .. at[f] + 1 : k \in 1 .. at[f] \/ k = at[f] + 1
        BY <1>0
      <4> QED  BY <1>0, <2>0, <2>a, <4>2, <4>3, <4>4 DEF FlowsKnow
    <3>2. CASE at[f] = parts[f[1]] /\ pc' = [pc EXCEPT ![f] = "ok"]
      BY <1>0, <2>0, <2>a, <2>5, <3>2 DEF WatchScanJobs, FlowsKnow
    <3>3. CASE at[f] < parts[f[1]] /\ run[<<f, at[f] + 1>>] \notin EndedRun
      <4>1. pc' = pc /\ pc[f] = "watch" /\ at'[f] = 0
        BY <1>0, <2>5, <3>3 DEF WatchScanJobs
      <4> QED  BY <1>0, <2>0, <2>a, <4>1 DEF FlowsKnow
    <3> QED  BY <1>0, <2>5, <2>a, <3>1, <3>2, <3>3 DEF WatchScanJobs
  <2>6. CASE CreateScanJob(f) \/ MarkScan(f)
    BY <1>0, <2>0, <2>a, <2>6 DEF CreateScanJob, MarkScan, FlowsKnow
  <2>7. CASE EndScan(f) \/ BreakOff(f)
    <3>1. pc'[f] \in {"bad", "gone"}
      BY <1>0, <2>7 DEF EndScan, BreakOff
    <3> QED  BY <2>0, <2>a, <3>1 DEF FlowsKnow
  <2> QED  BY <1>4, <2>0, <2>1, <2>2, <2>3, <2>4, <2>5, <2>6, <2>7 DEF Goroutine, FlowsKnow
<1> QED  BY <1>2, <1>3, <1>4 DEF FlowStep

LEMMA ScansFollow ==
    ASSUME SeqInv, Observe, FlowStep
    PROVE  FinishedWasScanned' /\ OutcomeIsOf'
<1> USE DEF Goto, WriteScan
<1>0. FlowTypes /\ FlowsKnow /\ ranOut \subseteq ranOut' /\ described \subseteq described'
      /\ FinishedWasScanned /\ OutcomeIsOf
  BY TypeParts DEF SeqInv, Observe
<1> USE DEF FlowTypes
<1>1. CASE CheckQuickScanSequence
  <2>1. FinishedWasScanned'
    BY <1>0, <1>1 DEF CheckQuickScanSequence, FinishedWasScanned
  <2>2. \A f \in Flows : pc[f] # "idle" => pc'[f] = pc[f]
    BY <1>1, PairsOfFlows DEF CheckQuickScanSequence, FirstIdle, IdleOf
  <2>3. OutcomeIsOf'
    <3> SUFFICES ASSUME NEW q \in Scans, scan[q] \in Outcome
                 PROVE  \/ <<q, 1>> \in Flows /\ pc'[<<q, 1>>] = "gone"
                        \/ \E g \in 2 .. MaxStarts : pc'[<<q, g>>] # "idle"
      BY <1>1 DEF CheckQuickScanSequence, OutcomeIsOf
    <3>1. CASE <<q, 1>> \in Flows /\ pc[<<q, 1>>] = "gone"
      BY <2>2, <3>1
    <3>2. ASSUME NEW g \in 2 .. MaxStarts, pc[<<q, g>>] # "idle"
          PROVE  pc'[<<q, g>>] # "idle"
      <4>1. <<q, g>> \in Flows
        BY SequencesAssumption DEF Flows
      <4> QED  BY <2>2, <3>2, <4>1
    <3> QED  BY <1>0, <3>1, <3>2 DEF OutcomeIsOf
  <2> QED  BY <2>1, <2>3
<1>2. ASSUME NEW q \in Scans, CreateSequence(q) PROVE FinishedWasScanned' /\ OutcomeIsOf'
  <2>1. /\ scan' = [scan EXCEPT ![q] = "CREATED"] /\ pc' = pc
        /\ \A r \in Scans \ {q} : parts'[r] = parts[r]
    BY <1>0, <1>2 DEF CreateSequence
  <2> QED  BY <1>0, <2>1 DEF FinishedWasScanned, OutcomeIsOf, Outcome
<1>3. ASSUME NEW f \in Flows, Goroutine(f) \/ BreakOff(f)
      PROVE  FinishedWasScanned' /\ OutcomeIsOf'
  <2>0. f[1] \in Scans /\ f[2] \in 1 .. MaxStarts /\ f = <<f[1], f[2]>>
    BY PairsOfFlows
  <2>1. /\ \A q \in Scans \ {f[1]} : scan'[q] = scan[q]
        /\ \A g \in Flows \ {f} : pc'[g] = pc[g]
        /\ pc'[f] # "idle" /\ pc[f] # "gone" /\ parts' = parts
    BY <1>3, <2>0, OtherFlows DEF Idle
  <2>a. scan'[f[1]] \in Outcome /\ scan'[f[1]] # scan[f[1]] =>
           pc'[f] = "gone" /\ (scan'[f[1]] = "FINISHED" => pc[f] = "ok")
    BY <1>0, <1>3, <2>0 DEF Goroutine, BreakOff, StartScan, DescribeOne, BeginWait, Poll,
       CreateScanJob, MarkScan, WatchScanJobs, EndScan, Begun, Outcome
  <2>2. FinishedWasScanned'
    <3> SUFFICES ASSUME NEW q \in Scans, scan'[q] = "FINISHED"
                 PROVE  \E g \in described' : g[1] = q /\ \A k \in 1 .. parts[q] : <<g, k>> \in ranOut'
      BY <2>1 DEF FinishedWasScanned
    <3>1. CASE scan[q] = "FINISHED"
      BY <1>0, <3>1 DEF FinishedWasScanned
    <3>2. CASE scan[q] # "FINISHED"
      <4>1. q = f[1] /\ pc[f] = "ok"
        BY <2>1, <2>a, <3>2 DEF Outcome
      <4>2. f \in described /\ \A k \in 1 .. parts[q] : <<f, k>> \in ranOut
        BY <1>0, <4>1 DEF FlowsKnow, FlowKnows
      <4> QED  BY <1>0, <4>1, <4>2
    <3> QED  BY <3>1, <3>2
  <2>3. ASSUME NEW q \in Scans, scan'[q] \in Outcome
        PROVE  \/ <<q, 1>> \in Flows /\ pc'[<<q, 1>>] = "gone"
               \/ \E g \in 2 .. MaxStarts : pc'[<<q, g>>] # "idle"
    <3>1. CASE q = f[1] /\ f[2] # 1
      <4>1. f[2] \in 2 .. MaxStarts /\ pc'[<<q, f[2]>>] # "idle"
        BY <2>0, <2>1, <3>1
      <4> QED  BY <4>1
    <3>2. CASE q = f[1] /\ f[2] = 1 /\ scan'[q] # scan[q]
      BY <2>0, <2>1, <2>a, <2>3, <3>2
    <3>3. CASE ~(q = f[1] /\ scan'[q] # scan[q]) /\ ~(q = f[1] /\ f[2] # 1)
      <4>1. scan[q] \in Outcome
        BY <2>1, <2>3, <3>3
      <4>2. CASE <<q, 1>> \in Flows /\ pc[<<q, 1>>] = "gone"
        BY <2>1, <4>2
      <4>3. ASSUME NEW g \in 2 .. MaxStarts, pc[<<q, g>>] # "idle" PROVE pc'[<<q, g>>] # "idle"
        <5>1. <<q, g>> \in Flows /\ <<q, g>> # f
          <6>1. <<q, g>> \in Flows
            BY SequencesAssumption DEF Flows
          <6>2. <<q, g>> # f
            BY <2>0, <3>3
          <6> QED  BY <6>1, <6>2
        <5> QED  BY <2>1, <4>3, <5>1
      <4> QED  BY <1>0, <4>1, <4>2, <4>3 DEF OutcomeIsOf
    <3> QED  BY <3>1, <3>2, <3>3
  <2> QED  BY <2>2, <2>3 DEF OutcomeIsOf
<1> QED  BY <1>1, <1>2, <1>3 DEF FlowStep

---------------------------------------------------------------------------
(* The compliance jobs of the scans. *)

\* The rows and messages of a job that was not made.
Unmade(f) ==
    /\ run[f] = "NONE" /\ f \notin queue \cup working /\ reports[f] = <<>>
    /\ sending # <<f, "listed">> /\ sending # <<f, "sent">>

LEMMA NoneIsNoSending ==
    ASSUME NEW f \in Runs
    PROVE  /\ <<f, "listed">> \in Sendings /\ <<f, "sent">> \in Sendings
           /\ None # <<f, "listed">> /\ None # <<f, "sent">>
BY NoSending DEF Sendings

LEMMA RunPublisherKeeps ==
    ASSUME SeqInv, RunPublisher
    PROVE  RunTypes' /\ \A f \in Runs : /\ run'[f] = "NONE" <=> run[f] = "NONE"
                                        /\ run[f] = "NONE" => Unmade(f)'
<1>0. RunTypes /\ RunsWereMade
  BY TypeParts DEF SeqInv
<1> USE DEF RunTypes, RunsWereMade, Unmade
<1>1. CASE BeginRunRound
  <2>1. run' = SweptRuns /\ UNCHANGED <<old, sent, queue, working, reports>>
        /\ \/ \E f \in Runs : run'[f] = "CREATED" /\ sending' = <<f, "listed">>
           \/ UNCHANGED sending
    BY <1>1 DEF BeginRunRound
  <2>2. run' \in [Runs -> RunStatus] /\ \A f \in Runs : run'[f] = "NONE" <=> run[f] = "NONE"
    BY <1>0, <2>1 DEF SweptRuns, RunStatus, LiveRun, EndedRun
  <2>3. sending' \in {None} \cup Sendings
    BY <1>0, <2>1, NoneIsNoSending
  <2>4. \A f \in Runs : run'[f] = "NONE" => sending' # <<f, "listed">> /\ sending' # <<f, "sent">>
    BY <1>0, <2>1, <2>2
  <2> QED  BY <1>0, <2>1, <2>2, <2>3, <2>4
<1>2. ASSUME NEW f \in Runs, ProduceRun(f) PROVE RunTypes' /\ \A g \in Runs :
          (run'[g] = "NONE" <=> run[g] = "NONE") /\ (run[g] = "NONE" => Unmade(g)')
  <2>1. run[f] # "NONE" /\ sending = <<f, "listed">>
    BY <1>0, <1>2 DEF ProduceRun
  <2>2. run' = run \/ run' = [run EXCEPT ![f] = "FAILED"]
    BY <1>2 DEF ProduceRun, TryWriteRun, WriteRun
  <2>3. run' \in [Runs -> RunStatus] /\ \A g \in Runs : run'[g] = "NONE" <=> run[g] = "NONE"
    BY <1>0, <2>1, <2>2 DEF RunStatus, EndedRun
  <2>4. /\ UNCHANGED <<old, working, reports>>
        /\ queue' \subseteq queue \cup {f} /\ sent' \subseteq sent \cup {f}
        /\ sending' = None \/ sending' = <<f, "sent">>
    BY <1>2 DEF ProduceRun, StoreRun
  <2>5. RunTypes'
    BY <1>0, <2>3, <2>4, NoneIsNoSending
  <2>6. \A g \in Runs \ {f} : sending' # <<g, "listed">> /\ sending' # <<g, "sent">>
    <3>1. CASE sending' = None
      BY <3>1, NoneIsNoSending
    <3>2. CASE sending' = <<f, "sent">>
      BY <3>2
    <3> QED  BY <2>4, <3>1, <3>2
  <2>7. \A g \in Runs : run[g] = "NONE" => g # f
    BY <2>1
  <2> QED  BY <1>0, <2>3, <2>4, <2>5, <2>6, <2>7
<1>3. ASSUME NEW f \in Runs, WriteRunQueued(f) PROVE RunTypes' /\ \A g \in Runs :
          (run'[g] = "NONE" <=> run[g] = "NONE") /\ (run[g] = "NONE" => Unmade(g)')
  <2>1. run[f] # "NONE"
    BY <1>0, <1>3 DEF WriteRunQueued
  <2>2. run' = run \/ run' = [run EXCEPT ![f] = "QUEUED"]
    BY <1>3 DEF WriteRunQueued, TryWriteRun, WriteRun
  <2>3. run' \in [Runs -> RunStatus] /\ \A g \in Runs : run'[g] = "NONE" <=> run[g] = "NONE"
    BY <1>0, <2>1, <2>2 DEF RunStatus, LiveRun
  <2>4. UNCHANGED <<old, sent, queue, working, reports>> /\ sending' = None
    BY <1>3 DEF WriteRunQueued
  <2> QED  BY <1>0, <2>3, <2>4, NoneIsNoSending
<1> QED  BY <1>1, <1>2, <1>3 DEF RunPublisher

LEMMA RunStepKeeps ==
    ASSUME SeqInv, RunStep
    PROVE  RunTypes' /\ \A f \in Runs : /\ run'[f] = "NONE" <=> run[f] = "NONE"
                                        /\ run[f] = "NONE" => Unmade(f)'
<1>0. RunTypes /\ RunsWereMade
  BY TypeParts DEF SeqInv
<1> USE DEF RunTypes, RunsWereMade, Unmade
<1>1. ASSUME NEW f \in Runs, Age(f) \/ RunWorker(f) \/ ConsumeRunResult(f) \/ CancelRun(f)
      PROVE  RunTypes' /\ \A g \in Runs : /\ run'[g] = "NONE" <=> run[g] = "NONE"
                                          /\ run[g] = "NONE" => Unmade(g)'
  <2>1. /\ run[f] # "NONE" /\ UNCHANGED <<sending, sent>> /\ old' \subseteq old \cup {f}
        /\ queue' \subseteq queue /\ working' \subseteq working \cup {f}
    BY <1>0, <1>1 DEF Age, RunWorker, TakeRun, FinishRun, WorkerDies, ConsumeRunResult, CancelRun
  <2>2. /\ reports' \in [Runs -> Seq(Reported)] /\ \A g \in Runs \ {f} : reports'[g] = reports[g]
        /\ \E s \in RunStatus \ {"NONE"} : run' = run \/ run' = [run EXCEPT ![f] = s]
    <3>1. CASE Age(f) \/ WorkerDies(f) \/ CancelRun(f)
      BY <1>0, <3>1 DEF Age, WorkerDies, CancelRun, WriteRun, RunStatus, EndedRun
    <3>2. CASE TakeRun(f) \/ FinishRun(f)
      <4>1. PICK s \in Reported : reports' = [reports EXCEPT ![f] = Append(@, s)] \/ reports' = reports
        BY <3>2 DEF TakeRun, FinishRun, ReportRun, Reported
      <4>2. run' = run
        BY <3>2 DEF TakeRun, FinishRun
      <4>3. Append(reports[f], s) \in Seq(Reported)
        BY <1>0, AppendProperties
      <4>4. "CREATED" \in RunStatus \ {"NONE"}
        BY DEF RunStatus, LiveRun
      <4> QED  BY <1>0, <4>1, <4>2, <4>3, <4>4
    <3>3. CASE ConsumeRunResult(f)
      <4>1. /\ reports[f] # <<>> /\ reports' = [reports EXCEPT ![f] = Tail(@)]
            /\ run' = run \/ run' = [run EXCEPT ![f] = Head(reports[f])]
        BY <3>3 DEF ConsumeRunResult, TryWriteRun, WriteRun
      <4>2. reports[f] \in Seq(Reported)
        BY <1>0
      <4>3. Head(reports[f]) \in Reported /\ Tail(reports[f]) \in Seq(Reported)
        BY <4>1, <4>2, HeadTailProperties
      <4>4. Head(reports[f]) \in RunStatus \ {"NONE"}
        BY <4>3 DEF RunStatus, LiveRun, EndedRun, Reported
      <4> QED  BY <1>0, <4>1, <4>3, <4>4
    <3> QED  BY <1>1, <3>1, <3>2, <3>3 DEF RunWorker
  <2>3. run' \in [Runs -> RunStatus] /\ \A g \in Runs : run'[g] = "NONE" <=> run[g] = "NONE"
    BY <1>0, <2>1, <2>2
  <2>4. RunTypes'
    BY <1>0, <2>1, <2>2, <2>3
  <2> QED  BY <1>0, <2>1, <2>2, <2>3, <2>4
<1> QED  BY <1>1, RunPublisherKeeps DEF RunStep

\* The ghosts know the jobs that have ended.
LEMMA RunsFollow ==
    ASSUME SeqInv, Observe, RunTypes', \A r \in Runs : run'[r] = "NONE" => Unmade(r)'
    PROVE  RunsWereMade'
BY DEF RunsWereMade, Unmade, Observe, RunTypes

LEMMA FlowStepRuns ==
    ASSUME SeqInv, Observe, FlowStep
    PROVE  RunTypes' /\ RunsWereMade'
<1>0. RunTypes /\ RunsWereMade
  BY TypeParts DEF SeqInv
<1>1. CASE UNCHANGED runVars
  <2>1. RunTypes' /\ \A r \in Runs : run'[r] = "NONE" => Unmade(r)'
    BY <1>0, <1>1 DEF runVars, RunTypes, RunsWereMade, Unmade
  <2> QED  BY <2>1, RunsFollow
<1>2. ASSUME NEW f \in Flows, CreateScanJob(f)
      PROVE  RunTypes' /\ RunsWereMade'
  <2>1. /\ run' = [run EXCEPT ![<<f, at[f] + 1>>] = "CREATED"]
        /\ UNCHANGED <<old, sending, sent, queue, working, reports>>
    BY <1>2 DEF CreateScanJob
  <2>2. RunTypes'
    BY <1>0, <2>1 DEF RunTypes, RunStatus, LiveRun
  <2>3. \A r \in Runs : run'[r] = "NONE" => run[r] = "NONE"
    BY <1>0, <2>1 DEF RunTypes
  <2>4. \A r \in Runs : run'[r] = "NONE" => Unmade(r)'
    BY <1>0, <2>1, <2>3 DEF RunsWereMade, Unmade
  <2> QED  BY <2>2, <2>4, RunsFollow
<1>3. UNCHANGED runVars \/ \E f \in Flows : CreateScanJob(f)
  BY DEF FlowStep, CheckQuickScanSequence, CreateSequence, Goroutine, BreakOff,
     StartScan, DescribeOne, BeginWait, Poll, MarkScan, WatchScanJobs, EndScan
<1> QED  BY <1>1, <1>2, <1>3

---------------------------------------------------------------------------
(* The loop over job sequences. *)

LEMMA LoopStepKeeps ==
    ASSUME SeqInv, Observe, LoopStep
    PROVE  LoopTypes' /\ LoopHasWaiting' /\ RunnersAccounted'
<1>0. LoopTypes /\ GhostTypes /\ GhostTypes' /\ LoopHasWaiting /\ RunnersAccounted
  BY TypeParts, GhostTypesKept DEF SeqInv
<1>00. None \notin Seqs /\ ended \subseteq ended' /\ (\A x \in Seqs : torn[x] <= torn'[x])
  BY <1>0, SequencesAssumption DEF Observe, GhostTypes
<1> USE DEF LoopTypes, GhostTypes, LoopHasWaiting, RunnersAccounted, Waiting
<1>1. CASE ListSequences
  BY <1>0, <1>00, <1>1 DEF ListSequences
<1>2. ASSUME NEW x \in Seqs, NextSequence(x)
      PROVE  LoopTypes' /\ LoopHasWaiting' /\ RunnersAccounted'
  BY <1>0, <1>00, <1>2 DEF NextSequence
<1>3. ASSUME NEW d \in Jobs, CheckDependency(d)
      PROVE  LoopTypes' /\ LoopHasWaiting' /\ RunnersAccounted'
  <2>1. dstatus[d] \in DoneJob => d \in ended
    BY DEF SeqInv, HistoryKept
  <2> QED  BY <1>0, <1>00, <1>3, <2>1 DEF CheckDependency, Leave
<1>4. CASE BeginNextJob
  BY <1>0, <1>00, <1>4 DEF BeginNextJob
<1>5. CASE InsertRunners
  <2>1. cur \in Seqs /\ seq[cur] = "WaitingForDependencies" /\ phase = "insert"
        /\ made' = [made EXCEPT ![cur] = @ + 1] /\ phase' = "mark"
        /\ UNCHANGED <<seq, deps, batch, cur, left>>
    BY <1>0, <1>5 DEF InsertRunners
  <2>2. LoopTypes' /\ LoopHasWaiting'
    BY <1>0, <1>00, <2>1
  <2>3. \A x \in Seqs : torn'[x] = torn[x]
    BY <2>1 DEF Observe
  <2> QED  BY <1>0, <2>1, <2>2, <2>3
<1>6. CASE NoRunners \/ MarkSequence
  <2>1. /\ cur \in Seqs /\ seq' = [seq EXCEPT ![cur] = "FINISHED"] /\ UNCHANGED <<deps, batch, made>>
        /\ cur' = None /\ left' = {} /\ phase' = "check"
    BY <1>0, <1>6 DEF NoRunners, MarkSequence, Leave
  <2> QED  BY <1>0, <1>00, <2>1
<1>7. CASE FailSequence \/ AbortRound
  <2>1. /\ cur \in Seqs /\ UNCHANGED <<deps, made>> /\ batch' \subseteq batch
        /\ seq' = seq \/ seq' = [seq EXCEPT ![cur] = "Failed"]
        /\ cur' = None /\ left' = {} /\ phase' = "check"
    BY <1>0, <1>7 DEF FailSequence, AbortRound, Leave
  <2>2. /\ LoopTypes' /\ LoopHasWaiting' /\ seq[cur] # "FINISHED"
        /\ \A x \in Seqs : seq[x] = "FINISHED" => seq'[x] = "FINISHED"
    BY <1>0, <1>00, <2>1
  <2>3. phase = "mark" => torn'[cur] = torn[cur] + 1
    BY <1>0, <2>1, <2>2 DEF Observe
  <2> QED  BY <1>0, <1>00, <2>1, <2>2, <2>3
<1>8. ASSUME NEW x \in Seqs, CreateJobSequence(x)
      PROVE  LoopTypes' /\ LoopHasWaiting' /\ RunnersAccounted'
  <2>1. PICK D \in SUBSET Jobs : deps' = [deps EXCEPT ![x] = D]
    BY <1>8 DEF CreateJobSequence
  <2>2. /\ seq[x] = "NONE" /\ seq' = [seq EXCEPT ![x] = "WaitingForDependencies"]
        /\ UNCHANGED <<batch, cur, left, phase, made>>
    BY <1>8 DEF CreateJobSequence, loopVars
  <2> QED  BY <1>0, <1>00, <2>1, <2>2
<1> QED  BY <1>1, <1>2, <1>3, <1>4, <1>5, <1>6, <1>7, <1>8 DEF LoopStep, SequencerLoop

LEMMA LoopKept ==
    ASSUME SeqInv, Observe, UNCHANGED seqVars
    PROVE  LoopTypes' /\ LoopHasWaiting' /\ RunnersAccounted'
<1>0. LoopTypes /\ GhostTypes /\ GhostTypes' /\ LoopHasWaiting /\ RunnersAccounted
  BY TypeParts, GhostTypesKept DEF SeqInv
<1>1. ended \subseteq ended' /\ (\A x \in Seqs : torn[x] <= torn'[x])
  BY <1>0 DEF Observe, GhostTypes
<1> QED  BY <1>0, <1>1 DEF LoopTypes, LoopHasWaiting, RunnersAccounted, Waiting, seqVars, loopVars,
            GhostTypes

LEMMA CrashKeepsLoop ==
    ASSUME SeqInv, Observe, Crash
    PROVE  LoopTypes' /\ LoopHasWaiting' /\ RunnersAccounted'
<1>0. LoopTypes /\ GhostTypes /\ GhostTypes' /\ LoopHasWaiting /\ RunnersAccounted
  BY TypeParts, GhostTypesKept DEF SeqInv
<1>1. /\ UNCHANGED <<seq, deps, made>> /\ batch' = {}
      /\ cur' = None /\ left' = {} /\ phase' = "check"
  BY DEF Crash, Leave
<1>2. LoopTypes' /\ LoopHasWaiting'
  BY <1>0, <1>1 DEF LoopTypes, LoopHasWaiting
<1>3. \A x \in Seqs : torn'[x] = IF cur = x /\ phase = "mark" THEN torn[x] + 1 ELSE torn[x]
  <2>1. cur # None => seq[cur] # "FINISHED"
    BY <1>0 DEF LoopHasWaiting, Waiting
  <2>2. ASSUME NEW x \in Seqs, cur = x /\ phase = "mark" PROVE torn'[x] = torn[x] + 1
    BY <1>1, <2>1, <2>2, SequencesAssumption DEF Observe
  <2>3. ASSUME NEW x \in Seqs, ~(cur = x /\ phase = "mark") PROVE torn'[x] = torn[x]
    BY <2>3 DEF Observe
  <2> QED  BY <2>2, <2>3
<1> QED  BY <1>0, <1>1, <1>2, <1>3 DEF LoopTypes, GhostTypes, RunnersAccounted

---------------------------------------------------------------------------
(* The invariant. *)

LEMMA RunsKept ==
    ASSUME SeqInv, Observe, UNCHANGED run, working' \subseteq working, queue' \subseteq queue,
           UNCHANGED <<old, sent, reports>>, sending' = sending \/ sending' = None
    PROVE  RunTypes' /\ RunsWereMade'
<1>0. RunTypes /\ RunsWereMade
  BY TypeParts DEF SeqInv
<1>1. RunTypes' /\ \A r \in Runs : run'[r] = "NONE" => Unmade(r)'
  BY <1>0, NoneIsNoSending DEF RunTypes, RunsWereMade, Unmade
<1> QED  BY <1>1, RunsFollow

LEMMA SeqInvStep ==
    ASSUME SeqInv, [Next]_vars
    PROVE  SeqInv'
<1>1. CASE UNCHANGED vars
  <2> USE DEF vars, describeVars, flowVars, runVars, loopVars, seqVars
  <2>1. TypeOK'
    BY <1>1 DEF SeqInv, TypeOK
  <2>2. HistoryKept' /\ FinishedWasScanned' /\ OutcomeIsOf' /\ RunsWereMade'
    BY <1>1 DEF SeqInv, HistoryKept, FinishedWasScanned, OutcomeIsOf, RunsWereMade
  <2>3. FlowsKnow'
    BY <1>1 DEF SeqInv, FlowsKnow, FlowKnows, AskedFor
  <2>4. LoopHasWaiting' /\ RunnersAccounted'
    BY <1>1 DEF SeqInv, LoopHasWaiting, Waiting, RunnersAccounted
  <2> QED  BY <2>1, <2>2, <2>3, <2>4 DEF SeqInv
<1>2. CASE Step /\ Observe
  <2>0. up \in BOOLEAN /\ FlowTypes
    BY TypeParts DEF SeqInv
  <2>1. up' \in BOOLEAN
    <3>1. up' = up \/ up' = TRUE \/ up' = FALSE
      BY <1>2 DEF Step, CheckQuickScanSequence, RunPublisher, BeginRunRound, ProduceRun,
         WriteRunQueued, SequencerLoop, ListSequences, BeginNextJob, InsertRunners, NoRunners,
         MarkSequence, FailSequence, AbortRound, NextSequence, CheckDependency, Crash, Boot,
         DescribeForOthers, JobStep, JobComesBack, Settle, CreateSequence, Goroutine, StartScan,
         DescribeOne, BeginWait, Poll, CreateScanJob, MarkScan, WatchScanJobs, EndScan, BreakOff,
         Age, RunWorker, TakeRun, FinishRun, WorkerDies, ConsumeRunResult, CancelRun,
         CreateJobSequence
    <3> QED  BY <3>1, <2>0, Zenon
  <2>2. GhostTypes'
    BY <1>2, GhostTypesKept DEF SeqInv
  <2>3. DescribeStep \/ FlowStep \/ LoopStep \/ UNCHANGED describeVars
    BY <1>2, StepParts DEF RunStep, RunPublisher, BeginRunRound, ProduceRun, WriteRunQueued, Age,
       RunWorker, TakeRun, FinishRun, WorkerDies, ConsumeRunResult, CancelRun, Crash, Boot
  <2>4. DescribeTypes' /\ NeverForgotten /\ HistoryKept'
    BY <1>2, <2>3, DescribeTypesKept, HistoryStays
  <2>5. CASE DescribeStep
    <3>1. UNCHANGED <<flowVars, runVars, seqVars>>
      BY <2>5 DEF DescribeStep, DescribeForOthers, JobStep, JobComesBack, Settle
    <3>2. FlowTypes' /\ FlowsKnow' /\ FinishedWasScanned' /\ OutcomeIsOf'
      BY <1>2, <2>0, <2>4, <3>1, FlowsKnowStill, ScansKept DEF flowVars, FlowTypes
    <3>3. RunTypes' /\ RunsWereMade'
      BY <1>2, <3>1, RunsKept DEF runVars
    <3> QED  BY <1>2, <2>1, <2>2, <2>4, <3>1, <3>2, <3>3, LoopKept, TypePartsNext DEF SeqInv
  <2>6. CASE FlowStep
    <3>1. UNCHANGED seqVars
      BY <2>6 DEF FlowStep, CheckQuickScanSequence, CreateSequence, Goroutine, StartScan,
         DescribeOne, BeginWait, Poll, CreateScanJob, MarkScan, WatchScanJobs, EndScan, BreakOff
    <3>2. FlowTypes' /\ FlowsKnow' /\ FinishedWasScanned' /\ OutcomeIsOf'
      BY <1>2, <2>4, <2>6, FlowTypesKept, FlowsKnowKept, ScansFollow
    <3> QED  BY <1>2, <2>1, <2>2, <2>4, <2>6, <3>1, <3>2, FlowStepRuns, LoopKept, TypePartsNext
             DEF SeqInv
  <2>7. CASE RunStep
    <3>1. UNCHANGED <<flowVars, seqVars>>
      BY <2>7 DEF RunStep, RunPublisher, BeginRunRound, ProduceRun, WriteRunQueued, Age,
         RunWorker, TakeRun, FinishRun, WorkerDies, ConsumeRunResult, CancelRun
    <3>2. FlowTypes' /\ FlowsKnow' /\ FinishedWasScanned' /\ OutcomeIsOf'
      BY <1>2, <2>0, <2>4, <3>1, FlowsKnowStill, ScansKept DEF flowVars, FlowTypes
    <3>3. RunTypes' /\ RunsWereMade'
      BY <1>2, <2>7, RunStepKeeps, RunsFollow
    <3> QED  BY <1>2, <2>1, <2>2, <2>4, <3>1, <3>2, <3>3, LoopKept, TypePartsNext DEF SeqInv
  <2>8. CASE LoopStep
    <3>1. UNCHANGED <<flowVars, runVars>>
      BY <2>8 DEF LoopStep, SequencerLoop, ListSequences, BeginNextJob, InsertRunners, NoRunners,
         MarkSequence, FailSequence, AbortRound, NextSequence, CheckDependency, CreateJobSequence
    <3>2. FlowTypes' /\ FlowsKnow' /\ FinishedWasScanned' /\ OutcomeIsOf'
      BY <1>2, <2>0, <2>4, <3>1, FlowsKnowStill, ScansKept DEF flowVars, FlowTypes
    <3>3. RunTypes' /\ RunsWereMade'
      BY <1>2, <3>1, RunsKept DEF runVars
    <3> QED  BY <1>2, <2>1, <2>2, <2>4, <2>8, <3>2, <3>3, LoopStepKeeps, TypePartsNext DEF SeqInv
  <2>9. CASE Boot
    <3>1. UNCHANGED <<describeVars, flowVars, runVars, seqVars>>
      BY <2>9 DEF Boot
    <3>2. FlowTypes' /\ FlowsKnow' /\ FinishedWasScanned' /\ OutcomeIsOf'
      BY <1>2, <2>0, <2>4, <3>1, FlowsKnowStill, ScansKept DEF flowVars, FlowTypes
    <3>3. RunTypes' /\ RunsWereMade'
      BY <1>2, <3>1, RunsKept DEF runVars
    <3> QED  BY <1>2, <2>1, <2>2, <2>4, <3>1, <3>2, <3>3, LoopKept, TypePartsNext DEF SeqInv
  <2>10. CASE Crash
    <3>1. /\ pc' = [f \in Flows |-> IF pc[f] = "idle" THEN "idle" ELSE "gone"]
          /\ UNCHANGED <<scan, parts, asked, todo, at, run, old, sent, queue, working, reports>>
          /\ sending' = None
      BY <2>10 DEF Crash
    <3>2. FlowTypes' /\ FlowsKnow' /\ FinishedWasScanned'
      <4>1. ranOut \subseteq ranOut' /\ described \subseteq described'
        BY <1>2 DEF Observe
      <4>2. \A f \in Flows : pc'[f] \in Idle /\ (pc'[f] = "idle" <=> pc[f] = "idle")
        BY <3>1 DEF Idle
      <4>3. FlowsKnow'
        BY <3>1, <4>2 DEF FlowsKnow, FlowKnows, Idle, SeqInv
      <4> QED  BY <2>0, <3>1, <4>1, <4>3 DEF FlowTypes, Idle, FinishedWasScanned, SeqInv
    <3>3. OutcomeIsOf'
      <4>1. \A q \in Scans, g \in 1 .. MaxStarts : <<q, g>> \in Flows
        BY DEF Flows
      <4>2. \A g \in 2 .. MaxStarts : g \in 1 .. MaxStarts
        BY SequencesAssumption
      <4> QED  BY <3>1, <4>1, <4>2 DEF SeqInv, OutcomeIsOf
    <3>4. RunTypes' /\ RunsWereMade'
      BY <1>2, <3>1, RunsKept
    <3> QED  BY <1>2, <2>1, <2>2, <2>4, <2>10, <3>2, <3>3, <3>4, CrashKeepsLoop, TypePartsNext
             DEF SeqInv
  <2> QED  BY <1>2, <2>5, <2>6, <2>7, <2>8, <2>9, <2>10, StepParts
<1> QED  BY <1>1, <1>2 DEF Next

LEMMA SequencesInvariant == Spec => []SeqInv
<1>1. ASSUME Init PROVE SeqInv
  <2>1. TypeOK
    <3>1. <<>> \in Seq(Reported) /\ up \in BOOLEAN
      BY <1>1, EmptySeq DEF Init
    <3>2. DescribeTypes /\ FlowTypes /\ GhostTypes
      BY <1>1, SequencesAssumption DEF Init, DescribeTypes, FlowTypes, GhostTypes, JobStatus, Idle
    <3>3. RunTypes /\ LoopTypes
      BY <1>1, <3>1 DEF Init, RunTypes, LoopTypes, RunStatus
    <3> QED  BY <3>1, <3>2, <3>3, TypeParts
  <2>2. HistoryKept /\ FlowsKnow /\ FinishedWasScanned
    BY <1>1 DEF Init, HistoryKept, FlowsKnow, FlowKnows, FinishedWasScanned, DoneJob
  <2>3. OutcomeIsOf
    BY <1>1 DEF Init, OutcomeIsOf, Outcome
  <2>4. RunsWereMade
    BY <1>1, NoneIsNoSending DEF Init, RunsWereMade, EndedRun
  <2>5. LoopHasWaiting /\ RunnersAccounted
    BY <1>1 DEF Init, LoopHasWaiting, RunnersAccounted
  <2> QED  BY <2>1, <2>2, <2>3, <2>4, <2>5 DEF SeqInv
<1> QED  BY <1>1, SeqInvStep, PTL DEF Spec

\* Quick scans, their compliance jobs and job sequences keep their types.
THEOREM TypeCorrect == Spec => []TypeOK
BY SequencesInvariant, PTL DEF SeqInv

\* A FINISHED quick scan has a goroutine that went on after a job had ended for all it asked
\* for, and all compliance jobs of that goroutine, however many or few, have ended.
THEOREM FinishedScanned == Spec => []FinishedWasScanned
BY SequencesInvariant, PTL DEF SeqInv

\* Runners of a sequence are inserted once, and once more for every mark that was lost.
THEOREM RunnersCounted == Spec => []RunnersAccounted
BY SequencesInvariant, PTL DEF SeqInv

\* Runners are inserted after the describe jobs they depend on have ended.
THEOREM DependenciesFirst == Spec => NextJobAfterDependencies
<1>1. ASSUME SeqInv, Next, NEW x \in Seqs, made'[x] # made[x] PROVE deps[x] \subseteq ended
  <2>1. CASE InsertRunners
    <3>1. cur = x /\ left = {} /\ cur # None
      BY <1>1, <2>1 DEF InsertRunners, SeqInv, TypeOK, LoopHasWaiting
    <3> QED  BY <1>1, <3>1 DEF SeqInv, LoopHasWaiting
  <2>2. CASE ~InsertRunners
    BY <1>1, <2>2 DEF Next, Step, CheckQuickScanSequence, RunPublisher, BeginRunRound, ProduceRun,
         WriteRunQueued, SequencerLoop, ListSequences, BeginNextJob, NoRunners,
         MarkSequence, FailSequence, AbortRound, NextSequence, CheckDependency, Crash, Boot,
         DescribeForOthers, JobStep, JobComesBack, Settle, CreateSequence, Goroutine, StartScan,
         DescribeOne, BeginWait, Poll, CreateScanJob, MarkScan, WatchScanJobs, EndScan, BreakOff,
         Age, RunWorker, TakeRun, FinishRun, WorkerDies, ConsumeRunResult, CancelRun,
         CreateJobSequence, seqVars
  <2> QED  BY <2>1, <2>2
<1>2. SeqInv /\ [Next]_vars => [\A x \in Seqs : made'[x] # made[x] => deps[x] \subseteq ended]_vars
  BY <1>1
<1> QED  BY <1>2, SequencesInvariant, PTL DEF Spec, NextJobAfterDependencies

\* What changes the row of a scan, and who.
LEMMA ScanChanges ==
    ASSUME TypeOK, Step, NEW q \in Scans, scan'[q] # scan[q]
    PROVE  \/ scan[q] = "NONE"
           \/ \E f \in Flows : f[1] = q /\ pc[f] \notin Idle
<1> USE DEF Goto, WriteScan
<1>0. FlowTypes
  BY TypeParts
<1>1. CASE FlowStep
  <2>1. ASSUME NEW r \in Scans, CreateSequence(r) PROVE scan[q] = "NONE"
    BY <1>0, <2>1 DEF CreateSequence, FlowTypes
  <2>2. ASSUME NEW f \in Flows, Goroutine(f) \/ BreakOff(f) PROVE f[1] = q /\ pc[f] \notin Idle
    BY <1>0, <2>2 DEF Goroutine, StartScan, DescribeOne, BeginWait, Poll, CreateScanJob, MarkScan,
       WatchScanJobs, EndScan, BreakOff, FlowTypes, Idle
  <2> QED  BY <1>1, <2>1, <2>2 DEF FlowStep, CheckQuickScanSequence
<1>2. CASE ~FlowStep
  BY <1>2, StepParts DEF DescribeStep, DescribeForOthers, JobStep, JobComesBack, Settle, RunStep,
     RunPublisher, BeginRunRound, ProduceRun, WriteRunQueued, Age, RunWorker, TakeRun, FinishRun,
     WorkerDies, ConsumeRunResult, CancelRun, LoopStep, SequencerLoop, ListSequences,
     BeginNextJob, InsertRunners, NoRunners, MarkSequence, FailSequence, AbortRound,
     NextSequence, CheckDependency, CreateJobSequence, Crash, Boot, flowVars
<1> QED  BY <1>1, <1>2

\* An outcome is overwritten only by a second goroutine.
THEOREM OutcomeKept == Spec => OutcomeStays
<1>1. ASSUME SeqInv, Next, NEW q \in Scans, scan[q] \in Outcome, scan'[q] # scan[q]
      PROVE  \E g \in 2 .. MaxStarts : pc[<<q, g>>] # "idle"
  <2>1. PICK f \in Flows : f[1] = q /\ pc[f] \notin Idle
    BY <1>1, ScanChanges DEF SeqInv, Next, Outcome
  <2>2. f[2] \in 1 .. MaxStarts /\ f = <<q, f[2]>>
    BY <2>1, PairsOfFlows
  <2>3. CASE f[2] = 1
    BY <1>1, <2>1, <2>2, <2>3 DEF SeqInv, OutcomeIsOf, Idle
  <2>4. CASE f[2] # 1
    <3>1. f[2] \in 2 .. MaxStarts
      BY <2>2, <2>4, SequencesAssumption
    <3> QED  BY <2>1, <2>2, <3>1 DEF Idle
  <2> QED  BY <2>3, <2>4
<1>2. SeqInv /\ [Next]_vars =>
         [\A q \in Scans : scan[q] \in Outcome /\ scan'[q] # scan[q] =>
             \E g \in 2 .. MaxStarts : pc[<<q, g>>] # "idle"]_vars
  BY <1>1
<1> QED  BY <1>2, SequencesInvariant, PTL DEF Spec, OutcomeStays

\* A scan whose goroutines are gone keeps its status for ever.
THEOREM OrphansStay == Spec => OrphanStays
<1>1. ASSUME TypeOK, Step, NEW q \in Scans, Orphan(q) PROVE Orphan(q)' /\ scan'[q] = scan[q]
  <2> USE DEF Goto, WriteScan
  <2>0. FlowTypes /\ \A g \in 1 .. MaxStarts : <<q, g>> \in Flows
    BY <1>1, TypeParts DEF Flows
  <2>1. scan'[q] = scan[q]
    <3>1. scan[q] # "NONE"
      BY <1>1 DEF Orphan, Begun
    <3>2. \A f \in Flows : f[1] = q => pc[f] \in Idle
      BY <1>1, PairsOfFlows DEF Orphan
    <3> QED  BY <1>1, <3>1, <3>2, ScanChanges
  <2>2. ASSUME NEW g \in 1 .. MaxStarts PROVE pc'[<<q, g>>] \in Idle
    <3>0. pc[<<q, g>>] \in Idle /\ scan[q] # "CREATED" /\ <<q, g>> \in Flows
      BY <1>1, <2>0, <2>2 DEF Orphan, Begun
    <3>1. CASE CheckQuickScanSequence
      BY <3>0, <3>1 DEF CheckQuickScanSequence
    <3>2. ASSUME NEW f \in Flows, Goroutine(f) \/ BreakOff(f) PROVE pc'[<<q, g>>] = pc[<<q, g>>]
      <4>1. pc[f] \notin Idle \/ pc' = pc
        BY <3>2 DEF Goroutine, StartScan, DescribeOne, BeginWait, Poll, CreateScanJob, MarkScan,
           WatchScanJobs, EndScan, BreakOff, Idle
      <4>2. \E l : pc' = [pc EXCEPT ![f] = l] \/ pc' = pc
        BY <3>2 DEF Goroutine, StartScan, DescribeOne, BeginWait, Poll, CreateScanJob, MarkScan,
           WatchScanJobs, EndScan, BreakOff
      <4> QED  BY <2>0, <3>0, <4>1, <4>2 DEF FlowTypes
    <3>3. ASSUME NEW r \in Scans, CreateSequence(r) PROVE pc' = pc
      BY <3>3 DEF CreateSequence
    <3>4. CASE Crash
      BY <3>0, <3>4 DEF Crash, Idle
    <3>5. CASE ~FlowStep /\ ~Crash
      BY <1>1, <3>0, <3>5, StepParts DEF DescribeStep, DescribeForOthers, JobStep, JobComesBack,
         Settle, RunStep, RunPublisher, BeginRunRound, ProduceRun, WriteRunQueued, Age, RunWorker,
         TakeRun, FinishRun, WorkerDies, ConsumeRunResult, CancelRun, LoopStep, SequencerLoop,
         ListSequences, BeginNextJob, InsertRunners, NoRunners, MarkSequence, FailSequence,
         AbortRound, NextSequence, CheckDependency, CreateJobSequence, Boot, flowVars
    <3> QED  BY <3>0, <3>1, <3>2, <3>3, <3>4, <3>5 DEF FlowStep
  <2> QED  BY <1>1, <2>1, <2>2 DEF Orphan
<1>2. TypeOK /\ [Next]_vars =>
         [\A q \in Scans : Orphan(q) => Orphan(q)' /\ scan'[q] = scan[q]]_vars
  BY <1>1 DEF Next
<1> QED  BY <1>2, TypeCorrect, PTL DEF Spec, OrphanStays

---------------------------------------------------------------------------
(* The describe jobs are rows of DescribeTable. *)

RowsStep == [Rows!TableNext]_(Rows!tableVars)

LEMMA RowsStepByStep ==
    ASSUME SeqInv, Next
    PROVE  RowsStep
<1>0. DescribeTypes /\ Step /\ Observe /\ Rows!Closing
  BY TypeParts DEF SeqInv, Next, Rows!Closing
<1> USE <1>0 DEF DescribeTypes, RowsStep, Rows!TableNext
<1>1. ASSUME NEW D \in SUBSET Jobs, \A d \in D : dstatus[d] = "NONE",
             dstatus' = [d \in Jobs |-> IF d \in D THEN "LIVE" ELSE dstatus[d]]
      PROVE  RowsStep
  BY <1>1 DEF Rows!RowsInserted
<1>2. ASSUME UNCHANGED dstatus PROVE RowsStep
  BY <1>2 DEF Rows!tableVars
<1>3. ASSUME NEW d \in Jobs, dstatus[d] = "NONE", dstatus' = [dstatus EXCEPT ![d] = "LIVE"]
      PROVE  RowsStep
  <2>1. dstatus' = [c \in Jobs |-> IF c \in {d} THEN "LIVE" ELSE dstatus[c]]
    BY <1>3
  <2> QED  BY <1>1, <1>3, <2>1
<1>4. ASSUME NEW d \in Jobs, JobStep(d) PROVE RowsStep
  <2>1. Rows!RowWritten(d) \/ Rows!RowTimedOut(d)
    BY <1>4 DEF JobStep, Rows!RowWritten, Rows!RowTimedOut, Rows!WriteRow, LiveJob, DoneJob
  <2> QED  BY <2>1
<1>5. ASSUME NEW d \in Jobs, JobComesBack(d) PROVE RowsStep
  <2>1. Rows!RowWritten(d) \/ Rows!RowAtWork(d)
    BY <1>5 DEF JobComesBack, Rows!RowWritten, Rows!RowAtWork, Rows!WriteRow, LiveJob, DoneJob
  <2> QED  BY <2>1
<1>6. ASSUME NEW f \in Flows, NEW p \in Pairs, DescribeOne(f, p) PROVE RowsStep
  BY <1>2, <1>3, <1>6 DEF DescribeOne, describeVars
<1>7. ASSUME NEW x \in Seqs, CreateJobSequence(x) PROVE RowsStep
  BY <1>1, <1>7 DEF CreateJobSequence
<1>8. CASE \/ RunStep \/ SequencerLoop \/ Crash \/ Boot
           \/ \E d \in Jobs : Settle(d)
           \/ FlowStep /\ ~\E f \in Flows, p \in Pairs : DescribeOne(f, p)
  <2>1. UNCHANGED dstatus
    BY <1>8 DEF RunStep, RunPublisher, BeginRunRound, ProduceRun, WriteRunQueued, Age, RunWorker,
       TakeRun, FinishRun, WorkerDies, ConsumeRunResult, CancelRun, SequencerLoop, ListSequences,
       BeginNextJob, InsertRunners, NoRunners, MarkSequence, FailSequence, AbortRound,
       NextSequence, CheckDependency, Crash, Boot, Settle, FlowStep, CheckQuickScanSequence,
       CreateSequence, Goroutine, StartScan, BeginWait, Poll, CreateScanJob, MarkScan,
       WatchScanJobs, EndScan, BreakOff, describeVars
  <2> QED  BY <1>2, <2>1
<1> QED  BY <1>3, <1>4, <1>5, <1>6, <1>7, <1>8, StepParts
         DEF DescribeStep, LoopStep, DescribeForOthers

\* What happens to the describe jobs here is what DescribeTable allows.
THEOREM RowsOfTable == Spec => Rows!TableSpec
<1>1. Init => Rows!TableInit
  BY DEF Init, Rows!TableInit
<1>2. SeqInv /\ [Next]_vars => RowsStep
  <2>1. UNCHANGED vars => RowsStep
    BY DEF vars, describeVars, RowsStep, Rows!tableVars
  <2> QED  BY <2>1, RowsStepByStep
<1> QED  BY <1>1, <1>2, SequencesInvariant, PTL DEF Spec, Rows!TableSpec, RowsStep

\* And the other way round: whatever DescribeTable, and so DescribeJob, does to the row of one
\* job while nothing else moves, is a step here.  Scans and sequences are therefore proved
\* correct among all retries, races, late results and cancel requests that DescribeJob has.
THEOREM NoRowStepMissing ==
    ASSUME TypeOK, NEW d \in Jobs,
           \/ Rows!RowsInserted({d}) \/ Rows!RowAtWork(d)
           \/ Rows!RowWritten(d) \/ Rows!RowTimedOut(d),
           UNCHANGED <<up, parent, settled, flowVars, runVars, seqVars>>
    PROVE  UNCHANGED dstatus \/ DescribeForOthers(d) \/ JobStep(d) \/ JobComesBack(d)
<1>0. dstatus \in [Jobs -> JobStatus]
  BY TypeParts DEF DescribeTypes
<1>1. CASE Rows!RowsInserted({d})
  BY <1>0, <1>1 DEF Rows!RowsInserted, DescribeForOthers
<1>2. CASE Rows!RowAtWork(d)
  BY <1>0, <1>2 DEF Rows!RowAtWork, Rows!WriteRow, JobComesBack, JobStatus, LiveJob, DoneJob
<1>3. CASE Rows!RowWritten(d)
  BY <1>0, <1>3 DEF Rows!RowWritten, Rows!WriteRow, JobStep, JobComesBack, JobStatus, LiveJob,
     DoneJob
<1>4. CASE Rows!RowTimedOut(d)
  BY <1>0, <1>4 DEF Rows!RowTimedOut, Rows!WriteRow, JobStep, LiveJob, DoneJob
<1> QED  BY <1>1, <1>2, <1>3, <1>4
=============================================================================
