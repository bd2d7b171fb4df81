--------------------------- MODULE MCJobSequences ---------------------------
(* JobSequences with a quick scan of two pairs and a job sequence on one or two jobs. *)
EXTENDS JobSequences

CONSTANTS q1, x1, x2, d1, d2, p1, p2

OneScan == {q1}
TwoSeqs == {x1, x2}
OnlyFirst == {x1}
TwoJobs == {d1, d2}
TwoPairs == {p1, p2}
PairOfJob == [d \in TwoJobs |-> IF d = d2 THEN p2 ELSE p1]
NeedsBoth == [q \in OneScan |-> TwoPairs]
WantsBoth == [x \in TwoSeqs |-> TwoPairs]

\* A quick scan or job sequences, not both; one job sequence at a time.
OneKind ==
    /\ \A x \in Seqs : seq[x] # "NONE" =>
          /\ \A q \in Scans : scan[q] = "NONE"
          /\ \A y \in Seqs \ {x} : seq[y] = "NONE"

\* While there is a quick scan, there is one describe job for each pair (a second goroutine
\* finds it in progress), which succeeds; the first may also fail, and come back before the
\* compliance jobs are made.  One result is on its way, and a message that is stored again
\* comes when the first is done with.
SimpleScans ==
    (\E q \in Scans : scan[q] # "NONE") =>
        /\ \A d \in Jobs : dstatus[d] # "NONE" => parent[d] # None
        /\ \A d \in Jobs : dstatus[d] \notin {"TIMEOUT", "CANCELED"}
        /\ dstatus[d2] \notin {"FAILED", "OLD_RESOURCE_DELETION"}
        /\ d2 \in ended => dstatus[d2] = "SUCCEEDED"
        /\ (\E r \in Runs : run[r] # "NONE") => dstatus[d1] # "LIVE"
        /\ \A r \in Runs : Len(reports[r]) <= 1
        /\ \A r \in queue : r \notin working /\ reports[r] = <<>>

\* With one compliance job, both pairs are described.  With two, there is nothing to describe and
\* one goroutine, and the message of the second job is never stored.
ScanSizes ==
    \A q \in Scans, g \in 1..MaxStarts :
        /\ parts[q] = 1 /\ pc[<<q, g>>] \notin Idle \cup {"start"} => asked[<<q, g>>] = TwoPairs
        /\ parts[q] = 2 => /\ pc[<<q, 2>>] = "idle" /\ asked[<<q, 1>>] = {}
                           /\ <<<<q, 1>>, 2>> \notin sent
=============================================================================
