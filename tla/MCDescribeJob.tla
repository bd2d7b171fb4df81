--------------------------- MODULE MCDescribeJob ---------------------------
(* DescribeJob on one job and on two jobs of one integration. *)
EXTENDS DescribeJob

CONSTANTS j1, j2, i1, q1, p1, p2

OneJob == {j1}
TwoJobs == {j1, j2}
OneIntegration == {i1}
OnlyPair == [j \in OneJob |-> i1]
SamePair == [j \in TwoJobs |-> i1]
NoRequests == {}
OneRequest == {q1}
OnePage == {p1}
TwoPages == {p1, p2}
SharedPage == [j \in TwoJobs |-> IF j = j1 THEN TwoPages ELSE {p1}]
PageOfOnlyJob == [j \in OneJob |-> {p1}]

\* No job is on its way to a describer or with one.
Quiet == queue = {} /\ taken = {} /\ \A j \in Jobs : enq[j] \in {"idle", "picked"}

\* Somebody is between a read and the write, or the two writes, that belong together.
AtWork ==
    \/ handling # None \/ deleting # None \/ retrying # {} \/ cancelJob # None
    \/ \E c \in Callers : passed[c] # None

\* The bounds of the run on two jobs: one job at a time is sent and described, and nothing
\* while others are at work; cancel requests and retries come while nothing is to be
\* deleted; QUEUED jobs are not canceled; hours pass for the first job only.
PairBound ==
    /\ Cardinality(queue) + Cardinality(taken) + Cardinality(results) <= 1
    /\ Cardinality({j \in Jobs : enq[j] # "idle"}) <= 1
    /\ AtWork => Quiet
    /\ cancelJob # None => tasks = {} /\ retrying = {} /\ \A c \in Callers : passed[c] = None
    /\ retrying # {} => tasks = {} /\ Cardinality(retrying) = 1
    /\ \A j \in Jobs : message[j] # "known"
    /\ old \subseteq {j1}
=============================================================================
