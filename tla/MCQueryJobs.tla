---------------------------- MODULE MCQueryJobs ----------------------------
(* QueryJobs on two runners, one of them with a bad query, and three validators. *)
EXTENDS QueryJobs

CONSTANTS r1, r2, v1, v2, v3

AllJobs == {r1, r2, v1, v2, v3}
TwoRunners == {r1, r2}
BadRunner == {r2}

\* The two kinds share nothing but the sweep, so jobs of one kind are enough at a time.
OneKind == \E k \in Kinds : \A j \in JobsOf(k) : status[j] = "NONE"
=============================================================================
