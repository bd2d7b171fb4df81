------------------------- MODULE MCComplianceJob -------------------------
(* ComplianceJob on one job with one row, and on two jobs with a row each. *)
EXTENDS ComplianceJob, TLC

CONSTANTS j1, j2, r1, r2, s1, s2

Scheduled == {"scheduled"}
Manual == {"manual"}
BothTypes == {"scheduled", "manual"}
SummSymmetry == Permutations({s1, s2})
OneJob == {j1}
TwoJobs == {j1, j2}
OneRow == {r1}
TwoRows == {r1, r2}
OneSumm == {s1}
TwoSumms == {s1, s2}
RowOfOneJob == [r \in OneRow |-> j1]
RowPerJob == [r \in TwoRows |-> IF r = r1 THEN j1 ELSE j2]
OwnControl == [r \in OneRow |-> r]
OwnControls == [r \in TwoRows |-> r]
\* Rows take one status of each kind: missing, first and second step, ended.
OneOfEachKind ==
    \A r \in Runners : status[r] \in {"NONE", "CREATED", "QUEUED", "FAILED"}
\* The bounds of the run on two jobs: rows bring no documents; cancel requests, and errors
\* between the two writes of CreateSummarizer, are left to the other runs.
TwoJobsBound ==
    /\ OneOfEachKind
    /\ cancelJob = None
    /\ sank = {}
    /\ unmarked = {}
=============================================================================
