-------------------------- MODULE MCRunnerWorker --------------------------
(* RunnerWorker on three messages: two of one compliance job, one of another. *)
EXTENDS RunnerWorker

CONSTANTS m1, m2, m3, j1, j2

MCMsgs == {m1, m2, m3}
MCParents == {j1, j2}
MCParentOf == [m \in MCMsgs |-> IF m = m3 THEN j2 ELSE j1]
=============================================================================
