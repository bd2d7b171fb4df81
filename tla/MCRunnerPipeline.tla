------------------------- MODULE MCRunnerPipeline -------------------------
(* RunnerPipeline on two rows and one worker pod. *)
EXTENDS RunnerPipeline, TLC

CONSTANTS r1, r2, w1

MCRunners == {r1, r2}
MCWorkers == {w1}
RowSymmetry == Permutations(MCRunners)
=============================================================================
