-------------------------- MODULE MCExecutionQueue --------------------------
(* Instances of ExecutionQueue for TLC: the cfgs give the constants.       *)
EXTENDS ExecutionQueue, TLC

Symmetry == Permutations(Executions)
=============================================================================
