----------------------- MODULE MCPolicyBatchLifecycle -----------------------
(* Interchangeable batches.                                                  *)
EXTENDS PolicyBatchLifecycle, TLC

BatchSymmetry == Permutations(Batches)
=============================================================================
