------------------------ MODULE MCGovernedExecution ------------------------
(* GovernedExecution for TLC: calls are interchangeable. *)
EXTENDS GovernedExecution, TLC

CallSymmetry == Permutations(Calls)
=============================================================================
