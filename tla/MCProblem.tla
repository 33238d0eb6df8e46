----------------------------- MODULE MCProblem -----------------------------
(* Problem for TLC: the slots are interchangeable. *)
EXTENDS Problem, TLC

SlotSymmetry == Permutations(Problems)

=============================================================================
