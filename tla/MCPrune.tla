------------------------------ MODULE MCPrune ------------------------------
(* Model-checking instance of Prune.                                       *)
EXTENDS Prune

\* No Job is told apart from another.
Symmetry == Permutations(Jobs)

=============================================================================
