--------------------------- MODULE MCJobLifecycle ---------------------------
(* Model-checking instance of JobLifecycle.                                *)
EXTENDS JobLifecycle, TLC

\* No identity is told apart from another of its kind.
Symmetry == Permutations(Jobs) \cup Permutations(Allocations)
            \cup Permutations(Operations) \cup Permutations(Workers)

=============================================================================
