--------------------------- MODULE MCRuntimeLease ---------------------------
(* Small instances of RuntimeLease for TLC. *)
EXTENDS RuntimeLease, TLC

\* Jobs, workers and claims are interchangeable: no action names one.
Symmetry == Permutations(Jobs) \cup Permutations(Workers) \cup Permutations(Claims)

=============================================================================
