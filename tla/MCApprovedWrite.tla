-------------------------- MODULE MCApprovedWrite --------------------------
(* TLC instances of ApprovedWrite. *)
EXTENDS ApprovedWrite, TLC

\* Applying calls, sessions and contents are interchangeable.
Symmetry == Permutations(Applying) \cup Permutations(Sessions) \cup Permutations(Contents)
=============================================================================
