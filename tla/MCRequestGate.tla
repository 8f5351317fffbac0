--------------------------- MODULE MCRequestGate ---------------------------
(* TLC instance of RequestGate. *)
EXTENDS RequestGate, TLC

Symmetry == Permutations(Tokens) \cup Permutations(Attempts) \cup Permutations(Principals)
=============================================================================
