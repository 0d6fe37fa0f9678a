------------------------------- MODULE MCGate -------------------------------
(* Model values and symmetry for checking Gate. *)
EXTENDS Gate, TLC

CONSTANTS h1, h2, c1, a1, a2, s1

Symmetry == Permutations({h1, h2}) \cup Permutations({a1, a2})
=============================================================================
