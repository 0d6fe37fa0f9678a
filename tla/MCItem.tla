------------------------------- MODULE MCItem -------------------------------
(* Model values and symmetry for checking Item. *)
EXTENDS Item, TLC

CONSTANTS c1, c2, m1, h1, h2, s1, r1, e1, d1

PairSymmetry == Permutations({c1, c2}) \cup Permutations({h1, h2})
=============================================================================
