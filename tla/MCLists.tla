------------------------------ MODULE MCLists ------------------------------
(* Model values and symmetry for checking Lists. *)
EXTENDS Lists, TLC

CONSTANTS u1, u2, h1, h2, l1, l2, i1, i2, a1

Symmetry == Permutations({u1, u2}) \cup Permutations({h1, h2}) \cup Permutations({l1, l2})
              \cup Permutations({i1, i2})
=============================================================================
