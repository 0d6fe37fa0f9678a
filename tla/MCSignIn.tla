------------------------------ MODULE MCSignIn ------------------------------
(* Model values and symmetry for checking SignIn. *)
EXTENDS SignIn, TLC

CONSTANTS h1, h2, b1, b2, f1, f2, g1, g2, e1, e2

Symmetry == Permutations({h1, h2}) \cup Permutations({b1, b2}) \cup Permutations({f1, f2})
              \cup Permutations({g1, g2}) \cup Permutations({e1, e2})
=============================================================================
