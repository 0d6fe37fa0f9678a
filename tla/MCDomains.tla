----------------------------- MODULE MCDomains -----------------------------
(* Model values and symmetry for checking Domains. *)
EXTENDS Domains, TLC

CONSTANTS t1, t2, h1, h2, c1, c2, c3

Symmetry == Permutations({t1, t2}) \cup Permutations({h1, h2}) \cup Permutations({c1, c2, c3})
=============================================================================
