--------------------------- MODULE MCReservations ---------------------------
(* Model values and symmetry for checking Reservations. *)
EXTENDS Reservations, TLC

CONSTANTS r1, r2, h1, h2, s1

Symmetry == Permutations({r1, r2}) \cup Permutations({h1, h2})
=============================================================================
