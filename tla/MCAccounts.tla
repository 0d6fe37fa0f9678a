----------------------------- MODULE MCAccounts -----------------------------
(* Model values and workloads for checking Accounts. *)
EXTENDS Accounts, TLC

CONSTANTS h1, h2, l1, l2, p1, p2, t1, t2

SignUp   == {"register", "login"}
Recovery == {"register", "reset", "login"}
Invite   == {"admin", "reset", "login"}
Change   == {"owner", "change", "login", "operator"}
Tokens   == {"owner", "login", "pat"}
Use      == {"owner", "login", "pat", "use"}
Fall     == {"owner", "pat", "reset"}
Provider == {"register", "oauth"}
Linked   == {"owner", "oauth", "change"}
AllWorkloads == {SignUp, Recovery, Invite, Change, Tokens, Use, Fall, Provider, Linked}

Symmetry == Permutations({h1, h2}) \cup Permutations({l1, l2})
              \cup Permutations({p1, p2}) \cup Permutations({t1, t2})
=============================================================================
