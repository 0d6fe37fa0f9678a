------------------------------- MODULE Ledger -------------------------------
(***************************************************************************)
(* What the holds on one item promise, to the owner and to those who hold, *)
(* without requests, sweeps, clocks, mails or transactions.  A hold is     *)
(* booked within the limit, by somebody who has a key to it at once, an    *)
(* account, or a mail to answer; nobody who holds is dropped unasked; what *)
(* is over stays over; and a hold has one key for life.                    *)
(***************************************************************************)
EXTENDS Naturals, FiniteSets

CONSTANTS Hold, Key, MaxUnits

VARIABLES
  state,  \* of each hold
  units,  \* how much of the item it takes
  keys,   \* the keys handed out for it
  limit   \* how much there is to take, at most so far

ledger == <<state, units, keys, limit>>

Occupying == {"pending_confirmation", "active", "reserver_notified"}
Taken == Cardinality({u \in Hold \X (1 .. MaxUnits) :
                        state[u[1]] \in Occupying /\ u[2] <= units[u[1]]})

Init ==
  /\ state = [d \in Hold |-> "none"] /\ units = [d \in Hold |-> 1]
  /\ keys = [d \in Hold |-> {}] /\ limit \in 1 .. MaxUnits

Becomes(d, from, to) == state[d] = from /\ state' = [state EXCEPT ![d] = to]

AtMostOne == {{}} \cup {{k} : k \in Key}

\* A key goes out at once only with a hold that need not be confirmed.
Book(d, n, K) ==
  /\ Taken + n <= limit /\ units' = [units EXCEPT ![d] = n]
  /\ \/ Becomes(d, "none", "pending_confirmation") /\ K = {}
     \/ Becomes(d, "none", "active")
  /\ keys' = [keys EXCEPT ![d] = K]
  /\ UNCHANGED limit

Confirm(d, k) ==
  /\ Becomes(d, "pending_confirmation", "active")
  /\ keys[d] = {} /\ keys' = [keys EXCEPT ![d] = {k}]
  /\ UNCHANGED <<units, limit>>

Ask(d)  == Becomes(d, "active", "reserver_notified") /\ UNCHANGED <<units, keys, limit>>
Keep(d) == Becomes(d, "reserver_notified", "active") /\ UNCHANGED <<units, keys, limit>>

Lapse(d) ==
  /\ \/ Becomes(d, "pending_confirmation", "expired")
     \/ Becomes(d, "reserver_notified", "expired")
  /\ UNCHANGED <<units, keys, limit>>

Release(d) ==
  /\ \E from \in Occupying \cup {"expired"} : Becomes(d, from, "gone")
  /\ UNCHANGED <<units, keys, limit>>

Raise(n) == n > limit /\ limit' = n /\ UNCHANGED <<state, units, keys>>

Next ==
  \/ \E d \in Hold : \/ \E n \in 1 .. MaxUnits, K \in AtMostOne : Book(d, n, K)
                     \/ \E k \in Key : Confirm(d, k)
                     \/ Ask(d) \/ Keep(d) \/ Lapse(d) \/ Release(d)
  \/ \E n \in 1 .. MaxUnits : Raise(n)

Spec == Init /\ [][Next]_ledger
=============================================================================
