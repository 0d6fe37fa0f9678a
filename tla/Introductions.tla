---------------------------- MODULE Introductions ----------------------------
(***************************************************************************)
(* What a co-buying match promises the people it introduces to each other, *)
(* without requests, pledges, tokens, links, clocks or sweeps.  People say *)
(* yes only while the match is open; it is agreed once, by a yes, and then *)
(* those it is about to introduce have all said yes; they are introduced   *)
(* at most once, or never; and a match that lapsed introduces nobody.      *)
(*                                                                         *)
(* A match may be called off whatever it is by then: who calls it off      *)
(* looked at it while it was open, and closes it later.                    *)
(***************************************************************************)
CONSTANTS Deal, Person

VARIABLES
  verdict,    \* of each match
  yes,        \* who said yes to it
  due,        \* whom it is about to introduce to each other
  introduced  \* whom it has introduced

promise == <<verdict, yes, due, introduced>>

Init ==
  /\ verdict = [m \in Deal |-> "none"]
  /\ yes = [m \in Deal |-> {}] /\ due = [m \in Deal |-> {}] /\ introduced = [m \in Deal |-> {}]

Becomes(m, from, to) == verdict[m] = from /\ verdict' = [verdict EXCEPT ![m] = to]
SaysYes(m, c)        == yes' = [yes EXCEPT ![m] = @ \cup {c}]

Propose(m) == Becomes(m, "none", "proposed") /\ UNCHANGED <<yes, due, introduced>>

Say(m, c) ==
  /\ verdict[m] = "proposed" /\ SaysYes(m, c)
  /\ UNCHANGED <<verdict, due, introduced>>

Agree(m, c, team) ==
  /\ Becomes(m, "proposed", "both_confirmed") /\ SaysYes(m, c)
  /\ c \in team /\ team \subseteq yes'[m]
  /\ due[m] = {} /\ due' = [due EXCEPT ![m] = team]
  /\ UNCHANGED introduced

Lapse(m) == Becomes(m, "proposed", "expired") /\ UNCHANGED <<yes, due, introduced>>

CallOff(m) ==
  /\ \E from \in {"proposed", "both_confirmed", "expired", "declined"} :
       Becomes(m, from, "declined")
  /\ UNCHANGED <<yes, due, introduced>>

Introduce(m) ==
  /\ introduced[m] = {} /\ introduced' = [introduced EXCEPT ![m] = due[m]]
  /\ due' = [due EXCEPT ![m] = {}]
  /\ UNCHANGED <<verdict, yes>>

\* The introduction is lost, and nobody makes it again.
Forget(m) == due' = [due EXCEPT ![m] = {}] /\ UNCHANGED <<verdict, yes, introduced>>

Next == \E m \in Deal :
  \/ Propose(m) \/ Lapse(m) \/ CallOff(m) \/ Introduce(m) \/ Forget(m)
  \/ \E c \in Person : Say(m, c) \/ \E team \in SUBSET Person : Agree(m, c, team)

Spec == Init /\ [][Next]_promise
=============================================================================
