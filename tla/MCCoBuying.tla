----------------------------- MODULE MCCoBuying -----------------------------
(* Model values, symmetry and restricted environments for checking CoBuying. *)
EXTENDS CoBuying, TLC

CONSTANTS c1, c2, c3, m1, m2, h1, h2, s1

PairSymmetry == Permutations({c1, c2}) \cup Permutations({h1, h2})

\* What the race between requests and sweep depends on.  The other track, the
\* price and closing an item to new pledges only decide which pledges exist,
\* and deleting it fails the locked steps as Abort and ExpiryFails do.  A giver
\* with a token may do all that one with a link may, so every pledge that is
\* made is answered with one, no link is delivered and none expires.  And a
\* request that stops before it wrote anything might as well not have come.
Answered == {"propose", "match", "mint"}
Unwritten == {"insert", "judge", "decline", "confirm"}
RaceNext ==
  \/ \E h \in Handler :
       \/ Arrive(h) \/ ProposalFails(h)
       \/ Working(h) /\ UNCHANGED links
       \/ hs[h].pc \notin Answered \cup Unwritten /\ Abort(h)
  \/ \E s \in Sweeper : SweeperNext(s)
  \/ \E m \in Match : matches[m].age = 0 /\ Tick(m)
RaceSpec == Init /\ [][RaceNext]_vars

\* Liveness of this track alone: the price changes and the item may go,
\* reservations do not come, and pledges may always still be made.
LiveNext ==
  \/ \E h \in Handler : HandlerNext(h)
  \/ \E s \in Sweeper : SweeperNext(s)
  \/ \E p \in Prices : SetPrice(p)
  \/ SetItem("deleted")
  \/ \E m \in Match : Tick(m)
LiveSpec == Init /\ [][LiveNext]_vars /\ Fairness
=============================================================================
