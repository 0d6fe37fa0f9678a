--------------------------- MODULE CoBuyingProofs ---------------------------
(***************************************************************************)
(* Proofs about CoBuying, for every number of pledges, matches, handlers   *)
(* and sweepers, every price and every amount: type correctness, and the   *)
(* invariant from which it follows that a match is revealed at most once,  *)
(* only to those who confirmed it, and never once it has expired; that     *)
(* pledges fit the price; that CoBuying implements Introductions; and that *)
(* an item with both its tracks is CoBuying to the one, Reservations to    *)
(* the other, and never taken by both unless a fallen pledge revives.      *)
(***************************************************************************)
EXTENDS Item, FiniteSetTheorems, TLAPS

\* A busy handler is about a pledge, and one that works on a match has one.
OnAMatch == {"mint", "decline", "spend", "release", "clear", "confirm", "spent"}
BusyWithSomething ==
  \A h \in Handler : /\ hs[h].pc # "idle" => hs[h].c \in Contrib
                     /\ hs[h].pc = "judge" => hs[h].plan # "pledge"
                     /\ hs[h].pc \in OnAMatch => hs[h].m \in Match

\* A match that is being revealed or has been is confirmed, or was closed by a
\* dissolve that had judged it before.
Settled == {"both_confirmed", "declined"}
Revealing(h, m) == hs[h].pc = "spent" /\ hs[h].m = m
RevealSettled ==
  \A m \in Match :
    revealed[m] # {} \/ (\E h \in Handler : Revealing(h, m)) => matches[m].state \in Settled

\* One handler reveals a match, and it was not revealed before.
OneReveals ==
  \A m \in Match, h \in Handler : Revealing(h, m) =>
    revealed[m] = {} /\ \A g \in Handler : Revealing(g, m) => g = h

IInv == /\ TypeOK /\ BusyWithSomething /\ RevealNeedsConsent /\ RevealSettled /\ OneReveals

-----------------------------------------------------------------------------
(* Type correctness *)

LEMMA ConstantTypes ==
  /\ 1 \in Money /\ NoPledge \in Pledge /\ NoDeal \in Deal /\ Idle \in HState
  /\ Amounts \subseteq Money \cup {0} /\ Prices \subseteq Money
<1>1. 1 \in Money
  BY PriceAssumption DEF Money
<1>2. NoPledge \in Pledge
  BY <1>1 DEF NoPledge, Pledge, Status
<1>3. NoDeal \in Deal
  BY DEF NoDeal, Deal, MatchStates
<1>4. Idle \in HState
  BY <1>1 DEF Idle, HState, PC, Plans
<1>5. QED
  BY <1>1, <1>2, <1>3, <1>4, PriceAssumption DEF Money

LEMMA InitTypes ==
  ASSUME Init
  PROVE  TypeOK
  BY ConstantTypes DEF Init, TypeOK

\* What the three statements on one row store.
LEMMA StatementTypes ==
  ASSUME TypeOK, NEW c \in Contrib, NEW st \in Status, NEW m \in Match \cup {NoMatch}
  PROVE  /\ Update(c, st, m) => pledges' \in [Contrib -> Pledge]
         /\ SetMatchActionToken(c, m) => pledges' \in [Contrib -> Pledge]
         /\ DeleteRow(c) => pledges' \in [Contrib -> Pledge]
<1>1. pledges[c] \in Pledge /\ "gone" \in Status
  BY DEF TypeOK, Status
<1>2. /\ [pledges[c] EXCEPT !.status = st, !.match = m] \in Pledge
      /\ [pledges[c] EXCEPT !.act = m] \in Pledge
      /\ [pledges[c] EXCEPT !.status = "gone"] \in Pledge
  BY <1>1 DEF Pledge
<1>3. ASSUME Update(c, st, m)  PROVE pledges' \in [Contrib -> Pledge]
  <2> DEFINE f == [pledges EXCEPT ![c].status = st]
  <2>1. pledges' = [f EXCEPT ![c].match = m]
    BY <1>3 DEF Update, Store
  <2>2. f \in [Contrib -> Pledge]
    BY <1>1 DEF TypeOK, Pledge
  <2> HIDE DEF f
  <2>3. QED
    BY <2>1, <2>2 DEF Pledge
<1>4. QED
  BY <1>1, <1>2, <1>3 DEF SetMatchActionToken, DeleteRow, Store, TypeOK

LEMMA HandlerTypes ==
  ASSUME TypeOK, BusyWithSomething, NEW h \in Handler, HandlerNext(h)
  PROVE  TypeOK'
<1> USE DEF tables, mails, itemRow, history, Go, Finish, At
<1>1. ASSUME NEW next \in HState, hs' = [hs EXCEPT ![h] = next],
             UNCHANGED <<tables, mails, itemRow, history, reserved, sw>>
      PROVE  TypeOK'
  BY <1>1 DEF TypeOK
<1>2. CASE Arrive(h) \/ Abort(h) \/ RefusePledge(h) \/ JudgeWithdrawal(h) \/ JudgeDecision(h)
  <2>1. ASSUME NEW c \in Contrib, NEW a \in Amounts, Contribute(h, c, a)  PROVE TypeOK'
    <3>1. a \in Money /\ price \in Money /\ c \in Contrib \cup {NoContrib}
      BY <2>1, PriceAssumption DEF Contribute, Positive, Money, TypeOK
    <3>2. [Idle EXCEPT !.pc = "insert", !.c = c, !.want = price, !.amount = a] \in HState
      BY <3>1, ConstantTypes DEF HState, PC
    <3>3. QED
      BY <1>1, <2>1, <3>2 DEF Contribute
  <2>2. ASSUME NEW c \in Contrib, NEW m \in Match \cup {NoMatch},
               NEW plan \in {"withdraw", "confirm", "decline"},
               hs' = [hs EXCEPT ![h] =
                        [Idle EXCEPT !.pc = "judge", !.plan = plan, !.c = c, !.m = m]],
               UNCHANGED <<tables, mails, itemRow, history, reserved, sw>>
        PROVE  TypeOK'
    <3>1. [Idle EXCEPT !.pc = "judge", !.plan = plan, !.c = c, !.m = m] \in HState
      BY ConstantTypes DEF HState, PC, Plans
    <3>2. QED
      BY <1>1, <2>2, <3>1
  <2>3. ASSUME NEW c \in Contrib, Withdraw(h, c)  PROVE TypeOK'
    <3>1. pledges[c].match \in Match \cup {NoMatch}
      BY DEF TypeOK, Pledge
    <3>2. QED
      BY <2>2, <2>3, <3>1 DEF Withdraw
  <2>4. ASSUME NEW c \in Contrib, NEW plan \in {"confirm", "decline"}, Decide(h, c, plan)
        PROVE  TypeOK'
    BY <2>2, <2>4 DEF Decide
  <2>5. CASE Abort(h) \/ RefusePledge(h)
    BY <1>1, <2>5, ConstantTypes DEF Abort, RefusePledge
  <2>6. CASE JudgeWithdrawal(h)
    <3>1. hs[h] \in HState /\ {"release", "delete"} \subseteq PC
      BY DEF TypeOK, PC
    <3>2. Dissolvable(hs[h].m) => Members(hs[h].m) \ {hs[h].c} \in SUBSET Contrib
      BY <3>1 DEF Dissolvable, StateOf, Members, TypeOK, Deal, HState
    <3>3. [hs[h] EXCEPT !.pc = "delete"] \in HState
      BY <3>1 DEF HState
    <3>4. Dissolvable(hs[h].m) =>
            [hs[h] EXCEPT !.pc = "release", !.todo = Members(hs[h].m) \ {hs[h].c}] \in HState
      BY <3>1, <3>2 DEF HState
    <3>5. QED
      BY <1>1, <2>6, <3>3, <3>4, ConstantTypes DEF JudgeWithdrawal
  <2>7. CASE JudgeDecision(h)
    <3>1. hs[h] \in HState /\ hs[h].plan \in {"decline", "confirm"}
      BY <2>7 DEF JudgeDecision, TypeOK, HState, Plans, BusyWithSomething
    <3>2. [hs[h] EXCEPT !.pc = hs[h].plan] \in HState
      BY <3>1 DEF HState, PC
    <3>3. QED
      BY <1>1, <2>7, <3>2, ConstantTypes DEF JudgeDecision
  <2>8. QED
    BY <1>2, <2>1, <2>3, <2>4, <2>5, <2>6, <2>7 DEF Arrive
<1>3. hs[h] \in HState /\ hs[h].todo \in SUBSET Contrib /\ hs[h].team \in SUBSET Contrib
  BY DEF TypeOK, HState
<1>4. hs[h].pc # "idle" => hs[h].c \in Contrib /\ handed \cup {hs[h].c} \subseteq Contrib
  BY DEF BusyWithSomething, TypeOK
<1>5. Idle \in HState /\ {"propose", "match", "mint", "spend", "release", "clear", "delete",
                          "spent"} \subseteq PC
  BY ConstantTypes DEF PC
<1>6. CASE InsertPledge(h)
  <2>1. [NoPledge EXCEPT !.status = "pending", !.amount = hs[h].amount] \in Pledge
    BY <1>3, ConstantTypes DEF HState, Pledge, Status, RowStatus, LiveStatus
  <2>2. [hs[h] EXCEPT !.pc = "propose"] \in HState
    BY <1>3, <1>5 DEF HState
  <2>3. QED
    BY <1>6, <2>1, <2>2 DEF InsertPledge, Store, TypeOK
<1>7. CASE ReadPending(h)
  <2>1. Pending \in SUBSET Contrib
    BY DEF Pending
  <2>2. [hs[h] EXCEPT !.pc = "match", !.todo = Pending] \in HState
    BY <1>3, <1>5, <2>1 DEF HState
  <2>3. QED
    BY <1>4, <1>5, <1>7, <2>2 DEF ReadPending, Answer, TypeOK
<1>8. ASSUME NEW m \in Match, CreateMatch(h, m)  PROVE TypeOK'
  <2>1. [state |-> "proposed", members |-> hs[h].todo, age |-> 0] \in Deal
    BY <1>3 DEF Deal, MatchStates
  <2>2. [hs[h] EXCEPT !.pc = "mint", !.m = m] \in HState
    BY <1>3, <1>5 DEF HState
  <2>3. \A c \in Contrib : Stamped(pledges[c], m) \in Pledge /\ pledges[c] \in Pledge
    BY DEF Stamped, TypeOK, Pledge, Status, RowStatus, LiveStatus
  <2>4. pledges' \in [Contrib -> Pledge]
    BY <1>8, <2>3 DEF CreateMatch, Store
  <2>5. QED
    BY <1>8, <2>1, <2>2, <2>4 DEF CreateMatch, TypeOK
<1>9. ASSUME NEW c \in Contrib, Mint(h, c)  PROVE TypeOK'
  <2>1. hs[h].m \in Match \cup {NoMatch} /\ "gone" \in Status
    BY <1>3 DEF HState, Status
  <2>2. pledges' \in [Contrib -> Pledge]
    BY <1>9, <2>1, StatementTypes DEF Mint, TypeOK
  <2>3. [hs[h] EXCEPT !.todo = hs[h].todo \ {c}] \in HState
    BY <1>3 DEF HState
  <2>4. QED
    BY <1>4, <1>5, <1>9, <2>2, <2>3 DEF Mint, Answer, TypeOK
<1>10. CASE Invite(h)
  <2>1. hs[h].m \in Match
    BY <1>10 DEF Invite, BusyWithSomething, OnAMatch
  <2>2. links' \in [Contrib -> SUBSET Match]
    BY <1>10, <2>1 DEF Invite, TypeOK
  <2>3. QED
    BY <1>4, <1>5, <1>10, <2>2 DEF Invite, Answer, TypeOK
<1>11. CASE ProposalFails(h)
  BY <1>4, <1>5, <1>11 DEF ProposalFails, Answer, TypeOK
<1>12. CASE Decline(h) \/ Spend(h)
  <2>1. hs[h].m \in Match /\ hs[h].c \in Contrib /\ "declined" \in Status
    BY <1>12 DEF Decline, Spend, BusyWithSomething, OnAMatch, Status, RowStatus
  <2>2. pledges' \in [Contrib -> Pledge]
    BY <1>12, <2>1, StatementTypes DEF Decline, Spend, TypeOK
  <2>3. Members(hs[h].m) \ {hs[h].c} \in SUBSET Contrib
    BY <2>1 DEF Members, TypeOK, Deal
  <2>4. /\ [hs[h] EXCEPT !.pc = "spend"] \in HState
        /\ [hs[h] EXCEPT !.pc = "release", !.todo = Members(hs[h].m) \ {hs[h].c}] \in HState
    BY <1>3, <1>5, <2>3 DEF HState
  <2>5. QED
    BY <1>5, <1>12, <2>2, <2>4 DEF Decline, Spend, TypeOK
<1>13. ASSUME NEW c \in Contrib, Release(h, c)  PROVE TypeOK'
  <2>1. pledges' \in [Contrib -> Pledge]
    BY <1>13, StatementTypes DEF Release, TypeOK, Status, RowStatus, LiveStatus
  <2>2. /\ [hs[h] EXCEPT !.pc = "clear", !.team = {c}] \in HState
        /\ [hs[h] EXCEPT !.todo = hs[h].todo \ {c}] \in HState
    BY <1>3, <1>5 DEF HState
  <2>3. QED
    BY <1>13, <2>1, <2>2 DEF Release, TypeOK
<1>14. CASE Clear(h)
  <2>1. PICK c \in hs[h].team :
          IF Exists(c)
            THEN /\ SetMatchActionToken(c, NoMatch)
                 /\ hs' = [hs EXCEPT ![h] =
                      [hs[h] EXCEPT !.pc = "release", !.todo = hs[h].todo \ {c}, !.team = {}]]
            ELSE hs' = [hs EXCEPT ![h] = Idle] /\ UNCHANGED pledges
    BY <1>14 DEF Clear
  <2>2. c \in Contrib /\ "gone" \in Status
    BY <1>3 DEF Status
  <2>3. pledges' \in [Contrib -> Pledge]
    BY <2>1, <2>2, StatementTypes DEF TypeOK
  <2>4. [hs[h] EXCEPT !.pc = "release", !.todo = hs[h].todo \ {c}, !.team = {}] \in HState
    BY <1>3, <1>5 DEF HState
  <2>5. QED
    BY <1>5, <1>14, <2>1, <2>3, <2>4 DEF Clear, TypeOK
<1>15. CASE Close(h)
  <2>1. hs[h].m \in Match /\ "declined" \in MatchStates
    BY <1>15 DEF Close, BusyWithSomething, OnAMatch, MatchStates
  <2>2. matches' \in [Match -> Deal]
    BY <1>15, <2>1 DEF Close, TypeOK, Deal
  <2>3. [hs[h] EXCEPT !.pc = "delete"] \in HState
    BY <1>3, <1>5 DEF HState
  <2>4. QED
    BY <1>5, <1>15, <2>2, <2>3 DEF Close, TypeOK
<1>16. CASE DeletePledge(h)
  <2>1. pledges' \in [Contrib -> Pledge]
    BY <1>4, <1>16, StatementTypes DEF DeletePledge, TypeOK, Status
  <2>2. QED
    BY <1>5, <1>16, <2>1 DEF DeletePledge, TypeOK
<1>17. CASE Confirm(h)
  <2>1. hs[h].m \in Match /\ hs[h].c \in Contrib
    BY <1>4, <1>17 DEF Confirm, BusyWithSomething, OnAMatch
  <2>2. Party(hs[h].m) \in SUBSET Contrib
    BY DEF Party
  <2>3. [hs[h] EXCEPT !.pc = "spent", !.todo = Party(hs[h].m), !.team = Party(hs[h].m)]
          \in HState
    BY <1>3, <1>5, <2>2 DEF HState
  <2>4. pledges' \in [Contrib -> Pledge] /\ matches' \in [Match -> Deal]
    <3>1. pledges[hs[h].c] \in Pledge /\ matches[hs[h].m] \in Deal
      BY <2>1 DEF TypeOK
    <3>2. /\ [pledges EXCEPT ![hs[h].c].status = "confirmed"] \in [Contrib -> Pledge]
          /\ [matches EXCEPT ![hs[h].m].state = "both_confirmed"] \in [Match -> Deal]
      BY <3>1 DEF TypeOK, Pledge, Deal, Status, RowStatus, LiveStatus, MatchStates
    <3>3. QED
      BY <1>17, <3>2 DEF Confirm, Store, TypeOK
  <2>5. consented' \in [Match -> SUBSET Contrib]
    BY <1>17, <2>1 DEF Confirm, TypeOK
  <2>6. hs' \in [Handler -> HState]
    BY <1>5, <1>17, <2>3 DEF Confirm, TypeOK
  <2>7. QED
    BY <1>17, <2>4, <2>5, <2>6 DEF Confirm, TypeOK
<1>18. ASSUME NEW c \in Contrib, SpendParty(h, c)  PROVE TypeOK'
  <2>1. pledges' \in [Contrib -> Pledge]
    BY <1>18, StatementTypes DEF SpendParty, TypeOK, Status
  <2>2. [hs[h] EXCEPT !.todo = hs[h].todo \ {c}] \in HState
    BY <1>3 DEF HState
  <2>3. QED
    BY <1>5, <1>18, <2>1, <2>2 DEF SpendParty, TypeOK
<1>19. CASE Reveal(h)
  <2>1. revealed' \in [Match -> SUBSET Contrib]
    BY <1>3, <1>19 DEF Reveal, TypeOK, BusyWithSomething, OnAMatch
  <2>2. QED
    BY <1>5, <1>19, <2>1 DEF Reveal, TypeOK
<1>20. QED
  BY <1>2, <1>6, <1>7, <1>8, <1>9, <1>10, <1>11, <1>12, <1>13, <1>14, <1>15, <1>16, <1>17,
     <1>18, <1>19 DEF HandlerNext, Working

LEMMA OtherTypes ==
  ASSUME TypeOK, \/ \E s \in Sweeper : SweeperNext(s)
                 \/ OwnerNext \/ OtherTrack \/ UNCHANGED vars
                 \/ \E m \in Match : Tick(m)
  PROVE  TypeOK'
<1> USE DEF tables, mails, itemRow, history
<1>1. ASSUME NEW s \in Sweeper, SweeperNext(s)  PROVE TypeOK'
  <2>1. CASE StartSweep(s)
    BY <2>1 DEF StartSweep, TypeOK
  <2>2. ASSUME NEW m \in Match, Expire(s, m)  PROVE TypeOK'
    <3>1. \A c \in Contrib : /\ pledges[c] \in Pledge
                             /\ [pledges[c] EXCEPT !.status = "expired", !.act = NoMatch] \in Pledge
      BY DEF TypeOK, Pledge, Status, RowStatus
    <3>2. pledges' \in [Contrib -> Pledge]
      BY <2>2, <3>1 DEF Expire, Store, TypeOK
    <3>3. matches' \in [Match -> Deal]
      <4>1. matches[m] \in Deal
        BY DEF TypeOK
      <4>2. [matches EXCEPT ![m].state = "expired"] \in [Match -> Deal]
        BY <4>1 DEF TypeOK, Deal, MatchStates
      <4>3. QED
        BY <2>2, <4>2 DEF Expire, TypeOK
    <3>4. QED
      BY <2>2, <3>2, <3>3 DEF Expire, TypeOK
  <2>3. ASSUME NEW m \in Match, ExpiryFails(s, m)  PROVE TypeOK'
    BY <2>3 DEF ExpiryFails, TypeOK
  <2>4. QED
    BY <1>1, <2>1, <2>2, <2>3 DEF SweeperNext
<1>2. CASE OwnerNext
  BY <1>2, ConstantTypes DEF OwnerNext, SetPrice, SetItem, TypeOK
<1>3. CASE OtherTrack \/ UNCHANGED vars
  BY <1>3 DEF OtherTrack, vars, TypeOK
<1>4. ASSUME NEW m \in Match, Tick(m)  PROVE TypeOK'
  <2>1. matches[m] \in Deal /\ matches[m].age + 1 \in 0 .. 2
    BY <1>4 DEF Tick, TypeOK, Deal
  <2>2. matches' \in [Match -> Deal]
    BY <1>4, <2>1 DEF Tick, TypeOK, Deal
  <2>3. QED
    BY <1>4, <2>2 DEF Tick, TypeOK
<1>5. QED
  BY <1>1, <1>2, <1>3, <1>4

-----------------------------------------------------------------------------
(* What one handler does to the others, and to what has been settled *)

\* Confirming and revealing apart, a step brings no row to "confirmed", asks
\* for no reveal, and leaves a settled match settled.
Quiet(h) ==
  /\ \A c \in Contrib : pledges'[c].status = "confirmed" =>
       pledges[c].status = "confirmed" /\ pledges'[c].match = pledges[c].match
  /\ consented' = consented
  /\ revealed' = revealed
  /\ \A m \in Match : matches[m].state \in Settled => matches'[m].state \in Settled

\* What a handler turns into: idle, or itself at another statement.
Turns(h) ==
  /\ \A g \in Handler : g # h => hs'[g] = hs[g]
  /\ hs'[h].pc # "idle" => hs'[h].c \in Contrib
  /\ hs'[h].pc = "judge" => hs'[h].plan # "pledge"
  /\ hs'[h].pc \in OnAMatch => hs'[h].m \in Match
KeepsSpent(h) ==
  hs'[h].pc = "spent" =>
    hs[h].pc = "spent" /\ hs'[h].m = hs[h].m /\ hs'[h].team = hs[h].team

\* A handler that stops turns into nothing.
LEMMA StopTurns ==
  ASSUME TypeOK, NEW h \in Handler, hs' = [hs EXCEPT ![h] = Idle]
  PROVE  Turns(h) /\ KeepsSpent(h)
<1>1. hs \in [Handler -> HState] /\ Idle.pc = "idle"
  BY DEF TypeOK, Idle
<1>2. hs'[h] = Idle /\ \A g \in Handler : g # h => hs'[g] = hs[g]
  BY <1>1
<1>3. QED
  BY <1>1, <1>2 DEF Turns, KeepsSpent, OnAMatch

\* One that moves on is about the same pledge and match.
LEMMA MoveTurns ==
  ASSUME TypeOK, BusyWithSomething, NEW h \in Handler, NEW next,
         hs' = [hs EXCEPT ![h] = next], next.c = hs[h].c, next.m = hs[h].m,
         hs[h].pc # "idle", next.pc \notin {"judge", "spent"},
         next.pc \in OnAMatch => hs[h].m \in Match
  PROVE  Turns(h) /\ KeepsSpent(h)
<1>1. hs \in [Handler -> HState]
  BY DEF TypeOK
<1>2. hs'[h] = next /\ \A g \in Handler : g # h => hs'[g] = hs[g]
  BY <1>1
<1>3. hs[h].c \in Contrib
  BY DEF BusyWithSomething
<1>4. QED
  BY <1>2, <1>3 DEF Turns, KeepsSpent

\* The requests that only move on.
LEMMA ArriveTurns ==
  ASSUME TypeOK, BusyWithSomething, NEW h \in Handler,
         Arrive(h) \/ Abort(h) \/ RefusePledge(h) \/ JudgeWithdrawal(h) \/ JudgeDecision(h)
  PROVE  Turns(h) /\ KeepsSpent(h) /\ Quiet(h)
<1> USE DEF tables, mails, itemRow, history, Go, Finish, At
<1>1. hs[h] \in HState /\ hs \in [Handler -> HState] /\ Idle.pc = "idle"
  BY DEF TypeOK, Idle
<1>2. Quiet(h)
  BY DEF Quiet, Arrive, Contribute, Withdraw, Decide, Abort, RefusePledge, JudgeWithdrawal,
         JudgeDecision
<1>3. ASSUME NEW c \in Contrib, NEW a \in Amounts, Contribute(h, c, a)
      PROVE  Turns(h) /\ KeepsSpent(h)
  BY <1>1, <1>3 DEF Contribute, Turns, KeepsSpent, OnAMatch, Idle
<1>4. ASSUME NEW c \in Contrib, Withdraw(h, c)  PROVE Turns(h) /\ KeepsSpent(h)
  BY <1>1, <1>4 DEF Withdraw, Turns, KeepsSpent, OnAMatch, Idle
<1>5. ASSUME NEW c \in Contrib, NEW plan \in {"confirm", "decline"}, Decide(h, c, plan)
      PROVE  Turns(h) /\ KeepsSpent(h)
  <2>1. PICK m \in Match : hs' = [hs EXCEPT ![h] =
          [Idle EXCEPT !.pc = "judge", !.plan = plan, !.c = c, !.m = m]]
    BY <1>5 DEF Decide
  <2>2. QED
    BY <1>1, <2>1 DEF Turns, KeepsSpent, OnAMatch, Idle
<1>6. CASE Abort(h) \/ RefusePledge(h)
  BY <1>2, <1>6, StopTurns DEF Abort, RefusePledge
<1>7. hs[h].pc = "judge" => hs[h].c \in Contrib /\ hs[h].plan # "pledge"
  BY DEF BusyWithSomething
<1>8. CASE JudgeWithdrawal(h)
  <2>1. Dissolvable(hs[h].m) => hs[h].m \in Match
    BY <1>1 DEF Dissolvable, StateOf, HState
  <2> DEFINE released == [hs[h] EXCEPT !.pc = "release", !.todo = Members(hs[h].m) \ {hs[h].c}]
             deleted  == [hs[h] EXCEPT !.pc = "delete"]
  <2>2. /\ hs[h].pc = "judge"
        /\ \/ hs' = [hs EXCEPT ![h] = Idle]
           \/ hs' = [hs EXCEPT ![h] = released] /\ hs[h].m \in Match
           \/ hs' = [hs EXCEPT ![h] = deleted]
    BY <1>8, <2>1 DEF JudgeWithdrawal
  <2>3. /\ released.c = hs[h].c /\ released.m = hs[h].m /\ released.pc = "release"
        /\ deleted.c = hs[h].c /\ deleted.m = hs[h].m /\ deleted.pc = "delete"
    BY <1>1 DEF HState
  <2> HIDE DEF released, deleted
  <2>4. Turns(h) /\ KeepsSpent(h)
    BY <2>2, <2>3, StopTurns, MoveTurns DEF OnAMatch
  <2>5. QED
    BY <1>2, <2>4
<1>9. CASE JudgeDecision(h)
  <2>1. hs[h].plan \in {"decline", "confirm"} /\ (Dissolvable(hs[h].m) => hs[h].m \in Match)
    BY <1>1, <1>7, <1>9 DEF JudgeDecision, HState, Plans, Dissolvable, StateOf
  <2>2. hs' = [hs EXCEPT ![h] = Idle] \/ (Turns(h) /\ KeepsSpent(h))
    BY <1>1, <1>7, <1>9, <2>1 DEF JudgeDecision, Turns, KeepsSpent, OnAMatch, HState
  <2>3. QED
    BY <1>2, <2>2, StopTurns
<1>10. QED
  BY <1>2, <1>3, <1>4, <1>5, <1>6, <1>8, <1>9 DEF Arrive

LEMMA ProposingTurns ==
  ASSUME TypeOK, BusyWithSomething, NEW h \in Handler,
         \/ InsertPledge(h) \/ ReadPending(h) \/ Invite(h) \/ ProposalFails(h)
         \/ \E m \in Match : CreateMatch(h, m)
         \/ \E c \in Contrib : Mint(h, c)
  PROVE  Turns(h) /\ KeepsSpent(h) /\ Quiet(h)
<1> USE DEF tables, mails, itemRow, history, Go, Finish, At, Store
<1>1. hs[h] \in HState /\ hs \in [Handler -> HState] /\ Idle.pc = "idle"
  BY DEF TypeOK, Idle
<1>2. /\ hs[h].pc # "idle" => hs[h].c \in Contrib
      /\ hs[h].pc \in OnAMatch => hs[h].m \in Match
  BY DEF BusyWithSomething
<1>3. pledges \in [Contrib -> Pledge] /\ matches \in [Match -> Deal]
  BY DEF TypeOK
<1>4. CASE InsertPledge(h)
  <2>1. Turns(h) /\ KeepsSpent(h)
    BY <1>1, <1>2, <1>4 DEF InsertPledge, Turns, KeepsSpent, OnAMatch, HState
  <2>2. Quiet(h)
    BY <1>2, <1>3, <1>4 DEF InsertPledge, Quiet, NoPledge
  <2>3. QED
    BY <2>1, <2>2
<1>5. CASE ReadPending(h) \/ Invite(h) \/ ProposalFails(h)
  <2>1. Quiet(h)
    BY <1>5 DEF ReadPending, Invite, ProposalFails, Quiet
  <2> DEFINE next == [hs[h] EXCEPT !.pc = "match", !.todo = Pending]
  <2>2. /\ hs[h].pc \in {"propose", "match", "mint"}
        /\ hs' = [hs EXCEPT ![h] = Idle] \/ hs' = [hs EXCEPT ![h] = next]
    BY <1>5 DEF ReadPending, Invite, ProposalFails
  <2>3. next.c = hs[h].c /\ next.m = hs[h].m /\ next.pc = "match"
    BY <1>1 DEF HState
  <2> HIDE DEF next
  <2>4. QED
    BY <2>1, <2>2, <2>3, StopTurns, MoveTurns DEF OnAMatch
<1>6. ASSUME NEW m \in Match, CreateMatch(h, m)  PROVE Turns(h) /\ KeepsSpent(h) /\ Quiet(h)
  <2>1. Turns(h) /\ KeepsSpent(h)
    BY <1>1, <1>2, <1>6 DEF CreateMatch, Turns, KeepsSpent, OnAMatch, HState
  <2>2. \A c \in Contrib : pledges[c] \in Pledge /\ Stamped(pledges[c], m).status = "matched"
    BY <1>3 DEF Stamped, Pledge
  <2>3. \A c \in Contrib : pledges'[c].status = "confirmed" => pledges'[c] = pledges[c]
    BY <1>6, <2>2 DEF CreateMatch
  <2>4. \A n \in Match : matches[n].state \in Settled => matches'[n].state \in Settled
    BY <1>3, <1>6 DEF CreateMatch, Settled
  <2>5. QED
    BY <1>6, <2>1, <2>3, <2>4 DEF CreateMatch, Quiet
<1>7. ASSUME NEW c \in Contrib, Mint(h, c)  PROVE Turns(h) /\ KeepsSpent(h) /\ Quiet(h)
  <2>1. Turns(h) /\ KeepsSpent(h)
    BY <1>1, <1>2, <1>7 DEF Mint, Turns, KeepsSpent, OnAMatch, HState
  <2>2. Quiet(h)
    BY <1>3, <1>7 DEF Mint, SetMatchActionToken, Quiet, Pledge
  <2>3. QED
    BY <2>1, <2>2
<1>8. QED
  BY <1>4, <1>5, <1>6, <1>7

LEMMA DissolvingTurns ==
  ASSUME TypeOK, BusyWithSomething, NEW h \in Handler,
         \/ Decline(h) \/ Spend(h) \/ Clear(h) \/ Close(h) \/ DeletePledge(h)
         \/ \E c \in Contrib : Release(h, c) \/ SpendParty(h, c)
  PROVE  Turns(h) /\ KeepsSpent(h) /\ Quiet(h)
<1> USE DEF tables, mails, itemRow, history, Go, Finish, At, Store
<1>1. hs[h] \in HState /\ hs \in [Handler -> HState] /\ Idle.pc = "idle"
  BY DEF TypeOK, Idle
<1>2. /\ hs[h].pc # "idle" => hs[h].c \in Contrib
      /\ hs[h].pc \in OnAMatch => hs[h].m \in Match
  BY DEF BusyWithSomething
<1>3. pledges \in [Contrib -> Pledge] /\ matches \in [Match -> Deal]
  BY DEF TypeOK
<1>4. ASSUME NEW c \in Contrib, NEW st \in {"declined", "pending"}, NEW m, Update(c, st, m)
      PROVE  \A d \in Contrib : pledges'[d].status = "confirmed" => pledges'[d] = pledges[d]
  <2> DEFINE f == [pledges EXCEPT ![c].status = st]
  <2>1. pledges' = [f EXCEPT ![c].match = m]
    BY <1>4 DEF Update
  <2>2. /\ f \in [Contrib -> Pledge] /\ f[c].status = st
        /\ \A d \in Contrib : d # c => f[d] = pledges[d]
    BY <1>3 DEF Pledge, Status, RowStatus, LiveStatus
  <2> HIDE DEF f
  <2>3. QED
    BY <2>1, <2>2 DEF Pledge
<1>5. ASSUME NEW c \in Contrib, NEW m, SetMatchActionToken(c, m)
      PROVE  \A d \in Contrib : pledges'[d].status = pledges[d].status
                                /\ pledges'[d].match = pledges[d].match
  BY <1>3, <1>5 DEF SetMatchActionToken, Pledge
<1>6. CASE Decline(h) \/ Spend(h)
  <2> DEFINE spending == [hs[h] EXCEPT !.pc = "spend"]
             released == [hs[h] EXCEPT !.pc = "release", !.todo = Members(hs[h].m) \ {hs[h].c}]
  <2>1. /\ hs[h].pc \in {"decline", "spend"}
        /\ \/ hs' = [hs EXCEPT ![h] = Idle]
           \/ hs' = [hs EXCEPT ![h] = released]
           \/ hs' = [hs EXCEPT ![h] = spending]
    BY <1>6 DEF Decline, Spend
  <2>2. /\ released.c = hs[h].c /\ released.m = hs[h].m /\ released.pc = "release"
        /\ spending.c = hs[h].c /\ spending.m = hs[h].m /\ spending.pc = "spend"
    BY <1>1 DEF HState
  <2> HIDE DEF released, spending
  <2>3. Turns(h) /\ KeepsSpent(h)
    BY <1>2, <2>1, <2>2, StopTurns, MoveTurns DEF OnAMatch
  <2>4. Quiet(h)
    BY <1>2, <1>4, <1>5, <1>6 DEF Decline, Spend, Quiet
  <2>5. QED
    BY <2>3, <2>4
<1>7. CASE Clear(h)
  <2>1. PICK c \in hs[h].team :
          IF Exists(c)
            THEN /\ SetMatchActionToken(c, NoMatch)
                 /\ hs' = [hs EXCEPT ![h] =
                      [hs[h] EXCEPT !.pc = "release", !.todo = hs[h].todo \ {c}, !.team = {}]]
            ELSE hs' = [hs EXCEPT ![h] = Idle] /\ UNCHANGED pledges
    BY <1>7 DEF Clear
  <2>2. c \in Contrib
    BY <1>1 DEF HState
  <2>3. hs[h].pc = "clear"
    BY <1>7 DEF Clear
  <2> DEFINE next == [hs[h] EXCEPT !.pc = "release", !.todo = hs[h].todo \ {c}, !.team = {}]
  <2>4. /\ hs' = [hs EXCEPT ![h] = Idle] \/ hs' = [hs EXCEPT ![h] = next]
        /\ next.c = hs[h].c /\ next.m = hs[h].m /\ next.pc = "release"
    BY <1>1, <2>1 DEF HState
  <2>5. Quiet(h)
    BY <1>5, <1>7, <2>1, <2>2 DEF Clear, Quiet
  <2> HIDE DEF next
  <2>6. QED
    BY <1>2, <2>3, <2>4, <2>5, StopTurns, MoveTurns DEF OnAMatch
<1>8. CASE Close(h) \/ DeletePledge(h)
  <2>1. Turns(h) /\ KeepsSpent(h)
    BY <1>1, <1>2, <1>8 DEF Close, DeletePledge, Turns, KeepsSpent, OnAMatch, HState
  <2>2. Close(h) => hs[h].m \in Match
    BY <1>2 DEF Close, OnAMatch
  <2>3. \A m \in Match : matches[m].state \in Settled => matches'[m].state \in Settled
    BY <1>3, <1>8, <2>2 DEF Close, DeletePledge, Deal, Settled
  <2>4. \A c \in Contrib : pledges'[c].status = "confirmed" => pledges'[c] = pledges[c]
    BY <1>2, <1>3, <1>8 DEF Close, DeletePledge, DeleteRow, Pledge
  <2>5. QED
    BY <1>8, <2>1, <2>3, <2>4 DEF Close, DeletePledge, Quiet
<1>9. ASSUME NEW c \in Contrib, Release(h, c)  PROVE Turns(h) /\ KeepsSpent(h) /\ Quiet(h)
  <2>1. hs[h].pc = "release"
    BY <1>9 DEF Release
  <2> DEFINE clearing == [hs[h] EXCEPT !.pc = "clear", !.team = {c}]
             skipping == [hs[h] EXCEPT !.todo = hs[h].todo \ {c}]
  <2>2. /\ hs' = [hs EXCEPT ![h] = clearing] \/ hs' = [hs EXCEPT ![h] = skipping]
        /\ clearing.c = hs[h].c /\ clearing.m = hs[h].m /\ clearing.pc = "clear"
        /\ skipping.c = hs[h].c /\ skipping.m = hs[h].m /\ skipping.pc = "release"
    BY <1>1, <1>9, <2>1 DEF Release, HState
  <2>3. Quiet(h)
    BY <1>4, <1>9 DEF Release, Quiet
  <2> HIDE DEF clearing, skipping
  <2>4. QED
    BY <1>2, <2>1, <2>2, <2>3, MoveTurns DEF OnAMatch
<1>10. ASSUME NEW c \in Contrib, SpendParty(h, c)  PROVE Turns(h) /\ KeepsSpent(h) /\ Quiet(h)
  <2>1. Turns(h) /\ KeepsSpent(h)
    BY <1>1, <1>2, <1>10 DEF SpendParty, Turns, KeepsSpent, OnAMatch, HState
  <2>2. Quiet(h)
    BY <1>5, <1>10 DEF SpendParty, Quiet
  <2>3. QED
    BY <2>1, <2>2
<1>11. QED
  BY <1>6, <1>7, <1>8, <1>9, <1>10

-----------------------------------------------------------------------------
(* The inductive invariant *)

LEMMA QuietKeeps ==
  ASSUME IInv, TypeOK', NEW h \in Handler, Turns(h), KeepsSpent(h), Quiet(h)
  PROVE  IInv'
<1>1. BusyWithSomething'
  BY DEF IInv, BusyWithSomething, Turns
<1>2. ASSUME NEW g \in Handler, hs'[g].pc = "spent"
      PROVE  hs[g].pc = "spent" /\ hs'[g].m = hs[g].m /\ hs'[g].team = hs[g].team
  BY <1>2 DEF Turns, KeepsSpent
<1>3. RevealNeedsConsent'
  BY <1>2 DEF IInv, RevealNeedsConsent, Quiet
<1>4. RevealSettled'
  BY <1>2 DEF IInv, RevealSettled, Revealing, Quiet
<1>5. OneReveals'
  BY <1>2 DEF IInv, OneReveals, Revealing, Quiet
<1>6. QED
  BY <1>1, <1>3, <1>4, <1>5 DEF IInv

\* Only a proposed match is confirmed: by RevealSettled nobody reveals it.
LEMMA ConfirmKeeps ==
  ASSUME IInv, TypeOK', NEW h \in Handler, Confirm(h)
  PROVE  IInv'
<1> DEFINE c == hs[h].c
           m == hs[h].m
<1> USE DEF tables, mails, itemRow, history, Go, Finish, At, Store
<1>1. c \in Contrib /\ m \in Match /\ hs[h].pc = "confirm"
  BY DEF Confirm, IInv, BusyWithSomething, OnAMatch
<1>2. /\ hs \in [Handler -> HState] /\ pledges \in [Contrib -> Pledge]
      /\ matches \in [Match -> Deal] /\ consented \in [Match -> SUBSET Contrib]
      /\ Idle.pc = "idle"
  BY DEF IInv, TypeOK, Idle
<1>3. CASE hs' = [hs EXCEPT ![h] = Idle] /\ UNCHANGED <<tables, consented>>
  <2>1. Quiet(h)
    BY <1>3 DEF Confirm, Quiet
  <2>2. Turns(h) /\ KeepsSpent(h)
    BY <1>3, StopTurns DEF IInv
  <2>3. QED
    BY <2>1, <2>2, QuietKeeps
<1>4. CASE ~(hs' = [hs EXCEPT ![h] = Idle] /\ UNCHANGED <<tables, consented>>)
  <2> DEFINE team == Party(m)
             next == [hs[h] EXCEPT !.pc = "spent", !.todo = team, !.team = team]
  <2>1. /\ StillProposed(m) /\ c \in Party(m)
        /\ pledges' = [pledges EXCEPT ![c].status = "confirmed"]
        /\ consented' = [consented EXCEPT ![m] = consented[m] \cup {c}]
        /\ \/ /\ AllConfirmed(team)
              /\ matches' = [matches EXCEPT ![m].state = "both_confirmed"]
              /\ hs' = [hs EXCEPT ![h] = next]
           \/ hs' = [hs EXCEPT ![h] = Idle] /\ UNCHANGED matches
    BY <1>4 DEF Confirm
  <2>2. /\ next.c = c /\ next.m = m /\ next.pc = "spent" /\ next.team = team
    BY <1>2 DEF HState
  <2>3. revealed' = revealed
    BY DEF Confirm
  <2>4. /\ \A g \in Handler : g # h => hs'[g] = hs[g]
        /\ \/ hs'[h] = Idle
           \/ hs'[h] = next /\ AllConfirmed(team) /\ matches'[m].state = "both_confirmed"
    <3>1. /\ matches[m] \in Deal
          /\ [matches EXCEPT ![m].state = "both_confirmed"][m].state = "both_confirmed"
      BY <1>1, <1>2 DEF Deal
    <3> HIDE DEF next, team
    <3>2. \A g \in Handler : g # h => hs'[g] = hs[g]
      BY <1>2, <2>1
    <3>3. CASE hs' = [hs EXCEPT ![h] = Idle]
      BY <1>2, <3>2, <3>3
    <3>4. CASE /\ AllConfirmed(team) /\ hs' = [hs EXCEPT ![h] = next]
               /\ matches' = [matches EXCEPT ![m].state = "both_confirmed"]
      BY <1>2, <3>1, <3>2, <3>4
    <3>5. QED
      BY <2>1, <3>3, <3>4
  <2>5. BusyWithSomething'
    <3>1. /\ hs'[h].pc \in {"idle", "spent"}
          /\ hs'[h].pc = "spent" => hs'[h].c = c /\ hs'[h].m = m
      BY <1>2, <2>2, <2>4
    <3> HIDE DEF next, team, c, m
    <3>2. /\ hs'[h].pc # "idle" => hs'[h].c \in Contrib
          /\ hs'[h].pc # "judge"
          /\ hs'[h].pc \in OnAMatch => hs'[h].m \in Match
      BY <1>1, <3>1 DEF OnAMatch
    <3>3. QED
      BY <2>4, <3>2 DEF IInv, BusyWithSomething
  <2>6. /\ pledges[c].match = m
        /\ \A d \in Contrib : /\ pledges'[d].match = pledges[d].match
                              /\ d # c => pledges'[d].status = pledges[d].status
    BY <1>1, <1>2, <2>1 DEF Party, Pledge
  <2>7. /\ \A n \in Match : consented[n] \subseteq consented'[n]
        /\ c \in consented'[m]
    BY <1>1, <1>2, <2>1
  <2>8. ASSUME NEW d \in Contrib, pledges'[d].status = "confirmed"
        PROVE  pledges'[d].match # NoMatch /\ d \in consented'[pledges'[d].match]
    <3>1. CASE d = c
      BY <1>1, <2>6, <2>7, <3>1, IdsAssumption
    <3>2. CASE d # c
      <4>1. /\ pledges[d].match # NoMatch /\ d \in consented[pledges[d].match]
            /\ pledges[d].match \in Match
        BY <1>2, <2>6, <2>8, <3>2 DEF IInv, RevealNeedsConsent, Pledge
      <4>2. QED
        BY <2>6, <2>7, <4>1
    <3>3. QED
      BY <3>1, <3>2
  <2>9. AllConfirmed(team) => team \subseteq consented'[m]
    <3>1. \A d \in team : d \in Contrib /\ pledges'[d].match = m
      BY <2>6 DEF Party
    <3>2. QED
      BY <2>8, <3>1 DEF AllConfirmed
  <2> HIDE DEF next, team
  <2>10. \A n \in Match : revealed[n] \subseteq consented[n]
    BY DEF IInv, RevealNeedsConsent
  <2>11. ASSUME NEW g \in Handler, hs'[g].pc = "spent"
         PROVE  hs'[g].team \subseteq consented'[hs'[g].m]
    <3>1. CASE g = h
      BY <1>2, <2>2, <2>4, <2>9, <2>11, <3>1
    <3>2. CASE g # h
      <4>1. hs'[g] = hs[g] /\ hs[g].m \in Match /\ hs[g].team \subseteq consented[hs[g].m]
        BY <2>4, <2>11, <3>2 DEF IInv, RevealNeedsConsent, BusyWithSomething, OnAMatch
      <4>2. QED
        BY <2>7, <4>1
    <3>3. QED
      BY <3>1, <3>2
  <2>12. RevealNeedsConsent'
    BY <2>3, <2>7, <2>8, <2>10, <2>11 DEF RevealNeedsConsent
  <2>13. revealed[m] = {} /\ \A g \in Handler : ~Revealing(g, m)
    BY <1>1, <2>1 DEF IInv, RevealSettled, StillProposed, Settled
  <2>14. \A g \in Handler, n \in Match :
           Revealing(g, n)' =>
             \/ g # h /\ Revealing(g, n)
             \/ g = h /\ n = m /\ matches'[m].state = "both_confirmed"
    <3>1. ASSUME NEW n \in Match, Revealing(h, n)'
          PROVE  n = m /\ matches'[m].state = "both_confirmed"
      BY <1>2, <2>2, <2>4, <3>1 DEF Revealing
    <3>2. ASSUME NEW g \in Handler, g # h, NEW n \in Match, Revealing(g, n)'
          PROVE  Revealing(g, n)
      BY <2>4, <3>2 DEF Revealing
    <3>3. QED
      BY <3>1, <3>2 DEF Revealing
  <2>15. \A n \in Match : n # m => matches'[n] = matches[n]
    BY <1>2, <2>1
  <2>16. RevealSettled'
    BY <2>3, <2>13, <2>14, <2>15 DEF IInv, RevealSettled, Settled
  <2>17. OneReveals'
    BY <2>3, <2>13, <2>14 DEF IInv, OneReveals
  <2>18. QED
    BY <2>5, <2>12, <2>16, <2>17 DEF IInv
<1>5. QED
  BY <1>3, <1>4

LEMMA RevealFirst ==
  ASSUME IInv, NEW h \in Handler, Reveal(h)
  PROVE  revealed[hs[h].m] = {}
  BY DEF Reveal, At, IInv, BusyWithSomething, OnAMatch, OneReveals, Revealing

\* The one who reveals is the only one, so nobody is left to do it again.
LEMMA RevealKeeps ==
  ASSUME IInv, TypeOK', NEW h \in Handler, Reveal(h)
  PROVE  IInv'
<1> DEFINE m == hs[h].m
<1> USE DEF tables, mails, itemRow, history, Go, Finish, At
<1>1. hs[h].pc = "spent" /\ m \in Match /\ Revealing(h, m)
  BY DEF Reveal, IInv, BusyWithSomething, OnAMatch, Revealing
<1>2. /\ hs \in [Handler -> HState] /\ revealed \in [Match -> SUBSET Contrib]
      /\ Idle.pc = "idle"
  BY DEF IInv, TypeOK, Idle
<1>3. revealed[m] = {} /\ \A g \in Handler : Revealing(g, m) => g = h
  BY <1>1 DEF IInv, OneReveals
<1>4. /\ \A g \in Handler : g # h => hs'[g] = hs[g]
      /\ hs'[h] = Idle
      /\ UNCHANGED <<pledges, matches, consented>>
      /\ revealed'[m] = revealed[m] \cup hs[h].team
      /\ \A n \in Match : n # m => revealed'[n] = revealed[n]
  BY <1>1, <1>2 DEF Reveal
<1>5. BusyWithSomething'
  BY <1>2, <1>4 DEF IInv, BusyWithSomething, OnAMatch
<1>6. \A g \in Handler : hs'[g].pc = "spent" => g # h
  BY <1>2, <1>4
<1>7. RevealNeedsConsent'
  BY <1>1, <1>4, <1>6 DEF IInv, RevealNeedsConsent
<1>8. \A g \in Handler, n \in Match : Revealing(g, n)' => g # h /\ n # m /\ Revealing(g, n)
  BY <1>3, <1>4, <1>6 DEF Revealing
<1>9. RevealSettled'
  BY <1>1, <1>4, <1>8 DEF IInv, RevealSettled
<1>10. OneReveals'
  BY <1>4, <1>8 DEF IInv, OneReveals
<1>11. QED
  BY <1>5, <1>7, <1>9, <1>10 DEF IInv

LEMMA OthersKeep ==
  ASSUME IInv, TypeOK', \/ \E s \in Sweeper : SweeperNext(s)
                        \/ OwnerNext \/ OtherTrack \/ UNCHANGED vars
                        \/ \E m \in Match : Tick(m)
  PROVE  IInv'
<1> USE DEF tables, mails, itemRow, history
<1>1. UNCHANGED <<hs, consented, revealed>>
  BY DEF SweeperNext, StartSweep, Expire, ExpiryFails, OwnerNext, SetPrice, SetItem, OtherTrack,
         vars, Tick
<1>2. pledges \in [Contrib -> Pledge] /\ matches \in [Match -> Deal]
  BY DEF IInv, TypeOK
<1>3. /\ \A c \in Contrib : pledges'[c].status = "confirmed" => pledges'[c] = pledges[c]
      /\ \A m \in Match : matches[m].state \in Settled => matches'[m].state \in Settled
  <2>1. ASSUME NEW s \in Sweeper, NEW m \in Match, Expire(s, m)  PROVE <1>3!:
    <3>1. \A c \in Contrib :
            [pledges[c] EXCEPT !.status = "expired", !.act = NoMatch].status = "expired"
      BY <1>2 DEF Pledge
    <3>2. QED
      BY <1>2, <2>1, <3>1 DEF Expire, Store, StillProposed, Deal, Settled
  <2>2. ASSUME NEW m \in Match, Tick(m)  PROVE <1>3!:
    BY <1>2, <2>2 DEF Tick, Deal
  <2>3. CASE UNCHANGED tables
    BY <2>3
  <2>4. QED
    BY <2>1, <2>2, <2>3 DEF SweeperNext, StartSweep, ExpiryFails, OwnerNext, SetPrice, SetItem,
                            OtherTrack, vars
<1>4. BusyWithSomething' /\ OneReveals'
  BY <1>1 DEF IInv, BusyWithSomething, OneReveals, Revealing
<1>5. RevealNeedsConsent' /\ RevealSettled'
  BY <1>1, <1>3 DEF IInv, RevealNeedsConsent, RevealSettled, Revealing
<1>6. QED
  BY <1>4, <1>5 DEF IInv

LEMMA InitHolds ==
  ASSUME Init
  PROVE  IInv
<1>1. Idle.pc = "idle" /\ NoPledge.status = "none"
  BY DEF Idle, NoPledge
<1>2. QED
  BY <1>1, InitTypes DEF Init, IInv, BusyWithSomething, RevealNeedsConsent, RevealSettled,
                         OneReveals, Revealing, OnAMatch

THEOREM Inductive == Spec => []IInv
<1>1. Init => IInv
  BY InitHolds
<1>2. ASSUME IInv, [Next]_vars  PROVE IInv'
  <2>1. ASSUME NEW h \in Handler, HandlerNext(h)  PROVE IInv'
    <3>1. TypeOK'
      BY <1>2, <2>1, HandlerTypes DEF IInv
    <3>2. CASE Confirm(h)
      BY <1>2, <3>1, <3>2, ConfirmKeeps
    <3>3. CASE Reveal(h)
      BY <1>2, <3>1, <3>3, RevealKeeps
    <3>4. CASE ~Confirm(h) /\ ~Reveal(h)
      <4>1. Turns(h) /\ KeepsSpent(h) /\ Quiet(h)
        BY <1>2, <2>1, <3>4, ArriveTurns, ProposingTurns, DissolvingTurns
           DEF HandlerNext, Working, IInv
      <4>2. QED
        BY <1>2, <3>1, <4>1, QuietKeeps
    <3>5. QED
      BY <3>2, <3>3, <3>4
  <2>2. ASSUME ~\E h \in Handler : HandlerNext(h)  PROVE IInv'
    <3>1. TypeOK'
      BY <1>2, <2>2, OtherTypes DEF Next, TrackNext, IInv
    <3>2. QED
      BY <1>2, <2>2, <3>1, OthersKeep DEF Next, TrackNext
  <2>3. QED
    BY <2>1, <2>2
<1>3. QED
  BY <1>1, <1>2, PTL DEF Spec

\* Every table, handler and sweeper keeps its type.
THEOREM TypeCorrect == Spec => []TypeOK
<1>1. IInv => TypeOK
  BY DEF IInv
<1>2. QED
  BY <1>1, Inductive, PTL

\* Nobody's contact goes out in a match he did not confirm himself.
THEOREM OnlyConsentRevealed == Spec => []RevealNeedsConsent
<1>1. IInv => RevealNeedsConsent
  BY DEF IInv
<1>2. QED
  BY <1>1, Inductive, PTL

\* Whatever sweeps race the last confirm, an expired match is never revealed.
THEOREM NoRevealAfterExpiry == Spec => []ExpiredNeverRevealed
<1>1. IInv => ExpiredNeverRevealed
  BY DEF IInv, RevealSettled, Revealing, Settled, ExpiredNeverRevealed
<1>2. QED
  BY <1>1, Inductive, PTL

\* A reveal finds the match not revealed before (issue 36).
RevealOnce ==
  [][\A h \in Handler : Reveal(h) => revealed[hs[h].m] = {}]_vars

\* Whatever requests race, the reveal mails of a match go out at most once.
THEOREM RevealedOnce == Spec => RevealOnce
<1>1. ASSUME IInv, [Next]_vars
      PROVE  [\A h \in Handler : Reveal(h) => revealed[hs[h].m] = {}]_vars
  BY <1>1, RevealFirst
<1>2. QED
  BY <1>1, Inductive, PTL DEF Spec, RevealOnce
-----------------------------------------------------------------------------
(* Funding *)

\* The price a pledge in flight has read was asked before.
WantsAsked == /\ price <= peak
              /\ \A h \in Handler : hs[h].pc = "insert" => hs[h].want <= peak

LEMMA UnitsFinite ==
  /\ IsFiniteSet(Contrib \X Money)
  /\ Cardinality(Contrib \X Money) = Cardinality(Contrib) * MaxPrice
  /\ Cardinality(Contrib) \in Nat
<1>1. IsFiniteSet(Money) /\ Cardinality(Money) = MaxPrice
  <2>1. 1 \in Int /\ MaxPrice \in Int /\ MaxPrice >= 1
    BY PriceAssumption
  <2>2. IsFiniteSet(1 .. MaxPrice)
        /\ Cardinality(1 .. MaxPrice) = IF 1 > MaxPrice THEN 0 ELSE MaxPrice - 1 + 1
    BY <2>1, FS_Interval
  <2>3. QED
    BY <2>1, <2>2 DEF Money
<1>2. QED
  BY <1>1, IdsAssumption, FS_Product, FS_CardinalityType

LEMMA SumIsSmall ==
  ASSUME NEW S \in SUBSET Contrib
  PROVE  /\ IsFiniteSet(Units(S)) /\ Sum(S) \in Nat
         /\ Sum(S) <= Cardinality(Contrib) * MaxPrice
<1>1. Units(S) \subseteq Contrib \X Money
  BY DEF Units
<1>2. QED
  BY <1>1, UnitsFinite, FS_Subset, FS_CardinalityType DEF Sum

\* An insert adds as many units as it pledges.
LEMMA InsertFunds ==
  ASSUME TypeOK, BusyWithSomething, NEW h \in Handler, InsertPledge(h)
  PROVE  Funded' <= Funded + hs[h].amount
<1> DEFINE c == hs[h].c
           a == hs[h].amount
           live == {d \in Contrib : Live(d)}
           added == {c} \X (1 .. a)
<1>1. c \in Contrib /\ a \in Money /\ pledges \in [Contrib -> Pledge]
  BY DEF InsertPledge, At, BusyWithSomething, TypeOK, HState
<1>2. /\ pledges'[c].amount = a
      /\ \A d \in Contrib : d # c => pledges'[d] = pledges[d]
  BY <1>1 DEF InsertPledge, Store, NoPledge
<1>3. Units(live)' \subseteq Units(live) \cup added
  BY <1>1, <1>2 DEF Units, Live, Money
<1>4. IsFiniteSet(added) /\ Cardinality(added) = a
  <2>1. IsFiniteSet({c}) /\ Cardinality({c}) = 1
    BY FS_Singleton
  <2>2. 1 \in Int /\ a \in Int /\ 1 <= a
    BY <1>1 DEF Money
  <2>3. IsFiniteSet(1 .. a) /\ Cardinality(1 .. a) = IF 1 > a THEN 0 ELSE a - 1 + 1
    BY <2>2, FS_Interval
  <2>4. IsFiniteSet(added) /\ Cardinality(added) = 1 * Cardinality(1 .. a)
    BY <2>1, <2>3, FS_Product
  <2>5. QED
    BY <2>2, <2>3, <2>4
<1>5. IsFiniteSet(Units(live)) /\ Cardinality(Units(live)) \in Nat
  BY SumIsSmall DEF Sum
<1>6. /\ IsFiniteSet(Units(live) \cup added)
      /\ Cardinality(Units(live) \cup added)
           = Cardinality(Units(live)) + Cardinality(added) - Cardinality(Units(live) \cap added)
  BY <1>4, <1>5, FS_Union
<1>7. Cardinality(Units(live) \cap added) \in Nat
  BY <1>5, FS_Intersection, FS_CardinalityType
<1>8. Cardinality(Units(live)') <= Cardinality(Units(live) \cup added)
  BY <1>3, <1>6, FS_Subset
<1>9. Cardinality(Units(live) \cup added) <= Cardinality(Units(live)) + a
  BY <1>1, <1>4, <1>5, <1>6, <1>7 DEF Money
<1>10. Cardinality(Units(live)') \in Nat /\ Cardinality(Units(live) \cup added) \in Nat
  BY <1>3, <1>6, FS_Subset, FS_CardinalityType
<1>11. QED
  BY <1>1, <1>5, <1>8, <1>9, <1>10 DEF Funded, Sum, Money

\* Only a request that arrives starts to insert, with the price it read.
LEMMA NobodyElseInserts ==
  ASSUME TypeOK, BusyWithSomething, NEW h \in Handler, HandlerNext(h)
  PROVE  /\ UNCHANGED <<price, peak>>
         /\ \A g \in Handler : g # h => hs'[g] = hs[g]
         /\ hs'[h].pc = "insert" => hs'[h].want = price
<1> DEFINE Fine == /\ UNCHANGED <<price, peak>>
                   /\ \A g \in Handler : g # h => hs'[g] = hs[g]
                   /\ hs'[h].pc = "insert" => hs'[h].want = price
<1> USE DEF tables, mails, itemRow, history, Go, Finish, At
<1>1. hs \in [Handler -> HState] /\ hs[h] \in HState /\ Idle.pc = "idle"
  BY DEF TypeOK, Idle
<1>2. hs[h].pc = "judge" => hs[h].plan \in {"withdraw", "decline", "confirm"}
  BY <1>1 DEF BusyWithSomething, HState, Plans
<1>3. ASSUME NEW c \in Contrib, NEW a \in Amounts, Contribute(h, c, a)  PROVE Fine
  BY <1>1, <1>3 DEF Contribute, Idle
<1>4. ASSUME NEW c \in Contrib, Withdraw(h, c)  PROVE Fine
  BY <1>1, <1>4 DEF Withdraw, Idle
<1>5. ASSUME NEW c \in Contrib, NEW plan \in {"confirm", "decline"}, Decide(h, c, plan)
      PROVE  Fine
  <2>1. PICK m \in Match : hs' = [hs EXCEPT ![h] =
          [Idle EXCEPT !.pc = "judge", !.plan = plan, !.c = c, !.m = m]]
    BY <1>5 DEF Decide
  <2>2. QED
    BY <1>1, <1>5, <2>1 DEF Decide, Idle
<1>6. ASSUME NEW next, hs' = [hs EXCEPT ![h] = next], next.pc # "insert",
             UNCHANGED <<price, peak>>
      PROVE  Fine
  BY <1>1, <1>6
<1>7. CASE Abort(h) \/ RefusePledge(h) \/ ProposalFails(h) \/ DeletePledge(h) \/ Reveal(h) \/ Invite(h)
  BY <1>1, <1>6, <1>7 DEF Abort, RefusePledge, ProposalFails, DeletePledge, Reveal, Invite
<1>8. CASE JudgeWithdrawal(h) \/ JudgeDecision(h)
  BY <1>1, <1>2, <1>6, <1>8 DEF JudgeWithdrawal, JudgeDecision, HState
<1>9. CASE InsertPledge(h) \/ ReadPending(h) \/ Decline(h) \/ Spend(h)
  BY <1>1, <1>6, <1>9 DEF InsertPledge, ReadPending, Decline, Spend, HState
<1>10. CASE Clear(h) \/ Close(h) \/ Confirm(h)
  <2>1. CASE Close(h) \/ Confirm(h)
    <3> DEFINE deleting == [hs[h] EXCEPT !.pc = "delete"]
               party    == Party(hs[h].m)
               revealing == [hs[h] EXCEPT !.pc = "spent", !.todo = party, !.team = party]
    <3>1. /\ UNCHANGED <<price, peak>>
          /\ \/ hs' = [hs EXCEPT ![h] = Idle]
             \/ hs' = [hs EXCEPT ![h] = deleting]
             \/ hs' = [hs EXCEPT ![h] = revealing]
      BY <2>1 DEF Close, Confirm
    <3>2. deleting.pc = "delete" /\ revealing.pc = "spent"
      BY <1>1 DEF HState
    <3> HIDE DEF deleting, revealing
    <3>3. QED
      BY <1>1, <1>6, <3>1, <3>2
  <2>2. CASE Clear(h)
    <3>1. PICK c \in hs[h].team :
            \/ hs' = [hs EXCEPT ![h] =
                 [hs[h] EXCEPT !.pc = "release", !.todo = hs[h].todo \ {c}, !.team = {}]]
            \/ hs' = [hs EXCEPT ![h] = Idle]
      BY <2>2 DEF Clear
    <3> DEFINE next == [hs[h] EXCEPT !.pc = "release", !.todo = hs[h].todo \ {c}, !.team = {}]
    <3>2. next.pc = "release" /\ UNCHANGED <<price, peak>>
      BY <1>1, <2>2 DEF Clear, HState
    <3> HIDE DEF next
    <3>3. QED
      BY <1>1, <1>6, <3>1, <3>2 DEF next
  <2>3. QED
    BY <1>10, <2>1, <2>2
<1>11. ASSUME NEW c \in Contrib, Mint(h, c) \/ Release(h, c) \/ SpendParty(h, c)
       PROVE  Fine
  BY <1>1, <1>6, <1>11 DEF Mint, Release, SpendParty, HState
<1>12. ASSUME NEW m \in Match, CreateMatch(h, m)  PROVE Fine
  BY <1>1, <1>6, <1>12 DEF CreateMatch, HState
<1>13. QED
  BY <1>3, <1>4, <1>5, <1>7, <1>8, <1>9, <1>10, <1>11, <1>12 DEF HandlerNext, Arrive, Working

LEMMA WantsKept ==
  ASSUME TypeOK, BusyWithSomething, WantsAsked, [Next]_vars
  PROVE  WantsAsked'
<1>1. price \in Nat /\ peak \in Nat /\ price <= peak
  BY PriceAssumption DEF TypeOK, Money, WantsAsked
<1>2. ASSUME NEW h \in Handler, HandlerNext(h)  PROVE WantsAsked'
  <2>1. UNCHANGED <<price, peak>>
    BY <1>2, NobodyElseInserts
  <2>2. ASSUME NEW g \in Handler, hs'[g].pc = "insert"  PROVE hs'[g].want <= peak
    BY <1>1, <1>2, <2>2, NobodyElseInserts DEF WantsAsked
  <2>3. QED
    BY <1>1, <2>1, <2>2 DEF WantsAsked
<1>3. ASSUME NEW p \in Prices, SetPrice(p)  PROVE WantsAsked'
  <2>1. p \in Nat /\ UNCHANGED hs
    BY <1>3, PriceAssumption DEF SetPrice
  <2>2. peak' \in Nat /\ peak <= peak' /\ price' <= peak'
    BY <1>1, <1>3, <2>1 DEF SetPrice
  <2>3. ASSUME NEW h \in Handler, hs[h].pc = "insert"  PROVE hs[h].want <= peak'
    <3>1. hs[h].want \in Nat
      BY PriceAssumption DEF TypeOK, HState, Money
    <3>2. QED
      BY <1>1, <2>2, <2>3, <3>1 DEF WantsAsked
  <2>4. QED
    BY <2>1, <2>2, <2>3 DEF WantsAsked
<1>4. CASE UNCHANGED <<price, peak, hs>>
  BY <1>4 DEF WantsAsked
<1>5. CASE \/ \E s \in Sweeper : SweeperNext(s)
           \/ \E i \in {"open", "closed", "deleted"} : SetItem(i)
           \/ \E m \in Match : Tick(m)
           \/ OtherTrack \/ UNCHANGED vars
  BY <1>4, <1>5 DEF SweeperNext, StartSweep, Expire, ExpiryFails, SetItem, Tick, OtherTrack, vars,
                    itemRow
<1>6. QED
  BY <1>2, <1>3, <1>5 DEF Next, TrackNext, OwnerNext

\* For any amounts up to the largest int64, a pledge that takes the item past
\* the highest price it ever asked is one whose own addition left the range.
THEOREM PledgesFit == Spec => PledgeFits
<1>1. Init => WantsAsked
  <2>1. Init => price \in Nat /\ peak = price /\ \A h \in Handler : hs[h].pc = "idle"
    BY PriceAssumption DEF Init, Idle
  <2>2. QED
    BY <2>1 DEF WantsAsked
<1>2. ASSUME IInv, WantsAsked, [Next]_vars  PROVE WantsAsked'
  BY <1>2, WantsKept DEF IInv
<1>3. Spec => []WantsAsked
  BY <1>1, <1>2, Inductive, PTL DEF Spec
<1>4. ASSUME IInv, WantsAsked, [Next]_vars
      PROVE  [\A h \in Handler :
                InsertPledge(h) => Funded' <= peak \/ Funded + hs[h].amount > MaxInt]_vars
  <2>1. ASSUME NEW h \in Handler, InsertPledge(h), ~(Funded + hs[h].amount > MaxInt)
        PROVE  Funded' <= peak
    <3>1. /\ Funded' <= Funded + hs[h].amount
          /\ Wrapped(Funded + hs[h].amount) <= hs[h].want /\ hs[h].want <= peak
      BY <1>4, <2>1, InsertFunds DEF InsertPledge, Fits, At, WantsAsked, IInv
    <3>2. /\ hs[h].amount \in Nat /\ hs[h].want \in Nat /\ peak \in Nat /\ MaxInt \in Nat
      BY <1>4, PriceAssumption DEF IInv, TypeOK, HState, Money
    <3>3. {c \in Contrib : Live(c)} \in SUBSET Contrib
      OBVIOUS
    <3>4. Funded \in Nat
      BY <3>3, SumIsSmall DEF Funded
    <3>5. Funded' \in Nat
      <4>1. Units({c \in Contrib : Live(c)})' \subseteq Contrib \X Money
        BY DEF Units
      <4>2. QED
        BY <4>1, UnitsFinite, FS_Subset, FS_CardinalityType DEF Funded, Sum
    <3>6. Wrapped(Funded + hs[h].amount) = Funded + hs[h].amount
      BY <2>1, <3>2, <3>4 DEF Wrapped
    <3>7. QED
      BY <3>1, <3>2, <3>4, <3>5, <3>6
  <2>2. QED
    BY <2>1
<1>5. QED
  BY <1>3, <1>4, Inductive, PTL DEF Spec, PledgeFits

-----------------------------------------------------------------------------
(* The refinement of Introductions *)

\* What a handler works on has been proposed: it judged the match while it
\* was, or proposed it itself.
Begun == \A h \in Handler : hs[h].pc \in OnAMatch => matches[hs[h].m].state # "none"

\* What the abstract specification sees of the tables and the handlers.
Verdicts == [m \in Match |-> matches[m].state]
DueTo(m) == UNION {hs[h].team : h \in {g \in Handler : hs[g].pc = "spent" /\ hs[g].m = m}}
Dues     == [m \in Match |-> DueTo(m)]

\* A handler says something of a match when it proposes, confirms or closes it.
LEMMA HandlerVerdict ==
  ASSUME NEW h \in Handler, HandlerNext(h)
  PROVE  matches' = matches \/ Confirm(h) \/ Close(h) \/ \E m \in Match : CreateMatch(h, m)
  BY DEF HandlerNext, Working, Arrive, Contribute, Withdraw, Decide, Abort, RefusePledge,
              InsertPledge, ReadPending, Invite, Mint, Release, SpendParty, JudgeWithdrawal,
              JudgeDecision, Decline, Spend, Clear, DeletePledge, Reveal, ProposalFails, tables

\* No statement makes a match unproposed again, and few say anything of one.
LEMMA VerdictSteps ==
  ASSUME TypeOK, BusyWithSomething, [Next]_vars
  PROVE  \/ Verdicts' = Verdicts
         \/ \E h \in Handler : Confirm(h) \/ Close(h) \/ \E m \in Match : CreateMatch(h, m)
         \/ \E s \in Sweeper, m \in Match : Expire(s, m)
<1>1. CASE matches' = matches
  BY <1>1 DEF Verdicts
<1>2. ASSUME NEW h \in Handler, HandlerNext(h)
      PROVE  matches' = matches \/ Confirm(h) \/ Close(h) \/ \E m \in Match : CreateMatch(h, m)
  BY <1>2, HandlerVerdict
<1>3. ASSUME NEW m \in Match, Tick(m)  PROVE Verdicts' = Verdicts
  BY <1>3 DEF Tick, Verdicts, TypeOK, Deal
<1>4. ASSUME NEW s \in Sweeper, SweeperNext(s), \A m \in Match : ~Expire(s, m)
      PROVE  matches' = matches
  BY <1>4 DEF SweeperNext, StartSweep, ExpiryFails, tables
<1>5. CASE OwnerNext \/ OtherTrack \/ UNCHANGED vars
  BY <1>1, <1>5 DEF OwnerNext, SetPrice, SetItem, OtherTrack, vars, tables
<1>6. QED
  BY <1>1, <1>2, <1>3, <1>4, <1>5 DEF Next, TrackNext

\* A match moves from one state to another and no other does.
LEMMA StateStored ==
  ASSUME TypeOK, NEW m \in Match, NEW st, matches' = [matches EXCEPT ![m].state = st]
  PROVE  Verdicts' = [Verdicts EXCEPT ![m] = st]
<1>1. \A n \in Match : matches'[n].state = IF n = m THEN st ELSE matches[n].state
  BY DEF TypeOK, Deal
<1>2. QED
  BY <1>1 DEF Verdicts

LEMMA VerdictOfMatch ==
  ASSUME TypeOK, BusyWithSomething, NEW h \in Handler, NEW m \in Match, CreateMatch(h, m)
  PROVE  /\ Verdicts[m] = "none" /\ Verdicts' = [Verdicts EXCEPT ![m] = "proposed"]
         /\ hs'[h].m = m /\ matches'[m].state = "proposed"
<1>1. \A n \in Match : matches'[n].state = IF n = m THEN "proposed" ELSE matches[n].state
  BY DEF CreateMatch, TypeOK
<1>2. hs'[h].m = m
  BY DEF CreateMatch, Go, TypeOK, HState
<1>3. QED
  BY <1>1, <1>2 DEF Verdicts, CreateMatch

LEMMA NeverUnproposed ==
  ASSUME TypeOK, BusyWithSomething, [Next]_vars, NEW m \in Match, matches[m].state # "none"
  PROVE  matches'[m].state # "none"
<1>1. CASE Verdicts' = Verdicts
  BY <1>1 DEF Verdicts
<1>2. ASSUME NEW n \in Match, NEW st \in MatchStates \ {"none"}, matches' = [matches EXCEPT ![n].state = st]
      PROVE  matches'[m].state # "none"
  BY <1>2, StateStored DEF Verdicts
<1>3. ASSUME NEW h \in Handler, Confirm(h) \/ Close(h)  PROVE matches'[m].state # "none"
  <2>1. hs[h].m \in Match
    BY <1>3 DEF Confirm, Close, At, BusyWithSomething, OnAMatch
  <2>2. \/ matches' = matches
        \/ \E st \in MatchStates \ {"none"} : matches' = [matches EXCEPT ![hs[h].m].state = st]
    BY <1>3 DEF Confirm, Close, tables, MatchStates
  <2>3. QED
    BY <1>2, <2>1, <2>2
<1>4. ASSUME NEW h \in Handler, NEW n \in Match, CreateMatch(h, n)
      PROVE  matches'[m].state # "none"
  BY <1>4, VerdictOfMatch DEF Verdicts
<1>5. ASSUME NEW s \in Sweeper, NEW n \in Match, Expire(s, n)  PROVE matches'[m].state # "none"
  BY <1>2, <1>5 DEF Expire, tables, MatchStates
<1>6. QED
  BY <1>1, <1>3, <1>4, <1>5, VerdictSteps

\* A handler comes to work on a match by judging it while it is proposed, or
\* by proposing it.
LEMMA TakesUp ==
  ASSUME TypeOK, BusyWithSomething, NEW h \in Handler, HandlerNext(h), hs'[h].pc \in OnAMatch
  PROVE  \/ hs[h].pc \in OnAMatch /\ hs'[h].m = hs[h].m
         \/ Dissolvable(hs[h].m) /\ hs'[h].m = hs[h].m
         \/ \E m \in Match : CreateMatch(h, m)
<1> USE DEF Go, Finish, At
<1>1. hs[h] \in HState /\ hs \in [Handler -> HState] /\ Idle.pc \notin OnAMatch
  BY DEF TypeOK, Idle, OnAMatch
<1>2. ASSUME NEW next, hs' = [hs EXCEPT ![h] = next]  PROVE hs'[h] = next
  BY <1>1, <1>2
<1>3. CASE Arrive(h)
  <2>1. ASSUME NEW c \in Contrib, NEW a \in Amounts, Contribute(h, c, a)
        PROVE  hs'[h].pc = "insert"
    BY <1>1, <2>1 DEF Contribute, Idle
  <2>2. ASSUME NEW c \in Contrib, Withdraw(h, c)  PROVE hs'[h].pc = "judge"
    BY <1>1, <2>2 DEF Withdraw, Idle
  <2>3. ASSUME NEW c \in Contrib, NEW plan \in {"confirm", "decline"}, Decide(h, c, plan)
        PROVE  hs'[h].pc = "judge"
    BY <1>1, <2>3 DEF Decide, Idle
  <2>4. QED
    BY <1>3, <2>1, <2>2, <2>3 DEF Arrive, OnAMatch
<1>4. CASE JudgeWithdrawal(h) \/ JudgeDecision(h)
  <2>1. hs'[h] = Idle \/ Dissolvable(hs[h].m) \/ hs'[h].pc = "delete"
    BY <1>1, <1>4 DEF JudgeWithdrawal, JudgeDecision, HState
  <2>2. hs'[h] = Idle \/ hs'[h].m = hs[h].m
    <3>1. CASE JudgeWithdrawal(h)
      BY <1>1, <3>1 DEF JudgeWithdrawal, HState
    <3>2. CASE JudgeDecision(h)
      BY <1>1, <3>2 DEF JudgeDecision, HState
    <3>3. QED
      BY <1>4, <3>1, <3>2
  <2>3. QED
    BY <1>1, <2>1, <2>2 DEF OnAMatch
<1>5. CASE InsertPledge(h) \/ ReadPending(h)
  <2>1. InsertPledge(h) => hs'[h].pc = "propose"
    BY <1>1 DEF InsertPledge, HState
  <2>2. ReadPending(h) => hs'[h] = Idle \/ hs'[h].pc = "match"
    BY <1>1 DEF ReadPending, HState
  <2>3. QED
    BY <1>1, <1>5, <2>1, <2>2 DEF OnAMatch
<1>6. CASE \/ Abort(h) \/ RefusePledge(h) \/ Invite(h) \/ DeletePledge(h) \/ Reveal(h)
           \/ ProposalFails(h)
  BY <1>1, <1>6 DEF Abort, RefusePledge, Invite, DeletePledge, Reveal, ProposalFails
<1>7. CASE \/ Decline(h) \/ Spend(h) \/ Clear(h) \/ Close(h)
           \/ \E c \in Contrib : Mint(h, c) \/ Release(h, c) \/ SpendParty(h, c)
  <2>1. hs[h].pc \in OnAMatch
    BY <1>7 DEF Decline, Spend, Clear, Close, Mint, Release, SpendParty, OnAMatch
  <2>2. hs'[h] = Idle \/ hs'[h].m = hs[h].m
    <3>1. ASSUME NEW c \in Contrib, Mint(h, c) \/ SpendParty(h, c)
          PROVE  hs'[h] = Idle \/ hs'[h].m = hs[h].m
      BY <1>1, <3>1 DEF Mint, SpendParty, HState
    <3>2. ASSUME NEW c \in Contrib, Release(h, c)  PROVE hs'[h].m = hs[h].m
      <4>1. hs[h].m = [hs[h] EXCEPT !.pc = "clear", !.team = {c}].m
        BY <1>1 DEF HState
      <4>2. QED
        BY <1>1, <3>2, <4>1 DEF Release, HState
    <3>3. CASE Clear(h)
      <4>1. PICK c \in hs[h].team :
              hs' \in {[hs EXCEPT ![h] = Idle], [hs EXCEPT ![h] =
                        [hs[h] EXCEPT !.pc = "release", !.todo = hs[h].todo \ {c}, !.team = {}]]}
        BY <3>3 DEF Clear
      <4>2. QED
        BY <1>1, <4>1 DEF HState
    <3>4. CASE Decline(h) \/ Spend(h)
      BY <1>1, <3>4 DEF Decline, Spend, HState
    <3>5. CASE Close(h)
      BY <1>1, <3>5 DEF Close, HState
    <3>6. QED
      BY <1>7, <3>1, <3>2, <3>3, <3>4, <3>5
  <2>3. QED
    BY <1>1, <2>1, <2>2
<1>8. CASE Confirm(h)
  <2>1. hs[h].pc \in OnAMatch
    BY <1>8 DEF Confirm, OnAMatch
  <2>2. hs'[h] = Idle \/ hs'[h].m = hs[h].m
    BY <1>1, <1>8 DEF Confirm, HState
  <2>3. QED
    BY <1>1, <2>1, <2>2
<1>9. QED
  BY <1>3, <1>4, <1>5, <1>6, <1>7, <1>8 DEF HandlerNext, Working

\* A step that is not another handler's leaves a handler alone.
LEMMA OthersWait ==
  ASSUME TypeOK, BusyWithSomething, [Next]_vars, NEW h \in Handler, ~HandlerNext(h)
  PROVE  hs'[h] = hs[h]
<1>1. ASSUME NEW g \in Handler, HandlerNext(g)  PROVE hs'[h] = hs[h]
  <2>1. CASE Confirm(g) \/ Reveal(g)
    BY <1>1, <2>1 DEF Confirm, Reveal, Go, Finish, TypeOK
  <2>2. CASE ~Confirm(g) /\ ~Reveal(g)
    <3>1. Turns(g)
      BY <1>1, <2>2, ArriveTurns, ProposingTurns, DissolvingTurns DEF HandlerNext, Working
    <3>2. QED
      BY <1>1, <3>1 DEF Turns
  <2>3. QED
    BY <2>1, <2>2
<1>2. CASE \/ \E s \in Sweeper : SweeperNext(s)
           \/ OwnerNext \/ OtherTrack \/ UNCHANGED vars \/ \E m \in Match : Tick(m)
  BY <1>2 DEF SweeperNext, StartSweep, Expire, ExpiryFails, OwnerNext, SetPrice, SetItem,
              OtherTrack, vars, Tick
<1>3. QED
  BY <1>1, <1>2 DEF Next, TrackNext

LEMMA BegunStep ==
  ASSUME IInv, Begun, [Next]_vars
  PROVE  Begun'
<1> USE DEF Begun
<1>1. ASSUME NEW h \in Handler, hs'[h].pc \in OnAMatch
      PROVE  matches'[hs'[h].m].state # "none"
  <2>1. TypeOK /\ BusyWithSomething
    BY DEF IInv
  <2>2. CASE hs[h].pc \in OnAMatch /\ hs'[h].m = hs[h].m
    BY <2>1, <2>2, NeverUnproposed DEF BusyWithSomething
  <2>3. CASE Dissolvable(hs[h].m) /\ hs'[h].m = hs[h].m
    <3>1. hs[h].m \in Match /\ matches[hs[h].m].state # "none"
      BY <2>1, <2>3 DEF Dissolvable, StateOf, TypeOK, HState
    <3>2. QED
      BY <2>1, <2>3, <3>1, NeverUnproposed
  <2>4. ASSUME NEW m \in Match, CreateMatch(h, m)  PROVE matches'[hs'[h].m].state # "none"
    BY <2>1, <2>4, VerdictOfMatch
  <2>5. CASE HandlerNext(h)
    BY <1>1, <2>1, <2>2, <2>3, <2>4, <2>5, TakesUp
  <2>6. CASE ~HandlerNext(h)
    BY <1>1, <2>1, <2>2, <2>6, OthersWait
  <2>7. QED
    BY <2>5, <2>6
<1>2. QED
  BY <1>1

\* A match is due what the handler at its reveal has in hand.
LEMMA DueSame ==
  ASSUME NEW m \in Match,
         \A g \in Handler : /\ Revealing(g, m)' <=> Revealing(g, m)
                            /\ Revealing(g, m) => hs'[g].team = hs[g].team
  PROVE  DueTo(m)' = DueTo(m)
  BY DEF DueTo, Revealing

LEMMA DueIsTeam ==
  ASSUME IInv, NEW h \in Handler, hs[h].pc = "spent"
  PROVE  /\ hs[h].m \in Match /\ DueTo(hs[h].m) = hs[h].team
         /\ revealed[hs[h].m] = {}
<1>1. hs[h].m \in Match
  BY DEF IInv, BusyWithSomething, OnAMatch
<1>2. /\ \A g \in Handler : Revealing(g, hs[h].m) => g = h
      /\ revealed[hs[h].m] = {}
  BY <1>1 DEF IInv, OneReveals, Revealing
<1>3. {g \in Handler : hs[g].pc = "spent" /\ hs[g].m = hs[h].m} = {h}
  BY <1>2 DEF Revealing
<1>4. QED
  BY <1>1, <1>2, <1>3 DEF DueTo

\* A handler that neither confirms nor reveals keeps what it has in hand, or
\* drops it.
LEMMA DueKeptOrDropped ==
  ASSUME IInv, NEW h \in Handler, Turns(h), KeepsSpent(h)
  PROVE  Dues' = IF hs[h].pc = "spent" /\ hs'[h].pc # "spent"
                   THEN [Dues EXCEPT ![hs[h].m] = {}] ELSE Dues
<1>1. \A g \in Handler : g # h => hs'[g] = hs[g]
  BY DEF Turns
<1>2. CASE hs'[h].pc = "spent" \/ hs[h].pc # "spent"
  <2>1. ASSUME NEW m \in Match  PROVE DueTo(m)' = DueTo(m)
    BY <1>1, <1>2, DueSame DEF KeepsSpent, Revealing
  <2>2. QED
    BY <1>2, <2>1 DEF Dues
<1>3. CASE hs'[h].pc # "spent" /\ hs[h].pc = "spent"
  <2>1. \A g \in Handler : Revealing(g, hs[h].m) => g = h
    BY <1>3 DEF IInv, BusyWithSomething, OnAMatch, OneReveals, Revealing
  <2>2. ASSUME NEW m \in Match, m = hs[h].m  PROVE DueTo(m)' = {}
    <3>1. {g \in Handler : hs'[g].pc = "spent" /\ hs'[g].m = m} = {}
      BY <1>1, <1>3, <2>1, <2>2 DEF Revealing
    <3>2. QED
      BY <3>1 DEF DueTo
  <2>3. ASSUME NEW m \in Match, m # hs[h].m  PROVE DueTo(m)' = DueTo(m)
    BY <1>1, <1>3, <2>3, DueSame DEF Revealing
  <2>4. QED
    BY <1>3, <2>2, <2>3 DEF Dues
<1>4. QED
  BY <1>2, <1>3

\* A confirm says yes, and the last one agrees the match.
LEMMA ConfirmIntroduces ==
  ASSUME IInv, IInv', NEW h \in Handler, Confirm(h)
  PROVE  [Introduced!Next]_(Introduced!promise)
<1> USE DEF tables, mails, itemRow, history, Go, Finish, At, Store
<1>0. hs[h].c \in Contrib /\ hs[h].m \in Match /\ hs[h].pc = "confirm"
  BY DEF Confirm, IInv, BusyWithSomething, OnAMatch
<1>1. PICK c \in Contrib, m \in Match :
        c = hs[h].c /\ m = hs[h].m /\ hs[h].pc = "confirm" /\ revealed' = revealed
  BY <1>0 DEF Confirm
<1>2. TypeOK
  BY DEF IInv
<1>3. ASSUME hs' = [hs EXCEPT ![h] = Idle]  PROVE Dues' = Dues
  BY <1>1, <1>2, <1>3, StopTurns, DueKeptOrDropped
<1>4. CASE hs' = [hs EXCEPT ![h] = Idle] /\ UNCHANGED <<tables, consented>>
  BY <1>1, <1>3, <1>4 DEF Introduced!promise, Dues, DueTo
<1>5. CASE ~(hs' = [hs EXCEPT ![h] = Idle] /\ UNCHANGED <<tables, consented>>)
  <2>0. PICK team \in SUBSET Contrib : team = Party(m)
    BY DEF Party
  <2> DEFINE next == [hs[h] EXCEPT !.pc = "spent", !.todo = team, !.team = team]
  <2>1. /\ StillProposed(m) /\ c \in team
        /\ consented' = [consented EXCEPT ![m] = consented[m] \cup {c}]
        /\ \/ /\ AllConfirmed(team)
              /\ matches' = [matches EXCEPT ![m].state = "both_confirmed"]
              /\ hs' = [hs EXCEPT ![h] = next]
           \/ hs' = [hs EXCEPT ![h] = Idle] /\ UNCHANGED matches
    BY <1>1, <1>5, <2>0 DEF Confirm
  <2>2. Verdicts[m] = "proposed"
    BY <1>1, <2>1 DEF Verdicts, StillProposed
  <2>3. CASE hs' = [hs EXCEPT ![h] = Idle] /\ UNCHANGED matches
    <3>1. Dues' = Dues /\ Verdicts' = Verdicts
      BY <1>3, <2>3 DEF Verdicts
    <3>2. Introduced!Say(m, c)
      BY <1>1, <2>1, <2>2, <3>1 DEF Introduced!Say, Introduced!SaysYes, Verdicts, Dues, DueTo
    <3>3. QED
      BY <1>1, <3>2 DEF Introduced!Next
  <2>4. CASE /\ AllConfirmed(team) /\ hs' = [hs EXCEPT ![h] = next]
             /\ matches' = [matches EXCEPT ![m].state = "both_confirmed"]
    <3>1. Verdicts' = [Verdicts EXCEPT ![m] = "both_confirmed"]
      BY <1>1, <1>2, <2>4, StateStored
    <3>2. /\ hs \in [Handler -> HState] /\ hs[h] \in HState
          /\ hs'[h] = next /\ \A g \in Handler : g # h => hs'[g] = hs[g]
          /\ next.pc = "spent" /\ next.m = m /\ next.team = team
      BY <1>1, <1>2, <2>4 DEF TypeOK, HState
    <3> HIDE DEF next
    <3>3. \A g \in Handler : ~Revealing(g, m)
      BY <1>1, <2>1 DEF IInv, RevealSettled, StillProposed, Settled
    <3>4. Dues[m] = {}
      BY <1>1, <3>3 DEF Dues, DueTo, Revealing
    <3>5. ASSUME NEW n \in Match  PROVE DueTo(n)' = IF n = m THEN team ELSE DueTo(n)
      <4>1. CASE n # m
        BY <1>1, <3>2, <4>1, DueSame DEF Revealing
      <4>2. CASE n = m
        <5>1. {g \in Handler : hs'[g].pc = "spent" /\ hs'[g].m = n} = {h}
          BY <3>2, <3>3, <4>2 DEF Revealing
        <5>2. hs'[h].team = team
          BY <3>2
        <5>3. QED
          BY <4>2, <5>1, <5>2 DEF DueTo
      <4>3. QED
        BY <4>1, <4>2
    <3>6. Dues' = [Dues EXCEPT ![m] = team]
      BY <3>5 DEF Dues
    <3>7. team \subseteq consented'[m] /\ team \subseteq Contrib
      <4>1. hs'[h].pc = "spent" /\ hs'[h].team = team /\ hs'[h].m = m
        BY <3>2
      <4>2. hs'[h].team \subseteq consented'[hs'[h].m]
        BY <4>1 DEF IInv, RevealNeedsConsent
      <4>3. QED
        BY <4>1, <4>2
    <3>8. Introduced!Agree(m, c, team)
      BY <1>1, <2>1, <2>2, <3>1, <3>4, <3>6, <3>7
         DEF Introduced!Agree, Introduced!Becomes, Introduced!SaysYes, Verdicts, Dues, DueTo
    <3>9. QED
      BY <1>1, <3>7, <3>8 DEF Introduced!Next
  <2>5. QED
    BY <2>1, <2>3, <2>4
<1>6. QED
  BY <1>4, <1>5

\* The reveal introduces all that were due, to nobody before them.
LEMMA RevealIntroduces ==
  ASSUME IInv, NEW h \in Handler, Reveal(h)
  PROVE  [Introduced!Next]_(Introduced!promise)
<1>1. PICK m \in Match : m = hs[h].m
  BY DEF Reveal, At, IInv, BusyWithSomething, OnAMatch
<1>2. /\ hs[h].pc = "spent" /\ hs' = [hs EXCEPT ![h] = Idle]
      /\ revealed' = [revealed EXCEPT ![m] = revealed[m] \cup hs[h].team]
      /\ UNCHANGED <<matches, consented>>
  BY <1>1 DEF Reveal, At, Finish, Go, tables, history
<1>3. Dues[m] = hs[h].team /\ revealed[m] = {}
  BY <1>1, <1>2, DueIsTeam DEF Dues
<1>4. hs'[h].pc = "idle"
  BY <1>2 DEF IInv, TypeOK, Idle
<1>5. Dues' = [Dues EXCEPT ![m] = {}]
  BY <1>1, <1>2, <1>4, StopTurns, DueKeptOrDropped DEF IInv
<1>6. Verdicts' = Verdicts /\ revealed' = [revealed EXCEPT ![m] = Dues[m]]
  BY <1>2, <1>3 DEF Verdicts
<1>7. Introduced!Introduce(m)
  BY <1>2, <1>3, <1>5, <1>6 DEF Introduced!Introduce, Verdicts, Dues, DueTo
<1>8. QED
  BY <1>7 DEF Introduced!Next

\* A dissolve calls the match off, a proposal proposes it, and any other
\* statement is seen, if at all, when it drops a reveal.
LEMMA HandlerIntroduces ==
  ASSUME IInv, Begun, NEW h \in Handler, HandlerNext(h), ~Confirm(h), ~Reveal(h)
  PROVE  [Introduced!Next]_(Introduced!promise)
<1>1. Turns(h) /\ KeepsSpent(h) /\ Quiet(h)
  BY ArriveTurns, ProposingTurns, DissolvingTurns DEF HandlerNext, Working, IInv
<1>2. UNCHANGED <<consented, revealed>> /\ TypeOK /\ BusyWithSomething
  BY <1>1 DEF Quiet, IInv
<1>3. CASE matches' = matches
  <2>1. Verdicts' = Verdicts
    BY <1>3 DEF Verdicts
  <2>2. CASE Dues' = Dues
    BY <1>2, <2>1, <2>2 DEF Introduced!promise, Verdicts, Dues, DueTo
  <2>3. CASE hs[h].pc = "spent" /\ Dues' = [Dues EXCEPT ![hs[h].m] = {}]
    <3>1. PICK m \in Match : m = hs[h].m
      BY <1>2, <2>3 DEF BusyWithSomething, OnAMatch
    <3>2. Introduced!Forget(m)
      BY <1>2, <2>1, <2>3, <3>1 DEF Introduced!Forget, Verdicts, Dues, DueTo
    <3>3. QED
      BY <3>2 DEF Introduced!Next
  <2>4. QED
    BY <1>1, <2>2, <2>3, DueKeptOrDropped
<1>4. ASSUME NEW m \in Match, CreateMatch(h, m)  PROVE [Introduced!Next]_(Introduced!promise)
  <2>1. Verdicts[m] = "none" /\ Verdicts' = [Verdicts EXCEPT ![m] = "proposed"]
    BY <1>2, <1>4, VerdictOfMatch
  <2>2. Dues' = Dues
    BY <1>1, <1>4, DueKeptOrDropped DEF CreateMatch, At
  <2>3. Introduced!Propose(m)
    BY <1>2, <2>1, <2>2 DEF Introduced!Propose, Introduced!Becomes, Verdicts, Dues, DueTo
  <2>4. QED
    BY <2>3 DEF Introduced!Next
<1>5. CASE Close(h)
  <2>1. PICK m \in Match : m = hs[h].m /\ matches[m].state # "none"
    BY <1>2, <1>5 DEF Begun, BusyWithSomething, OnAMatch, Close, At
  <2>2. Dues' = Dues
    BY <1>1, <1>5, DueKeptOrDropped DEF Close, At
  <2>3. Verdicts' = [Verdicts EXCEPT ![m] = "declined"]
    BY <1>2, <1>5, <2>1, StateStored DEF Close
  <2>4. Verdicts[m] \in {"proposed", "both_confirmed", "expired", "declined"}
    BY <1>2, <2>1 DEF TypeOK, Deal, MatchStates, Verdicts
  <2>5. Introduced!CallOff(m)
    BY <1>2, <2>2, <2>3, <2>4 DEF Introduced!CallOff, Introduced!Becomes, Verdicts, Dues, DueTo
  <2>6. QED
    BY <2>5 DEF Introduced!Next
<1>6. QED
  BY <1>3, <1>4, <1>5, HandlerVerdict

\* The sweep lapses a match; the owner, the other track and time are not seen.
LEMMA OthersIntroduce ==
  ASSUME IInv, \/ \E s \in Sweeper : SweeperNext(s)
               \/ OwnerNext \/ OtherTrack \/ UNCHANGED vars
               \/ \E m \in Match : Tick(m)
  PROVE  [Introduced!Next]_(Introduced!promise)
<1>1. UNCHANGED <<hs, consented, revealed>>
  BY DEF SweeperNext, StartSweep, Expire, ExpiryFails, OwnerNext, SetPrice, SetItem, OtherTrack,
         vars, Tick, history, mails
<1>2. Dues' = Dues
  BY <1>1 DEF Dues, DueTo
<1>3. CASE Verdicts' = Verdicts
  BY <1>1, <1>2, <1>3 DEF Introduced!promise, Verdicts, Dues, DueTo
<1>4. ASSUME NEW s \in Sweeper, NEW m \in Match, Expire(s, m)
      PROVE  [Introduced!Next]_(Introduced!promise)
  <2>1. CASE UNCHANGED tables
    BY <1>3, <2>1 DEF tables, Verdicts
  <2>2. CASE ~UNCHANGED tables
    <3>1. StillProposed(m) /\ matches' = [matches EXCEPT ![m].state = "expired"]
      BY <1>4, <2>2 DEF Expire
    <3>2. Verdicts[m] = "proposed" /\ Verdicts' = [Verdicts EXCEPT ![m] = "expired"]
      BY <3>1, StateStored DEF IInv, StillProposed, Verdicts
    <3>3. Introduced!Lapse(m)
      BY <1>1, <1>2, <3>2 DEF Introduced!Lapse, Introduced!Becomes, Verdicts, Dues, DueTo
    <3>4. QED
      BY <3>3 DEF Introduced!Next
  <2>3. QED
    BY <2>1, <2>2
<1>5. ASSUME NEW m \in Match, Tick(m)  PROVE Verdicts' = Verdicts
  BY <1>5 DEF Tick, Verdicts, IInv, TypeOK, Deal
<1>6. CASE \/ \E s \in Sweeper : StartSweep(s) \/ \E m \in Match : ExpiryFails(s, m)
           \/ OwnerNext \/ OtherTrack \/ UNCHANGED vars
  <2>1. matches' = matches
    BY <1>6 DEF StartSweep, ExpiryFails, OwnerNext, SetPrice, SetItem, OtherTrack, vars, tables
  <2>2. QED
    BY <1>3, <2>1 DEF Verdicts
<1>7. QED
  BY <1>3, <1>4, <1>5, <1>6 DEF SweeperNext

LEMMA InitIntroduces ==
  ASSUME Init
  PROVE  Introduced!Init /\ Begun
<1>1. Idle.pc = "idle" /\ NoDeal.state = "none"
  BY DEF Idle, NoDeal
<1>2. Begun
  BY <1>1 DEF Init, Begun, OnAMatch
<1>3. \A m \in Match : {g \in Handler : hs[g].pc = "spent" /\ hs[g].m = m} = {}
  BY <1>1 DEF Init
<1>4. QED
  BY <1>1, <1>2, <1>3 DEF Init, Introduced!Init

\* However requests, sweeps, failures and crashes interleave, a match agrees
\* once, introduces at most once and only those who said yes by then, and is
\* never agreed after it lapsed or was called off.
THEOREM IntroductionsKept == Spec => KeepsIntroductions
<1>1. Init => Introduced!Init /\ Begun
  BY InitIntroduces
<1>2. IInv /\ Begun /\ [Next]_vars => Begun'
  BY BegunStep
<1>3. ASSUME IInv, IInv', Begun, [Next]_vars  PROVE [Introduced!Next]_(Introduced!promise)
  BY <1>3, ConfirmIntroduces, RevealIntroduces, HandlerIntroduces, OthersIntroduce
     DEF Next, TrackNext
<1>4. QED
  BY <1>1, <1>2, <1>3, Inductive, PTL DEF Spec, KeepsIntroductions, Introduced!Spec

-----------------------------------------------------------------------------
(* The two tracks of one item *)

\* What each track knows of the item and of the other one is so.
InStep == reserved = Reserved /\ item \in PledgeDoor

\* The reservations are rows, one for each id.
Rows(f) == DOMAIN f = Resv /\ \A r \in Resv : "state" \in DOMAIN f[r]

\* One row rewritten: the table stays a table, and only that row changes.
LEMMA RowStored ==
  ASSUME Rows(res), NEW r \in Resv, NEW next, "state" \in DOMAIN next,
         res' = [res EXCEPT ![r] = next]
  PROVE  Rows(res') /\ \A q \in Resv : res'[q] = IF q = r THEN next ELSE res[q]
  BY DEF Rows

LEMMA RowDeleted ==
  ASSUME Rows(res), NEW r, Track!Delete(r)
  PROVE  Rows(res') /\ \A q \in Resv : Track!Live(q)' => Track!Live(q)
<1>1. DOMAIN res' = Resv
  BY DEF Rows, Track!Delete
<1>2. ASSUME NEW q \in Resv  PROVE res'[q] = IF q = r THEN [res[r] EXCEPT !.state = "gone"] ELSE res[q]
  BY <1>2 DEF Rows, Track!Delete
<1>3. ASSUME NEW q \in Resv
      PROVE  "state" \in DOMAIN res'[q] /\ (Track!Live(q)' => Track!Live(q))
  BY <1>2, <1>3 DEF Rows, Track!Live, Track!LiveStates
<1>4. QED
  BY <1>1, <1>3 DEF Rows

\* A transition from a live state revives nothing.
LEMMA RowMoved ==
  ASSUME Rows(res), NEW r, NEW from \in Track!LiveStates, NEW next,
         r \in Resv => "state" \in DOMAIN next, Track!Transition(r, from, next)
  PROVE  Rows(res') /\ \A q \in Resv : Track!Live(q)' => Track!Live(q)
<1>1. CASE res' = res
  BY <1>1 DEF Track!Live
<1>2. CASE res[r].state = from /\ res' = [res EXCEPT ![r] = next]
  <2>1. DOMAIN res' = Resv /\ \A q \in Resv : res'[q] = IF q = r THEN next ELSE res[q]
    BY <1>2 DEF Rows
  <2>2. QED
    BY <1>2, <2>1 DEF Rows, Track!Live
<1>3. QED
  BY <1>1, <1>2 DEF Track!Transition, Track!StillIn

\* A reserver's step but an insert makes no row live.
LEMMA ReserverRows ==
  ASSUME Rows(res), NEW h \in Reserver, Track!HandlerNext(h)
  PROVE  /\ Rows(res')
         /\ \A q \in Resv : Track!Live(q)' => Track!Live(q) \/ Track!Insert(h)
<1>1. CASE Track!Insert(h)
  <2>1. DOMAIN res' = Resv /\ \A q \in Resv : "state" \in DOMAIN res'[q]
    BY <1>1 DEF Rows, Track!Insert, Track!NewRow
  <2>2. QED
    BY <1>1, <2>1 DEF Rows
<1>2. CASE Track!Rollback(h) \/ Track!Drop(h)
  <2>1. res' = res \/ Track!Delete(rs[h].r)
    BY <1>2 DEF Track!Rollback, Track!Drop
  <2>2. QED
    BY <2>1, RowDeleted DEF Track!Live
<1>3. CASE Track!Confirm(h) \/ Track!Keep(h)
  <2>1. PICK r \in Resv \cup {rs[h].r} : r = rs[h].r
    OBVIOUS
  <2>2. r \in Resv => "state" \in DOMAIN res[r]
    BY DEF Rows
  <2>3. CASE Track!Confirm(h)
    <3> DEFINE next == [res[r] EXCEPT !.state = "active", !.cap = h, !.idle = 0, !.dwell = 0]
    <3>1. Track!Transition(r, "pending_confirmation", next)
      BY <2>1, <2>3 DEF Track!Confirm
    <3>2. r \in Resv => "state" \in DOMAIN next
      BY <2>2
    <3> HIDE DEF next
    <3>3. QED
      BY <3>1, <3>2, RowMoved DEF Track!LiveStates
  <2>4. CASE Track!Keep(h)
    <3> DEFINE next == [res[r] EXCEPT !.state = "active", !.link = NoToken, !.idle = 0, !.dwell = 0]
    <3>1. Track!Transition(r, "reserver_notified", next)
      BY <2>1, <2>4 DEF Track!Keep
    <3>2. r \in Resv => "state" \in DOMAIN next
      BY <2>2
    <3> HIDE DEF next
    <3>3. QED
      BY <3>1, <3>2, RowMoved DEF Track!LiveStates
  <2>5. QED
    BY <1>3, <2>3, <2>4
<1>4. CASE \/ \E r \in Resv, q \in Track!Request : Track!Reserve(h, r, q)
           \/ Track!Refuse(h) \/ Track!SendConfirm(h) \/ Track!SendConfirmFails(h)
           \/ Track!Abort(h)
           \/ \E r \in Resv : Track!ReadConfirm(h, r)
           \/ \E r \in Resv, todo \in {"keep", "drop"} : Track!ReadLink(h, r, todo)
  <2>1. res' = res
    BY <1>4 DEF Track!Reserve, Track!Refuse, Track!SendConfirm, Track!SendConfirmFails,
      Track!Abort, Track!ReadConfirm, Track!ReadLink, Track!rows
  <2>2. QED
    BY <2>1 DEF Track!Live
<1>5. QED
  BY <1>1, <1>2, <1>3, <1>4 DEF Track!HandlerNext

LEMMA DecayerRows ==
  ASSUME Rows(res), NEW s \in Decayer, Track!SweeperNext(s)
  PROVE  Rows(res') /\ \A q \in Resv : Track!Live(q)' => Track!Live(q)
<1>1. ASSUME NEW r \in Resv, Track!Expire(s, r)
      PROVE  Rows(res') /\ \A q \in Resv : Track!Live(q)' => Track!Live(q)
  <2>1. PICK from \in Track!LiveStates :
          Track!Transition(r, from, [res[r] EXCEPT !.state = "expired", !.dwell = ds[s].age])
    BY <1>1 DEF Track!Expire, Track!LiveStates
  <2> DEFINE next == [res[r] EXCEPT !.state = "expired", !.dwell = ds[s].age]
  <2>2. "state" \in DOMAIN next
    BY DEF Rows
  <2> HIDE DEF next
  <2>3. QED
    BY <2>1, <2>2, RowMoved DEF next
<1>2. CASE Track!Mark(s)
  <2>1. PICK r \in Resv \cup {ds[s].cur} : r = ds[s].cur
    OBVIOUS
  <2> DEFINE next == [res[r] EXCEPT !.state = "reserver_notified", !.link = s, !.dwell = ds[s].age]
  <2>2. Track!Transition(r, "active", next)
    BY <1>2, <2>1 DEF Track!Mark
  <2>3. r \in Resv => "state" \in DOMAIN next
    BY DEF Rows
  <2> HIDE DEF next
  <2>4. QED
    BY <2>2, <2>3, RowMoved DEF Track!LiveStates
<1>3. CASE \/ Track!StartSweep(s) \/ Track!MarkFails(s) \/ Track!EndSweep(s)
           \/ Track!StopSweep(s)
           \/ \E r \in Resv : Track!Remind(s, r) \/ Track!RemindFails(s, r)
  <2>1. res' = res
    BY <1>3 DEF Track!StartSweep, Track!MarkFails, Track!EndSweep, Track!StopSweep,
      Track!Remind, Track!RemindFails, Track!rows
  <2>2. QED
    BY <2>1 DEF Track!Live
<1>4. QED
  BY <1>1, <1>2, <1>3 DEF Track!SweeperNext

\* Time, a release, an edit and the owner's steps make no row live either.
LEMMA OtherRows ==
  ASSUME Rows(res),
         \/ \E r \in Resv : Track!Release(r)
         \/ \E n \in {0} \cup Track!Qty : Track!UpdateItem(n)
         \/ Track!Tick \/ Owning
  PROVE  Rows(res') /\ \A q \in Resv : Track!Live(q)' => Track!Live(q)
<1>1. CASE \E r \in Resv : Track!Release(r)
  BY <1>1, RowDeleted DEF Track!Release, Track!ReleaseReservation, Track!DeleteMyReservation
<1>2. CASE Track!Tick
  <2>1. Rows(res')
    BY <1>2 DEF Rows, Track!Tick
  <2>2. QED
    BY <1>2, <2>1 DEF Track!Tick, Track!Live
<1>3. CASE Track!Unarchive
  <2>1. Rows(res')
    BY <1>3 DEF Rows, Track!Unarchive, Track!ClocksRestarted
  <2>2. \A q \in Resv : res'[q].state = res[q].state
    BY <1>3 DEF Rows, Track!Unarchive, Track!ClocksRestarted
  <2>3. QED
    BY <2>1, <2>2 DEF Track!Live
<1>4. CASE \/ \E n \in {0} \cup Track!Qty : Track!UpdateItem(n)
           \/ Track!Archive \/ Track!DeleteItem
           \/ \E l \in {"open", "past", "inactive"} : Track!SetList(l)
  <2>1. res' = res
    BY <1>4 DEF Track!UpdateItem, Track!Archive, Track!DeleteItem, Track!SetList, Track!rows
  <2>2. QED
    BY <2>1 DEF Track!Live
<1>5. QED
  BY <1>1, <1>2, <1>3, <1>4 DEF Owning

LEMMA TrackRows ==
  ASSUME Rows(res), Reserving \/ Owning
  PROVE  /\ Rows(res')
         /\ \A q \in Resv : Track!Live(q)' =>
              Track!Live(q) \/ \E h \in Reserver : Track!Insert(h)
<1>1. CASE Owning
  BY <1>1, OtherRows
<1>2. CASE Reserving
  BY <1>2, OtherRows, ReserverRows, DecayerRows DEF Reserving
<1>3. QED
  BY <1>1, <1>2

\* A reserve step leaves the item as it is and only adds or drops rows.
LEMMA ReservingKeepsItem ==
  ASSUME Reserving
  PROVE  UNCHANGED <<row, list>> /\ UNCHANGED Pledged
<1>1. UNCHANGED Pledged
  BY DEF Reserving, pledgeVars, tables, Pledged, Live
<1>2. ASSUME NEW h \in Reserver, Track!HandlerNext(h)  PROVE UNCHANGED <<row, list>>
  BY <1>2 DEF Track!HandlerNext, Track!Reserve, Track!Insert, Track!Refuse, Track!SendConfirm,
    Track!SendConfirmFails, Track!Rollback, Track!Abort, Track!Confirm, Track!Keep, Track!Drop,
    Track!ReadConfirm, Track!ReadLink, Track!itemVars
<1>3. ASSUME NEW s \in Decayer, Track!SweeperNext(s)  PROVE UNCHANGED <<row, list>>
  BY <1>3 DEF Track!SweeperNext, Track!StartSweep, Track!Mark, Track!MarkFails, Track!EndSweep,
    Track!StopSweep, Track!Expire, Track!Remind, Track!RemindFails, Track!itemVars
<1>4. QED
  BY <1>1, <1>2, <1>3 DEF Reserving, Track!Release, Track!ReleaseReservation,
    Track!DeleteMyReservation, Track!UpdateItem, Track!Tick, Track!itemVars

\* A co-buy step leaves the reservations, and with them the reserved flag.
LEMMA PledgingKeepsReserved ==
  ASSUME Pledging
  PROVE  /\ UNCHANGED reserveVars /\ UNCHANGED reserved
         /\ item' = item \/ item' \in PledgeDoor
<1>1. ASSUME NEW h \in Handler, HandlerNext(h)  PROVE UNCHANGED <<item, reserved>>
  <2>1. CASE Arrive(h) \/ Abort(h) \/ ProposalFails(h)
    BY <2>1 DEF Arrive, Contribute, Withdraw, Decide, Abort, ProposalFails, itemRow
  <2>2. CASE \/ InsertPledge(h) \/ RefusePledge(h) \/ ReadPending(h) \/ Invite(h)
             \/ \E m \in Match : CreateMatch(h, m)
             \/ \E c \in Contrib : Mint(h, c) \/ Release(h, c) \/ SpendParty(h, c)
    BY <2>2 DEF InsertPledge, RefusePledge, ReadPending, Invite, CreateMatch, Mint, Release,
      SpendParty, itemRow
  <2>3. CASE \/ JudgeWithdrawal(h) \/ JudgeDecision(h) \/ Decline(h) \/ Spend(h) \/ Clear(h)
             \/ Close(h) \/ DeletePledge(h) \/ Confirm(h) \/ Reveal(h)
    BY <2>3 DEF JudgeWithdrawal, JudgeDecision, Decline, Spend, Clear, Close, DeletePledge,
      Confirm, Reveal, itemRow
  <2>4. QED
    BY <1>1, <2>1, <2>2, <2>3 DEF HandlerNext, Working
<1>2. ASSUME NEW s \in Sweeper, SweeperNext(s)  PROVE UNCHANGED <<item, reserved>>
  BY <1>2 DEF SweeperNext, StartSweep, Expire, ExpiryFails, itemRow
<1>3. QED
  BY <1>1, <1>2 DEF Pledging, SetPrice, SetItem, Tick, itemRow

LEMMA InStepKept ==
  ASSUME InStep, [ItemNext]_<<vars, reserveVars>>
  PROVE  InStep'
<1>1. CASE Reserving
  <2>1. PledgeDoor' = PledgeDoor /\ item' = item
    BY <1>1, ReservingKeepsItem DEF PledgeDoor, Reserving
  <2>2. QED
    BY <1>1, <2>1 DEF InStep, Reserving
<1>2. CASE Pledging
  <2>1. PledgeDoor' = PledgeDoor /\ Reserved' = Reserved
    BY <1>2, PledgingKeepsReserved DEF PledgeDoor, Reserved, Track!Live, reserveVars
  <2>2. QED
    BY <1>2, <2>1, PledgingKeepsReserved DEF InStep
<1>3. CASE Owning
  BY <1>3 DEF Owning, InStep
<1>4. CASE UNCHANGED <<vars, reserveVars>>
  BY <1>4 DEF vars, itemRow, reserveVars, InStep, Reserved, PledgeDoor, Track!Live
<1>5. QED
  BY <1>1, <1>2, <1>3, <1>4 DEF ItemNext

LEMMA RowsKept ==
  ASSUME Rows(res), [ItemNext]_<<vars, reserveVars>>
  PROVE  Rows(res)'
<1>1. CASE Reserving \/ Owning
  BY <1>1, TrackRows DEF Rows
<1>2. CASE Pledging \/ UNCHANGED <<vars, reserveVars>>
  BY <1>2 DEF Pledging, reserveVars, Rows
<1>3. QED
  BY <1>1, <1>2 DEF ItemNext

LEMMA ItemInvariants == ItemSpec => [](InStep /\ Rows(res))
<1>1. ItemInit => InStep /\ Rows(res)
  <2>1. ASSUME ItemInit  PROVE Rows(res) /\ ~Reserved
    BY <2>1 DEF ItemInit, Track!Init, Track!NoRow, Rows, Reserved, Track!Live, Track!LiveStates
  <2>2. ASSUME ItemInit  PROVE reserved = FALSE /\ item = "open" /\ row = "live" /\ list = "open"
    BY <2>2 DEF ItemInit, Init, Track!Init
  <2>3. ASSUME ItemInit  PROVE item \in PledgeDoor
    BY <2>2, <2>3 DEF PledgeDoor
  <2>4. ASSUME ItemInit  PROVE reserved = Reserved
    BY <2>1, <2>2, <2>4 DEF Reserved
  <2>5. QED
    BY <2>1, <2>3, <2>4 DEF InStep
<1>2. QED
  BY <1>1, InStepKept, RowsKept, PTL DEF ItemSpec

\* What a step of the item is to the co-buy track.
LEMMA AsPledgesSeeIt ==
  ASSUME InStep, InStep', Rows(res), [ItemNext]_<<vars, reserveVars>>
  PROVE  [Next]_vars
<1> USE DEF pledgeVars, vars, itemRow
<1>1. CASE Reserving
  <2>1. UNCHANGED <<pledgeVars, item>>
    BY <1>1 DEF Reserving
  <2>2. CASE reserved' = reserved
    BY <2>1, <2>2
  <2>3. CASE reserved' # reserved
    <3>1. reserved' = ~reserved
      BY <2>3 DEF InStep, Reserved
    <3>2. ASSUME ~reserved  PROVE item # "deleted" /\ \A c \in Contrib : ~Live(c)
      <4>1. PICK h \in Reserver : Track!Insert(h)
        BY <1>1, <3>1, <3>2, TrackRows DEF InStep, Reserved
      <4>2. row # "deleted" /\ ~Pledged
        BY <4>1 DEF Track!Insert
      <4>3. QED
        BY <4>2 DEF InStep, PledgeDoor, Pledged
    <3>3. OtherTrack
      BY <2>1, <3>1, <3>2 DEF OtherTrack
    <3>4. QED
      BY <3>3 DEF Next
  <2>4. QED
    BY <2>2, <2>3
<1>2. CASE Pledging
  <2>1. PledgeDoor \subseteq {"open", "closed", "deleted"}
    BY DEF PledgeDoor
  <2>2. QED
    BY <1>2, <2>1 DEF Pledging, Next, TrackNext, OwnerNext
<1>3. CASE Owning
  <2>1. Reserved' = Reserved
    <3>1. \A q \in Resv : Track!Live(q)' <=> Track!Live(q)
      <4>1. CASE Track!Unarchive
        BY <1>3, <4>1 DEF Track!Unarchive, Track!ClocksRestarted, Track!Live, Rows
      <4>2. CASE Track!Archive \/ Track!DeleteItem \/ \E l \in {"open", "past", "inactive"} : Track!SetList(l)
        BY <1>3, <4>2 DEF Track!Archive, Track!DeleteItem, Track!SetList, Track!rows, Track!Live
      <4>3. QED
        BY <1>3, <4>1, <4>2 DEF Owning
    <3>2. QED
      BY <3>1 DEF Reserved
  <2>2. reserved' = reserved /\ UNCHANGED pledgeVars
    BY <1>3, <2>1 DEF InStep, Owning
  <2>3. CASE item' = item
    BY <2>2, <2>3
  <2>4. CASE item' # item
    <3>1. item' \in {"open", "closed", "deleted"}
      BY DEF InStep, PledgeDoor
    <3>2. item # "deleted"
      <4>1. SUFFICES ASSUME item = "deleted"  PROVE FALSE
        OBVIOUS
      <4>2. row = "deleted"
        BY <4>1 DEF InStep, PledgeDoor
      <4>3. row' = "deleted"
        BY <1>3, <4>2 DEF Owning, Track!Archive, Track!Unarchive, Track!DeleteItem, Track!SetList
      <4>4. QED
        BY <2>4, <4>1, <4>3 DEF InStep, PledgeDoor
    <3>3. SetItem(item')
      BY <2>2, <2>4, <3>2 DEF SetItem
    <3>4. QED
      BY <3>1, <3>3 DEF Next, TrackNext, OwnerNext
  <2>5. QED
    BY <2>3, <2>4
<1>4. CASE UNCHANGED <<vars, reserveVars>>
  BY <1>4
<1>5. QED
  BY <1>1, <1>2, <1>3, <1>4 DEF ItemNext

\* The co-buy track of an item is CoBuying: all that CoBuying leaves to its
\* environment, a reservation that comes only while no pledge is live and the
\* owner's item opening and closing, is what the other track and the owner do.
THEOREM PledgesOfItem == ItemSpec => Spec
<1>1. ItemInit => Init
  BY DEF ItemInit
<1>2. QED
  BY <1>1, ItemInvariants, AsPledgesSeeIt, PTL DEF ItemSpec, Spec

LEMMA AsReservationsSeeIt ==
  ASSUME [ItemNext]_<<vars, reserveVars>>
  PROVE  [Track!Next]_(Track!vars)
<1>1. CASE Reserving
  BY <1>1 DEF Reserving, Track!Next, Track!TrackNext, Track!OwnerNext
<1>2. CASE Owning
  BY <1>2 DEF Owning, Track!Next, Track!TrackNext, Track!OwnerNext
<1>3. CASE UNCHANGED reserveVars
  <2>1. Pledged' = Pledged \/ Pledged' = ~Pledged
    BY DEF Pledged
  <2>2. QED
    BY <1>3, <2>1 DEF reserveVars, Track!Next, Track!OtherTrack, Track!vars, Track!rows,
      Track!itemVars
<1>4. QED
  BY <1>1, <1>2, <1>3 DEF ItemNext, Pledging

\* The reserve track of an item is Reservations, its other track the pledges.
THEOREM ReservationsOfItem == ItemSpec => Track!Spec
<1>1. ItemInit => Track!Init
  BY DEF ItemInit
<1>2. QED
  BY <1>1, AsReservationsSeeIt, PTL DEF ItemSpec, Track!Spec

\* A row that is not there becomes a live pledge by an insert alone.
LEMMA OnlyInsertPledges ==
  ASSUME TypeOK, [Next]_vars, NEW x \in Contrib, ~Exists(x), Live(x)'
  PROVE  \E h \in Handler : InsertPledge(h)
<1>1. pledges' # pledges
  BY DEF Exists, Live, RowStatus
<1>2. ASSUME UNCHANGED pledges[x]  PROVE FALSE
  BY <1>2 DEF Exists, Live, RowStatus
<1>3. ASSUME NEW c, Exists(c), NEW st, NEW m,
             Update(c, st, m) \/ SetMatchActionToken(c, m) \/ DeleteRow(c)
      PROVE  FALSE
  <2>1. x # c
    BY <1>3
  <2>2. QED
    BY <1>2, <1>3, <2>1 DEF Update, SetMatchActionToken, DeleteRow, Store, TypeOK
<1>4. ASSUME NEW h \in Handler, HandlerNext(h)  PROVE InsertPledge(h)
  <2>1. ~Arrive(h) /\ ~ProposalFails(h) /\ ~Abort(h)
    BY <1>1 DEF Arrive, Contribute, Withdraw, Decide, ProposalFails, Abort, tables
  <2>2. ~(\/ RefusePledge(h) \/ ReadPending(h) \/ Invite(h) \/ JudgeWithdrawal(h)
          \/ JudgeDecision(h) \/ Close(h) \/ Reveal(h))
    BY <1>1 DEF RefusePledge, ReadPending, Invite, JudgeWithdrawal, JudgeDecision, Close, Reveal,
      tables
  <2>3. ASSUME NEW m \in Match, CreateMatch(h, m)  PROVE FALSE
    BY <1>2, <2>3 DEF CreateMatch, Store
  <2>4. ASSUME NEW c \in Contrib, Mint(h, c) \/ Release(h, c) \/ SpendParty(h, c)  PROVE FALSE
    BY <1>1, <1>3, <2>4 DEF Mint, Release, SpendParty
  <2>5. ~(Decline(h) \/ Spend(h) \/ DeletePledge(h))
    BY <1>1, <1>3 DEF Decline, Spend, DeletePledge
  <2>6. ~Clear(h)
    BY <1>1, <1>3 DEF Clear
  <2>7. ~Confirm(h)
    <3>1. SUFFICES ASSUME Confirm(h)  PROVE FALSE
      OBVIOUS
    <3>2. PICK c \in Contrib : Exists(c) /\ Store([pledges EXCEPT ![c].status = "confirmed"])
      BY <1>1, <3>1 DEF Confirm, Party, tables
    <3>3. QED
      BY <1>2, <3>2 DEF Store, TypeOK
  <2>8. QED
    BY <1>4, <2>1, <2>2, <2>3, <2>4, <2>5, <2>6, <2>7 DEF HandlerNext, Working
<1>5. ASSUME NEW s \in Sweeper, SweeperNext(s)  PROVE FALSE
  <2>1. ASSUME NEW m \in Match, Expire(s, m)  PROVE FALSE
    BY <1>1, <1>2, <2>1 DEF Expire, Store, Party, tables
  <2>2. QED
    BY <1>1, <1>5, <2>1 DEF SweeperNext, StartSweep, ExpiryFails, tables
<1>6. ~(OwnerNext \/ OtherTrack \/ (\E m \in Match : Tick(m)) \/ UNCHANGED vars)
  BY <1>1 DEF OwnerNext, SetPrice, SetItem, OtherTrack, Tick, vars, tables
<1>7. QED
  BY <1>4, <1>5, <1>6 DEF Next, TrackNext

LEMMA ExclusionKept ==
  ASSUME TypeOK, InStep, InStep', Rows(res), TracksExclude,
         [ItemNext]_<<vars, reserveVars>>,
         [\A c \in Contrib : Exists(c) /\ Live(c)' => Live(c)]_pledges
  PROVE  TracksExclude'
<1>1. SUFFICES ASSUME Reserved', Pledged'  PROVE FALSE
  BY DEF TracksExclude
<1>2. CASE Pledged
  <2>1. ~Reserved
    BY <1>2 DEF TracksExclude
  <2>2. Reserving \/ Owning
    BY <1>1, <2>1, PledgingKeepsReserved DEF ItemNext, Reserved, reserveVars, Track!Live
  <2>3. PICK h \in Reserver : Track!Insert(h)
    BY <1>1, <2>1, <2>2, TrackRows DEF Reserved
  <2>4. QED
    BY <1>2, <2>3 DEF Track!Insert
<1>3. CASE ~Pledged
  <2>1. PICK x \in Contrib : Live(x)' /\ ~Live(x)
    BY <1>1, <1>3 DEF Pledged
  <2>2. ~Exists(x)
    BY <2>1 DEF Live
  <2>3. PICK h \in Handler : InsertPledge(h)
    BY <2>1, <2>2, AsPledgesSeeIt, OnlyInsertPledges
  <2>4. ~Reserved
    BY <2>3 DEF InsertPledge, InStep
  <2>5. pledges' # pledges
    BY <2>1 DEF Live
  <2>6. Pledging
    BY <2>5 DEF ItemNext, Reserving, Owning, pledgeVars, vars, tables
  <2>7. QED
    BY <1>1, <2>4, <2>6, PledgingKeepsReserved DEF Reserved, reserveVars, Track!Live
<1>4. QED
  BY <1>2, <1>3

\* Issue 93 holds of inserts: as long as no declined or expired pledge comes
\* back to life, an item is never reserved and pledged at once, however the
\* two tracks and the owner interleave.
THEOREM ExclusiveUnlessRevived == ItemSpec /\ NoRevival => []TracksExclude
<1>1. ItemInit => TracksExclude
  BY DEF ItemInit, Track!Init, TracksExclude
<1>2. ItemSpec => []TypeOK
  BY PledgesOfItem, TypeCorrect, PTL
<1>3. QED
  BY <1>1, <1>2, ItemInvariants, ExclusionKept, PTL DEF ItemSpec, NoRevival
=============================================================================
