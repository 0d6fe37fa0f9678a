------------------------------ MODULE CoBuying ------------------------------
(***************************************************************************)
(* Co-buying one item: pledges toward its price, the match proposed when   *)
(* they cover it, each party's confirm or decline, withdrawing, and the    *)
(* sweep that expires a match nobody finished.                             *)
(*                                                                         *)
(* Only CreateWithinCapacity, ConfirmContribution and ExpireIfProposed run *)
(* under the item lock.  Proposing, declining, withdrawing and dissolving  *)
(* are sequences of statements, and every statement that other processes   *)
(* can come between is an action here.  A giver acts through the           *)
(* capability token of the answer or through an emailed, expiring link.    *)
(***************************************************************************)
EXTENDS Integers, FiniteSets

CONSTANTS
  Contrib,     \* contribution ids (fresh uuids: an id is used for one row)
  Match,       \* match ids
  Handler,     \* request handlers that may be in flight together
  Sweeper,     \* match-expiry sweepers: one per running instance
  NoContrib, NoMatch,
  MaxPrice,    \* bound on the item's price and on a pledge
  MaxInt,      \* the largest int64
  Amounts,     \* the amounts asked to be pledged
  Prices,      \* the prices the owner gives the item
  HasWindow    \* the confirm window is positive: links expire, the sweep runs

MinMatchContributions == 2

ASSUME PriceAssumption ==
  /\ MaxPrice \in Nat \ {0} /\ MaxInt \in Nat /\ MaxPrice <= MaxInt
  /\ Amounts \subseteq 0 .. MaxPrice /\ Prices \subseteq 1 .. MaxPrice /\ Prices # {}
  /\ HasWindow \in BOOLEAN

ASSUME IdsAssumption ==
  /\ NoContrib \notin Contrib /\ NoMatch \notin Match
  /\ IsFiniteSet(Contrib)

VARIABLES
  pledges,    \* the contributions table, by id
  matches,    \* the matches table with its members, by id
  item,       \* "open", "closed" to new pledges (archived, disabled), "deleted"
  price,      \* the item's price
  reserved,   \* a reservation that is not expired exists (other track)
  hs,         \* request handlers
  sw,         \* matches each sweeper has still to expire
  links,      \* matches whose action link reached the inbox of a giver
  handed,     \* contributions whose capability token was answered
  peak,       \* history: the highest price the item had
  consented,  \* history: who confirmed a match
  revealed    \* history: whose contacts a match's reveal mails disclosed

tables  == <<pledges, matches>>
mails   == <<links, revealed>>
itemRow == <<item, price, peak>>
history == <<handed, consented>>
vars    == <<tables, mails, itemRow, history, reserved, hs, sw>>

LiveStatus  == {"pending", "matched", "confirmed"}
RowStatus   == LiveStatus \cup {"declined", "expired"}
Status      == RowStatus \cup {"none", "gone"}
MatchStates == {"none", "proposed", "both_confirmed", "declined", "expired"}
Money       == 1 .. MaxPrice

\* act: the match the stored action token was minted for.
Pledge == [status : Status, amount : Money,
           match : Match \cup {NoMatch}, act : Match \cup {NoMatch}]
\* age: 0 within the confirm window, 1 past it, 2 once its links expired too.
Deal   == [state : MatchStates, members : SUBSET Contrib, age : 0 .. 2]
PC     == {"idle", "insert", "propose", "match", "mint", "judge", "decline", "spend",
           "release", "clear", "delete", "confirm", "spent"}
Plans  == {"pledge", "withdraw", "decline", "confirm"}
HState == [pc : PC, plan : Plans, c : Contrib \cup {NoContrib},
           m : Match \cup {NoMatch}, todo : SUBSET Contrib, team : SUBSET Contrib,
           want : Money, amount : Money]

NoPledge == [status |-> "none", amount |-> 1, match |-> NoMatch, act |-> NoMatch]
NoDeal   == [state |-> "none", members |-> {}, age |-> 0]
Idle     == [pc |-> "idle", plan |-> "pledge", c |-> NoContrib, m |-> NoMatch,
             todo |-> {}, team |-> {}, want |-> 1, amount |-> 1]

Init ==
  /\ pledges = [c \in Contrib |-> NoPledge]
  /\ matches = [m \in Match |-> NoDeal]
  /\ item = "open" /\ reserved = FALSE
  /\ price \in Prices /\ peak = price
  /\ hs = [h \in Handler |-> Idle]
  /\ sw = [s \in Sweeper |-> {}]
  /\ links = [c \in Contrib |-> {}]
  /\ revealed = [m \in Match |-> {}]
  /\ consented = [m \in Match |-> {}]
  /\ handed = {}

-----------------------------------------------------------------------------
(* Helpers *)

Exists(c) == pledges[c].status \in RowStatus
Live(c)   == pledges[c].status \in LiveStatus
Pending   == {c \in Contrib : pledges[c].status = "pending"}

\* A match keeps the members it was made of; its party are the rows that
\* still name it.
Members(m) == matches[m].members
Party(m)   == {c \in Contrib : Exists(c) /\ pledges[c].match = m}

\* SUM(pledged_amount_minor) over a set of rows: its (row, unit) pairs.
Units(S) == {u \in S \X Money : u[2] <= pledges[u[1]].amount}
Sum(S)   == Cardinality(Units(S))
Funded   == Sum({c \in Contrib : Live(c)})

\* A sum of int64 values as Go computes it.
Wrapped(n) ==
  IF n <= MaxInt THEN n ELSE ((n + MaxInt + 1) % (2 * (MaxInt + 1))) - (MaxInt + 1)

Go(h, next) == hs' = [hs EXCEPT ![h] = next]
Finish(h)   == Go(h, Idle)
At(h, pc)   == hs[h].pc = pc
Store(f)    == pledges' = f
Answer(h)   == handed' = handed \cup {hs[h].c}

\* The three statements that write one row of the contributions table.
Update(c, st, m)          == Store([pledges EXCEPT ![c].status = st, ![c].match = m])
SetMatchActionToken(c, m) == Store([pledges EXCEPT ![c].act = m])
DeleteRow(c)              == Store([pledges EXCEPT ![c].status = "gone"])

-----------------------------------------------------------------------------
(* Pledging: CreateContribution and maybeProposeMatch *)

NotNegative(a) == a >= 0                          \* faulty variant
Positive(a)    == a > 0
Contribute(h, c, a) ==
  /\ At(h, "idle") /\ item = "open" /\ Positive(a)
  /\ pledges[c].status = "none" /\ \A g \in Handler : hs[g].c # c
  /\ Go(h, [Idle EXCEPT !.pc = "insert", !.c = c, !.want = price, !.amount = a])
  /\ UNCHANGED <<tables, mails, itemRow, history, reserved, sw>>

\* CreateWithinCapacity under the item lock.  SUM fails when it leaves the
\* int64 range, the addition to it wraps around.
FitsAlone(a, want) == a <= want                   \* faulty: the sum is dropped
Fits(a, want)      == Funded <= MaxInt /\ Wrapped(Funded + a) <= want

InsertPledge(h) ==
  LET c == hs[h].c IN
  /\ At(h, "insert")
  /\ item # "deleted" /\ ~reserved /\ Fits(hs[h].amount, hs[h].want)
  /\ Store([pledges EXCEPT ![c] = [NoPledge EXCEPT !.status = "pending", !.amount = hs[h].amount]])
  /\ Go(h, [hs[h] EXCEPT !.pc = "propose"])
  /\ UNCHANGED <<matches, mails, itemRow, history, reserved, sw>>

RefusePledge(h) ==
  /\ At(h, "insert")
  /\ item = "deleted" \/ reserved \/ ~Fits(hs[h].amount, hs[h].want)
  /\ Finish(h)
  /\ UNCHANGED <<tables, mails, itemRow, history, reserved, sw>>

\* The pending pledges are listed; the match is created by a later statement.
Covers(S, want) == Cardinality(S) >= MinMatchContributions /\ Wrapped(Sum(S)) >= want
ReadPending(h) ==
  /\ At(h, "propose")
  /\ IF Covers(Pending, hs[h].want)
       THEN Go(h, [hs[h] EXCEPT !.pc = "match", !.todo = Pending]) /\ UNCHANGED handed
       ELSE Answer(h) /\ Finish(h)
  /\ UNCHANGED <<tables, mails, itemRow, consented, reserved, sw>>

\* One transaction stamps the listed pledges, whatever they have become.
Stamped(p, m) == [p EXCEPT !.match = m, !.status = "matched"]
CreateMatch(h, m) ==
  /\ At(h, "match") /\ matches[m].state = "none"
  /\ matches' = [matches EXCEPT ![m] =
       [state |-> "proposed", members |-> hs[h].todo, age |-> 0]]
  /\ Store([c \in Contrib |-> IF c \in hs[h].todo /\ Exists(c)
                                THEN Stamped(pledges[c], m) ELSE pledges[c]])
  /\ Go(h, [hs[h] EXCEPT !.pc = "mint", !.m = m])
  /\ UNCHANGED <<mails, itemRow, history, reserved, sw>>

\* SetMatchActionToken for one party; a row that is gone ends the proposal
\* with an error and nobody is written to.
Mint(h, c) ==
  /\ At(h, "mint") /\ c \in hs[h].todo
  /\ IF Exists(c)
       THEN /\ SetMatchActionToken(c, hs[h].m)
            /\ Go(h, [hs[h] EXCEPT !.todo = @ \ {c}]) /\ UNCHANGED handed
       ELSE Answer(h) /\ Finish(h) /\ UNCHANGED pledges
  /\ UNCHANGED <<matches, mails, itemRow, consented, reserved, sw>>

\* emailMatch: best effort, party by party.
Invite(h) ==
  /\ At(h, "mint") /\ hs[h].todo = {}
  /\ \E sent \in SUBSET Members(hs[h].m) :
       links' = [c \in Contrib |-> IF c \in sent THEN links[c] \cup {hs[h].m} ELSE links[c]]
  /\ Answer(h) /\ Finish(h)
  /\ UNCHANGED <<tables, revealed, itemRow, consented, reserved, sw>>

\* A proposal that fails is logged; the pledge is answered all the same.
ProposalFails(h) ==
  /\ hs[h].pc \in {"propose", "match", "mint"}
  /\ Answer(h) /\ Finish(h)
  /\ UNCHANGED <<tables, mails, itemRow, consented, reserved, sw>>

-----------------------------------------------------------------------------
(* WithdrawContribution, ConfirmMatch and GetMatch: who acts, on which match *)

\* The capability token, or the link of this match while it has not expired.
ByToken(c)   == c \in handed
ByLink(c, m) == pledges[c].act = m /\ m \in links[c] /\ matches[m].age < 2

Withdraw(h, c) ==
  /\ At(h, "idle") /\ Exists(c) /\ ByToken(c)
  /\ Go(h, [Idle EXCEPT !.pc = "judge", !.plan = "withdraw", !.c = c, !.m = pledges[c].match])
  /\ UNCHANGED <<tables, mails, itemRow, history, reserved, sw>>

\* resolveMatchActor: either token, for the match its row names.
Actor(c, m) == Exists(c) /\ pledges[c].match = m /\ (ByToken(c) \/ ByLink(c, m))
Decide(h, c, decision) ==
  /\ At(h, "idle")
  /\ \E m \in Match :
       /\ Actor(c, m)
       /\ Go(h, [Idle EXCEPT !.pc = "judge", !.plan = decision, !.c = c, !.m = m])
  /\ UNCHANGED <<tables, mails, itemRow, history, reserved, sw>>

\* What a withdrawal does with the match it read: it dissolves one that is
\* proposed, and deletes its pledge unless both parties have confirmed.
StateOf(m) == IF m = NoMatch THEN "none" ELSE matches[m].state
Dissolvable(m) == StateOf(m) = "proposed"
JudgeWithdrawal(h) ==
  LET m == hs[h].m IN
  /\ At(h, "judge") /\ hs[h].plan = "withdraw"
  /\ \/ StateOf(m) = "both_confirmed" /\ Finish(h)
     \/ Dissolvable(m) /\ Go(h, [hs[h] EXCEPT !.pc = "release", !.todo = Members(m) \ {hs[h].c}])
     \/ ~Dissolvable(m) /\ StateOf(m) # "both_confirmed" /\ Go(h, [hs[h] EXCEPT !.pc = "delete"])
  /\ UNCHANGED <<tables, mails, itemRow, history, reserved, sw>>

\* Only a match still proposed is decided on.
JudgeDecision(h) ==
  /\ At(h, "judge") /\ hs[h].plan # "withdraw"
  /\ IF Dissolvable(hs[h].m) THEN Go(h, [hs[h] EXCEPT !.pc = hs[h].plan]) ELSE Finish(h)
  /\ UNCHANGED <<tables, mails, itemRow, history, reserved, sw>>

\* The contacts GetMatch answers with: of every member, once both confirmed;
\* a member whose row is gone fails the request.
GetMatch(m) ==
  IF StateOf(m) = "both_confirmed" /\ \A c \in Members(m) : Exists(c) THEN Members(m) ELSE {}

-----------------------------------------------------------------------------
(* Declining and dissolving, statement by statement and without a lock *)

\* The decliner's row is written from the copy read at the start.
Decline(h) ==
  LET c == hs[h].c IN
  /\ At(h, "decline")
  /\ IF Exists(c)
       THEN /\ Update(c, "declined", hs[h].m)
            /\ Go(h, [hs[h] EXCEPT !.pc = "spend"])
       ELSE Finish(h) /\ UNCHANGED pledges
  /\ UNCHANGED <<matches, mails, itemRow, history, reserved, sw>>

Spend(h) ==
  LET c == hs[h].c IN
  /\ At(h, "spend")
  /\ IF Exists(c)
       THEN /\ SetMatchActionToken(c, NoMatch)
            /\ Go(h, [hs[h] EXCEPT !.pc = "release", !.todo = Members(hs[h].m) \ {c}])
       ELSE Finish(h) /\ UNCHANGED pledges
  /\ UNCHANGED <<matches, mails, itemRow, history, reserved, sw>>

\* dissolveMatch, one sibling: back to pending, then its token is cleared.
Release(h, c) ==
  /\ At(h, "release") /\ c \in hs[h].todo
  /\ IF Exists(c)
       THEN /\ Update(c, "pending", NoMatch)
            /\ Go(h, [hs[h] EXCEPT !.pc = "clear", !.team = {c}])
       ELSE Go(h, [hs[h] EXCEPT !.todo = @ \ {c}]) /\ UNCHANGED pledges
  /\ UNCHANGED <<matches, mails, itemRow, history, reserved, sw>>

Clear(h) ==
  /\ At(h, "clear")
  /\ \E c \in hs[h].team :
       IF Exists(c)
         THEN /\ SetMatchActionToken(c, NoMatch)
              /\ Go(h, [hs[h] EXCEPT !.pc = "release", !.todo = @ \ {c}, !.team = {}])
         ELSE Finish(h) /\ UNCHANGED pledges
  /\ UNCHANGED <<matches, mails, itemRow, history, reserved, sw>>

\* The last statement marks the match declined, whatever it is by now.
Close(h) ==
  /\ At(h, "release") /\ hs[h].todo = {}
  /\ matches' = [matches EXCEPT ![hs[h].m].state = "declined"]
  /\ IF hs[h].plan = "withdraw" THEN Go(h, [hs[h] EXCEPT !.pc = "delete"]) ELSE Finish(h)
  /\ UNCHANGED <<pledges, mails, itemRow, history, reserved, sw>>

DeletePledge(h) ==
  LET c == hs[h].c IN
  /\ At(h, "delete")
  /\ IF Exists(c) THEN DeleteRow(c) ELSE UNCHANGED pledges
  /\ Finish(h)
  /\ UNCHANGED <<matches, mails, itemRow, history, reserved, sw>>

-----------------------------------------------------------------------------
(* Confirming: ConfirmContribution, then the reveal *)

AnyState(m)      == TRUE                          \* faulty variant: no guard
StillProposed(m) == matches[m].state = "proposed"

AnyConfirmed(S) == \E c \in S : pledges'[c].status = "confirmed"   \* faulty
AllConfirmed(S) == \A c \in S : pledges'[c].status = "confirmed"

\* Under the item lock: mark the pledge, and complete the match when every
\* pledge linked to it is confirmed.
Confirm(h) ==
  LET c == hs[h].c  m == hs[h].m IN
  /\ At(h, "confirm")
  /\ IF item # "deleted" /\ StillProposed(m) /\ c \in Party(m)
       THEN /\ Store([pledges EXCEPT ![c].status = "confirmed"])
            /\ consented' = [consented EXCEPT ![m] = @ \cup {c}]
            /\ IF AllConfirmed(Party(m))
                 THEN /\ matches' = [matches EXCEPT ![m].state = "both_confirmed"]
                      /\ Go(h, [hs[h] EXCEPT !.pc = "spent", !.todo = Party(m), !.team = Party(m)])
                 ELSE Finish(h) /\ UNCHANGED matches
       ELSE Finish(h) /\ UNCHANGED <<tables, consented>>
  /\ UNCHANGED <<mails, itemRow, handed, reserved, sw>>

\* The spent tokens are cleared one by one before anyone is written to.
SpendParty(h, c) ==
  /\ At(h, "spent") /\ c \in hs[h].todo
  /\ IF Exists(c)
       THEN /\ SetMatchActionToken(c, NoMatch)
            /\ Go(h, [hs[h] EXCEPT !.todo = @ \ {c}])
       ELSE Finish(h) /\ UNCHANGED pledges
  /\ UNCHANGED <<matches, mails, itemRow, history, reserved, sw>>

Reveal(h) ==
  /\ At(h, "spent") /\ hs[h].todo = {}
  /\ revealed' = [revealed EXCEPT ![hs[h].m] = @ \cup hs[h].team]
  /\ Finish(h)
  /\ UNCHANGED <<tables, links, itemRow, history, reserved, sw>>

\* A handler stops: a store error, a cancelled request, a crash.
Abort(h) ==
  /\ hs[h].pc # "idle"
  /\ Finish(h)
  /\ UNCHANGED <<tables, mails, itemRow, history, reserved, sw>>

-----------------------------------------------------------------------------
(* The expiry sweep *)

Early(m)   == matches[m].age = 0                  \* faulty: inverted cutoff
Overdue(m) == matches[m].age >= 1

StartSweep(s) ==
  /\ HasWindow /\ sw[s] = {}
  /\ sw' = [sw EXCEPT ![s] = {m \in Match : StillProposed(m) /\ Overdue(m)}]
  /\ UNCHANGED <<tables, mails, itemRow, history, reserved, hs>>

\* ExpireIfProposed under the item lock.
Expire(s, m) ==
  /\ m \in sw[s]
  /\ IF item # "deleted" /\ StillProposed(m)
       THEN /\ matches' = [matches EXCEPT ![m].state = "expired"]
            /\ Store([c \in Contrib |-> IF c \in Party(m)
                 THEN [pledges[c] EXCEPT !.status = "expired", !.act = NoMatch] ELSE pledges[c]])
       ELSE UNCHANGED tables
  /\ sw' = [sw EXCEPT ![s] = @ \ {m}]
  /\ UNCHANGED <<mails, itemRow, history, reserved, hs>>

\* One expiry fails and is logged, or the process stops.
ExpiryFails(s, m) ==
  /\ m \in sw[s]
  /\ sw' = [sw EXCEPT ![s] = @ \ {m}]
  /\ UNCHANGED <<tables, mails, itemRow, history, reserved, hs>>

-----------------------------------------------------------------------------
(* The owner, the other track, and time *)

SetPrice(p) ==
  /\ item # "deleted" /\ p # price /\ price' = p /\ peak' = IF peak < p THEN p ELSE peak
  /\ UNCHANGED <<tables, mails, item, history, reserved, hs, sw>>

SetItem(i) ==
  /\ item # "deleted" /\ item # i /\ item' = i
  /\ UNCHANGED <<tables, mails, price, peak, history, reserved, hs, sw>>

\* The reserve track takes the item only while no pledge is live.
OtherTrack ==
  /\ ~reserved => item # "deleted" /\ \A c \in Contrib : ~Live(c)
  /\ reserved' = ~reserved
  /\ UNCHANGED <<tables, mails, itemRow, history, hs, sw>>

Tick(m) ==
  /\ HasWindow /\ matches[m].state = "proposed" /\ matches[m].age < 2
  /\ matches' = [matches EXCEPT ![m].age = @ + 1]
  /\ UNCHANGED <<pledges, mails, itemRow, history, reserved, hs, sw>>

-----------------------------------------------------------------------------
\* A request arrives, then runs statement by statement.
Arrive(h) == \E c \in Contrib :
  \/ \E a \in Amounts : Contribute(h, c, a)
  \/ Withdraw(h, c)
  \/ \E decision \in {"confirm", "decline"} : Decide(h, c, decision)

Working(h) ==
  \/ InsertPledge(h) \/ RefusePledge(h) \/ ReadPending(h) \/ Invite(h)
  \/ \E m \in Match : CreateMatch(h, m)
  \/ \E c \in Contrib : Mint(h, c) \/ Release(h, c) \/ SpendParty(h, c)
  \/ JudgeWithdrawal(h) \/ JudgeDecision(h) \/ Decline(h) \/ Spend(h) \/ Clear(h) \/ Close(h)
  \/ DeletePledge(h) \/ Confirm(h) \/ Reveal(h)

HandlerNext(h) == Arrive(h) \/ Working(h) \/ ProposalFails(h) \/ Abort(h)

SweeperNext(s) == StartSweep(s) \/ \E m \in Match : Expire(s, m) \/ ExpiryFails(s, m)

OwnerNext ==
  \/ \E p \in Prices : SetPrice(p)
  \/ \E i \in {"open", "closed", "deleted"} : SetItem(i)

\* Everything but the other track, whose steps a composition supplies.
TrackNext ==
  \/ \E h \in Handler : HandlerNext(h)
  \/ \E s \in Sweeper : SweeperNext(s)
  \/ OwnerNext
  \/ \E m \in Match : Tick(m)

Next == TrackNext \/ OtherTrack

Spec == Init /\ [][Next]_vars

\* Statements run on, time passes, the ticker keeps sweeping, and a sweep
\* retried forever gets one expiry of each match through.
Fairness ==
  /\ \A h \in Handler : WF_vars(Working(h) \/ Abort(h))
  /\ \A s \in Sweeper : WF_vars(SweeperNext(s))
  /\ \A m \in Match : WF_vars(Tick(m)) /\ \A s \in Sweeper : SF_vars(Expire(s, m))

-----------------------------------------------------------------------------
(* Properties *)

\* Every variable keeps its type.
TypeOK ==
  /\ pledges \in [Contrib -> Pledge] /\ matches \in [Match -> Deal]
  /\ item \in {"open", "closed", "deleted"} /\ reserved \in BOOLEAN
  /\ price \in Money /\ peak \in Money
  /\ hs \in [Handler -> HState] /\ sw \in [Sweeper -> SUBSET Match]
  /\ links \in [Contrib -> SUBSET Match] /\ handed \subseteq Contrib
  /\ consented \in [Match -> SUBSET Contrib] /\ revealed \in [Match -> SUBSET Contrib]

\* Issue 36, ConfirmContribution: however confirms, declines, withdrawals and
\* the sweep overlap, every match behaves as the abstract specification of
\* introductions promises: it is agreed once and while it is still proposed,
\* its reveal mails go out at most once, to people who had all confirmed by
\* then, and a match that expired or was called off is never confirmed after.
Introduced == INSTANCE Introductions WITH
  Deal <- Match, Person <- Contrib,
  verdict <- [m \in Match |-> matches[m].state], yes <- consented,
  due <- [m \in Match |->
           UNION {hs[h].team : h \in {g \in Handler : hs[g].pc = "spent" /\ hs[g].m = m}}],
  introduced <- revealed
KeepsIntroductions == Introduced!Spec

\* Nobody's contact is disclosed in a match he did not confirm himself, and a
\* pledge counts as confirmed only for the match its giver confirmed: not for
\* an earlier one, although rows move from match to match.
RevealNeedsConsent ==
  /\ \A m \in Match : revealed[m] \subseteq consented[m]
  /\ \A h \in Handler : hs[h].pc = "spent" => hs[h].team \subseteq consented[hs[h].m]
  /\ \A c \in Contrib : pledges[c].status = "confirmed" =>
       pledges[c].match # NoMatch /\ c \in consented[pledges[c].match]

\* Issue 101: a sweep that snapshots a match before its last confirm does not
\* expire it: no match is both expired and revealed, or about to be.
ExpiredNeverRevealed ==
  \A m \in Match : matches[m].state = "expired" =>
    revealed[m] = {} /\ \A h \in Handler : ~(hs[h].pc = "spent" /\ hs[h].m = m)

\* CreateWithinCapacity: "contribute cannot overfund under concurrency": no
\* pledge is taken with which the live ones exceed the highest price asked,
\* whatever price its request read and whatever others pledged since; unless
\* that one addition leaves the int64 range, which nothing in the code
\* refuses and which passes for a small sum.  (What a release revives
\* afterwards is not asked again.)
PledgeFits ==
  [][\A h \in Handler :
       InsertPledge(h) => Funded' <= peak \/ Funded + hs[h].amount > MaxInt]_vars

\* ConfirmMatch: "Contacts are revealed only once both parties have
\* confirmed": whoever may ask for a match is shown nobody who did not.
ContactsNeedConsent ==
  \A m \in Match : (\E c \in Contrib : Actor(c, m)) => GetMatch(m) \subseteq consented[m]

\* Issue 101: a proposed match does not hold its item forever, unless the
\* owner deletes the item.
MatchesResolve == \A m \in Match : StillProposed(m) ~> (~StillProposed(m) \/ item = "deleted")
=============================================================================
