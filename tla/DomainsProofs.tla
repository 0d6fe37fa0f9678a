--------------------------- MODULE DomainsProofs ---------------------------
(***************************************************************************)
(* Proofs about Domains, for every number of tenants, claims and handlers  *)
(* and every claim window: a tenant is served only by a claim its zone     *)
(* proved, and a claim is neither taken over early nor once verified.      *)
(***************************************************************************)
EXTENDS Domains, TLAPS

\* A token that is in the zone was in the zone.
ZoneOnRecord == dns \subseteq shown

\* A busy handler is about a claim.
BusyOnAClaim == \A h \in Handler : hs[h].pc # "idle" => hs[h].c \in Claim

\* A row about to be inserted does not exist yet, one handler inserts it, and
\* the time that handler read is past.
InsertsFresh ==
  /\ \A h \in Handler : hs[h].pc = "insert" => rows[hs[h].c].state = "none" /\ hs[h].at <= now
  /\ \A g, h \in Handler :
       hs[g].pc = "insert" /\ hs[h].pc # "idle" /\ hs[g].c = hs[h].c => g = h

\* A lookup is about a claim that exists or existed, an update about one whose
\* token the lookup found.
UpdatesProved ==
  \A h \in Handler :
    /\ hs[h].pc \in {"lookup", "update"} => rows[hs[h].c].state # "none"
    /\ hs[h].pc = "update" => hs[h].c \in shown

VerifiedWasShown == \A c \in Claim : rows[c].verified => c \in shown

IInv == /\ TypeOK /\ ZoneOnRecord /\ BusyOnAClaim /\ InsertsFresh
        /\ UpdatesProved /\ VerifiedWasShown

-----------------------------------------------------------------------------
LEMMA InitHolds ==
  ASSUME Init
  PROVE  IInv
<1>1. 0 \in Times
  BY DomainBounds DEF Times
<1>2. NoRow \in Row /\ Idle \in HState
  BY <1>1 DEF NoRow, Row, Idle, HState
<1>3. TypeOK
  BY <1>1, <1>2 DEF Init, TypeOK
<1>4. (\A h \in Handler : hs[h].pc = "idle") /\ (\A c \in Claim : ~rows[c].verified)
  BY DEF Init, Idle, NoRow
<1>5. QED
  BY <1>3, <1>4 DEF Init, IInv, ZoneOnRecord, BusyOnAClaim, InsertsFresh, UpdatesProved,
                    VerifiedWasShown

\* One handler moves, and what it does leaves the zone alone.
LEMMA Adding ==
  ASSUME IInv, NEW h \in Handler, NEW t \in Tenant, NEW c \in Claim, AddDomain(h, t, c)
  PROVE  IInv'
<1> DEFINE next == [pc |-> "insert", c |-> c, t |-> t, at |-> now]
<1>1. hs' = [hs EXCEPT ![h] = next] /\ UNCHANGED <<rows, dns, now, shown>>
  BY DEF AddDomain, Go
<1>2. rows[c].state = "none" /\ \A g \in Handler : hs[g].c # c
  BY DEF AddDomain
<1>3. now \in Nat /\ next \in HState
  BY DomainBounds DEF IInv, TypeOK, Times, HState
<1>4. TypeOK'
  BY <1>1, <1>3 DEF IInv, TypeOK
<1>5. BusyOnAClaim'
  BY <1>1 DEF IInv, TypeOK, BusyOnAClaim
<1>6. InsertsFresh'
  BY <1>1, <1>2, <1>3 DEF IInv, TypeOK, InsertsFresh
<1>7. UpdatesProved'
  BY <1>1 DEF IInv, TypeOK, UpdatesProved
<1>8. QED
  BY <1>1, <1>4, <1>5, <1>6, <1>7 DEF IInv, ZoneOnRecord, VerifiedWasShown

LEMMA Inserting ==
  ASSUME IInv, NEW h \in Handler, CreateReclaimingExpired(h)
  PROVE  IInv'
<1>1. hs' = [hs EXCEPT ![h] = Idle] /\ UNCHANGED <<dns, now, shown>>
  BY DEF CreateReclaimingExpired, Finish, Go
<1>2. /\ hs[h].c \in Claim /\ hs[h] \in HState /\ hs[h].pc = "insert"
      /\ rows \in [Claim -> Row]
  BY DEF CreateReclaimingExpired, At, IInv, BusyOnAClaim, TypeOK
<1>3. Idle \in HState
  BY DomainBounds DEF Idle, HState, Times
<1>4. ASSUME NEW d \in Claim
      PROVE  \/ rows'[d] = rows[d]
             \/ rows'[d] = Gone(d) /\ rows[d].state = "live"
             \/ d = hs[h].c /\ rows'[d] = Inserted(h)
  BY <1>2, <1>4 DEF CreateReclaimingExpired, Live
<1>5. Inserted(h) \in Row /\ Inserted(h).state = "live" /\ ~Inserted(h).verified
  BY <1>2 DEF Inserted, Row, HState
<1>6. ASSUME NEW d \in Claim
      PROVE  Gone(d) \in Row /\ Gone(d).state = "gone" /\ Gone(d).verified = rows[d].verified
  BY <1>2 DEF Gone, Row
<1>7. TypeOK'
  <2>1. rows' \in [Claim -> Row]
    <3>1. \A d \in Claim : rows'[d] \in Row
      BY <1>2, <1>4, <1>5, <1>6
    <3>2. QED
      BY <3>1, <1>2 DEF CreateReclaimingExpired
  <2>2. QED
    BY <1>1, <1>3, <2>1 DEF IInv, TypeOK
<1>8. BusyOnAClaim'
  BY <1>1 DEF IInv, TypeOK, BusyOnAClaim, Idle
<1>9. InsertsFresh'
  <2>1. ASSUME NEW g \in Handler, g # h, hs[g].pc = "insert"
        PROVE  rows'[hs[g].c].state = "none"
    <3>1. hs[g].c \in Claim /\ hs[g].c # hs[h].c /\ rows[hs[g].c].state = "none"
      BY <1>2, <2>1 DEF IInv, InsertsFresh, BusyOnAClaim
    <3>2. QED
      BY <1>4, <3>1
  <2>2. QED
    BY <1>1, <2>1 DEF IInv, TypeOK, InsertsFresh, Idle
<1>10. UpdatesProved'
  <2>1. \A d \in Claim : rows[d].state # "none" => rows'[d].state # "none"
    BY <1>2, <1>4, <1>5, <1>6
  <2>2. QED
    BY <1>1, <2>1 DEF IInv, TypeOK, UpdatesProved, BusyOnAClaim, Idle
<1>11. VerifiedWasShown'
  BY <1>1, <1>4, <1>5, <1>6 DEF IInv, VerifiedWasShown
<1>12. QED
  BY <1>1, <1>7, <1>8, <1>9, <1>10, <1>11 DEF IInv, ZoneOnRecord

LEMMA Verifying ==
  ASSUME IInv, NEW h \in Handler, NEW c \in Claim, VerifyDomain(h, c)
  PROVE  IInv'
<1> DEFINE next == [Idle EXCEPT !.pc = "lookup", !.c = c]
<1>1. /\ hs' = [hs EXCEPT ![h] = next] /\ UNCHANGED <<rows, dns, now, shown>>
      /\ rows[c].state = "live"
  BY DEF VerifyDomain, Go, Live
<1>2. next \in HState /\ next.pc = "lookup" /\ next.c = c
  <2>1. Idle \in HState
    BY DomainBounds DEF Idle, HState, Times
  <2>2. QED
    BY <2>1 DEF HState
<1>3. \A g \in Handler : hs'[g] = hs[g] \/ (g = h /\ hs'[g].pc = "lookup" /\ hs'[g].c = c)
  BY <1>1, <1>2 DEF IInv, TypeOK
<1>4. TypeOK'
  BY <1>1, <1>2 DEF IInv, TypeOK
<1>5. InsertsFresh'
  BY <1>1, <1>3 DEF IInv, InsertsFresh
<1>6. BusyOnAClaim' /\ UpdatesProved'
  BY <1>1, <1>3 DEF IInv, BusyOnAClaim, UpdatesProved
<1>7. QED
  BY <1>1, <1>4, <1>5, <1>6 DEF IInv, ZoneOnRecord, VerifiedWasShown

\* A handler that ends, or whose lookup found its token.
LEMMA HandlerOnly ==
  ASSUME IInv, NEW h \in Handler, NEW next \in HState,
         hs' = [hs EXCEPT ![h] = next], UNCHANGED <<rows, dns, now, shown>>,
         \/ next.pc = "idle"
         \/ next.pc = "update" /\ hs[h].pc = "lookup" /\ next.c = hs[h].c /\ hs[h].c \in dns
  PROVE  IInv'
<1>1. \A g \in Handler :
        \/ hs'[g] = hs[g] \/ hs'[g].pc = "idle"
        \/ hs'[g].pc = "update" /\ hs[g].pc = "lookup" /\ hs'[g].c = hs[g].c /\ hs[g].c \in shown
  BY DEF IInv, TypeOK, ZoneOnRecord
<1>2. TypeOK'
  BY DEF IInv, TypeOK
<1>3. InsertsFresh'
  BY <1>1 DEF IInv, InsertsFresh
<1>4. BusyOnAClaim' /\ UpdatesProved'
  BY <1>1 DEF IInv, BusyOnAClaim, UpdatesProved
<1>5. QED
  BY <1>2, <1>3, <1>4 DEF IInv, ZoneOnRecord, VerifiedWasShown

LEMMA LookingUp ==
  ASSUME IInv, NEW h \in Handler, Lookup(h) \/ Abort(h)
  PROVE  IInv'
<1>1. Idle \in HState /\ Idle.pc = "idle"
  BY DomainBounds DEF Idle, HState, Times
<1>2. hs[h] \in HState
  BY DEF IInv, TypeOK
<1>3. CASE hs' = [hs EXCEPT ![h] = Idle]
  BY <1>1, <1>3, HandlerOnly DEF Lookup, Abort
<1>4. CASE Lookup(h) /\ hs' = [hs EXCEPT ![h] = [hs[h] EXCEPT !.pc = "update"]] /\ hs[h].c \in dns
  <2> DEFINE next == [hs[h] EXCEPT !.pc = "update"]
  <2>1. next \in HState /\ next.pc = "update" /\ next.c = hs[h].c
    BY <1>2 DEF HState
  <2>2. hs[h].pc = "lookup" /\ UNCHANGED <<rows, dns, now, shown>> /\ hs[h].c \in dns
    BY <1>4 DEF Lookup, At
  <2>3. hs' = [hs EXCEPT ![h] = next]
    BY <1>4
  <2> HIDE DEF next
  <2>4. QED
    BY <2>1, <2>2, <2>3, HandlerOnly
<1>5. QED
  BY <1>3, <1>4 DEF Lookup, Abort, Finish, Go

\* Rows keep their state, or go, and only one that was shown gets verified.
LEMMA RowsOnly ==
  ASSUME IInv, UNCHANGED <<dns, now, shown>>, rows' \in [Claim -> Row],
         hs' = hs \/ \E h \in Handler : hs' = [hs EXCEPT ![h] = Idle],
         \A c \in Claim : /\ rows'[c].state = "none" <=> rows[c].state = "none"
                          /\ rows'[c].verified => rows[c].verified \/ c \in shown
  PROVE  IInv'
<1>1. Idle \in HState /\ Idle.pc = "idle"
  BY DomainBounds DEF Idle, HState, Times
<1>2. TypeOK'
  BY <1>1 DEF IInv, TypeOK
<1>3. \A g \in Handler : hs'[g] = hs[g] \/ hs'[g].pc = "idle"
  BY <1>1 DEF IInv, TypeOK
<1>4. InsertsFresh'
  BY <1>3 DEF IInv, InsertsFresh, BusyOnAClaim
<1>5. BusyOnAClaim' /\ UpdatesProved'
  BY <1>3 DEF IInv, BusyOnAClaim, UpdatesProved
<1>6. QED
  BY <1>2, <1>4, <1>5 DEF IInv, ZoneOnRecord, VerifiedWasShown

LEMMA Updating ==
  ASSUME IInv, NEW h \in Handler, Update(h)
  PROVE  IInv'
<1>1. ASSUME NEW c \in Claim
      PROVE  /\ rows'[c] \in Row
             /\ rows'[c].state = rows[c].state
             /\ rows'[c].verified => rows[c].verified \/ c \in shown
  <2>1. rows[c] \in Row
    BY DEF IInv, TypeOK
  <2>2. CASE rows'[c] = rows[c]
    BY <2>1, <2>2
  <2>3. CASE c = hs[h].c /\ rows'[c] = [rows[c] EXCEPT !.verified = TRUE]
    <3>1. c \in shown
      BY <2>3 DEF Update, At, IInv, UpdatesProved
    <3>2. QED
      BY <2>1, <2>3, <3>1 DEF Row
  <2>4. QED
    BY <2>2, <2>3 DEF Update, OfId
<1>2. rows' \in [Claim -> Row]
  BY <1>1 DEF Update
<1>3. hs' = [hs EXCEPT ![h] = Idle] /\ UNCHANGED <<dns, now, shown>>
  BY DEF Update, Finish, Go
<1>4. QED
  BY <1>1, <1>2, <1>3, RowsOnly

LEMMA Deleting ==
  ASSUME IInv, NEW c \in Claim, NEW t \in Tenant, DeleteDomain(t, c)
  PROVE  IInv'
<1>1. rows' = [rows EXCEPT ![c] = Gone(c)] /\ UNCHANGED <<dns, hs, now, shown>>
  BY DEF DeleteDomain
<1>2. rows[c] \in Row /\ rows[c].state = "live" /\ rows \in [Claim -> Row]
  BY DEF DeleteDomain, Live, IInv, TypeOK
<1>3. Gone(c) \in Row /\ Gone(c).state = "gone" /\ Gone(c).verified = rows[c].verified
  BY <1>2 DEF Gone, Row
<1>4. \A d \in Claim : rows'[d] = IF d = c THEN Gone(c) ELSE rows[d]
  BY <1>1, <1>2
<1>5. rows' \in [Claim -> Row]
  BY <1>1, <1>2, <1>3
<1>6. QED
  BY <1>1, <1>2, <1>3, <1>4, <1>5, RowsOnly

LEMMA Outside ==
  ASSUME IInv, \/ Tick \/ UNCHANGED vars
               \/ \E c \in Claim : Publish(c) \/ Unpublish(c)
  PROVE  IInv'
<1>1. UNCHANGED <<rows, hs>> /\ now \in Nat /\ now' \in Times /\ now <= now'
  BY DomainBounds DEF Tick, Publish, Unpublish, vars, IInv, TypeOK, Times
<1>2. shown \subseteq shown' /\ dns' \subseteq shown' /\ shown' \subseteq Claim
  BY DEF Tick, Publish, Unpublish, vars, IInv, TypeOK, ZoneOnRecord
<1>3. TypeOK' /\ ZoneOnRecord'
  BY <1>1, <1>2 DEF IInv, TypeOK, ZoneOnRecord
<1>4. InsertsFresh'
  <2>1. ASSUME NEW h \in Handler, hs[h].pc = "insert"
        PROVE  hs[h].at <= now'
    <3>1. hs[h].at <= now /\ hs[h].at \in Nat
      BY <2>1 DEF IInv, TypeOK, HState, InsertsFresh, Times
    <3>2. QED
      BY <1>1, <3>1 DEF Times
  <2>2. QED
    BY <1>1, <2>1 DEF IInv, InsertsFresh
<1>5. BusyOnAClaim' /\ UpdatesProved' /\ VerifiedWasShown'
  BY <1>1, <1>2 DEF IInv, BusyOnAClaim, UpdatesProved, VerifiedWasShown
<1>6. QED
  BY <1>3, <1>4, <1>5 DEF IInv

THEOREM Inductive == Spec => []IInv
<1>1. Init => IInv
  BY InitHolds
<1>2. IInv /\ [Next]_vars => IInv'
  BY Adding, Inserting, Verifying, LookingUp, Updating, Deleting, Outside DEF Next
<1>3. QED
  BY <1>1, <1>2, PTL DEF Spec

\* Every table, handler and history keeps its type.
THEOREM TypeCorrect == Spec => []TypeOK
<1>1. IInv => TypeOK
  BY DEF IInv
<1>2. QED
  BY <1>1, Inductive, PTL

\* A tenant gets the requests for the hostname only by a claim whose own
\* token was in its zone.
THEOREM OnlyProvedClaimsServe == Spec => []ServedByProof
<1>1. IInv => ServedByProof
  BY DEF IInv, VerifiedWasShown, ServedByProof, Serves, Verified
<1>2. QED
  BY <1>1, Inductive, PTL

-----------------------------------------------------------------------------
\* A claim goes by its own tenant's delete, or unverified after its window.
Stands(c) ==
  \/ rows'[c].state = "live" /\ (rows[c].verified => rows'[c].verified)
  \/ ~rows[c].verified /\ now > rows[c].at + ClaimTTL
  \/ \E t \in Tenant : rows[c].tenant = t /\ DeleteDomain(t, c)

LEMMA TakenOverLate ==
  ASSUME IInv, NEW h \in Handler, CreateReclaimingExpired(h), NEW c \in Claim, Live(c)
  PROVE  Stands(c)
<1>1. hs[h].at <= now /\ hs[h].c # c /\ hs[h].at \in Nat
  BY DEF CreateReclaimingExpired, At, IInv, InsertsFresh, TypeOK, HState, Times, Live
<1>2. rows[c] \in Row /\ now \in Nat
  BY DEF IInv, TypeOK, Times
<1>3. rows' = rows \/ Expired(c, hs[h].at)
  BY DEF CreateReclaimingExpired
<1>4. CASE rows' = rows
  BY <1>4 DEF Stands, Live
<1>5. CASE Expired(c, hs[h].at)
  <2>1. rows[c].at \in Nat /\ rows[c].at + ClaimTTL < hs[h].at /\ ~rows[c].verified
    BY <1>2, <1>5 DEF Expired, OldEnough, Row, Times
  <2>2. QED
    BY <1>1, <1>2, <2>1, DomainBounds DEF Stands
<1>6. QED
  BY <1>3, <1>4, <1>5

LEMMA OthersLeaveIt ==
  ASSUME IInv, [Next]_vars, NEW c \in Claim, Live(c),
         \A h \in Handler : ~CreateReclaimingExpired(h)
  PROVE  Stands(c)
<1>1. rows[c] \in Row /\ rows[c].state = "live"
  BY DEF IInv, TypeOK, Live
<1>2. CASE rows' = rows
  BY <1>1, <1>2 DEF Stands
<1>3. ASSUME NEW h \in Handler, Update(h)  PROVE Stands(c)
  <2>1. rows'[c] = rows[c] \/ rows'[c] = [rows[c] EXCEPT !.verified = TRUE]
    BY <1>3 DEF Update
  <2>2. QED
    BY <1>1, <2>1 DEF Stands, Row
<1>4. ASSUME NEW t \in Tenant, NEW d \in Claim, DeleteDomain(t, d)  PROVE Stands(c)
  <2>1. CASE c = d
    BY <1>4, <2>1 DEF Stands, DeleteDomain
  <2>2. CASE c # d
    <3>1. rows'[c] = rows[c]
      BY <1>4, <2>2 DEF DeleteDomain, IInv, TypeOK
    <3>2. QED
      BY <1>1, <3>1 DEF Stands
  <2>3. QED
    BY <2>1, <2>2
<1>5. CASE UNCHANGED rows
  BY <1>2, <1>5
<1>6. CASE \/ Tick \/ UNCHANGED vars
           \/ \E d \in Claim : Publish(d) \/ Unpublish(d)
           \/ \E h \in Handler : \/ \E t \in Tenant, d \in Claim : AddDomain(h, t, d)
                                 \/ \E d \in Claim : VerifyDomain(h, d)
                                 \/ Lookup(h) \/ Abort(h)
  BY <1>5, <1>6 DEF Tick, vars, Publish, Unpublish, AddDomain, VerifyDomain, Lookup, Abort
<1>7. QED
  BY <1>3, <1>4, <1>6 DEF Next

\* However long a newcomer took, a claim stands for its window, and a verified
\* one for good.
THEOREM ClaimsStand == Spec => ClaimStands
<1>1. ASSUME IInv, [Next]_vars
      PROVE  [\A c \in Claim : Live(c) => Stands(c)]_vars
  BY <1>1, TakenOverLate, OthersLeaveIt
<1>2. QED
  BY <1>1, Inductive, PTL DEF Spec, ClaimStands, Stands
=============================================================================
