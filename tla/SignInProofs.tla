---------------------------- MODULE SignInProofs ----------------------------
(***************************************************************************)
(* Proofs about SignIn, for every number of handlers, browsers, flows,     *)
(* subjects and addresses, and any lifetimes: one account per subject,     *)
(* links the provider vouched for, one use of a ticket, and no second      *)
(* subject by coming back late.                                            *)
(***************************************************************************)
EXTENDS SignIn, TLAPS

\* Where a handler is past the provider.
Resolving == {"subject", "email", "guard", "create", "link", "ticket"}
Answered  == {"granted", "exchanged"}

\* A handler works on a flow, or for an account, that it has.
Busy(h) ==
  /\ hs[h].pc # "idle" => hs[h].f \in Flow
  /\ hs[h].pc = "exchange" => hs[h].b \in Browser /\ flows[hs[h].f].state \in Answered
  /\ hs[h].pc \in {"guard", "link", "ticket"} => hs[h].acct \in Email

\* The provider takes a code once: whoever resolves a flow does so alone, and
\* before there is a ticket.
Alone(h) ==
  hs[h].pc \in Resolving =>
    /\ flows[hs[h].f].state = "exchanged" /\ flows[hs[h].f].verified
    /\ tickets[hs[h].f] = NoTicket /\ wins[hs[h].f] = 0 /\ hs[h].f \notin used
    /\ \A g \in Handler : g # h /\ hs[g].pc \in Resolving => hs[g].f # hs[h].f

\* The account is there and the one whose address was looked up, then the one
\* linked.
Meant(h) ==
  /\ hs[h].pc \in {"guard", "link"} => hs[h].acct = Addr(h) /\ hs[h].acct \in accounts
  /\ hs[h].pc = "ticket" => ids[Subj(h)] = hs[h].acct
  /\ hs[h].pc \in {"consume", "session"} => tickets[hs[h].f] # NoTicket

\* What was linked when the callback began still is, and who goes on to link
\* such an account has a link himself by then.
Seen(h) ==
  /\ hs[h].seen \subseteq Linked
  /\ hs[h].pc = "create" => Addr(h) \notin hs[h].seen
  /\ hs[h].pc = "link" /\ hs[h].acct \in hs[h].seen => ids[Subj(h)] # NoEmail

Sound(h) == Busy(h) /\ Alone(h) /\ Meant(h) /\ Seen(h)

\* A flow is answered with a subject, and with an address he was vouched for
\* if the provider says so.
FlowAnswered ==
  \A f \in Flow : flows[f].state \in Answered =>
    /\ flows[f].subj \in Subject /\ flows[f].email \in Email
    /\ flows[f].verified => flows[f].email \in vouched[flows[f].subj]

\* Links are to accounts there are, and a ticket is for its subject's link.
LinkedExist  == \A s \in Subject : ids[s] # NoEmail => ids[s] \in accounts
TicketLinked ==
  \A f \in Flow : tickets[f] # NoTicket =>
    /\ flows[f].state = "exchanged"
    /\ tickets[f].subj \in Subject /\ tickets[f].acct \in Email
    /\ ids[tickets[f].subj] = tickets[f].acct

\* A use that counted is remembered until the ticket expires.
WinsRemembered ==
  \A f \in Flow :
    /\ wins[f] # 0 => tickets[f] # NoTicket /\ (f \in used \/ now >= tickets[f].exp)
    /\ f \in used => tickets[f] # NoTicket

LinkInv   == FlowAnswered /\ LinkedExist /\ LinksAreVouched
TicketInv == TicketLinked /\ OneAccountPerSubject
UseInv    == TicketOnce /\ WinsRemembered
Handlers  == \A h \in Handler : Sound(h)
IInv      == TypeOK /\ Handlers /\ LinkInv /\ TicketInv /\ UseInv

-----------------------------------------------------------------------------
(* What stays *)

LEMMA ConstantTypes ==
  /\ Idle \in HState /\ Idle.pc = "idle" /\ Idle.f = NoFlow /\ Idle.acct = NoEmail
  /\ Idle.seen = {}
  /\ Unbegun \in FState /\ Unbegun.state = "none" /\ NoTicket \in Ticket
  /\ MaxNow \in Nat /\ TicketTTL \in Nat /\ 0 \in Times
<1>1. MaxNow \in Nat /\ TicketTTL \in Nat /\ 0 \in Times
  BY SignInBounds DEF Times
<1>2. QED
  BY <1>1 DEF Idle, HState, PC, Unbegun, FState, NoTicket, Ticket

\* Answers, links and tickets are kept; only a handler that mints writes
\* about a flow that has no ticket.
Grows(minting) ==
  /\ \A f \in Flow : flows[f].state \in Answered =>
       /\ flows'[f].state \in Answered
       /\ flows[f].state = "exchanged" => flows'[f].state = "exchanged"
       /\ flows'[f].subj = flows[f].subj /\ flows'[f].email = flows[f].email
       /\ flows'[f].verified = flows[f].verified
  /\ accounts \subseteq accounts'
  /\ \A s \in Subject : ids[s] # NoEmail => ids'[s] = ids[s]
  /\ \A f \in Flow : tickets[f] # NoTicket => tickets'[f] = tickets[f]
  /\ \A f \in Flow \ minting : tickets[f] = NoTicket /\ wins[f] = 0 /\ f \notin used =>
       tickets'[f] = NoTicket /\ wins'[f] = 0 /\ f \notin used'

\* The flow a handler is about to mint the ticket of.
Minting(h) == IF hs[h].pc = "ticket" THEN {hs[h].f} ELSE {}

\* A handler that is not touched stays as it is.
LEMMA OtherStays ==
  ASSUME IInv, NEW minting, Grows(minting), NEW g \in Handler, hs'[g] = hs[g],
         hs[g].pc \in Resolving => hs[g].f \notin minting,
         \A h \in Handler : h # g /\ hs[g].pc \in Resolving /\ hs'[h].pc \in Resolving =>
                              hs'[h].f # hs[g].f
  PROVE  Sound(g)'
<1>1. TypeOK /\ Sound(g) /\ FlowAnswered /\ NoEmail \notin Email
  BY SignInNames DEF IInv, Handlers, LinkInv
<1>2. Busy(g)'
  BY <1>1 DEF Sound, Busy, Grows
<1>3. hs[g].pc \in Resolving => hs[g].f \in Flow
  BY <1>1 DEF Sound, Busy, Resolving
<1>4. hs[g].pc \in Resolving => /\ Subj(g)' = Subj(g) /\ Addr(g)' = Addr(g) /\ Subj(g) \in Subject
  BY <1>1, <1>3 DEF Sound, Alone, Grows, Subj, Addr, FlowAnswered, Answered
<1>5. Alone(g)'
  BY <1>1, <1>3 DEF Sound, Alone, Grows, Answered
<1>6. Meant(g)'
  <2>1. hs[g].pc \in {"guard", "link"} => hs[g].acct = Addr(g)' /\ hs[g].acct \in accounts'
    BY <1>1, <1>4 DEF Sound, Meant, Resolving, Grows
  <2>2. hs[g].pc = "ticket" => ids'[Subj(g)'] = hs[g].acct
    <3>1. CASE hs[g].pc = "ticket"
      <4>1. /\ ids[Subj(g)] = hs[g].acct /\ hs[g].acct \in Email
            /\ Subj(g)' = Subj(g) /\ Subj(g) \in Subject
        BY <1>1, <1>4, <3>1 DEF Sound, Meant, Busy, Resolving
      <4>2. QED
        BY <1>1, <4>1 DEF Grows
    <3>2. QED
      BY <3>1
  <2>3. hs[g].pc \in {"consume", "session"} => tickets'[hs[g].f] # NoTicket
    BY <1>1 DEF Sound, Meant, Busy, Grows
  <2>4. QED
    BY <2>1, <2>2, <2>3 DEF Meant
<1>7. Linked \subseteq Linked'
  BY DEF Grows, Linked
<1>8. Seen(g)'
  <2>1. hs[g].pc = "create" => Addr(g)' \notin hs[g].seen
    BY <1>1, <1>4 DEF Sound, Seen, Resolving
  <2>2. hs[g].pc = "link" /\ hs[g].acct \in hs[g].seen => ids'[Subj(g)'] # NoEmail
    <3>1. CASE hs[g].pc = "link" /\ hs[g].acct \in hs[g].seen
      <4>1. /\ ids[Subj(g)] # NoEmail /\ Subj(g)' = Subj(g) /\ Subj(g) \in Subject
        BY <1>1, <1>4, <3>1 DEF Sound, Seen, Resolving
      <4>2. QED
        BY <4>1 DEF Grows
    <3>2. QED
      BY <3>1
  <2>3. hs[g].seen \subseteq Linked'
    BY <1>1, <1>7 DEF Sound, Seen
  <2>4. QED
    BY <2>1, <2>2, <2>3 DEF Seen
<1>9. QED
  BY <1>2, <1>5, <1>6, <1>8 DEF Sound

\* One handler moves.
LEMMA HandlerMoves ==
  ASSUME IInv, NEW h \in Handler, NEW next \in HState, hs' = [hs EXCEPT ![h] = next],
         Grows(Minting(h)), Sound(h)',
         next.pc \in Resolving =>
           \A g \in Handler : g # h /\ hs[g].pc \in Resolving => hs[g].f # next.f
  PROVE  Handlers'
<1>1. hs \in [Handler -> HState] /\ Handlers
  BY DEF IInv, TypeOK
<1>2. hs'[h] = next /\ \A g \in Handler : g # h => hs'[g] = hs[g]
  BY <1>1
<1>3. ASSUME NEW g \in Handler, g # h  PROVE Sound(g)'
  <2>1. hs[g].pc \in Resolving => hs[g].f \notin Minting(h)
    BY <1>1, <1>3 DEF Handlers, Sound, Alone, Minting, Resolving
  <2>2. \A k \in Handler : k # g /\ hs[g].pc \in Resolving /\ hs'[k].pc \in Resolving =>
          hs'[k].f # hs[g].f
    <3>1. ASSUME NEW k \in Handler, k # g, hs[g].pc \in Resolving, hs'[k].pc \in Resolving
          PROVE  hs'[k].f # hs[g].f
      <4>1. CASE k = h
        BY <1>2, <1>3, <3>1, <4>1
      <4>2. CASE k # h
        BY <1>1, <1>2, <3>1, <4>2 DEF Handlers, Sound, Alone
      <4>3. QED
        BY <4>1, <4>2
    <3>2. QED
      BY <3>1
  <2>3. QED
    BY <1>2, <1>3, <2>1, <2>2, OtherStays
<1>4. QED
  BY <1>3 DEF Handlers

\* None does.
LEMMA NobodyMoves ==
  ASSUME IInv, Grows({}), UNCHANGED hs
  PROVE  Handlers'
<1>1. ASSUME NEW g \in Handler  PROVE Sound(g)'
  <2>1. \A h \in Handler : h # g /\ hs[g].pc \in Resolving /\ hs'[h].pc \in Resolving =>
          hs'[h].f # hs[g].f
    BY DEF IInv, Handlers, Sound, Alone
  <2>2. QED
    BY <2>1, OtherStays
<1>2. QED
  BY <1>1 DEF Handlers

\* What the store, the provider and the tickets are when a step only reads.
kept == <<flows, vouched, accounts, ids, tickets, used, wins, sessions, now>>
LEMMA KeptStays ==
  ASSUME IInv, UNCHANGED kept, NEW h
  PROVE  (LinkInv /\ TicketInv /\ UseInv)' /\ Grows({}) /\ Grows(Minting(h))
<1>1. LinkInv'
  BY DEF kept, IInv, LinkInv, FlowAnswered, LinkedExist, LinksAreVouched
<1>2. TicketInv'
  BY DEF kept, IInv, TicketInv, TicketLinked, OneAccountPerSubject
<1>3. UseInv'
  BY DEF kept, IInv, UseInv, TicketOnce, WinsRemembered
<1>4. Grows({}) /\ Grows(Minting(h))
  BY DEF kept, Grows
<1>5. QED
  BY <1>1, <1>2, <1>3, <1>4

Moves == Handlers' /\ hs' \in [Handler -> HState]

\* A handler that stops.
LEMMA StopIsSound ==
  ASSUME TypeOK, NEW h \in Handler, hs' = [hs EXCEPT ![h] = Idle]
  PROVE  Sound(h)' /\ hs' \in [Handler -> HState]
<1>1. hs' \in [Handler -> HState] /\ hs'[h] = Idle
  BY ConstantTypes DEF TypeOK
<1>2. QED
  BY <1>1, ConstantTypes DEF Sound, Busy, Alone, Meant, Seen, Resolving

LEMMA StopMoves ==
  ASSUME IInv, NEW h \in Handler, hs' = [hs EXCEPT ![h] = Idle], Grows(Minting(h))
  PROVE  Moves
<1>1. TypeOK
  BY DEF IInv
<1>2. Sound(h)' /\ hs' \in [Handler -> HState]
  BY <1>1, StopIsSound
<1>3. Idle \in HState /\ Idle.pc \notin Resolving
  BY ConstantTypes DEF Resolving
<1>4. QED
  BY <1>2, <1>3, HandlerMoves DEF Moves

\* From one record to another.
LEMMA StepMoves ==
  ASSUME IInv, NEW h \in Handler, NEW next \in HState, hs' = [hs EXCEPT ![h] = next],
         Grows(Minting(h)),
         hs'[h] = next => Sound(h)',
         next.pc \in Resolving =>
           \A g \in Handler : g # h /\ hs[g].pc \in Resolving => hs[g].f # next.f
  PROVE  Moves
<1>1. hs' \in [Handler -> HState] /\ hs'[h] = next
  BY DEF IInv, TypeOK
<1>2. QED
  BY <1>1, HandlerMoves DEF Moves

LEMMA ReadTypes ==
  ASSUME TypeOK, UNCHANGED kept, UNCHANGED <<open, mail>>,
         Moves, cookies' \in [Browser -> Flow \cup {NoFlow}]
  PROVE  TypeOK'
  BY DEF TypeOK, kept, Moves

\* The handler's part of a step that only reads.
LEMMA Reads ==
  ASSUME IInv, NEW h \in Handler,
         \/ BySubject(h) \/ ByEmail(h) \/ Guard(h) \/ Abort(h)
         \/ \E f \in Flow : Complete(h, f)
         \/ \E b \in Browser, f \in Flow : Callback(h, b, f)
  PROVE  IInv'
<1> USE DEF Go, Finish, To, At
<1>1. /\ TypeOK /\ Handlers /\ FlowAnswered /\ LinkedExist /\ hs[h] \in HState /\ Sound(h)
      /\ NoEmail \notin Email
  BY SignInNames DEF IInv, TypeOK, LinkInv, Handlers
<1>2. UNCHANGED kept /\ UNCHANGED <<open, mail>>
  BY DEF kept, BySubject, ByEmail, Guard, Abort, Complete, Callback, Ticketed,
         store, provider, handoff
<1>3. cookies' \in [Browser -> Flow \cup {NoFlow}]
  BY <1>1 DEF BySubject, ByEmail, Guard, Abort, Complete, Callback, Ticketed, Cleared, TypeOK
<1>4. Grows(Minting(h))
  BY <1>2, KeptStays
<1>5. /\ Linked' = Linked /\ Subj(h) = flows[hs[h].f].subj /\ Addr(h) = flows[hs[h].f].email
      /\ flows' = flows /\ tickets' = tickets /\ wins' = wins /\ used' = used /\ ids' = ids
      /\ accounts' = accounts
  BY <1>2 DEF kept, Linked, Subj, Addr
<1>6. /\ hs[h].pc \in Resolving => /\ hs[h].f \in Flow
                                   /\ flows[hs[h].f].state = "exchanged"
                                   /\ flows[hs[h].f].subj \in Subject
                                   /\ flows[hs[h].f].email \in Email
      /\ hs[h].pc \in Resolving =>
           \A g \in Handler : g # h /\ hs[g].pc \in Resolving => hs[g].f # hs[h].f
  BY <1>1 DEF Sound, Busy, Alone, Resolving, FlowAnswered, Answered
<1>7. ASSUME Abort(h)  PROVE Moves
  BY <1>1, <1>4, <1>7, StopMoves DEF Abort
<1>8. ASSUME BySubject(h)  PROVE Moves
  <2> DEFINE a == ids[Subj(h)]
             tick == [Idle EXCEPT !.pc = "ticket", !.f = hs[h].f, !.acct = a]
             look == [hs[h] EXCEPT !.pc = "email"]
  <2>1. /\ hs[h].pc = "subject" /\ \/ a # NoEmail /\ hs' = [hs EXCEPT ![h] = tick]
                                   \/ hs' = [hs EXCEPT ![h] = look]
    BY <1>8 DEF BySubject, Known, Ticketed
  <2>2. a \in Email \cup {NoEmail} /\ hs[h].f \in Flow
    BY <1>1, <1>5, <1>6, <2>1 DEF TypeOK, Resolving
  <2>3. /\ tick \in HState /\ tick.pc = "ticket" /\ tick.f = hs[h].f /\ tick.acct = a
        /\ tick.seen = {}
        /\ look \in HState /\ look.pc = "email" /\ look.f = hs[h].f /\ look.seen = hs[h].seen
    BY <1>1, <2>2, ConstantTypes DEF HState, PC
  <2>4. a = ids[flows[hs[h].f].subj]
    BY <1>5
  <2> HIDE DEF a, tick, look
  <2>5. CASE a # NoEmail /\ hs' = [hs EXCEPT ![h] = tick]
    <3>1. ASSUME hs'[h] = tick  PROVE Sound(h)'
      <4>1. Busy(h)' /\ Seen(h)'
        BY <2>2, <2>3, <2>5, <3>1 DEF Busy, Seen
      <4>2. Alone(h)'
        BY <1>1, <1>5, <1>6, <2>1, <2>3, <2>5, <3>1 DEF Sound, Alone, Resolving, TypeOK
      <4>3. Meant(h)'
        BY <1>5, <2>3, <2>4, <3>1 DEF Meant, Subj
      <4>4. QED
        BY <4>1, <4>2, <4>3 DEF Sound
    <3>2. QED
      BY <1>4, <1>6, <2>1, <2>3, <2>5, <3>1, StepMoves DEF Resolving
  <2>6. CASE hs' = [hs EXCEPT ![h] = look]
    <3>1. ASSUME hs'[h] = look  PROVE Sound(h)'
      <4>1. Busy(h)' /\ Meant(h)' /\ Seen(h)'
        BY <1>1, <1>5, <2>2, <2>3, <3>1 DEF Sound, Busy, Meant, Seen
      <4>2. Alone(h)'
        BY <1>1, <1>5, <1>6, <2>1, <2>3, <2>6, <3>1 DEF Sound, Alone, Resolving, TypeOK
      <4>3. QED
        BY <4>1, <4>2 DEF Sound
    <3>2. QED
      BY <1>4, <1>6, <2>1, <2>3, <2>6, <3>1, StepMoves DEF Resolving
  <2>7. QED
    BY <2>1, <2>5, <2>6
<1>9. ASSUME ByEmail(h)  PROVE Moves
  <2> DEFINE grd == [hs[h] EXCEPT !.pc = "guard", !.acct = Addr(h)]
             new == [hs[h] EXCEPT !.pc = "create"]
  <2>1. /\ hs[h].pc = "email"
        /\ \/ Addr(h) \in accounts /\ hs' = [hs EXCEPT ![h] = grd]
           \/ Addr(h) \notin accounts /\ hs' = [hs EXCEPT ![h] = new]
           \/ hs' = [hs EXCEPT ![h] = Idle]
    BY <1>9 DEF ByEmail
  <2>2. Addr(h) \in Email /\ hs[h].f \in Flow
    BY <1>5, <1>6, <2>1 DEF Resolving
  <2>3. /\ grd \in HState /\ grd.pc = "guard" /\ grd.f = hs[h].f /\ grd.acct = Addr(h)
        /\ grd.seen = hs[h].seen
        /\ new \in HState /\ new.pc = "create" /\ new.f = hs[h].f /\ new.seen = hs[h].seen
    BY <1>1, <2>2 DEF HState, PC
  <2>4. Linked \subseteq accounts /\ hs[h].seen \subseteq Linked
    BY <1>1 DEF Linked, LinkedExist, Sound, Seen
  <2> HIDE DEF grd, new
  <2>5. ASSUME Addr(h) \in accounts, hs' = [hs EXCEPT ![h] = grd]  PROVE Moves
    <3>1. ASSUME hs'[h] = grd  PROVE Sound(h)'
      <4>1. Busy(h)' /\ Meant(h)' /\ Seen(h)'
        BY <1>5, <2>2, <2>3, <2>4, <2>5, <3>1 DEF Busy, Meant, Seen, Addr
      <4>2. Alone(h)'
        BY <1>1, <1>5, <1>6, <2>1, <2>3, <2>5, <3>1 DEF Sound, Alone, Resolving, TypeOK
      <4>3. QED
        BY <4>1, <4>2 DEF Sound
    <3>2. QED
      BY <1>4, <1>6, <2>1, <2>3, <2>5, <3>1, StepMoves DEF Resolving
  <2>6. ASSUME Addr(h) \notin accounts, hs' = [hs EXCEPT ![h] = new]  PROVE Moves
    <3>1. ASSUME hs'[h] = new  PROVE Sound(h)'
      <4>1. Busy(h)' /\ Meant(h)'
        BY <1>5, <2>2, <2>3, <3>1 DEF Busy, Meant
      <4>2. Seen(h)'
        BY <1>5, <2>3, <2>4, <2>6, <3>1 DEF Seen, Addr
      <4>3. Alone(h)'
        BY <1>1, <1>5, <1>6, <2>1, <2>3, <2>6, <3>1 DEF Sound, Alone, Resolving, TypeOK
      <4>4. QED
        BY <4>1, <4>2, <4>3 DEF Sound
    <3>2. QED
      BY <1>4, <1>6, <2>1, <2>3, <2>6, <3>1, StepMoves DEF Resolving
  <2>7. QED
    BY <1>4, <2>1, <2>5, <2>6, StopMoves
\* Who passes with an account that was linked when he began is linked to it.
<1>10. ASSUME Guard(h)  PROVE Moves
  <2> DEFINE next == [hs[h] EXCEPT !.pc = "link"]
  <2>1. /\ hs[h].pc = "guard"
        /\ \/ hs' = [hs EXCEPT ![h] = Idle]
           \/ /\ Rivals(h) = {} \/ ids[Subj(h)] = hs[h].acct
              /\ hs' = [hs EXCEPT ![h] = next]
    BY <1>10 DEF Guard
  <2>2. /\ hs[h].acct \in Email /\ hs[h].f \in Flow /\ hs[h].acct = Addr(h)
        /\ hs[h].acct \in accounts
    BY <1>1, <2>1 DEF Sound, Busy, Meant
  <2>3. /\ next \in HState /\ next.pc = "link" /\ next.f = hs[h].f /\ next.acct = hs[h].acct
        /\ next.seen = hs[h].seen
    BY <1>1 DEF HState, PC
  <2> HIDE DEF next
  <2>4. ASSUME Rivals(h) = {} \/ ids[Subj(h)] = hs[h].acct, hs' = [hs EXCEPT ![h] = next]
        PROVE  Moves
    <3>1. hs[h].acct \in hs[h].seen => ids[Subj(h)] # NoEmail
      <4>1. hs[h].seen \subseteq Linked
        BY <1>1 DEF Sound, Seen
      <4>2. QED
        BY <1>1, <2>2, <2>4, <4>1 DEF Linked, Rivals
    <3>2. ASSUME hs'[h] = next  PROVE Sound(h)'
      <4>1. Busy(h)' /\ Meant(h)'
        BY <1>5, <2>2, <2>3, <3>2 DEF Busy, Meant, Addr
      <4>2. Seen(h)'
        BY <1>1, <1>5, <2>3, <3>1, <3>2 DEF Sound, Seen, Subj
      <4>3. Alone(h)'
        BY <1>1, <1>5, <1>6, <2>1, <2>3, <2>4, <3>2 DEF Sound, Alone, Resolving, TypeOK
      <4>4. QED
        BY <4>1, <4>2, <4>3 DEF Sound
    <3>3. QED
      BY <1>4, <1>6, <2>1, <2>3, <2>4, <3>2, StepMoves DEF Resolving
  <2>5. QED
    BY <1>4, <2>1, <2>4, StopMoves
<1>11. ASSUME NEW f \in Flow, Complete(h, f)  PROVE Moves
  <2> DEFINE next == [Idle EXCEPT !.pc = "consume", !.f = f]
  <2>1. hs' = [hs EXCEPT ![h] = next] /\ tickets[f] # NoTicket
    BY <1>11 DEF Complete, VerifyTicket
  <2>2. next \in HState /\ next.pc = "consume" /\ next.f = f /\ next.seen = {}
    BY ConstantTypes DEF HState, PC
  <2> HIDE DEF next
  <2>3. ASSUME hs'[h] = next  PROVE Sound(h)'
    BY <1>5, <2>1, <2>2, <2>3 DEF Sound, Busy, Alone, Meant, Seen, Resolving
  <2>4. QED
    BY <1>4, <2>1, <2>2, <2>3, StepMoves DEF Resolving
<1>12. ASSUME NEW b \in Browser, NEW f \in Flow, Callback(h, b, f)  PROVE Moves
  <2> DEFINE next == [Idle EXCEPT !.pc = "exchange", !.f = f, !.b = b, !.seen = Linked]
  <2>1. /\ hs[h].pc = "idle"
        /\ \/ hs' = hs
           \/ flows[f].state \in Answered /\ hs' = [hs EXCEPT ![h] = next]
    BY <1>12 DEF Callback, Answered
  <2>2. Linked \subseteq Email
    BY <1>1 DEF Linked, TypeOK
  <2>3. /\ next \in HState /\ next.pc = "exchange" /\ next.f = f /\ next.b = b
        /\ next.seen = Linked
    BY <2>2, ConstantTypes DEF HState, PC
  <2>4. Grows({})
    BY <1>2, KeptStays
  <2> HIDE DEF next
  <2>5. ASSUME flows[f].state \in Answered, hs' = [hs EXCEPT ![h] = next]  PROVE Moves
    <3>1. ASSUME hs'[h] = next  PROVE Sound(h)'
      BY <1>5, <2>3, <2>5, <3>1 DEF Sound, Busy, Alone, Meant, Seen, Resolving
    <3>2. QED
      BY <1>4, <2>3, <2>5, <3>1, StepMoves DEF Resolving
  <2>6. QED
    BY <1>1, <2>1, <2>4, <2>5, NobodyMoves DEF Moves, TypeOK
<1>13. Moves
  BY <1>7, <1>8, <1>9, <1>10, <1>11, <1>12
<1>14. TypeOK'
  BY <1>1, <1>2, <1>3, <1>13, ReadTypes
<1>15. QED
  BY <1>2, <1>13, <1>14, KeptStays DEF IInv, Moves

-----------------------------------------------------------------------------
(* The provider's answer *)

\* Flows move on; an answer given stays, and brings what was vouched for.
FlowStep ==
  /\ flows' \in [Flow -> FState] /\ vouched' \in [Subject -> SUBSET Email]
  /\ \A s \in Subject : vouched[s] \subseteq vouched'[s]
  /\ \A f \in Flow :
       \/ flows'[f] = flows[f]
       \/ flows[f].state \notin Answered /\ flows'[f].state \notin Answered
       \/ /\ flows[f].state \notin Answered
          /\ flows'[f].state = "granted"
          /\ flows'[f].subj \in Subject /\ flows'[f].email \in Email
          /\ flows'[f].verified => flows'[f].email \in vouched'[flows'[f].subj]
       \/ /\ flows[f].state \in Answered /\ flows'[f].state = "exchanged"
          /\ flows'[f].subj = flows[f].subj /\ flows'[f].email = flows[f].email
          /\ flows'[f].verified = flows[f].verified
  /\ UNCHANGED <<open, accounts, ids, tickets, used, wins, sessions, now>>

LEMMA FlowStepKeeps ==
  ASSUME IInv, FlowStep, NEW h
  PROVE  (LinkInv /\ TicketInv /\ UseInv)' /\ Grows({}) /\ Grows(Minting(h))
<1>1. /\ TypeOK /\ FlowAnswered /\ LinkedExist /\ LinksAreVouched
      /\ TicketLinked /\ OneAccountPerSubject /\ TicketOnce /\ WinsRemembered
  BY DEF IInv, LinkInv, TicketInv, UseInv
<1>2. FlowAnswered'
  BY <1>1 DEF FlowAnswered, FlowStep, Answered
<1>3. LinkedExist' /\ LinksAreVouched'
  BY <1>1 DEF LinkedExist, LinksAreVouched, FlowStep
<1>4. TicketLinked' /\ OneAccountPerSubject'
  BY <1>1 DEF TicketLinked, OneAccountPerSubject, FlowStep, Answered
<1>5. TicketOnce' /\ WinsRemembered'
  BY <1>1 DEF TicketOnce, WinsRemembered, FlowStep
<1>6. Grows({}) /\ Grows(Minting(h))
  BY DEF Grows, FlowStep, Answered
<1>7. QED
  BY <1>2, <1>3, <1>4, <1>5, <1>6 DEF LinkInv, TicketInv, UseInv

LEMMA Provides ==
  ASSUME IInv,
         \/ \E f \in Flow : \/ \E b \in Browser : Start(b, f)
                            \/ \E s \in Subject, v \in BOOLEAN : Grant(f, s, v)
                            \/ Deny(f)
         \/ \E s \in Subject, e \in Email : Rename(s, e)
  PROVE  IInv'
<1>1. TypeOK /\ now \in Times
  BY SignInBounds DEF IInv, TypeOK, Times
<1>2. UNCHANGED <<hs, open, accounts, ids, tickets, used, wins, sessions, now>>
  BY DEF Start, Grant, Deny, Rename, requests, provider, store, handoff
<1>3. ASSUME NEW f \in Flow, NEW b \in Browser, Start(b, f)
      PROVE  FlowStep /\ cookies' \in [Browser -> Flow \cup {NoFlow}] /\ mail' = mail
  <2> DEFINE row == [Unbegun EXCEPT !.state = "started", !.at = now]
  <2>1. row \in FState /\ row.state = "started"
    BY <1>1, ConstantTypes DEF FState
  <2>2. flows' = [flows EXCEPT ![f] = row] /\ flows[f].state = "none" /\ vouched' = vouched
    BY <1>3 DEF Start
  <2> HIDE DEF row
  <2>3. FlowStep
    BY <1>1, <1>2, <2>1, <2>2 DEF FlowStep, TypeOK, Answered
  <2>4. QED
    BY <1>1, <1>3, <2>3 DEF Start, TypeOK
<1>4. ASSUME NEW f \in Flow, NEW s \in Subject, NEW v \in BOOLEAN, Grant(f, s, v)
      PROVE  FlowStep /\ cookies' = cookies /\ mail' = mail
  <2> DEFINE row == [flows[f] EXCEPT !.state = "granted", !.subj = s, !.email = mail[s],
                                     !.verified = v]
  <2>1. flows[f] \in FState /\ flows[f].state = "started" /\ mail[s] \in Email
    BY <1>1, <1>4 DEF Grant, TypeOK
  <2>2. /\ row \in FState /\ row.state = "granted" /\ row.subj = s /\ row.email = mail[s]
        /\ row.verified = v
    BY <2>1 DEF FState
  <2>3. flows' = [flows EXCEPT ![f] = row]
    BY <1>1, <1>4, <2>1 DEF Grant, TypeOK, FState
  <2>4. /\ vouched' \in [Subject -> SUBSET Email]
        /\ \A t \in Subject : vouched[t] \subseteq vouched'[t]
        /\ v => mail[s] \in vouched'[s]
    BY <1>1, <1>4, <2>1 DEF Grant, TypeOK
  <2> HIDE DEF row
  <2>5. FlowStep
    BY <1>1, <1>2, <2>1, <2>2, <2>3, <2>4 DEF FlowStep, TypeOK, Answered
  <2>6. QED
    BY <1>4, <2>5 DEF Grant, requests
<1>5. ASSUME NEW f \in Flow, Deny(f)  PROVE FlowStep /\ cookies' = cookies /\ mail' = mail
  <2> DEFINE row == [flows[f] EXCEPT !.state = "denied"]
  <2>1. flows[f] \in FState /\ flows[f].state = "started"
    BY <1>1, <1>5 DEF Deny, TypeOK
  <2>2. row \in FState /\ row.state = "denied"
    BY <2>1 DEF FState
  <2>3. flows' = [flows EXCEPT ![f] = row] /\ vouched' = vouched
    BY <1>5 DEF Deny
  <2> HIDE DEF row
  <2>4. FlowStep
    BY <1>1, <1>2, <2>1, <2>2, <2>3 DEF FlowStep, TypeOK, Answered
  <2>5. QED
    BY <1>5, <2>4 DEF Deny, requests
<1>6. ASSUME NEW s \in Subject, NEW e \in Email, Rename(s, e)
      PROVE  FlowStep /\ cookies' = cookies /\ mail' \in [Subject -> Email \cup {NoEmail}]
  BY <1>1, <1>2, <1>6 DEF Rename, FlowStep, TypeOK, requests
<1>7. /\ FlowStep /\ cookies' \in [Browser -> Flow \cup {NoFlow}]
      /\ mail' \in [Subject -> Email \cup {NoEmail}]
  BY <1>1, <1>3, <1>4, <1>5, <1>6 DEF TypeOK
<1>8. (LinkInv /\ TicketInv /\ UseInv)' /\ Grows({})
  BY <1>7, FlowStepKeeps
<1>9. Handlers'
  BY <1>2, <1>8, NobodyMoves
<1>10. TypeOK'
  BY <1>1, <1>2, <1>7 DEF TypeOK, FlowStep
<1>11. QED
  BY <1>8, <1>9, <1>10 DEF IInv

\* The one whose code the provider takes goes on, alone with the flow.
LEMMA Exchanges ==
  ASSUME IInv, NEW h \in Handler, Exchange(h)
  PROVE  IInv'
<1> USE DEF Go, Finish, At
<1> DEFINE f == hs[h].f
           row  == [flows[f] EXCEPT !.state = "exchanged"]
           next == [hs[h] EXCEPT !.pc = "subject", !.b = NoFlow]
<1>1. TypeOK /\ Sound(h) /\ Handlers /\ TicketLinked /\ WinsRemembered
      /\ hs[h].pc = "exchange" /\ hs[h] \in HState
  BY DEF IInv, TicketInv, UseInv, Handlers, TypeOK, Exchange
<1>2. f \in Flow /\ flows[f].state \in Answered /\ hs[h].b \in Browser /\ flows[f] \in FState
  BY <1>1 DEF Sound, Busy, TypeOK
<1>3. /\ row \in FState /\ row.state = "exchanged" /\ row.subj = flows[f].subj
      /\ row.email = flows[f].email /\ row.verified = flows[f].verified
  BY <1>2 DEF FState
<1>4. /\ next \in HState /\ next.pc = "subject" /\ next.f = f /\ next.seen = hs[h].seen
  BY <1>1 DEF HState, PC
<1>5. /\ flows' = [flows EXCEPT ![f] = row] /\ vouched' = vouched
      /\ \/ flows[f].state = "granted" /\ flows[f].verified /\ hs' = [hs EXCEPT ![h] = next]
         \/ hs' = [hs EXCEPT ![h] = Idle]
      /\ UNCHANGED <<open, accounts, ids, tickets, used, wins, sessions, now, mail>>
      /\ cookies' = [cookies EXCEPT ![hs[h].b] = NoFlow]
  BY DEF Exchange, Vouched, Cleared, store, handoff
<1> HIDE DEF f, row, next
<1>6. FlowStep
  BY <1>1, <1>2, <1>3, <1>5 DEF FlowStep, TypeOK, Answered
<1>7. (LinkInv /\ TicketInv /\ UseInv)' /\ Grows(Minting(h))
  BY <1>6, FlowStepKeeps
<1>8. ASSUME flows[f].state = "granted", flows[f].verified, hs' = [hs EXCEPT ![h] = next]
      PROVE  Moves
  <2>1. \A g \in Handler : g # h /\ hs[g].pc \in Resolving => hs[g].f # f
    BY <1>1, <1>8 DEF Handlers, Sound, Alone
  <2>2. tickets[f] = NoTicket /\ wins[f] = 0 /\ f \notin used
    BY <1>1, <1>2, <1>8 DEF TicketLinked, WinsRemembered
  <2>3. flows'[f].state = "exchanged" /\ flows'[f].verified
    BY <1>1, <1>2, <1>3, <1>5, <1>8 DEF TypeOK
  <2>4. ASSUME hs'[h] = next  PROVE Sound(h)'
    <3>1. Busy(h)' /\ Meant(h)'
      BY <1>2, <1>4, <2>4 DEF Busy, Meant
    <3>2. Seen(h)'
      BY <1>1, <1>4, <1>5, <2>4 DEF Sound, Seen, Linked
    <3>3. Alone(h)'
      BY <1>1, <1>4, <1>5, <1>8, <2>1, <2>2, <2>3, <2>4 DEF Alone, TypeOK
    <3>4. QED
      BY <3>1, <3>2, <3>3 DEF Sound
  <2>5. QED
    BY <1>4, <1>7, <1>8, <2>1, <2>4, StepMoves
<1>9. Moves
  BY <1>5, <1>7, <1>8, StopMoves
<1>10. cookies' \in [Browser -> Flow \cup {NoFlow}]
  BY <1>1, <1>2, <1>5 DEF TypeOK
<1>11. TypeOK'
  BY <1>1, <1>5, <1>6, <1>9, <1>10 DEF TypeOK, FlowStep, Moves
<1>12. QED
  BY <1>7, <1>9, <1>11 DEF IInv, Moves

-----------------------------------------------------------------------------
(* Accounts and links *)

LEMMA AccountComes ==
  ASSUME IInv, NEW e \in Email, accounts' = accounts \cup {e},
         UNCHANGED <<open, flows, mail, vouched, cookies, ids, tickets, used, wins, sessions, now>>,
         hs' \in [Handler -> HState], NEW h
  PROVE  TypeOK' /\ (LinkInv /\ TicketInv /\ UseInv)' /\ Grows({}) /\ Grows(Minting(h))
<1>1. TypeOK /\ LinkInv /\ TicketInv /\ UseInv
  BY DEF IInv
<1>2. TypeOK'
  BY <1>1 DEF TypeOK
<1>3. LinkInv'
  BY <1>1 DEF LinkInv, FlowAnswered, LinkedExist, LinksAreVouched
<1>4. TicketInv' /\ UseInv'
  BY <1>1 DEF TicketInv, TicketLinked, OneAccountPerSubject, UseInv, TicketOnce, WinsRemembered
<1>5. Grows({}) /\ Grows(Minting(h))
  BY DEF Grows
<1>6. QED
  BY <1>2, <1>3, <1>4, <1>5

LEMMA Registers ==
  ASSUME IInv, NEW e \in Email, Register(e)
  PROVE  IInv'
<1>1. /\ accounts' = accounts \cup {e} /\ hs' = hs
      /\ UNCHANGED <<open, flows, mail, vouched, cookies, ids, tickets, used, wins, sessions, now>>
  BY DEF Register, provider, requests, handoff
<1>2. TypeOK' /\ (LinkInv /\ TicketInv /\ UseInv)' /\ Grows({})
  BY <1>1, AccountComes DEF IInv, TypeOK
<1>3. Handlers'
  BY <1>1, <1>2, NobodyMoves
<1>4. QED
  BY <1>2, <1>3 DEF IInv

LEMMA CreatesUser ==
  ASSUME IInv, NEW h \in Handler, CreateUser(h)
  PROVE  IInv'
<1> USE DEF Go, At
<1> DEFINE next == [hs[h] EXCEPT !.pc = "link", !.acct = Addr(h)]
<1>1. TypeOK /\ Sound(h) /\ FlowAnswered /\ hs[h] \in HState /\ hs[h].pc = "create"
  BY DEF IInv, TypeOK, Handlers, LinkInv, CreateUser
<1>2. /\ accounts' = accounts \cup {Addr(h)} /\ hs' = [hs EXCEPT ![h] = next]
      /\ UNCHANGED <<open, flows, mail, vouched, cookies, ids, tickets, used, wins, sessions, now>>
  BY DEF CreateUser, provider, handoff
<1>3. /\ hs[h].f \in Flow /\ Addr(h) \in Email /\ Addr(h) \notin hs[h].seen
      /\ Addr(h)' = flows[hs'[h].f].email /\ Addr(h) = flows[hs[h].f].email
      /\ \A g \in Handler : g # h /\ hs[g].pc \in Resolving => hs[g].f # hs[h].f
  BY <1>1, <1>2 DEF Sound, Busy, Alone, Seen, FlowAnswered, Answered, Addr, Resolving
<1>4. /\ next \in HState /\ next.pc = "link" /\ next.f = hs[h].f /\ next.acct = Addr(h)
      /\ next.seen = hs[h].seen
  BY <1>1, <1>3 DEF HState, PC
<1> HIDE DEF next
<1>5. hs' \in [Handler -> HState]
  BY <1>1, <1>2, <1>4 DEF TypeOK
<1>6. TypeOK' /\ (LinkInv /\ TicketInv /\ UseInv)' /\ Grows(Minting(h))
  BY <1>2, <1>3, <1>5, AccountComes
<1>7. ASSUME hs'[h] = next  PROVE Sound(h)'
  <2>1. Busy(h)' /\ Meant(h)'
    BY <1>2, <1>3, <1>4, <1>7 DEF Busy, Meant
  <2>2. Seen(h)'
    BY <1>1, <1>2, <1>3, <1>4, <1>7 DEF Sound, Seen, Linked
  <2>3. Alone(h)'
    BY <1>1, <1>2, <1>3, <1>4, <1>7 DEF Sound, Alone, Resolving, TypeOK
  <2>4. QED
    BY <2>1, <2>2, <2>3 DEF Sound
<1>8. Moves
  BY <1>2, <1>3, <1>4, <1>6, <1>7, StepMoves
<1>9. QED
  BY <1>6, <1>8 DEF IInv, Moves

\* The row that is there decides, whoever wrote it.
LEMMA Links ==
  ASSUME IInv, NEW h \in Handler, Link(h)
  PROVE  IInv'
<1> USE DEF Go, At
<1> DEFINE s == Subj(h)
           a == IF ids[s] # NoEmail THEN ids[s] ELSE hs[h].acct
           next == [Idle EXCEPT !.pc = "ticket", !.f = hs[h].f, !.acct = a]
<1>1. /\ TypeOK /\ Sound(h) /\ LinkInv /\ TicketInv /\ UseInv /\ hs[h] \in HState
      /\ hs[h].pc = "link" /\ NoEmail \notin Email
  BY SignInNames DEF IInv, TypeOK, Handlers, Link
<1>2. hs[h].f \in Flow /\ s \in Subject /\ hs[h].acct \in Email
      /\ hs[h].acct = flows[hs[h].f].email /\ s = flows[hs[h].f].subj
      /\ hs[h].acct \in vouched[s]
  BY <1>1 DEF Sound, Busy, Alone, Meant, LinkInv, FlowAnswered, Answered, Addr, Subj, Resolving
<1>3. a \in Email /\ (ids[s] # NoEmail => a = ids[s]) /\ (ids[s] = NoEmail => a = hs[h].acct)
  BY <1>1, <1>2 DEF TypeOK
<1>4. /\ next \in HState /\ next.pc = "ticket" /\ next.f = hs[h].f /\ next.acct = a
      /\ next.seen = {}
  BY <1>2, <1>3, ConstantTypes DEF HState, PC
<1>5. /\ hs' = [hs EXCEPT ![h] = next]
      /\ \/ ids[s] # NoEmail /\ ids' = ids
         \/ ids[s] = NoEmail /\ ids' = [ids EXCEPT ![s] = hs[h].acct]
      /\ UNCHANGED <<open, accounts, flows, mail, vouched, cookies, tickets, used, wins,
                     sessions, now>>
  BY DEF Link, Ticketed, Winner, provider, handoff
<1> HIDE DEF s, a, next
<1>6. /\ ids' \in [Subject -> Email \cup {NoEmail}] /\ ids'[s] = a
      /\ \A t \in Subject : t # s => ids'[t] = ids[t]
      /\ \A t \in Subject : ids[t] # NoEmail => ids'[t] = ids[t]
  BY <1>1, <1>2, <1>3, <1>5 DEF TypeOK
<1>7. Grows(Minting(h))
  BY <1>5, <1>6 DEF Grows
<1>8. LinkInv'
  <2>1. FlowAnswered'
    BY <1>1, <1>5 DEF LinkInv, FlowAnswered
  <2>2. LinksAreVouched'
    BY <1>1, <1>2, <1>3, <1>5, <1>6 DEF LinkInv, LinksAreVouched
  <2>3. hs[h].acct \in accounts
    BY <1>1 DEF Sound, Meant
  <2>4. LinkedExist'
    BY <1>1, <1>3, <1>5, <1>6, <2>3 DEF LinkInv, LinkedExist
  <2>5. QED
    BY <2>1, <2>2, <2>4 DEF LinkInv
<1>9. TicketInv' /\ UseInv'
  <2>1. TicketLinked'
    BY <1>1, <1>5, <1>6 DEF TicketInv, TicketLinked
  <2>2. OneAccountPerSubject'
    <3>1. \A x \in sessions : x.subj \in Subject /\ x.acct \in Email
      BY <1>1 DEF TypeOK
    <3>2. QED
      BY <1>1, <1>5, <1>6, <3>1 DEF TicketInv, OneAccountPerSubject
  <2>3. UseInv'
    BY <1>1, <1>5 DEF UseInv, TicketOnce, WinsRemembered
  <2>4. QED
    BY <2>1, <2>2, <2>3 DEF TicketInv
<1>10. \A g \in Handler : g # h /\ hs[g].pc \in Resolving => hs[g].f # hs[h].f
  BY <1>1 DEF Sound, Alone, Resolving
<1>11. ASSUME hs'[h] = next  PROVE Sound(h)'
  <2>1. Busy(h)' /\ Seen(h)'
    BY <1>2, <1>3, <1>4, <1>11 DEF Busy, Seen
  <2>2. Meant(h)'
    BY <1>2, <1>4, <1>5, <1>6, <1>11 DEF Meant, Subj
  <2>3. Alone(h)'
    BY <1>1, <1>4, <1>5, <1>10, <1>11 DEF Sound, Alone, Resolving, TypeOK
  <2>4. QED
    BY <2>1, <2>2, <2>3 DEF Sound
<1>12. Moves
  BY <1>4, <1>5, <1>7, <1>10, <1>11, StepMoves
<1>13. TypeOK'
  BY <1>1, <1>5, <1>6, <1>12 DEF TypeOK, Moves
<1>14. QED
  BY <1>8, <1>9, <1>12, <1>13 DEF IInv, Moves

-----------------------------------------------------------------------------
(* Tickets *)

\* The flow has no ticket yet, and its handler is the only one to make one.
LEMMA MintsTicket ==
  ASSUME IInv, NEW h \in Handler, MintTicket(h)
  PROVE  IInv'
<1> USE DEF Finish, Go, At
<1> DEFINE f == hs[h].f
           row == [acct |-> hs[h].acct, subj |-> Subj(h), exp |-> now + TicketTTL]
<1>1. /\ TypeOK /\ Sound(h) /\ LinkInv /\ TicketInv /\ UseInv /\ hs[h] \in HState
      /\ hs[h].pc = "ticket" /\ NoEmail \notin Email
  BY SignInNames DEF IInv, TypeOK, Handlers, MintTicket
<1>2. f \in Flow /\ Subj(h) \in Subject /\ hs[h].acct \in Email /\ ids[Subj(h)] = hs[h].acct
      /\ flows[f].state = "exchanged" /\ tickets[f] = NoTicket /\ wins[f] = 0 /\ f \notin used
  BY <1>1 DEF Sound, Busy, Alone, Meant, LinkInv, FlowAnswered, Answered, Subj, Resolving
<1>3. now + TicketTTL \in Times
  BY <1>1, SignInBounds DEF TypeOK, Times
<1>4. /\ row \in Ticket /\ row # NoTicket /\ row.acct = hs[h].acct /\ row.subj = Subj(h)
  BY <1>1, <1>2, <1>3 DEF Ticket, NoTicket
<1>5. /\ tickets' = [tickets EXCEPT ![f] = row] /\ hs' = [hs EXCEPT ![h] = Idle]
      /\ UNCHANGED <<open, accounts, ids, flows, mail, vouched, cookies, used, wins, sessions, now>>
  BY DEF MintTicket, store, provider
<1>6. Minting(h) = {f}
  BY <1>1 DEF Minting
<1> HIDE DEF f, row
<1>7. /\ tickets' \in [Flow -> Ticket] /\ tickets'[f] = row
      /\ \A g \in Flow : g # f => tickets'[g] = tickets[g]
  BY <1>1, <1>2, <1>4, <1>5 DEF TypeOK
<1>8. Grows({f})
  BY <1>2, <1>5, <1>7 DEF Grows
<1>9. Moves
  BY <1>5, <1>6, <1>8, StopMoves
<1>10. LinkInv'
  BY <1>1, <1>5 DEF LinkInv, FlowAnswered, LinkedExist, LinksAreVouched
<1>11. TicketInv'
  BY <1>1, <1>2, <1>4, <1>5, <1>7 DEF TicketInv, TicketLinked, OneAccountPerSubject
<1>12. UseInv'
  BY <1>1, <1>2, <1>5, <1>7 DEF UseInv, TicketOnce, WinsRemembered
<1>13. TypeOK'
  BY <1>1, <1>5, <1>7, <1>9 DEF TypeOK, Moves
<1>14. QED
  BY <1>9, <1>10, <1>11, <1>12, <1>13 DEF IInv, Moves

\* Only expired tickets are forgotten, so the second use of one that lives is
\* seen, and a use of one that does not is not counted.
LEMMA Consumes ==
  ASSUME IInv, NEW h \in Handler, Consume(h)
  PROVE  IInv'
<1> USE DEF Finish, Go, To, At
<1> DEFINE f == hs[h].f
           next == [hs[h] EXCEPT !.pc = "session"]
<1>1. /\ TypeOK /\ Sound(h) /\ LinkInv /\ TicketInv /\ UseInv /\ hs[h] \in HState
      /\ hs[h].pc = "consume"
  BY DEF IInv, TypeOK, Handlers, Consume
<1>2. f \in Flow /\ tickets[f] # NoTicket /\ hs[h].seen \subseteq Linked
  BY <1>1 DEF Sound, Busy, Meant, Seen
<1>3. /\ next \in HState /\ next.pc = "session" /\ next.f = f /\ next.seen = hs[h].seen
  BY <1>1 DEF HState, PC
<1>4. /\ \/ f \in Live(used) /\ used' = Live(used) /\ wins' = wins /\ hs' = [hs EXCEPT ![h] = Idle]
         \/ /\ f \notin Live(used) /\ used' = Live(used) \cup {f}
            /\ wins' = IF now < tickets[f].exp THEN [wins EXCEPT ![f] = @ + 1] ELSE wins
            /\ hs' = [hs EXCEPT ![h] = next]
      /\ UNCHANGED <<open, accounts, ids, flows, mail, vouched, cookies, tickets, sessions, now>>
  BY DEF Consume, store, provider
<1>5. Live(used) = {g \in used : now < tickets[g].exp}
  BY DEF Live
<1> HIDE DEF f, next
<1>6. /\ now \in Nat /\ used \subseteq Flow /\ \A g \in Flow : wins[g] \in Nat
      /\ \A g \in Flow : tickets[g].exp \in Nat
  BY <1>1, SignInBounds DEF TypeOK, Ticket, Times
<1>7. /\ wins' \in [Flow -> Nat] /\ \A g \in Flow : g # f => wins'[g] = wins[g]
      /\ wins'[f] = wins[f] \/ /\ f \notin Live(used) /\ now < tickets[f].exp
                               /\ wins'[f] = wins[f] + 1 /\ f \in used'
  BY <1>1, <1>2, <1>4, <1>6 DEF TypeOK
<1>8. used' \subseteq used \cup {f} /\ Live(used) \subseteq used'
  BY <1>4, <1>5
<1>9. Grows(Minting(h))
  BY <1>1, <1>2, <1>4, <1>7, <1>8 DEF Grows, Minting
<1>10. LinkInv' /\ TicketInv'
  BY <1>1, <1>4 DEF LinkInv, FlowAnswered, LinkedExist, LinksAreVouched,
                    TicketInv, TicketLinked, OneAccountPerSubject
<1>11. UseInv'
  <2>1. TicketOnce'
    BY <1>1, <1>2, <1>5, <1>6, <1>7 DEF UseInv, TicketOnce, WinsRemembered
  <2>2. WinsRemembered'
    BY <1>1, <1>2, <1>4, <1>5, <1>6, <1>7, <1>8 DEF UseInv, WinsRemembered
  <2>3. QED
    BY <2>1, <2>2 DEF UseInv
<1>12. ASSUME hs'[h] = next  PROVE Sound(h)'
  BY <1>2, <1>3, <1>4, <1>12 DEF Sound, Busy, Alone, Meant, Seen, Resolving, Linked
<1>13. Moves
  BY <1>3, <1>4, <1>9, <1>12, StopMoves, StepMoves DEF Resolving
<1>14. TypeOK'
  BY <1>1, <1>2, <1>4, <1>6, <1>7, <1>8, <1>13 DEF TypeOK, Moves
<1>15. QED
  BY <1>10, <1>11, <1>13, <1>14 DEF IInv, Moves

LEMMA Issues ==
  ASSUME IInv, NEW h \in Handler, Issue(h)
  PROVE  IInv'
<1> USE DEF Finish, Go, At
<1> DEFINE t == tickets[hs[h].f]
           x == [subj |-> t.subj, acct |-> t.acct]
<1>1. /\ TypeOK /\ Sound(h) /\ LinkInv /\ TicketInv /\ UseInv /\ hs[h].pc = "session"
  BY DEF IInv, Handlers, Issue
<1>2. t.subj \in Subject /\ t.acct \in Email /\ ids[t.subj] = t.acct
  BY <1>1 DEF Sound, Busy, Meant, TicketInv, TicketLinked
<1>3. x \in [subj : Subject, acct : Email] /\ ids[x.subj] = x.acct
  BY <1>2
<1>4. /\ sessions' = sessions \cup {x} /\ hs' = [hs EXCEPT ![h] = Idle]
      /\ UNCHANGED <<open, accounts, ids, flows, mail, vouched, cookies, tickets, used, wins, now>>
  BY DEF Issue, store, provider
<1> HIDE DEF x
<1>5. Grows(Minting(h))
  BY <1>4 DEF Grows
<1>6. Moves
  BY <1>4, <1>5, StopMoves
<1>7. LinkInv' /\ UseInv'
  BY <1>1, <1>4 DEF LinkInv, FlowAnswered, LinkedExist, LinksAreVouched,
                    UseInv, TicketOnce, WinsRemembered
<1>8. TicketInv'
  BY <1>1, <1>3, <1>4 DEF TicketInv, TicketLinked, OneAccountPerSubject
<1>9. TypeOK'
  BY <1>1, <1>3, <1>4, <1>6 DEF TypeOK, Moves
<1>10. QED
  BY <1>6, <1>7, <1>8, <1>9 DEF IInv, Moves

LEMMA RestartsOrTicks ==
  ASSUME IInv, Restart \/ Tick
  PROVE  IInv'
<1>1. /\ TypeOK /\ LinkInv /\ TicketInv /\ UseInv
      /\ UNCHANGED <<open, accounts, ids, flows, mail, vouched, cookies, tickets, sessions>>
  BY DEF IInv, Restart, Tick, store, provider, requests, handoff
<1>2. LinkInv' /\ TicketInv'
  BY <1>1 DEF LinkInv, FlowAnswered, LinkedExist, LinksAreVouched,
              TicketInv, TicketLinked, OneAccountPerSubject
<1>3. CASE Restart
  <2>1. /\ used' = {} /\ wins' = [g \in Flow |-> 0] /\ now' = now
        /\ hs' = [h \in Handler |-> Idle]
    BY <1>3 DEF Restart
  <2>2. UseInv'
    BY <2>1 DEF UseInv, TicketOnce, WinsRemembered
  <2>3. Handlers'
    BY <2>1, ConstantTypes DEF Handlers, Sound, Busy, Alone, Meant, Seen, Resolving
  <2>4. TypeOK'
    BY <1>1, <2>1, ConstantTypes DEF TypeOK
  <2>5. QED
    BY <1>2, <2>2, <2>3, <2>4 DEF IInv
<1>4. CASE Tick
  <2>1. UNCHANGED <<used, wins, hs>> /\ now' = now + 1 /\ now < MaxNow
    BY <1>4 DEF Tick, handoff, requests
  <2>2. /\ now \in Nat /\ now' \in 0 .. MaxNow /\ \A g \in Flow : tickets[g].exp \in Nat
    BY <1>1, <2>1, SignInBounds DEF TypeOK, Ticket, Times
  <2>3. UseInv'
    BY <1>1, <2>1, <2>2 DEF UseInv, TicketOnce, WinsRemembered
  <2>4. Grows({})
    BY <1>1, <2>1 DEF Grows
  <2>5. Handlers'
    BY <2>1, <2>4, NobodyMoves
  <2>6. TypeOK'
    BY <1>1, <2>1, <2>2 DEF TypeOK
  <2>7. QED
    BY <1>2, <2>3, <2>5, <2>6 DEF IInv
<1>5. QED
  BY <1>3, <1>4

-----------------------------------------------------------------------------
(* The invariant *)

LEMMA Starts ==
  ASSUME Init
  PROVE  IInv
<1> USE DEF Init
<1>1. TypeOK
  BY ConstantTypes DEF TypeOK
<1>2. Handlers
  BY ConstantTypes DEF Handlers, Sound, Busy, Alone, Meant, Seen, Resolving
<1>3. LinkInv
  BY ConstantTypes DEF LinkInv, FlowAnswered, LinkedExist, LinksAreVouched, Answered
<1>4. TicketInv /\ UseInv
  BY DEF TicketInv, TicketLinked, OneAccountPerSubject, UseInv, TicketOnce, WinsRemembered
<1>5. QED
  BY <1>1, <1>2, <1>3, <1>4 DEF IInv

LEMMA Steps ==
  ASSUME IInv, [Next]_vars
  PROVE  IInv'
<1>1. ASSUME NEW h \in Handler, HandlerNext(h)  PROVE IInv'
  <2>1. CASE \/ BySubject(h) \/ ByEmail(h) \/ Guard(h) \/ Abort(h)
             \/ \E f \in Flow : Complete(h, f)
             \/ \E b \in Browser, f \in Flow : Callback(h, b, f)
    BY <2>1, Reads
  <2>2. CASE Exchange(h)
    BY <2>2, Exchanges
  <2>3. CASE CreateUser(h)
    BY <2>3, CreatesUser
  <2>4. CASE Link(h)
    BY <2>4, Links
  <2>5. CASE MintTicket(h)
    BY <2>5, MintsTicket
  <2>6. CASE Consume(h)
    BY <2>6, Consumes
  <2>7. CASE Issue(h)
    BY <2>7, Issues
  <2>8. QED
    BY <1>1, <2>1, <2>2, <2>3, <2>4, <2>5, <2>6, <2>7 DEF HandlerNext
<1>2. CASE \/ \E f \in Flow : \/ \E b \in Browser : Start(b, f)
                              \/ \E s \in Subject, v \in BOOLEAN : Grant(f, s, v)
                              \/ Deny(f)
           \/ \E s \in Subject, e \in Email : Rename(s, e)
  BY <1>2, Provides
<1>3. ASSUME NEW e \in Email, Register(e)  PROVE IInv'
  BY <1>3, Registers
<1>4. CASE Restart \/ Tick
  BY <1>4, RestartsOrTicks
<1>5. CASE UNCHANGED vars
  <2>1. UNCHANGED kept /\ UNCHANGED <<open, mail, cookies, hs>>
    BY <1>5 DEF vars, kept, store, provider, requests, handoff
  <2>2. (LinkInv /\ TicketInv /\ UseInv)' /\ Grows({})
    BY <2>1, KeptStays
  <2>3. Handlers'
    BY <2>1, <2>2, NobodyMoves
  <2>4. TypeOK'
    BY <2>1 DEF IInv, TypeOK, kept
  <2>5. QED
    BY <2>2, <2>3, <2>4 DEF IInv
<1>6. QED
  BY <1>1, <1>2, <1>3, <1>4, <1>5 DEF Next

\* What every statement of a sign-in, the provider and a restart keep.
THEOREM Inductive == Spec => []IInv
<1>1. Init => IInv
  BY Starts
<1>2. IInv /\ [Next]_vars => IInv'
  BY Steps
<1>3. QED
  BY <1>1, <1>2, PTL DEF Spec

\* Every variable keeps its type.
THEOREM TypeCorrect == Spec => []TypeOK
<1>1. IInv => TypeOK
  BY DEF IInv
<1>2. QED
  BY <1>1, Inductive, PTL

\* A ticket is honoured once while it lives and the process runs.
THEOREM TicketsCountOnce == Spec => []TicketOnce
<1>1. IInv => TicketOnce
  BY DEF IInv, UseInv
<1>2. QED
  BY <1>1, Inductive, PTL

\* All sessions of a person are of the account he is linked to.
THEOREM OneAccountEach == Spec => []OneAccountPerSubject
<1>1. IInv => OneAccountPerSubject
  BY DEF IInv, TicketInv
<1>2. QED
  BY <1>1, Inductive, PTL

\* No account is linked but by an address the provider vouched for.
THEOREM VouchedLinks == Spec => []LinksAreVouched
<1>1. IInv => LinksAreVouched
  BY DEF IInv, LinkInv
<1>2. QED
  BY <1>1, Inductive, PTL

\* Nobody becomes the second subject of an account that was linked before he
\* came back.
THEOREM NoLateSecond == Spec => SecondSubjectRefused
<1>1. ASSUME IInv, NEW h \in Handler, Link(h), ids' # ids
      PROVE  hs[h].acct \notin hs[h].seen
  <2>1. Sound(h) /\ hs[h].pc = "link" /\ ids[Subj(h)] = NoEmail
    BY <1>1 DEF IInv, Handlers, Link, At
  <2>2. QED
    BY <2>1 DEF Sound, Seen
<1>2. IInv => [\A h \in Handler : Link(h) /\ ids' # ids => hs[h].acct \notin hs[h].seen]_vars
  BY <1>1
<1>3. QED
  BY <1>2, Inductive, PTL DEF SecondSubjectRefused
=============================================================================
