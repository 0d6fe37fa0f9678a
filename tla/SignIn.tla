------------------------------- MODULE SignIn -------------------------------
(***************************************************************************)
(* Sign-in with Google on one tenant: a browser starts a flow, the         *)
(* provider answers it, the callback resolves the identity to an account   *)
(* and hands out a ticket, and the ticket buys one session.                *)
(*                                                                         *)
(* Nothing here runs in a transaction.  The callback looks an identity up  *)
(* and links it statement by statement, and the ticket's expiry, its one   *)
(* use and its session are three steps of the complete handler, so every   *)
(* statement is an action of its own.  The accounts are the other half of  *)
(* Accounts: an address here is the account whose username it is.          *)
(***************************************************************************)
EXTENDS Naturals, FiniteSets

CONSTANTS
  Handler,    \* request handlers
  Browser,
  Flow,       \* sign-ins begun: a state, its nonce and its PKCE verifier, and later a jti
  Subject,    \* the provider's users
  Email,      \* addresses, each the name of at most one account
  NoFlow, NoSubject, NoEmail,
  StateTTL,   \* oauthStateTTL
  TicketTTL,  \* oauthTicketTTL
  MaxNow      \* bound on the clock

ASSUME SignInBounds == StateTTL \in Nat /\ TicketTTL \in Nat /\ MaxNow \in Nat
ASSUME SignInNames ==
  NoFlow \notin Flow /\ NoSubject \notin Subject /\ NoEmail \notin Email

VARIABLES
  open,      \* whether the registration policy creates accounts
  accounts,  \* the addresses that have an account
  ids,       \* oauth_identities: the account a subject is linked to
  mail,      \* the provider's: the address a subject has now
  cookies,   \* the state cookie of a browser
  flows,     \* what became of a flow at the provider
  tickets,   \* signed tickets, by jti
  used,      \* the consumed jtis the guard remembers
  sessions,  \* sessions issued: whose identity, on which account
  hs,        \* handlers
  now,       \* the clock
  wins,      \* history: uses of a ticket before its expiry, since the last restart
  vouched    \* history: the addresses the provider vouched for, by subject

requests == <<hs, cookies>>
provider == <<mail, flows, vouched>>
store    == <<accounts, ids>>
handoff  == <<tickets, used, sessions, wins>>
vars == <<open, store, provider, requests, handoff, now>>

Times  == 0 .. MaxNow + TicketTTL
FState == [state : {"none", "started", "granted", "denied", "exchanged"}, at : Times,
           subj : Subject \cup {NoSubject},
           email : Email \cup {NoEmail}, verified : BOOLEAN]
Ticket == [acct : Email \cup {NoEmail}, subj : Subject \cup {NoSubject}, exp : Times]
PC     == {"idle", "exchange", "subject", "email", "guard", "create", "link", "ticket",
           "consume", "session"}
HState == [pc : PC, f : Flow \cup {NoFlow}, b : Browser \cup {NoFlow},
           acct : Email \cup {NoEmail}, seen : SUBSET Email]

NoTicket == [acct |-> NoEmail, subj |-> NoSubject, exp |-> 0]
Unbegun  == [state |-> "none", at |-> 0, subj |-> NoSubject,
             email |-> NoEmail, verified |-> FALSE]
Idle     == [pc |-> "idle", f |-> NoFlow, b |-> NoFlow, acct |-> NoEmail, seen |-> {}]

Init ==
  /\ open \in BOOLEAN
  /\ accounts \in SUBSET Email /\ ids = [s \in Subject |-> NoEmail]
  /\ mail = [s \in Subject |-> NoEmail] /\ vouched = [s \in Subject |-> {}]
  /\ flows = [f \in Flow |-> Unbegun] /\ cookies = [b \in Browser |-> NoFlow]
  /\ tickets = [f \in Flow |-> NoTicket] /\ used = {} /\ wins = [f \in Flow |-> 0]
  /\ sessions = {}
  /\ hs = [h \in Handler |-> Idle]
  /\ now = 0

-----------------------------------------------------------------------------
(* Helpers *)

Go(h, next) == hs' = [hs EXCEPT ![h] = next]
At(h, pc)   == hs[h].pc = pc
To(h, pc)   == Go(h, [hs[h] EXCEPT !.pc = pc])
Finish(h)   == Go(h, Idle)

\* The identity the handler's flow was answered with.
Subj(h) == flows[hs[h].f].subj
Addr(h) == flows[hs[h].f].email

Linked == {ids[s] : s \in Subject} \ {NoEmail}

-----------------------------------------------------------------------------
(* handleOAuthStart and the provider *)

\* The tenant of the host and its toggle are read once, here; who passes has
\* a flow, and nothing later looks at the toggle again.
Start(b, f) ==
  /\ flows[f].state = "none"
  /\ flows' = [flows EXCEPT ![f] = [Unbegun EXCEPT !.state = "started", !.at = now]]
  /\ cookies' = [cookies EXCEPT ![b] = f]
  /\ UNCHANGED <<open, store, mail, vouched, hs, handoff, now>>

\* The provider signs a subject in, with the address he has and whether he
\* has proved it.
Grant(f, s, verified) ==
  /\ flows[f].state = "started" /\ mail[s] # NoEmail
  /\ flows' = [flows EXCEPT ![f].state = "granted", ![f].subj = s, ![f].email = mail[s],
                            ![f].verified = verified]
  /\ vouched' = IF verified THEN [vouched EXCEPT ![s] = @ \cup {mail[s]}] ELSE vouched
  /\ UNCHANGED <<open, store, mail, requests, handoff, now>>

Deny(f) ==
  /\ flows[f].state = "started"
  /\ flows' = [flows EXCEPT ![f].state = "denied"]
  /\ UNCHANGED <<open, store, mail, vouched, requests, handoff, now>>

\* The address of a subject changes; nobody has it at the same time.
Rename(s, e) ==
  /\ \A t \in Subject : mail[t] # e
  /\ mail' = [mail EXCEPT ![s] = e]
  /\ UNCHANGED <<open, store, flows, vouched, requests, handoff, now>>

-----------------------------------------------------------------------------
(* handleOAuthCallback and resolveOAuthOwner *)

\* The cookie carries our signature and is not too old; the state of the
\* answer is the one in it.
VerifyState(b)  == cookies[b] # NoFlow
InTime(b)       == now <= flows[cookies[b]].at + StateTTL
SameFlow(b, f)  == cookies[b] = f

\* The answer clears the cookie, whatever it was.
Cleared(b) == cookies' = [cookies EXCEPT ![b] = NoFlow]
Callback(h, b, f) ==
  /\ At(h, "idle") /\ flows[f].state \in {"granted", "denied", "exchanged"}
  /\ VerifyState(b)
  /\ IF flows[f].state # "denied" /\ SameFlow(b, f) /\ InTime(b)
       THEN /\ Go(h, [Idle EXCEPT !.pc = "exchange", !.f = f, !.b = b, !.seen = Linked])
            /\ UNCHANGED cookies
       ELSE Cleared(b) /\ UNCHANGED hs
  /\ UNCHANGED <<open, store, provider, handoff, now>>

\* Exchange and VerifyIDToken: the provider takes a code once.  An address
\* it does not vouch for is refused.
AnyAddress(h) == TRUE                              \* faulty: the flag is ignored
Vouched(h)    == flows[hs[h].f].verified
Exchange(h) ==
  LET f == hs[h].f IN
  /\ At(h, "exchange")
  /\ flows' = [flows EXCEPT ![f].state = "exchanged"]
  /\ IF flows[f].state = "granted" /\ Vouched(h)
       THEN Go(h, [hs[h] EXCEPT !.pc = "subject", !.b = NoFlow]) ELSE Finish(h)
  /\ Cleared(hs[h].b)
  /\ UNCHANGED <<open, store, mail, vouched, handoff, now>>

Ticketed(h, a) == Go(h, [Idle EXCEPT !.pc = "ticket", !.f = hs[h].f, !.acct = a])

\* ByProviderSubject.
AnyAnswer(h) == TRUE                               \* faulty: not found is taken for found
Known(h)     == ids[Subj(h)] # NoEmail
BySubject(h) ==
  /\ At(h, "subject")
  /\ IF Known(h)
       THEN Ticketed(h, ids[Subj(h)])
       ELSE To(h, "email")
  /\ UNCHANGED <<open, store, provider, cookies, handoff, now>>

\* ByEmail: an account to link, one to create, or nobody to sign in.
ByEmail(h) ==
  /\ At(h, "email")
  /\ IF Addr(h) \in accounts THEN Go(h, [hs[h] EXCEPT !.pc = "guard", !.acct = Addr(h)])
     ELSE IF open THEN To(h, "create") ELSE Finish(h)
  /\ UNCHANGED <<open, store, provider, cookies, handoff, now>>

\* ByUserProvider: the earliest link of the account decides; of two links
\* either may be the earliest.
NoRival(h) == {}                                   \* faulty: never refused
Rivals(h)  == {s \in Subject \ {Subj(h)} : ids[s] = hs[h].acct}
Guard(h) ==
  /\ At(h, "guard")
  /\ \/ Rivals(h) # {} /\ Finish(h)
     \/ (Rivals(h) = {} \/ ids[Subj(h)] = hs[h].acct) /\ To(h, "link")
  /\ UNCHANGED <<open, store, provider, cookies, handoff, now>>

\* Users.Create, or on a conflict the account that is there: linked without
\* another look at its links.
CreateUser(h) ==
  /\ At(h, "create")
  /\ accounts' = accounts \cup {Addr(h)}
  /\ Go(h, [hs[h] EXCEPT !.pc = "link", !.acct = Addr(h)])
  /\ UNCHANGED <<open, ids, provider, cookies, handoff, now>>

\* OAuthIdentities.Create: one row per subject.  Who loses the race takes
\* the account of the row that won.
OwnPick(h) == hs[h].acct                           \* faulty: the row is not read again
Winner(h)  == ids[Subj(h)]
Link(h) ==
  /\ At(h, "link")
  /\ IF ids[Subj(h)] # NoEmail
       THEN Ticketed(h, Winner(h)) /\ UNCHANGED ids
       ELSE Ticketed(h, hs[h].acct) /\ ids' = [ids EXCEPT ![Subj(h)] = hs[h].acct]
  /\ UNCHANGED <<open, accounts, provider, cookies, handoff, now>>

MintTicket(h) ==
  /\ At(h, "ticket")
  /\ tickets' = [tickets EXCEPT ![hs[h].f] =
       [acct |-> hs[h].acct, subj |-> Subj(h), exp |-> now + TicketTTL]]
  /\ Finish(h)
  /\ UNCHANGED <<open, store, provider, cookies, used, sessions, wins, now>>

-----------------------------------------------------------------------------
(* handleOAuthComplete *)

\* A ticket is a payload of its type that we signed.
VerifyTicket(f) == tickets[f] # NoTicket
Complete(h, f) ==
  /\ At(h, "idle") /\ VerifyTicket(f) /\ now < tickets[f].exp
  /\ Go(h, [Idle EXCEPT !.pc = "consume", !.f = f])
  /\ UNCHANGED <<open, store, provider, cookies, handoff, now>>

\* Consume forgets the expired jtis before it looks, by its own clock.
NoneLive(jtis) == {}                               \* faulty: forgets every jti
Live(jtis)     == {g \in jtis : now < tickets[g].exp}
Consume(h) ==
  LET f == hs[h].f IN
  /\ At(h, "consume")
  /\ IF f \in Live(used)
       THEN used' = Live(used) /\ Finish(h) /\ UNCHANGED wins
       ELSE /\ used' = Live(used) \cup {f}
            /\ wins' = IF now < tickets[f].exp THEN [wins EXCEPT ![f] = @ + 1] ELSE wins
            /\ To(h, "session")
  /\ UNCHANGED <<open, store, provider, cookies, tickets, sessions, now>>

Issue(h) ==
  LET t == tickets[hs[h].f] IN
  /\ At(h, "session")
  /\ sessions' = sessions \cup {[subj |-> t.subj, acct |-> t.acct]}
  /\ Finish(h)
  /\ UNCHANGED <<open, store, provider, cookies, tickets, used, wins, now>>

-----------------------------------------------------------------------------
(* Everybody else *)

\* Somebody registers the address with a password (Accounts), or an
\* administrator creates the account.
Register(e) ==
  /\ e \notin accounts /\ accounts' = accounts \cup {e}
  /\ UNCHANGED <<open, ids, provider, requests, handoff, now>>

Abort(h) ==
  /\ ~At(h, "idle") /\ Finish(h)
  /\ UNCHANGED <<open, store, provider, cookies, handoff, now>>

\* The guard is in memory: a restart forgets what was consumed.
Restart ==
  /\ used' = {} /\ wins' = [f \in Flow |-> 0] /\ hs' = [h \in Handler |-> Idle]
  /\ UNCHANGED <<open, store, provider, cookies, tickets, sessions, now>>

Tick ==
  /\ now < MaxNow /\ now' = now + 1
  /\ UNCHANGED <<open, store, provider, requests, handoff>>

HandlerNext(h) ==
  \/ \E b \in Browser, f \in Flow : Callback(h, b, f)
  \/ Exchange(h) \/ BySubject(h) \/ ByEmail(h) \/ Guard(h) \/ CreateUser(h) \/ Link(h)
  \/ MintTicket(h)
  \/ \E f \in Flow : Complete(h, f)
  \/ Consume(h) \/ Issue(h) \/ Abort(h)

Next ==
  \/ \E h \in Handler : HandlerNext(h)
  \/ \E f \in Flow : \/ \E b \in Browser : Start(b, f)
                     \/ \E s \in Subject, v \in BOOLEAN : Grant(f, s, v)
                     \/ Deny(f)
  \/ \E s \in Subject, e \in Email : Rename(s, e)
  \/ \E e \in Email : Register(e)
  \/ Restart \/ Tick

Spec == Init /\ [][Next]_vars

-----------------------------------------------------------------------------
(* Properties *)

\* Every variable keeps its type.
TypeOK ==
  /\ open \in BOOLEAN /\ accounts \subseteq Email
  /\ ids \in [Subject -> Email \cup {NoEmail}] /\ mail \in [Subject -> Email \cup {NoEmail}]
  /\ cookies \in [Browser -> Flow \cup {NoFlow}] /\ flows \in [Flow -> FState]
  /\ tickets \in [Flow -> Ticket] /\ used \subseteq Flow
  /\ sessions \subseteq [subj : Subject, acct : Email]
  /\ hs \in [Handler -> HState] /\ now \in 0 .. MaxNow
  /\ wins \in [Flow -> Nat] /\ vouched \in [Subject -> SUBSET Email]

\* A ticket presented any number of times at once is honoured once while it
\* lives and the process keeps running.
TicketOnce == \A f \in Flow : wins[f] <= 1

\* However first sign-ins of one person overlap, and whatever address he has
\* by then, all his sessions are of the one account he is linked to.
OneAccountPerSubject == \A x \in sessions : ids[x.subj] = x.acct

\* Nobody is linked to an account whose address the provider never vouched
\* for as his.
LinksAreVouched == \A s \in Subject : ids[s] # NoEmail => ids[s] \in vouched[s]

\* Whoever comes back from the provider after an account was linked does not
\* become its second subject, not even by creating the account.
SecondSubjectRefused ==
  [][\A h \in Handler : Link(h) /\ ids' # ids => hs[h].acct \notin hs[h].seen]_vars
=============================================================================
