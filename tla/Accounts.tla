------------------------------ MODULE Accounts ------------------------------
(***************************************************************************)
(* One e-mail address in one tenant: the account it may grow into, the     *)
(* links mailed to it (verification, reset, invite), the sessions issued   *)
(* for it and its personal access tokens.                                  *)
(*                                                                         *)
(* A session carries the credential version of the moment it was issued   *)
(* and nothing revokes it but a newer version, so everything here turns    *)
(* on what a handler read before its write.  Each handler is a process;    *)
(* one statement, or one transaction under the users row lock, is one      *)
(* action.                                                                 *)
(***************************************************************************)
EXTENDS Naturals, FiniteSets

CONSTANTS
  Handler,       \* request handlers and the goroutines they start
  Link,          \* single-use tokens mailed as links (fresh random values)
  Secret,        \* passwords
  Pat,           \* personal access tokens
  NoLink,        \* no link
  NoSecret,      \* an account without a password
  MaxVersion,    \* bound on credential_version
  MaxNow,        \* bound on the clock
  MaxPats,       \* maxActiveAccessTokens
  ResendFloor,   \* resendMinInterval
  LinkTTL,       \* emailVerificationTTL and passwordResetTTL
  InviteTTL,     \* setPasswordInviteTTL
  SessionTTL,    \* the session's lifetime
  Freshness,     \* accessTokenFreshness
  TouchInterval, \* patLastUsedInterval
  Workloads      \* which requests come together in one behaviour (a bound)

Requests ==
  {"register", "reset", "change", "login", "oauth", "admin", "owner", "operator", "pat", "use"}

ASSUME AccountBounds ==
  /\ MaxVersion \in Nat \ {0} /\ MaxNow \in Nat /\ MaxPats \in Nat \ {0}
  /\ ResendFloor \in Nat /\ LinkTTL \in Nat /\ InviteTTL \in Nat
  /\ SessionTTL \in Nat /\ Freshness \in Nat /\ TouchInterval \in Nat

ASSUME AccountNames ==
  NoLink \notin Link /\ NoSecret \notin Secret /\ Workloads \subseteq SUBSET Requests

ASSUME AccountFinite == IsFiniteSet(Pat)

VARIABLES
  user,      \* the users row of this address
  links,     \* verification and reset tokens, by hash
  inbox,     \* the links that reached the mailbox
  sessions,  \* the sessions issued and still within their lifetime
  pats,      \* the access_tokens rows
  hs,        \* handlers
  now,       \* the clock
  ops,       \* the workload of this behaviour
  spent,     \* history: how often a link was honoured
  resetAt,   \* history: the credential version the last reset set
  madeWith,  \* history: the version of the session a token was asked for with
  late       \* history: the tokens whose creation the last reset found admitted

vars == <<user, links, inbox, sessions, pats, hs, now, ops, spent, resetAt, madeWith, late>>
history == <<spent, resetAt, madeWith, late>>

Versions == 0 .. MaxVersion
Times    == 0 .. MaxNow
Never    == MaxNow + 1     \* no expiry, or not used yet
Secrets  == Secret \cup {NoSecret}
Kinds    == {"verify", "reset", "invite"}
Doors    == {"login", "verify", "reset", "oauth"}

User    == [status : {"none", "pending", "active"}, hash : Secrets,
            ver : Versions, banned : BOOLEAN]
Token   == [kind : Kinds, state : {"none", "live", "used", "gone"}, at : Times]
\* A session is issued at the version its handler reads; it also remembers
\* (history) the door its owner came in by, the password he proved or set,
\* and the version the account had then.
Session == [ver : Versions, at : Times, door : Doors, proof : Secrets, since : Versions]
PatRow  == [state : {"none", "active", "revoked"}, expires : Times \cup {Never},
            touched : Times \cup {Never}]
PC      == {"idle", "create", "resend", "replace", "mint", "mail", "claim", "activate",
            "confirm", "change", "reissue", "issue", "pat", "touch"}
HState  == [pc : PC, l : Link \cup {NoLink}, kind : Kinds, door : Doors, pw : Secrets,
            ver : Versions, at : Times, p : Pat \cup {NoLink}, seen : Times \cup {Never}]

NoUser  == [status |-> "none", hash |-> NoSecret, ver |-> 0, banned |-> FALSE]
NoToken == [kind |-> "verify", state |-> "none", at |-> 0]
NoPat   == [state |-> "none", expires |-> Never, touched |-> Never]
Idle    == [pc |-> "idle", l |-> NoLink, kind |-> "verify", door |-> "login", pw |-> NoSecret,
            ver |-> 0, at |-> 0, p |-> NoLink, seen |-> Never]

Init ==
  /\ user = NoUser
  /\ links = [l \in Link |-> NoToken] /\ inbox = {} /\ spent = [l \in Link |-> 0]
  /\ sessions = {}
  /\ pats = [p \in Pat |-> NoPat] /\ madeWith = [p \in Pat |-> 0] /\ late = {}
  /\ hs = [h \in Handler |-> Idle]
  /\ now = 0 /\ resetAt = 0
  /\ ops \in Workloads

-----------------------------------------------------------------------------
(* Helpers *)

Go(h, next) == hs' = [hs EXCEPT ![h] = next]
Finish(h)   == Go(h, Idle)

Exists   == user.status # "none"
MayBump  == user.ver < MaxVersion                  \* the bound

\* A token value nobody has drawn yet.
Fresh(l) == links[l].state = "none" /\ \A h \in Handler : hs[h].l # l

Lifetime(kind) == IF kind = "invite" THEN InviteTTL ELSE LinkTTL
\* The row of a presented token, whatever became of it since it was minted.
Found(l)  == l \in inbox /\ links[l].state \in {"live", "used"}
Usable(l) == Found(l) /\ links[l].state = "live" /\ now < links[l].at + Lifetime(links[l].kind)

\* The row a racing insert would collide with: the address is the username.
NewUser(status, hash) == [status |-> status, hash |-> hash, ver |-> 1, banned |-> FALSE]

\* SetPasswordHash: the hash and the version move in one write.
HashOnly(pw)    == [user EXCEPT !.hash = pw]                 \* faulty: no bump
WithHash(pw)    == [user EXCEPT !.hash = pw, !.ver = @ + 1]

\* Issuer.Validate: signed by us and not expired.
Validates(s, t) == t < s.at + SessionTTL

\* requireOwner: the session is the account's, of its current version, and
\* the account is not banned.  The status is not looked at.
Admitted(s) == Exists /\ s.ver = user.ver /\ ~user.banned

Active(p, t) == pats[p].state = "active" /\ t < pats[p].expires
Activity(t)  == Cardinality({p \in Pat : Active(p, t)})

\* Issue: a session of the version the handler reads now.
NextSession(door, proof, since) ==                 \* faulty: reckoned, not read
  [ver |-> since + 1, at |-> now, door |-> door, proof |-> proof, since |-> since]
NewSession(door, proof, since) ==
  [ver |-> user.ver, at |-> now, door |-> door, proof |-> proof, since |-> since]

-----------------------------------------------------------------------------
(* Register, the resend goroutine and RegisterVerify *)

\* The lookup by address decides: nobody, somebody pending; an active
\* account is told nothing and changes nothing.
Register(h, l, pw) ==
  /\ "register" \in ops /\ hs[h].pc = "idle" /\ Fresh(l)
  /\ \/ ~Exists /\ Go(h, [Idle EXCEPT !.pc = "create", !.l = l, !.pw = pw])
     \/ user.status = "pending" /\ Go(h, [Idle EXCEPT !.pc = "resend", !.l = l])
  /\ UNCHANGED <<user, links, inbox, sessions, pats, now, ops, history>>

\* Users.Create: of two racing registrations one loses the unique username.
CreatePending(h) ==
  /\ hs[h].pc = "create"
  /\ IF Exists
       THEN Finish(h) /\ UNCHANGED user
       ELSE /\ user' = NewUser("pending", hs[h].pw)
            /\ Go(h, [hs[h] EXCEPT !.pc = "mint", !.at = now])
  /\ UNCHANGED <<links, inbox, sessions, pats, now, ops, history>>

\* resendVerificationEmailAsync: nothing happens while the newest token is
\* younger than the floor.
Resend(h) ==
  /\ hs[h].pc = "resend"
  /\ IF \E l \in Link : /\ links[l].kind = "verify" /\ links[l].state \in {"live", "used"}
                        /\ now < links[l].at + ResendFloor
       THEN Finish(h)
       ELSE Go(h, [hs[h] EXCEPT !.pc = "replace", !.at = now])
  /\ UNCHANGED <<user, links, inbox, sessions, pats, now, ops, history>>

\* DeleteByUser.
Replace(h) ==
  /\ hs[h].pc = "replace"
  /\ links' = [l \in Link |-> IF links[l].kind = "verify" /\ links[l].state # "none"
                                THEN [links[l] EXCEPT !.state = "gone"] ELSE links[l]]
  /\ Go(h, [hs[h] EXCEPT !.pc = "mint"])
  /\ UNCHANGED <<user, inbox, sessions, pats, now, ops, history>>

\* The token row of a verification, reset or invite link.
TokenRow(h) == [kind |-> hs[h].kind, state |-> "live", at |-> hs[h].at]
Mint(h) ==
  /\ hs[h].pc = "mint"
  /\ links' = [links EXCEPT ![hs[h].l] = TokenRow(h)]
  /\ Go(h, [hs[h] EXCEPT !.pc = "mail"])
  /\ UNCHANGED <<user, inbox, sessions, pats, now, ops, history>>

Mail(h) ==
  /\ hs[h].pc = "mail"
  /\ inbox' = inbox \cup {hs[h].l}
  /\ Finish(h)
  /\ UNCHANGED <<user, links, sessions, pats, now, ops, history>>

\* RegisterVerify reads the token, then claims it, then activates, then
\* issues: four statements.
OpenVerify(h, l) ==
  /\ "register" \in ops /\ hs[h].pc = "idle"
  /\ links[l].kind = "verify" /\ Usable(l)
  /\ Go(h, [Idle EXCEPT !.pc = "claim", !.l = l, !.door = "verify"])
  /\ UNCHANGED <<user, links, inbox, sessions, pats, now, ops, history>>

\* MarkUsed of a verification and the last statement of ConfirmReset: used_at
\* is set only while it is null, and the row is there.
OnRecord(l)    == links[l].state \in {"live", "used"}        \* faulty: no guard
Unspent(l)     == links[l].state = "live"
Spend(l)       == [links EXCEPT ![l].state = "used"]
CountSpend(l)  == spent' = [spent EXCEPT ![l] = @ + 1]

Claim(h) ==
  LET l == hs[h].l IN
  /\ hs[h].pc = "claim"
  /\ IF Unspent(l)
       THEN links' = Spend(l) /\ CountSpend(l) /\ Go(h, [hs[h] EXCEPT !.pc = "activate"])
       ELSE Finish(h) /\ UNCHANGED <<links, spent>>
  /\ UNCHANGED <<user, inbox, sessions, pats, now, ops, resetAt, madeWith, late>>

Activate(h) ==
  /\ hs[h].pc = "activate"
  /\ user' = [user EXCEPT !.status = "active"]
  /\ Go(h, [hs[h] EXCEPT !.pc = "issue", !.ver = user.ver])
  /\ UNCHANGED <<links, inbox, sessions, pats, now, ops, history>>

\* The auto-login at the end of a verification, a reset or a change: read
\* the account again and issue at whatever version it has now.
Issue(h, pc, door) ==
  /\ hs[h].pc = pc /\ hs[h].door = door
  /\ sessions' = sessions \cup {NewSession(door, hs[h].pw, hs[h].ver)}
  /\ Finish(h)
  /\ UNCHANGED <<user, links, inbox, pats, now, ops, history>>

IssueVerified(h) == Issue(h, "issue", "verify")

-----------------------------------------------------------------------------
(* Login, the sign-in with a provider, ChangePassword and the operator *)

\* Login verifies the hash, the ban and the status of one read of the row.
AnyStatus == TRUE                                  \* faulty: the gate is gone
Verified  == user.status # "pending"
Login(pw) ==
  /\ "login" \in ops
  /\ Exists /\ user.hash = pw /\ ~user.banned /\ Verified
  /\ sessions' = sessions \cup {NewSession("login", pw, user.ver)}
  /\ UNCHANGED <<user, links, inbox, pats, hs, now, ops, history>>

\* A sign-in with the provider that found nobody by the address registers an
\* active account without a password (how it is found and linked, and how
\* the ticket leads to one session, is the module SignIn).
OAuthRegister ==
  /\ "oauth" \in ops /\ ~Exists
  /\ user' = NewUser("active", NoSecret)
  /\ UNCHANGED <<links, inbox, sessions, pats, hs, now, ops, history>>

\* The ticket of a sign-in resolved to the account, whatever its status, is
\* redeemed: neither the status nor the ban is looked at here.
OAuthComplete ==
  /\ "oauth" \in ops /\ Exists
  /\ sessions' = sessions \cup {NewSession("oauth", NoSecret, user.ver)}
  /\ UNCHANGED <<user, links, inbox, pats, hs, now, ops, history>>

\* The current password is verified against the row the middleware read.
OpenChange(h, s, pw) ==
  /\ "change" \in ops /\ hs[h].pc = "idle"
  /\ Admitted(s) /\ user.hash # NoSecret
  /\ Go(h, [Idle EXCEPT !.pc = "change", !.door = s.door, !.pw = pw])
  /\ UNCHANGED <<user, links, inbox, sessions, pats, now, ops, history>>

ChangePassword(h) ==
  /\ hs[h].pc = "change" /\ MayBump
  /\ user' = WithHash(hs[h].pw)
  /\ Go(h, [hs[h] EXCEPT !.pc = "reissue", !.ver = user'.ver])
  /\ UNCHANGED <<links, inbox, sessions, pats, now, ops, history>>

IssueChanged(h) == Issue(h, "reissue", hs[h].door)

\* set-password on the command line.
SetPassword(pw) ==
  /\ "operator" \in ops /\ Exists /\ MayBump
  /\ user' = WithHash(pw)
  /\ UNCHANGED <<links, inbox, sessions, pats, hs, now, ops, history>>

-----------------------------------------------------------------------------
(* Forgotten passwords and invites *)

\* resettable: an account that is not banned; persisting and sending the
\* token happen in a goroutine, the expiry is counted from the request.
RequestReset(h, l) ==
  /\ "reset" \in ops /\ hs[h].pc = "idle" /\ Fresh(l)
  /\ Exists /\ ~user.banned
  /\ Go(h, [Idle EXCEPT !.pc = "mint", !.l = l, !.kind = "reset", !.at = now])
  /\ UNCHANGED <<user, links, inbox, sessions, pats, now, ops, history>>

OpenReset(h, l, pw) ==
  /\ hs[h].pc = "idle"
  /\ links[l].kind # "verify" /\ Usable(l)
  /\ Go(h, [Idle EXCEPT !.pc = "confirm", !.l = l, !.door = "reset", !.pw = pw])
  /\ UNCHANGED <<user, links, inbox, sessions, pats, now, ops, history>>

Revoked(row) == IF row.state = "active" THEN [row EXCEPT !.state = "revoked"] ELSE row
NoneRevoked  == pats                               \* faulty: tokens are kept
AllRevoked   == [p \in Pat |-> Revoked(pats[p])]

\* ConfirmReset under the users row lock: hash and version, activation, the
\* tokens, and the claim of the link as the gate of it all.
ConfirmReset(h) ==
  LET l == hs[h].l IN
  /\ hs[h].pc = "confirm" /\ MayBump
  /\ IF Unspent(l)
       THEN /\ user' = [WithHash(hs[h].pw) EXCEPT !.status = "active"]
            /\ pats' = AllRevoked
            /\ links' = Spend(l) /\ CountSpend(l) /\ resetAt' = user'.ver
            /\ late' = {p \in Pat : \E g \in Handler : hs[g].pc = "pat" /\ hs[g].p = p}
            /\ Go(h, [hs[h] EXCEPT !.pc = "issue", !.ver = user'.ver])
       ELSE Finish(h) /\ UNCHANGED <<user, pats, links, spent, resetAt, late>>
  /\ UNCHANGED <<inbox, sessions, now, ops, madeWith>>

\* Whoever set the password through the link is logged in with it.
IssueReset(h) == Issue(h, "issue", "reset")

-----------------------------------------------------------------------------
(* Administration *)

\* AdminCreateUser: no password, and an invite once the account is there.
AdminCreateUser(h, l) ==
  /\ "admin" \in ops /\ hs[h].pc = "idle" /\ Fresh(l) /\ ~Exists
  /\ user' = NewUser("active", NoSecret)
  /\ Go(h, [Idle EXCEPT !.pc = "mint", !.l = l, !.kind = "invite", !.at = now])
  /\ UNCHANGED <<links, inbox, sessions, pats, now, ops, history>>

AdminCreateOwner(pw) ==
  /\ "owner" \in ops /\ ~Exists
  /\ user' = NewUser("active", pw)
  /\ UNCHANGED <<links, inbox, sessions, pats, hs, now, ops, history>>

\* create-owner on the command line.
CreateOwner(pw) ==
  /\ "operator" \in ops /\ ~Exists
  /\ user' = NewUser("active", pw)
  /\ UNCHANGED <<links, inbox, sessions, pats, hs, now, ops, history>>

\* AdminUpdateUser.
SetBanned(b) ==
  /\ "admin" \in ops /\ Exists /\ user.banned # b
  /\ user' = [user EXCEPT !.banned = b]
  /\ UNCHANGED <<links, inbox, sessions, pats, hs, now, ops, history>>

-----------------------------------------------------------------------------
(* Personal access tokens *)

\* CreateAccessToken wants a session issued a moment ago.  The token's
\* expiry is in the future or never; a token is not reused.
OpenCreate(h, s, p, exp) ==
  /\ "pat" \in ops /\ hs[h].pc = "idle"
  /\ Admitted(s) /\ now <= s.at + Freshness
  /\ pats[p].state = "none" /\ \A g \in Handler : hs[g].p # p
  /\ exp > now
  /\ Go(h, [Idle EXCEPT !.pc = "pat", !.p = p, !.at = now, !.seen = exp])
  /\ madeWith' = [madeWith EXCEPT ![p] = s.ver]
  /\ UNCHANGED <<user, links, inbox, sessions, pats, now, ops, spent, resetAt, late>>

\* Create counts and inserts under the users row lock, at the clock the
\* handler read.
OneTooMany(t) == Activity(t) <= MaxPats            \* faulty: off by one
UnderLimit(t) == Activity(t) < MaxPats
CreatePat(h) ==
  LET p == hs[h].p IN
  /\ hs[h].pc = "pat"
  /\ IF UnderLimit(hs[h].at)
       THEN pats' = [pats EXCEPT ![p] =
              [state |-> "active", expires |-> hs[h].seen, touched |-> Never]]
       ELSE UNCHANGED pats
  /\ Finish(h)
  /\ UNCHANGED <<user, links, inbox, sessions, now, ops, history>>

RevokePat(s, p) ==
  /\ "pat" \in ops /\ Admitted(s)
  /\ pats' = [pats EXCEPT ![p] = Revoked(@)]
  /\ UNCHANGED <<user, links, inbox, sessions, hs, now, ops, history>>

\* serveWithPAT: an active token of an account that is not banned; the time
\* of the request is written as the last use later.  TouchLastUsed reads
\* the stored time first and leaves a recent one alone.
UsePat(h, p) ==
  /\ "use" \in ops /\ hs[h].pc = "idle"
  /\ Active(p, now) /\ ~user.banned
  /\ pats[p].touched = Never \/ now >= pats[p].touched + TouchInterval
  /\ Go(h, [Idle EXCEPT !.pc = "touch", !.p = p, !.at = now, !.seen = pats[p].touched])
  /\ UNCHANGED <<user, links, inbox, sessions, pats, now, ops, history>>

\* The UPDATE matches the value just read.
AsRead(h) == hs[h].seen
Touch(h) ==
  LET p == hs[h].p IN
  /\ hs[h].pc = "touch"
  /\ pats' = IF pats[p].touched = AsRead(h) THEN [pats EXCEPT ![p].touched = hs[h].at] ELSE pats
  /\ Finish(h)
  /\ UNCHANGED <<user, links, inbox, sessions, now, ops, history>>

-----------------------------------------------------------------------------
\* A handler or a goroutine stops: a store error, a failed send, a crash.
Abort(h) ==
  /\ hs[h].pc # "idle"
  /\ Finish(h)
  /\ UNCHANGED <<user, links, inbox, sessions, pats, now, ops, history>>

Tick ==
  /\ now < MaxNow /\ now' = now + 1
  /\ sessions' = {s \in sessions : Validates(s, now')}
  /\ UNCHANGED <<user, links, inbox, pats, hs, ops, history>>

HandlerNext(h) ==
  \/ \E l \in Link, pw \in Secret : Register(h, l, pw) \/ OpenReset(h, l, pw)
  \/ \E l \in Link : OpenVerify(h, l) \/ RequestReset(h, l) \/ AdminCreateUser(h, l)
  \/ CreatePending(h) \/ Resend(h) \/ Replace(h) \/ Mint(h) \/ Mail(h)
  \/ Claim(h) \/ Activate(h) \/ IssueVerified(h) \/ ChangePassword(h) \/ IssueChanged(h)
  \/ ConfirmReset(h) \/ IssueReset(h)
  \/ \E s \in sessions, pw \in Secret : OpenChange(h, s, pw)
  \/ \E s \in sessions, p \in Pat, exp \in {now + 1, Never} : OpenCreate(h, s, p, exp)
  \/ CreatePat(h) \/ Touch(h)
  \/ \E p \in Pat : UsePat(h, p)
  \/ Abort(h)

Next ==
  \/ \E h \in Handler : HandlerNext(h)
  \/ \E pw \in Secret : Login(pw) \/ SetPassword(pw) \/ AdminCreateOwner(pw) \/ CreateOwner(pw)
  \/ OAuthRegister \/ OAuthComplete
  \/ \E b \in BOOLEAN : SetBanned(b)
  \/ \E s \in sessions, p \in Pat : RevokePat(s, p)
  \/ Tick

Spec == Init /\ [][Next]_vars

-----------------------------------------------------------------------------
(* Properties *)

\* Every variable keeps its type.
TypeOK ==
  /\ user \in User /\ links \in [Link -> Token] /\ inbox \subseteq Link
  /\ sessions \subseteq Session /\ pats \in [Pat -> PatRow]
  /\ hs \in [Handler -> HState] /\ now \in Times /\ ops \in Workloads
  /\ spent \in [Link -> Nat] /\ resetAt \in Versions
  /\ madeWith \in [Pat -> Versions] /\ late \subseteq Pat

\* A link is honoured once: of any number of confirms that all read it as
\* unused, one activates the account, sets the password and gets a session.
LinksSpentOnce == \A l \in Link : spent[l] <= 1

\* A session obtained by proving or setting a password, at login, by a change
\* or by a reset, is worth nothing once another password is set: hash and
\* version never move apart.  Only a change or a reset that is overtaken by
\* another one between its write and its reading of the version to issue at
\* gets a session of the newer version.
Overtaken(s) == s.since < s.ver
PasswordSessionsCurrent ==
  \A s \in sessions :
    s.ver = user.ver /\ s.proof # NoSecret => s.proof = user.hash \/ Overtaken(s)

\* The middleware does not look at the status, so what keeps a pending
\* account out is that it gets no session: none by a login, a verification,
\* a reset or a change of any of these.  The sign-in with the provider, and
\* a change made under it, is the one door that lets it in.
NoSessionWhilePending == \A s \in sessions : user.status = "active" \/ s.door = "oauth"

\* Any number of creations at the limit leave at most that many tokens that
\* work, counted at any time.
PatLimit == Activity(now) <= MaxPats

\* After a reset no token works that was made with a session from before it,
\* except by a creation that had passed the middleware when the reset was
\* committed: its insert asks for no version again.
TokensFallWithReset ==
  \A p \in Pat : Active(p, now) => resetAt <= madeWith[p] \/ p \in late
=============================================================================
