--------------------------- MODULE AccountsProofs ---------------------------
(***************************************************************************)
(* Proofs about Accounts, for every number of handlers, links, passwords   *)
(* and tokens, every lifetime and every workload: what a session is worth  *)
(* after the password changed, how often a link counts, and what a limit   *)
(* and a reset leave of the access tokens.                                 *)
(***************************************************************************)
EXTENDS Accounts, FiniteSetTheorems, TLAPS

\* A handler that has drawn a link, or works on a token, has one.
Minters == {"create", "resend", "replace", "mint"}
BusyWithSomething ==
  \A h \in Handler :
    /\ hs[h].pc \in Minters \cup {"mail", "claim", "confirm"} => hs[h].l \in Link
    /\ hs[h].pc \in {"pat", "touch"} => hs[h].p \in Pat

\* Whoever proved or set this password when the account had this version has
\* the password of today, or the version has moved on.
Vouched(u, ver, pw) == ver <= u.ver /\ (ver = u.ver /\ pw # NoSecret => pw = u.hash)

\* So much is known of each session and of each one about to be issued; a
\* verification proves no password.
SessionsVouched ==
  \A s \in sessions : s.since <= s.ver /\ s.ver <= user.ver /\ Vouched(user, s.since, s.proof)
HandlersVouched ==
  \A h \in Handler :
    /\ hs[h].pc \in {"issue", "reissue"} => Vouched(user, hs[h].ver, hs[h].pw)
    /\ hs[h].pc \in {"claim", "activate"} => hs[h].pw = NoSecret

\* Only by the provider's door is an account let in before it is active.
LetsIn(u, door) == u.status = "active" \/ (u.status # "none" /\ door = "oauth")
Issuing == {"change", "reissue", "issue"}
IssuingIsLetIn == \A h \in Handler : hs[h].pc \in Issuing => LetsIn(user, hs[h].door)

\* A link that counted is no longer live, and one being minted is nobody
\* else's.
SpentIsOver == \A l \in Link : links[l].state \in {"none", "live"} => spent[l] = 0
MintedOnce  ==
  \A h \in Handler : hs[h].pc \in Minters =>
    /\ links[hs[h].l].state = "none"
    /\ \A g \in Handler : g # h => hs[g].l # hs[h].l

\* The versions start with the account, the last reset is not ahead of them,
\* and a token is counted at a time that has come.
ResetBehind == resetAt <= user.ver /\ (~Exists => user.ver = 0)
CountedAt   == \A h \in Handler : hs[h].pc = "pat" => hs[h].at <= now

\* A token in the store, or on its way there, was asked for with a session
\* from after the last reset, or was on its way when that was committed.
Coming(p) == \E h \in Handler : hs[h].pc = "pat" /\ hs[h].p = p
MadeAfterReset ==
  \A p \in Pat : pats[p].state = "active" \/ Coming(p) => resetAt <= madeWith[p] \/ p \in late

AccountInv == SessionsVouched /\ NoSessionWhilePending /\ ResetBehind
HandlerInv == BusyWithSomething /\ HandlersVouched /\ IssuingIsLetIn /\ CountedAt
LinkInv    == LinksSpentOnce /\ SpentIsOver /\ MintedOnce
PatInv     == PatLimit /\ MadeAfterReset
IInv       == TypeOK /\ AccountInv /\ HandlerInv /\ LinkInv /\ PatInv

-----------------------------------------------------------------------------
(* Handlers *)

\* The steps that leave everything but one handler alone.
Waits(h) ==
  \/ \E l \in Link, pw \in Secret : Register(h, l, pw) \/ OpenReset(h, l, pw)
  \/ \E l \in Link : OpenVerify(h, l) \/ RequestReset(h, l)
  \/ \E s \in sessions, pw \in Secret : OpenChange(h, s, pw)
  \/ \E p \in Pat : UsePat(h, p)
  \/ Resend(h) \/ Abort(h)

LEMMA ConstantTypes ==
  /\ NoUser \in User /\ NoToken \in Token /\ NoPat \in PatRow /\ Idle \in HState
  /\ Never \in Nat /\ Times \subseteq Nat /\ Versions \subseteq Nat /\ 1 \in Versions
  /\ MaxNow \in Nat /\ MaxVersion \in Nat
<1>1. MaxNow \in Nat /\ MaxVersion \in Nat /\ Never \in Nat /\ 0 \in Times /\ 0 \in Versions
  BY AccountBounds DEF Times, Versions, Never
<1>2. Times \subseteq Nat /\ Versions \subseteq Nat /\ 1 \in Versions
  BY AccountBounds DEF Times, Versions
<1>3. NoUser \in User
  BY <1>1 DEF NoUser, User, Secrets
<1>4. NoToken \in Token /\ NoPat \in PatRow
  BY <1>1 DEF NoToken, Token, Kinds, NoPat, PatRow
<1>5. Idle \in HState
  BY <1>1 DEF Idle, HState, PC, Kinds, Doors, Secrets
<1>6. QED
  BY <1>1, <1>2, <1>3, <1>4, <1>5

\* What such a step leaves alone.
rest == <<user, links, inbox, sessions, pats, now, ops, history>>

LEMMA Unchanged ==
  ASSUME NEW h \in Handler, Waits(h)
  PROVE  UNCHANGED rest
  BY DEF Waits, Register, OpenReset, OpenVerify, RequestReset, OpenChange, UsePat, Resend,
         Abort, rest

\* A link is given to a handler that mints it only when nobody has it; one
\* that is presented is live, and so not about to be minted.
Takes(h) ==
  \/ hs'[h].l = NoLink \/ hs'[h].l = hs[h].l
  \/ hs'[h].l \in Link /\ (Fresh(hs'[h].l) \/ links[hs'[h].l].state = "live")

Moved(h) ==
  /\ hs' \in [Handler -> HState]
  /\ \A g \in Handler : g # h => hs'[g] = hs[g]
  /\ hs'[h].pc \in Minters \cup {"mail", "claim", "confirm"} => hs'[h].l \in Link
  /\ hs'[h].pc \in {"pat", "touch"} => hs'[h].p \in Pat
  /\ hs'[h].pc \in Issuing => LetsIn(user', hs'[h].door)
  /\ hs'[h].pc \in {"issue", "reissue"} => Vouched(user', hs'[h].ver, hs'[h].pw)
  /\ hs'[h].pc \in {"claim", "activate"} => hs'[h].pw = NoSecret
  /\ hs'[h].pc = "pat" => hs'[h].at <= now' /\ madeWith'[hs'[h].p] = user.ver /\ resetAt' = resetAt
  /\ Takes(h)
  /\ hs'[h].pc \in Minters =>
       \/ Fresh(hs'[h].l)
       \/ hs[h].pc \in Minters /\ hs'[h].l = hs[h].l

LEMMA StopMoves ==
  ASSUME TypeOK, NEW h \in Handler, hs' = [hs EXCEPT ![h] = Idle]
  PROVE  Moved(h)
<1>1. Idle \in HState /\ Idle.pc = "idle" /\ Idle.l = NoLink
  BY ConstantTypes DEF Idle
<1>2. hs \in [Handler -> HState]
  BY DEF TypeOK
<1>3. hs' \in [Handler -> HState] /\ hs'[h] = Idle /\ \A g \in Handler : g # h => hs'[g] = hs[g]
  BY <1>1, <1>2
<1>4. QED
  BY <1>1, <1>3 DEF Moved, Takes, Minters, Issuing

\* From one record of a handler to another.
LEMMA StepMoves ==
  ASSUME TypeOK, NEW h \in Handler, NEW next \in HState, hs' = [hs EXCEPT ![h] = next],
         next.pc \in Minters \cup {"mail", "claim", "confirm"} => next.l \in Link,
         next.pc \in {"pat", "touch"} => next.p \in Pat,
         next.pc \in Issuing => LetsIn(user', next.door),
         next.pc \in {"issue", "reissue"} => Vouched(user', next.ver, next.pw),
         next.pc \in {"claim", "activate"} => next.pw = NoSecret,
         next.pc = "pat" => next.at <= now' /\ madeWith'[next.p] = user.ver /\ resetAt' = resetAt,
         \/ next.l = NoLink \/ next.l = hs[h].l
         \/ next.l \in Link /\ (Fresh(next.l) \/ links[next.l].state = "live"),
         next.pc \in Minters => \/ Fresh(next.l)
                                \/ hs[h].pc \in Minters /\ next.l = hs[h].l
  PROVE  Moved(h)
<1>1. hs \in [Handler -> HState]
  BY DEF TypeOK
<1>2. hs' \in [Handler -> HState] /\ hs'[h] = next /\ \A g \in Handler : g # h => hs'[g] = hs[g]
  BY <1>1
<1>3. QED
  BY <1>2 DEF Moved, Takes

LEMMA WaitsMoves ==
  ASSUME IInv, NEW h \in Handler, Waits(h)
  PROVE  Moved(h)
<1> USE DEF Go, Finish
<1>1. /\ TypeOK /\ hs[h] \in HState /\ now \in Nat /\ now \in Times
      /\ user' = user /\ now' = now
  BY ConstantTypes, Unchanged DEF IInv, TypeOK, rest
<1>2. \A s \in sessions : user.status = "active" \/ s.door = "oauth"
  BY DEF IInv, AccountInv, NoSessionWhilePending
<1>3. ASSUME NEW l \in Link, NEW pw \in Secret, Register(h, l, pw)  PROVE Moved(h)
  <2>1. /\ [Idle EXCEPT !.pc = "create", !.l = l, !.pw = pw] \in HState
        /\ [Idle EXCEPT !.pc = "resend", !.l = l] \in HState
    BY ConstantTypes DEF HState, PC, Secrets
  <2> DEFINE a == [Idle EXCEPT !.pc = "create", !.l = l, !.pw = pw]
             b == [Idle EXCEPT !.pc = "resend", !.l = l]
  <2>2. a.pc = "create" /\ a.l = l /\ b.pc = "resend" /\ b.l = l
    BY DEF Idle
  <2>3. Fresh(l) /\ (hs' = [hs EXCEPT ![h] = a] \/ hs' = [hs EXCEPT ![h] = b])
    BY <1>3 DEF Register
  <2> HIDE DEF a, b
  <2>4. CASE hs' = [hs EXCEPT ![h] = a]
    BY <1>1, <2>1, <2>2, <2>3, <2>4, StepMoves DEF Minters, Issuing, a
  <2>5. CASE hs' = [hs EXCEPT ![h] = b]
    BY <1>1, <2>1, <2>2, <2>3, <2>5, StepMoves DEF Minters, Issuing, b
  <2>6. QED
    BY <2>3, <2>4, <2>5
<1>4. ASSUME NEW l \in Link, NEW pw \in Secret, OpenReset(h, l, pw)  PROVE Moved(h)
  <2> DEFINE next == [Idle EXCEPT !.pc = "confirm", !.l = l, !.door = "reset", !.pw = pw]
  <2>1. next \in HState /\ next.pc = "confirm" /\ next.l = l
    BY ConstantTypes DEF HState, PC, Secrets, Doors
  <2>2. links[l].state = "live" /\ hs' = [hs EXCEPT ![h] = next]
    BY <1>4 DEF OpenReset, Usable
  <2> HIDE DEF next
  <2>3. QED
    BY <1>1, <2>1, <2>2, StepMoves DEF Minters, Issuing
<1>5. ASSUME NEW l \in Link, OpenVerify(h, l)  PROVE Moved(h)
  <2> DEFINE next == [Idle EXCEPT !.pc = "claim", !.l = l, !.door = "verify"]
  <2>1. next \in HState /\ next.pc = "claim" /\ next.l = l /\ next.pw = NoSecret
    BY ConstantTypes DEF HState, PC, Doors, Idle
  <2>2. links[l].state = "live" /\ hs' = [hs EXCEPT ![h] = next]
    BY <1>5 DEF OpenVerify, Usable
  <2> HIDE DEF next
  <2>3. QED
    BY <1>1, <2>1, <2>2, StepMoves DEF Minters, Issuing
<1>6. ASSUME NEW l \in Link, RequestReset(h, l)  PROVE Moved(h)
  <2> DEFINE next == [Idle EXCEPT !.pc = "mint", !.l = l, !.kind = "reset", !.at = now]
  <2>1. next \in HState /\ next.pc = "mint" /\ next.l = l
    BY <1>1, ConstantTypes DEF HState, PC, Kinds
  <2>2. Fresh(l) /\ hs' = [hs EXCEPT ![h] = next]
    BY <1>6 DEF RequestReset
  <2> HIDE DEF next
  <2>3. QED
    BY <1>1, <2>1, <2>2, StepMoves DEF Minters, Issuing
<1>7. ASSUME NEW s \in sessions, NEW pw \in Secret, OpenChange(h, s, pw)  PROVE Moved(h)
  <2> DEFINE next == [Idle EXCEPT !.pc = "change", !.door = s.door, !.pw = pw]
  <2>1. s.door \in Doors
    BY <1>1 DEF TypeOK, Session
  <2>2. next \in HState /\ next.pc = "change" /\ next.l = NoLink /\ next.door = s.door
    BY <2>1, ConstantTypes DEF HState, PC, Secrets, Idle
  <2>3. LetsIn(user', s.door) /\ hs' = [hs EXCEPT ![h] = next]
    BY <1>1, <1>2, <1>7 DEF OpenChange, Admitted, Exists, LetsIn
  <2> HIDE DEF next
  <2>4. QED
    BY <1>1, <2>2, <2>3, StepMoves DEF Minters, Issuing
<1>8. ASSUME NEW p \in Pat, UsePat(h, p)  PROVE Moved(h)
  <2> DEFINE next == [Idle EXCEPT !.pc = "touch", !.p = p, !.at = now, !.seen = pats[p].touched]
  <2>1. pats[p].touched \in Times \cup {Never}
    BY <1>1 DEF TypeOK, PatRow
  <2>2. next \in HState /\ next.pc = "touch" /\ next.l = NoLink /\ next.p = p
    BY <1>1, <2>1, ConstantTypes DEF HState, PC, Idle
  <2>3. hs' = [hs EXCEPT ![h] = next]
    BY <1>8 DEF UsePat
  <2> HIDE DEF next
  <2>4. QED
    BY <1>1, <2>2, <2>3, StepMoves DEF Minters, Issuing
<1>9. CASE Resend(h)
  <2> DEFINE next == [hs[h] EXCEPT !.pc = "replace", !.at = now]
  <2>1. next \in HState /\ next.pc = "replace" /\ next.l = hs[h].l
    BY <1>1 DEF HState, PC
  <2>2. /\ hs' = [hs EXCEPT ![h] = Idle] \/ hs' = [hs EXCEPT ![h] = next]
        /\ hs[h].pc = "resend"
    BY <1>9 DEF Resend
  <2>3. hs[h].l \in Link
    BY <2>2 DEF IInv, HandlerInv, BusyWithSomething, Minters
  <2> HIDE DEF next
  <2>4. QED
    BY <1>1, <2>1, <2>2, <2>3, StopMoves, StepMoves DEF Minters, Issuing
<1>10. CASE Abort(h)
  BY <1>1, <1>10, StopMoves DEF Abort
<1>11. QED
  BY <1>3, <1>4, <1>5, <1>6, <1>7, <1>8, <1>9, <1>10 DEF Waits

-----------------------------------------------------------------------------
(* What a step does to the account, its links and its tokens *)

\* Untouched; created; a new password; activated; banned or not; a session.
AccountStep ==
  /\ user' \in User /\ sessions' \subseteq Session /\ resetAt' \in Versions
  /\ \/ user' = user /\ sessions' \subseteq sessions /\ resetAt' = resetAt
     \/ /\ ~Exists /\ user'.status \in {"pending", "active"} /\ user'.ver = 1
        /\ sessions' = sessions /\ resetAt' = resetAt
     \/ /\ user'.ver = user.ver + 1 /\ user'.status # "none"
        /\ user.status = "active" => user'.status = "active"
        /\ sessions' = sessions /\ resetAt' \in {resetAt, user'.ver}
     \/ /\ user'.ver = user.ver /\ user'.hash = user.hash
        /\ user'.status \in {user.status, "active"}
        /\ sessions' = sessions /\ resetAt' = resetAt
     \/ /\ user' = user /\ resetAt' = resetAt
        /\ \E s \in Session : /\ sessions' = sessions \cup {s} /\ s.ver = user.ver
                              /\ Vouched(user, s.since, s.proof)
                              /\ user.status = "active" \/ s.door = "oauth"

\* Each link is untouched, minted by this handler, spent or deleted.
LinkStep(h) ==
  /\ links' \in [Link -> Token] /\ spent' \in [Link -> Nat] /\ inbox' \subseteq Link
  /\ \A l \in Link :
       \/ links'[l] = links[l] /\ spent'[l] = spent[l]
       \/ /\ hs[h].pc = "mint" /\ l = hs[h].l /\ links'[l].state = "live"
          /\ spent'[l] = spent[l] /\ hs'[h].pc = "mail"
       \/ links[l].state = "live" /\ links'[l].state = "used" /\ spent'[l] = spent[l] + 1
       \/ links[l].state # "none" /\ links'[l].state = "gone" /\ spent'[l] = spent[l]

\* No token comes to work that did not; one is asked for at the version of
\* today, and a reset leaves none that works and notes those on their way.
PatStep ==
  /\ pats' \in [Pat -> PatRow] /\ madeWith' \in [Pat -> Versions] /\ late' \subseteq Pat
  /\ now' = now
  /\ \A p \in Pat : pats'[p].state = "active" => pats[p].state = "active"
                                                  /\ pats'[p].expires = pats[p].expires
  /\ \/ /\ resetAt' = resetAt /\ late' = late
        /\ \A p \in Pat : madeWith'[p] \in {madeWith[p], user.ver}
     \/ /\ late' = {p \in Pat : Coming(p)}
        /\ \A p \in Pat : pats'[p].state # "active"

\* The parts a step leaves alone.
LEMMA AccountRests ==
  ASSUME TypeOK, UNCHANGED <<user, sessions, resetAt>>
  PROVE  AccountStep
  BY DEF AccountStep, TypeOK

LEMMA LinksRest ==
  ASSUME TypeOK, NEW h, UNCHANGED <<links, spent, inbox>>
  PROVE  LinkStep(h)
  BY DEF LinkStep, TypeOK

LEMMA PatsRest ==
  ASSUME TypeOK, UNCHANGED <<pats, madeWith, late, now, resetAt>>
  PROVE  PatStep
  BY DEF PatStep, TypeOK

LEMMA UserTypes ==
  ASSUME TypeOK
  PROVE  /\ \A st \in {"pending", "active"}, pw \in Secrets :
              /\ NewUser(st, pw) \in User /\ NewUser(st, pw).status = st
              /\ NewUser(st, pw).ver = 1
         /\ MayBump => \A pw \in Secrets :
              /\ WithHash(pw) \in User /\ WithHash(pw).ver = user.ver + 1
              /\ WithHash(pw).status = user.status /\ WithHash(pw).hash = pw
              /\ [WithHash(pw) EXCEPT !.status = "active"] \in User
              /\ [WithHash(pw) EXCEPT !.status = "active"].ver = user.ver + 1
              /\ [WithHash(pw) EXCEPT !.status = "active"].status = "active"
              /\ [WithHash(pw) EXCEPT !.status = "active"].hash = pw
<1>1. user \in User /\ user.ver \in Versions /\ Versions = 0 .. MaxVersion
  BY DEF TypeOK, User, Versions
<1>2. ASSUME NEW st \in {"pending", "active"}, NEW pw \in Secrets
      PROVE  /\ NewUser(st, pw) \in User /\ NewUser(st, pw).status = st
             /\ NewUser(st, pw).ver = 1
  BY ConstantTypes DEF NewUser, User
<1>3. ASSUME MayBump, NEW pw \in Secrets
      PROVE  /\ WithHash(pw) \in User /\ WithHash(pw).ver = user.ver + 1
             /\ WithHash(pw).status = user.status /\ WithHash(pw).hash = pw
  <2>1. user.ver + 1 \in Versions
    BY <1>1, <1>3, AccountBounds DEF MayBump
  <2>2. QED
    BY <1>1, <2>1 DEF WithHash, User
<1>4. ASSUME NEW u \in User
      PROVE  /\ [u EXCEPT !.status = "active"] \in User
             /\ [u EXCEPT !.status = "active"].ver = u.ver
             /\ [u EXCEPT !.status = "active"].hash = u.hash
             /\ [u EXCEPT !.status = "active"].status = "active"
  BY DEF User
<1>5. QED
  BY <1>2, <1>3, <1>4

\* A link that is found live counts once, for the handler that claims it.
LEMMA SpendStep ==
  ASSUME TypeOK, NEW h, NEW l \in Link, Unspent(l),
         links' = Spend(l), CountSpend(l), UNCHANGED inbox
  PROVE  LinkStep(h)
<1>1. links[l] \in Token /\ links[l].state = "live" /\ spent[l] \in Nat
  BY DEF TypeOK, Unspent
<1>2. [links[l] EXCEPT !.state = "used"] \in Token
  BY <1>1 DEF Token
<1>3. /\ links' \in [Link -> Token] /\ links'[l].state = "used"
      /\ \A k \in Link : k # l => links'[k] = links[k]
  BY <1>1, <1>2 DEF Spend, TypeOK, Token
<1>4. /\ spent' \in [Link -> Nat] /\ spent'[l] = spent[l] + 1
      /\ \A k \in Link : k # l => spent'[k] = spent[k]
  BY <1>1 DEF CountSpend, TypeOK
<1>5. QED
  BY <1>1, <1>3, <1>4 DEF LinkStep, TypeOK

LEMMA LinkHandlers ==
  ASSUME IInv, NEW h \in Handler,
         Replace(h) \/ Mint(h) \/ Mail(h) \/ Claim(h)
  PROVE  Moved(h) /\ LinkStep(h) /\ AccountStep /\ PatStep /\ ops' = ops
<1> USE DEF Go, Finish
<1>1. TypeOK /\ hs[h] \in HState /\ UNCHANGED <<user, sessions, pats, now, ops, resetAt, madeWith, late>>
  BY DEF IInv, TypeOK, Replace, Mint, Mail, Claim, history
<1>2. AccountStep /\ PatStep
  BY <1>1, AccountRests, PatsRest
<1>3. hs[h].l \in Link
  BY DEF IInv, HandlerInv, BusyWithSomething, Minters, Replace, Mint, Mail, Claim
<1>4. CASE Replace(h)
  <2>1. \A l \in Link : links[l] \in Token /\ [links[l] EXCEPT !.state = "gone"] \in Token
    BY <1>1 DEF TypeOK, Token
  <2>2. links' \in [Link -> Token] /\ spent' = spent /\ inbox' = inbox
    BY <1>4, <2>1 DEF Replace, history
  <2>3. \A l \in Link : \/ links'[l] = links[l]
                        \/ links[l].state # "none" /\ links'[l].state = "gone"
    BY <1>4, <2>1 DEF Replace, Token
  <2>4. LinkStep(h)
    BY <1>1, <2>2, <2>3 DEF LinkStep, TypeOK
  <2> DEFINE next == [hs[h] EXCEPT !.pc = "mint"]
  <2>5. next \in HState /\ next.pc = "mint" /\ next.l = hs[h].l
    BY <1>1 DEF HState, PC
  <2>6. hs' = [hs EXCEPT ![h] = next] /\ hs[h].pc = "replace"
    BY <1>4 DEF Replace
  <2> HIDE DEF next
  <2>7. Moved(h)
    BY <1>1, <1>3, <2>5, <2>6, StepMoves DEF Minters, Issuing
  <2>8. QED
    BY <1>1, <1>2, <2>4, <2>7
<1>5. CASE Mint(h)
  <2>1. TokenRow(h) \in Token /\ TokenRow(h).state = "live"
    BY <1>1 DEF TokenRow, Token, HState
  <2> DEFINE next == [hs[h] EXCEPT !.pc = "mail"]
  <2>2. next \in HState /\ next.pc = "mail" /\ next.l = hs[h].l
    BY <1>1 DEF HState, PC
  <2>3. hs' = [hs EXCEPT ![h] = next] /\ hs[h].pc = "mint" /\ spent' = spent /\ inbox' = inbox
    BY <1>5 DEF Mint, history
  <2> HIDE DEF next
  <2>4. Moved(h)
    BY <1>1, <1>3, <2>2, <2>3, StepMoves DEF Minters, Issuing
  <2>5. hs'[h].pc = "mail"
    BY <1>1, <2>2, <2>3 DEF TypeOK
  <2>6. /\ links' \in [Link -> Token] /\ links'[hs[h].l].state = "live"
        /\ \A l \in Link : l # hs[h].l => links'[l] = links[l]
    BY <1>1, <1>3, <1>5, <2>1 DEF Mint, TypeOK
  <2>7. LinkStep(h)
    BY <1>1, <2>3, <2>5, <2>6 DEF LinkStep, TypeOK
  <2>8. QED
    BY <1>1, <1>2, <2>4, <2>7
<1>6. CASE Mail(h)
  <2>1. Moved(h)
    BY <1>1, <1>6, StopMoves DEF Mail
  <2>2. LinkStep(h)
    BY <1>1, <1>3, <1>6 DEF Mail, LinkStep, TypeOK, history
  <2>3. QED
    BY <1>1, <1>2, <2>1, <2>2
<1>7. CASE Claim(h)
  <2> DEFINE next == [hs[h] EXCEPT !.pc = "activate"]
  <2>1. next \in HState /\ next.pc = "activate" /\ next.l = hs[h].l /\ next.pw = NoSecret
    BY <1>1, <1>7 DEF HState, PC, Claim, IInv, HandlerInv, HandlersVouched
  <2>2. \/ /\ Unspent(hs[h].l) /\ links' = Spend(hs[h].l) /\ CountSpend(hs[h].l)
           /\ hs' = [hs EXCEPT ![h] = next]
        \/ hs' = [hs EXCEPT ![h] = Idle] /\ UNCHANGED <<links, spent>>
    BY <1>7 DEF Claim
  <2>3. inbox' = inbox
    BY <1>7 DEF Claim
  <2> HIDE DEF next
  <2>4. LinkStep(h)
    BY <1>1, <1>3, <2>2, <2>3, SpendStep, LinksRest
  <2>5. Moved(h)
    BY <1>1, <2>1, <2>2, StopMoves, StepMoves DEF Minters, Issuing
  <2>6. QED
    BY <1>1, <1>2, <2>4, <2>5
<1>8. QED
  BY <1>4, <1>5, <1>6, <1>7

LEMMA CreateHandlers ==
  ASSUME IInv, NEW h \in Handler,
         CreatePending(h) \/ \E l \in Link : AdminCreateUser(h, l)
  PROVE  Moved(h) /\ LinkStep(h) /\ AccountStep /\ PatStep /\ ops' = ops
<1> USE DEF Go, Finish
<1>1. /\ TypeOK /\ hs[h] \in HState /\ now \in Times
      /\ UNCHANGED <<links, inbox, sessions, pats, now, ops, history>>
  BY DEF IInv, TypeOK, CreatePending, AdminCreateUser
<1>2. LinkStep(h) /\ PatStep
  BY <1>1, LinksRest, PatsRest DEF history
<1>3. CASE CreatePending(h)
  <2> DEFINE next == [hs[h] EXCEPT !.pc = "mint", !.at = now]
  <2>1. next \in HState /\ next.pc = "mint" /\ next.l = hs[h].l /\ hs[h].pw \in Secrets
    BY <1>1 DEF HState, PC
  <2>2. /\ hs[h].pc = "create"
        /\ \/ hs' = [hs EXCEPT ![h] = Idle] /\ user' = user
           \/ /\ ~Exists /\ user' = NewUser("pending", hs[h].pw)
              /\ hs' = [hs EXCEPT ![h] = next]
    BY <1>3 DEF CreatePending
  <2>3. hs[h].l \in Link
    BY <2>2 DEF IInv, HandlerInv, BusyWithSomething, Minters
  <2> HIDE DEF next
  <2>4. Moved(h)
    BY <1>1, <2>1, <2>2, <2>3, StopMoves, StepMoves DEF Minters, Issuing
  <2>5. AccountStep
    BY <1>1, <2>1, <2>2, UserTypes DEF AccountStep, TypeOK, history
  <2>6. QED
    BY <1>1, <1>2, <2>4, <2>5
<1>4. ASSUME NEW l \in Link, AdminCreateUser(h, l)  PROVE Moved(h) /\ AccountStep
  <2> DEFINE next == [Idle EXCEPT !.pc = "mint", !.l = l, !.kind = "invite", !.at = now]
  <2>1. next \in HState /\ next.pc = "mint" /\ next.l = l
    BY <1>1, ConstantTypes DEF HState, PC, Kinds
  <2>2. /\ Fresh(l) /\ hs' = [hs EXCEPT ![h] = next]
        /\ ~Exists /\ user' = NewUser("active", NoSecret)
    BY <1>4 DEF AdminCreateUser
  <2> HIDE DEF next
  <2>3. Moved(h)
    BY <1>1, <2>1, <2>2, StepMoves DEF Minters, Issuing
  <2>4. AccountStep
    BY <1>1, <2>2, UserTypes DEF AccountStep, TypeOK, Secrets, history
  <2>5. QED
    BY <2>3, <2>4
<1>5. QED
  BY <1>1, <1>2, <1>3, <1>4

\* A session of the version the account has.
LEMMA IssueStep ==
  ASSUME IInv, NEW door \in Doors, NEW proof \in Secrets, NEW since \in Versions,
         user.status = "active" \/ door = "oauth", Vouched(user, since, proof),
         sessions' = sessions \cup {NewSession(door, proof, since)}, UNCHANGED <<user, resetAt>>
  PROVE  AccountStep
<1> DEFINE s == NewSession(door, proof, since)
<1>1. TypeOK
  BY DEF IInv
<1>2. s \in Session /\ s.ver = user.ver /\ s.since = since /\ s.proof = proof /\ s.door = door
  BY <1>1 DEF NewSession, Session, TypeOK, User
<1>3. sessions' = sessions \cup {s} /\ sessions' \subseteq Session
  BY <1>1, <1>2 DEF TypeOK
<1> HIDE DEF s
<1>4. QED
  BY <1>1, <1>2, <1>3 DEF AccountStep, TypeOK

LEMMA SessionHandlers ==
  ASSUME IInv, NEW h \in Handler,
         \/ Activate(h) \/ ChangePassword(h)
         \/ IssueVerified(h) \/ IssueChanged(h) \/ IssueReset(h)
  PROVE  Moved(h) /\ LinkStep(h) /\ AccountStep /\ PatStep /\ ops' = ops
<1> USE DEF Go, Finish
<1>1. /\ TypeOK /\ hs[h] \in HState /\ user \in User /\ user.ver \in Nat
      /\ UNCHANGED <<links, inbox, pats, now, ops, spent, resetAt, madeWith, late>>
  BY ConstantTypes
     DEF IInv, TypeOK, User, Activate, ChangePassword, IssueVerified, IssueChanged, IssueReset,
         Issue, history
<1>2. LinkStep(h) /\ PatStep
  BY <1>1, LinksRest, PatsRest
<1>3. CASE Activate(h)
  <2> DEFINE next == [hs[h] EXCEPT !.pc = "issue", !.ver = user.ver]
  <2>1. /\ next \in HState /\ next.pc = "issue" /\ next.l = hs[h].l
        /\ next.ver = user.ver /\ next.pw = hs[h].pw
    BY <1>1 DEF HState, PC, User
  <2>2. /\ hs' = [hs EXCEPT ![h] = next] /\ sessions' = sessions
        /\ user' = [user EXCEPT !.status = "active"] /\ hs[h].pc = "activate"
    BY <1>3 DEF Activate
  <2>3. /\ user' \in User /\ user'.status = "active"
        /\ user'.ver = user.ver /\ user'.hash = user.hash
    BY <1>1, <2>2 DEF User
  <2>4. Vouched(user', next.ver, next.pw)
    BY <1>1, <2>1, <2>2, <2>3 DEF Vouched, IInv, HandlerInv, HandlersVouched
  <2> HIDE DEF next
  <2>5. Moved(h)
    BY <1>1, <2>1, <2>2, <2>3, <2>4, StepMoves DEF Minters, LetsIn
  <2>6. AccountStep
    BY <1>1, <2>2, <2>3 DEF AccountStep, TypeOK
  <2>7. QED
    BY <1>1, <1>2, <2>5, <2>6
<1>4. CASE ChangePassword(h)
  <2> DEFINE next == [hs[h] EXCEPT !.pc = "reissue", !.ver = user'.ver]
  <2>1. /\ hs' = [hs EXCEPT ![h] = next] /\ sessions' = sessions
        /\ user' = WithHash(hs[h].pw) /\ MayBump /\ hs[h].pc = "change"
        /\ hs[h].pw \in Secrets
    BY <1>1, <1>4 DEF ChangePassword, HState
  <2>2. /\ user' \in User /\ user'.status = user.status /\ user'.ver = user.ver + 1
        /\ user'.hash = hs[h].pw
    BY <1>1, <2>1, UserTypes
  <2>3. LetsIn(user, hs[h].door)
    BY <2>1 DEF IInv, HandlerInv, IssuingIsLetIn, Issuing
  <2>4. /\ next \in HState /\ next.pc = "reissue" /\ next.l = hs[h].l
        /\ next.door = hs[h].door /\ next.ver = user'.ver /\ next.pw = hs[h].pw
    BY <1>1, <2>2 DEF HState, PC, User
  <2>5. Vouched(user', next.ver, next.pw)
    BY <1>1, <2>2, <2>4 DEF Vouched
  <2> HIDE DEF next
  <2>6. Moved(h)
    BY <1>1, <2>1, <2>2, <2>3, <2>4, <2>5, StepMoves DEF Minters, LetsIn
  <2>7. AccountStep
    BY <1>1, <2>1, <2>2, <2>3 DEF AccountStep, TypeOK, LetsIn
  <2>8. QED
    BY <1>1, <1>2, <2>6, <2>7
<1>5. ASSUME NEW door \in Doors, NEW pc \in {"issue", "reissue"}, Issue(h, pc, door)
      PROVE  Moved(h) /\ AccountStep
  <2>1. /\ hs' = [hs EXCEPT ![h] = Idle] /\ user' = user /\ resetAt' = resetAt
        /\ sessions' = sessions \cup {NewSession(door, hs[h].pw, hs[h].ver)}
        /\ hs[h].pc = pc /\ hs[h].door = door
        /\ hs[h].pw \in Secrets /\ hs[h].ver \in Versions
    BY <1>1, <1>5 DEF Issue, HState
  <2>2. user.status = "active" \/ door = "oauth"
    BY <2>1 DEF IInv, HandlerInv, IssuingIsLetIn, Issuing, LetsIn
  <2>3. Vouched(user, hs[h].ver, hs[h].pw)
    BY <2>1 DEF IInv, HandlerInv, HandlersVouched
  <2>4. AccountStep
    BY <2>1, <2>2, <2>3, IssueStep
  <2>5. Moved(h)
    BY <1>1, <2>1, StopMoves
  <2>6. QED
    BY <2>4, <2>5
<1>6. QED
  <2>1. {"verify", "reset", hs[h].door} \subseteq Doors
    BY <1>1 DEF Doors, HState
  <2>2. QED
    BY <1>1, <1>2, <1>3, <1>4, <1>5, <2>1 DEF IssueVerified, IssueChanged, IssueReset

\* A token is asked for with a session of the version of today.
LEMMA CreateOpens ==
  ASSUME IInv, NEW h \in Handler, NEW s \in sessions, NEW p \in Pat, NEW exp \in {now + 1, Never},
         OpenCreate(h, s, p, exp)
  PROVE  Moved(h) /\ LinkStep(h) /\ AccountStep /\ PatStep /\ ops' = ops
<1> USE DEF Go
<1>1. /\ TypeOK /\ now \in Nat /\ now \in Times /\ user.ver \in Versions
      /\ UNCHANGED <<user, links, inbox, sessions, pats, now, ops, spent, resetAt, late>>
      /\ madeWith' = [madeWith EXCEPT ![p] = user.ver]
  BY ConstantTypes DEF IInv, TypeOK, User, OpenCreate, Admitted
<1>2. LinkStep(h) /\ AccountStep
  BY <1>1, LinksRest, AccountRests
<1>3. /\ madeWith' \in [Pat -> Versions] /\ madeWith'[p] = user.ver
      /\ \A q \in Pat : q # p => madeWith'[q] = madeWith[q]
  BY <1>1 DEF TypeOK
<1>4. PatStep
  BY <1>1, <1>3 DEF PatStep, TypeOK
<1> DEFINE next == [Idle EXCEPT !.pc = "pat", !.p = p, !.at = now, !.seen = exp]
<1>5. exp \in Times \cup {Never}
  BY <1>1, AccountBounds DEF Times, Never, OpenCreate
<1>6. next \in HState /\ next.pc = "pat" /\ next.l = NoLink /\ next.p = p /\ next.at = now
  BY <1>1, <1>5, ConstantTypes DEF HState, PC, Idle
<1>7. hs' = [hs EXCEPT ![h] = next]
  BY DEF OpenCreate
<1> HIDE DEF next
<1>8. /\ next.at <= now' /\ madeWith'[next.p] = user.ver /\ resetAt' = resetAt
      /\ next.pc \notin Minters \cup Issuing \cup {"mail", "claim", "confirm", "activate"}
  BY <1>1, <1>3, <1>6 DEF Minters, Issuing
<1>9. Moved(h)
  BY <1>1, <1>6, <1>7, <1>8, StepMoves DEF Issuing
<1>10. QED
  BY <1>1, <1>2, <1>4, <1>9

LEMMA Revoking ==
  ASSUME TypeOK, NEW row \in PatRow
  PROVE  /\ Revoked(row) \in PatRow /\ Revoked(row).state # "active"
  BY DEF Revoked, PatRow

\* Under the lock of the account: a new version, no token that works, and
\* those still to be inserted are known.
LEMMA ResetHandler ==
  ASSUME IInv, NEW h \in Handler, ConfirmReset(h)
  PROVE  Moved(h) /\ LinkStep(h) /\ AccountStep /\ PatStep /\ ops' = ops
<1> USE DEF Go, Finish
<1>1. /\ TypeOK /\ hs[h] \in HState /\ hs[h].pw \in Secrets /\ hs[h].pc = "confirm" /\ MayBump
      /\ user.ver \in Nat /\ UNCHANGED <<inbox, sessions, now, ops, madeWith>>
  BY ConstantTypes DEF IInv, TypeOK, User, ConfirmReset, HState
<1>2. hs[h].l \in Link
  BY <1>1 DEF IInv, HandlerInv, BusyWithSomething
<1> DEFINE next == [hs[h] EXCEPT !.pc = "issue", !.ver = user'.ver]
           done == /\ Unspent(hs[h].l) /\ user' = [WithHash(hs[h].pw) EXCEPT !.status = "active"]
                   /\ pats' = AllRevoked /\ links' = Spend(hs[h].l) /\ CountSpend(hs[h].l)
                   /\ resetAt' = user'.ver /\ late' = {p \in Pat : Coming(p)}
                   /\ hs' = [hs EXCEPT ![h] = next]
           lost == /\ hs' = [hs EXCEPT ![h] = Idle]
                   /\ UNCHANGED <<user, pats, links, spent, resetAt, late>>
<1>3. done \/ lost
  BY DEF ConfirmReset, Coming
<1>4. CASE lost
  BY <1>1, <1>4, StopMoves, LinksRest, PatsRest, AccountRests
<1>5. CASE done
  <2>1. /\ user' \in User /\ user'.status = "active" /\ user'.ver = user.ver + 1
        /\ user'.hash = hs[h].pw
    BY <1>1, <1>5, UserTypes
  <2>2. /\ next \in HState /\ next.pc = "issue" /\ next.l = hs[h].l
        /\ next.ver = user'.ver /\ next.pw = hs[h].pw
    BY <1>1, <2>1 DEF HState, PC, User
  <2>3. Vouched(user', next.ver, next.pw) /\ LetsIn(user', next.door)
    BY <1>1, <2>1, <2>2 DEF Vouched, LetsIn
  <2>4. hs' = [hs EXCEPT ![h] = next]
    BY <1>5
  <2>5. Moved(h)
    <3> HIDE DEF next
    <3>1. QED
      BY <1>1, <2>2, <2>3, <2>4, StepMoves DEF Minters
  <2>6. LinkStep(h)
    BY <1>1, <1>2, <1>5, SpendStep
  <2>7. resetAt' \in Versions
    BY <1>5, <2>1 DEF User
  <2>8. AccountStep
    BY <1>1, <1>5, <2>1, <2>7 DEF AccountStep, TypeOK
  <2>9. pats' \in [Pat -> PatRow] /\ \A p \in Pat : pats'[p].state # "active"
    BY <1>1, <1>5, Revoking DEF AllRevoked, TypeOK
  <2>10. PatStep
    BY <1>1, <1>5, <2>9 DEF PatStep, TypeOK
  <2>11. QED
    BY <1>1, <2>5, <2>6, <2>8, <2>10
<1>6. QED
  BY <1>3, <1>4, <1>5

LEMMA TouchHandler ==
  ASSUME IInv, NEW h \in Handler, Touch(h)
  PROVE  Moved(h) /\ LinkStep(h) /\ AccountStep /\ PatStep /\ ops' = ops
<1> USE DEF Go, Finish
<1>1. /\ TypeOK /\ hs[h] \in HState /\ hs[h].pc = "touch" /\ hs[h].at \in Times
      /\ hs' = [hs EXCEPT ![h] = Idle]
      /\ UNCHANGED <<user, links, inbox, sessions, now, ops, spent, resetAt, madeWith, late>>
  BY DEF IInv, TypeOK, Touch, HState, history
<1>2. hs[h].p \in Pat
  BY <1>1 DEF IInv, HandlerInv, BusyWithSomething
<1>3. Moved(h) /\ LinkStep(h) /\ AccountStep
  BY <1>1, StopMoves, LinksRest, AccountRests
<1> DEFINE row == [pats[hs[h].p] EXCEPT !.touched = hs[h].at]
<1>4. /\ row \in PatRow /\ row.state = pats[hs[h].p].state
      /\ row.expires = pats[hs[h].p].expires
  BY <1>1, <1>2 DEF TypeOK, PatRow
<1>5. pats' = pats \/ pats' = [pats EXCEPT ![hs[h].p] = row]
  BY DEF Touch
<1> HIDE DEF row
<1>6. PatStep
  BY <1>1, <1>2, <1>4, <1>5 DEF PatStep, TypeOK
<1>7. QED
  BY <1>1, <1>3, <1>6

\* A request of one statement, or an operator's command.
LEMMA OneStatement ==
  ASSUME IInv,
         \/ \E pw \in Secret : Login(pw) \/ SetPassword(pw) \/ AdminCreateOwner(pw) \/ CreateOwner(pw)
         \/ OAuthRegister \/ OAuthComplete
         \/ \E b \in BOOLEAN : SetBanned(b)
         \/ \E s \in sessions, p \in Pat : RevokePat(s, p)
  PROVE  AccountStep /\ PatStep /\ UNCHANGED <<hs, links, inbox, spent, ops>>
<1>1. /\ TypeOK /\ user \in User /\ user.ver \in Versions /\ user.ver \in Nat
      /\ UNCHANGED <<hs, links, inbox, spent, ops, now, resetAt, madeWith, late>>
  BY ConstantTypes
     DEF IInv, TypeOK, User, Login, SetPassword, AdminCreateOwner, CreateOwner, OAuthRegister,
         OAuthComplete, SetBanned, RevokePat, history
<1>2. ASSUME NEW pw \in Secret, Login(pw)  PROVE AccountStep /\ PatStep
  <2>1. /\ user' = user /\ pats' = pats /\ Vouched(user, user.ver, pw)
        /\ sessions' = sessions \cup {NewSession("login", pw, user.ver)}
        /\ user.status = "active" /\ pw \in Secrets /\ "login" \in Doors
    BY <1>1, <1>2 DEF Login, Exists, Verified, Vouched, User, Secrets, Doors
  <2>2. QED
    BY <1>1, <2>1, IssueStep, PatsRest
<1>3. ASSUME NEW pw \in Secret, SetPassword(pw)  PROVE AccountStep /\ PatStep
  <2>1. /\ user' = WithHash(pw) /\ pats' = pats /\ sessions' = sessions /\ Exists /\ MayBump
        /\ pw \in Secrets
    BY <1>3 DEF SetPassword, Secrets
  <2>2. user' \in User /\ user'.ver = user.ver + 1 /\ user'.status = user.status
    BY <1>1, <2>1, UserTypes
  <2>3. AccountStep
    BY <1>1, <2>1, <2>2 DEF AccountStep, TypeOK, Exists
  <2>4. QED
    BY <1>1, <2>1, <2>3, PatsRest
<1>4. ASSUME NEW pw \in Secret, AdminCreateOwner(pw) \/ CreateOwner(pw)  PROVE AccountStep /\ PatStep
  <2>1. /\ user' = NewUser("active", pw) /\ pats' = pats /\ sessions' = sessions /\ ~Exists
        /\ pw \in Secrets
    BY <1>4 DEF AdminCreateOwner, CreateOwner, Secrets
  <2>2. AccountStep
    BY <1>1, <2>1, UserTypes DEF AccountStep, TypeOK
  <2>3. QED
    BY <1>1, <2>1, <2>2, PatsRest
<1>5. ASSUME NEW b \in BOOLEAN, SetBanned(b)  PROVE AccountStep /\ PatStep
  <2>1. user' = [user EXCEPT !.banned = b] /\ pats' = pats /\ sessions' = sessions
    BY <1>5 DEF SetBanned
  <2>2. /\ user' \in User /\ user'.status = user.status
        /\ user'.ver = user.ver /\ user'.hash = user.hash
    BY <1>1, <2>1 DEF User
  <2>3. AccountStep
    BY <1>1, <2>1, <2>2 DEF AccountStep, TypeOK
  <2>4. QED
    BY <1>1, <2>1, <2>3, PatsRest
<1>6. ASSUME NEW s \in sessions, NEW p \in Pat, RevokePat(s, p)  PROVE AccountStep /\ PatStep
  <2>1. /\ pats' = [pats EXCEPT ![p] = Revoked(pats[p])] /\ pats[p] \in PatRow
        /\ UNCHANGED <<user, sessions>>
    BY <1>1, <1>6 DEF RevokePat, TypeOK
  <2>2. Revoked(pats[p]) \in PatRow /\ Revoked(pats[p]).state # "active"
    BY <1>1, <2>1, Revoking
  <2>3. PatStep
    BY <1>1, <2>1, <2>2 DEF PatStep, TypeOK
  <2>4. QED
    BY <1>1, <2>1, <2>3, AccountRests
<1>7. CASE OAuthRegister
  <2>1. /\ user' = NewUser("active", NoSecret) /\ pats' = pats /\ sessions' = sessions /\ ~Exists
        /\ NoSecret \in Secrets
    BY <1>7 DEF OAuthRegister, Secrets
  <2>2. AccountStep
    BY <1>1, <2>1, UserTypes DEF AccountStep, TypeOK
  <2>3. QED
    BY <1>1, <2>1, <2>2, PatsRest
<1>8. CASE OAuthComplete
  <2>1. /\ user' = user /\ pats' = pats /\ Vouched(user, user.ver, NoSecret)
        /\ sessions' = sessions \cup {NewSession("oauth", NoSecret, user.ver)}
        /\ NoSecret \in Secrets /\ "oauth" \in Doors
    BY <1>1, <1>8 DEF OAuthComplete, Vouched, Secrets, Doors
  <2>2. QED
    BY <1>1, <2>1, IssueStep, PatsRest
<1>9. QED
  BY <1>1, <1>2, <1>3, <1>4, <1>5, <1>6, <1>7, <1>8

-----------------------------------------------------------------------------
(* Such steps keep the invariant *)

LEMMA KeepsAccount ==
  ASSUME IInv, AccountStep
  PROVE  /\ AccountInv'
         /\ \A ver \in Versions, pw \in Secrets : Vouched(user, ver, pw) => Vouched(user', ver, pw)
         /\ \A door \in Doors : LetsIn(user, door) => LetsIn(user', door)
         /\ resetAt' \in {resetAt, user'.ver}
<1>1. /\ user \in User /\ user' \in User /\ user.ver \in Nat /\ user'.ver \in Nat
      /\ resetAt \in Nat /\ resetAt' \in Nat /\ Versions \subseteq Nat
      /\ \A s \in Session : s.ver \in Nat /\ s.since \in Versions /\ s.proof \in Secrets
      /\ sessions \subseteq Session
  BY ConstantTypes DEF IInv, TypeOK, AccountStep, User, Session
<1>2. SessionsVouched /\ NoSessionWhilePending /\ ResetBehind
  BY DEF IInv, AccountInv
<1> DEFINE same == user'.ver = user.ver /\ user'.hash = user.hash
<1>3. /\ same \/ user.ver < user'.ver
      /\ resetAt' \in {resetAt, user'.ver}
      /\ user.status = "active" => user'.status = "active"
      /\ user.status # "none" => user'.status # "none"
  BY <1>1, <1>2 DEF AccountStep, ResetBehind, Exists
<1>4. ResetBehind'
  BY <1>1, <1>2 DEF AccountStep, ResetBehind, Exists
<1>5. ASSUME NEW ver \in Versions, NEW pw \in Secrets, Vouched(user, ver, pw)
      PROVE  Vouched(user', ver, pw)
  <2>1. ver \in Nat
    BY <1>1
  <2>2. QED
    BY <1>1, <1>3, <1>5, <2>1 DEF Vouched
<1>6. \A door \in Doors : LetsIn(user, door) => LetsIn(user', door)
  BY <1>3 DEF LetsIn
<1>7. ASSUME NEW s \in sessions'
      PROVE  /\ s.since <= s.ver /\ s.ver <= user'.ver /\ Vouched(user', s.since, s.proof)
             /\ user'.status = "active" \/ s.door = "oauth"
  <2>1. CASE s \in sessions
    <3>1. /\ s.ver \in Nat /\ s.since \in Versions /\ s.proof \in Secrets
          /\ s.since <= s.ver /\ s.ver <= user.ver /\ Vouched(user, s.since, s.proof)
          /\ user.status = "active" \/ s.door = "oauth"
      BY <1>1, <1>2, <2>1 DEF SessionsVouched, NoSessionWhilePending
    <3>2. s.ver <= user'.ver
      BY <1>1, <1>3, <3>1
    <3>3. QED
      BY <1>3, <1>5, <3>1, <3>2
  <2>2. CASE s \notin sessions
    <3>1. /\ user' = user /\ s \in Session /\ s.ver = user.ver /\ Vouched(user, s.since, s.proof)
          /\ user.status = "active" \/ s.door = "oauth"
      BY <2>2, <1>7 DEF AccountStep
    <3>2. QED
      BY <1>1, <3>1 DEF Vouched
  <2>3. QED
    BY <2>1, <2>2
<1>8. SessionsVouched' /\ NoSessionWhilePending'
  BY <1>7 DEF SessionsVouched, NoSessionWhilePending
<1>9. QED
  BY <1>3, <1>4, <1>5, <1>6, <1>8 DEF AccountInv

LEMMA KeepsHandlers ==
  ASSUME IInv, AccountStep, now' = now, NEW h \in Handler, Moved(h)
  PROVE  HandlerInv'
<1>1. /\ \A ver \in Versions, pw \in Secrets : Vouched(user, ver, pw) => Vouched(user', ver, pw)
      /\ \A door \in Doors : LetsIn(user, door) => LetsIn(user', door)
  BY KeepsAccount
<1>2. BusyWithSomething /\ HandlersVouched /\ IssuingIsLetIn /\ CountedAt
  BY DEF IInv, HandlerInv
<1>3. \A g \in Handler : hs[g].ver \in Versions /\ hs[g].pw \in Secrets /\ hs[g].door \in Doors
  BY DEF IInv, TypeOK, HState
<1>4. BusyWithSomething' /\ CountedAt'
  BY <1>2 DEF Moved, BusyWithSomething, CountedAt
<1>5. HandlersVouched'
  BY <1>1, <1>2, <1>3 DEF Moved, HandlersVouched
<1>6. IssuingIsLetIn'
  BY <1>1, <1>2, <1>3 DEF Moved, IssuingIsLetIn
<1>7. QED
  BY <1>4, <1>5, <1>6 DEF HandlerInv

LEMMA KeepsLinks ==
  ASSUME IInv, NEW h \in Handler, Moved(h), LinkStep(h)
  PROVE  LinkInv'
<1>1. TypeOK /\ BusyWithSomething /\ LinksSpentOnce /\ SpentIsOver /\ MintedOnce
  BY DEF IInv, LinkInv, HandlerInv
<1>2. hs[h].pc = "mint" => hs[h].l \in Link /\ links[hs[h].l].state = "none"
  BY <1>1 DEF BusyWithSomething, MintedOnce, Minters
<1>3. \A l \in Link : spent[l] \in Nat
  BY <1>1 DEF TypeOK
<1>4. LinksSpentOnce' /\ SpentIsOver'
  BY <1>1, <1>2, <1>3 DEF LinkStep, LinksSpentOnce, SpentIsOver
<1>5. ASSUME NEW g \in Handler, hs'[g].pc \in Minters
      PROVE  links'[hs'[g].l].state = "none" /\ \A k \in Handler : k # g => hs'[k].l # hs'[g].l
  <2>1. ASSUME NEW l \in Link, links[l].state = "none", hs[h].l # l \/ hs'[h].pc # "mail"
        PROVE  links'[l].state = "none"
    BY <2>1 DEF LinkStep
  <2>2. NoLink \notin Link
    BY AccountNames
  <2>3. CASE g # h
    <3>1. hs'[g] = hs[g] /\ hs[g].pc \in Minters
      BY <1>5, <2>3 DEF Moved
    <3>2. /\ hs[g].l \in Link /\ links[hs[g].l].state = "none"
          /\ \A k \in Handler : k # g => hs[k].l # hs[g].l
      BY <1>1, <3>1 DEF BusyWithSomething, MintedOnce
    <3>3. links'[hs[g].l].state = "none"
      BY <2>1, <2>3, <3>2
    <3>4. hs'[h].l # hs[g].l
      BY <2>2, <2>3, <3>2 DEF Moved, Takes, Fresh
    <3>5. QED
      BY <2>3, <3>1, <3>2, <3>3, <3>4 DEF Moved
  <2>4. CASE g = h
    <3>1. hs'[h].l \in Link /\ \A k \in Handler : k # h => hs'[k] = hs[k]
      BY <1>5, <2>4 DEF Moved
    <3>2. CASE Fresh(hs'[h].l)
      <4>1. links[hs'[h].l].state = "none" /\ \A k \in Handler : hs[k].l # hs'[h].l
        BY <3>2 DEF Fresh
      <4>2. QED
        BY <2>1, <2>4, <3>1, <4>1
    <3>3. CASE hs[h].pc \in Minters /\ hs'[h].l = hs[h].l
      <4>1. /\ links[hs[h].l].state = "none"
            /\ \A k \in Handler : k # h => hs[k].l # hs[h].l
        BY <1>1, <3>3 DEF MintedOnce
      <4>2. hs'[h].pc # "mail"
        BY <1>5, <2>4 DEF Minters
      <4>3. QED
        BY <2>1, <2>4, <3>1, <3>3, <4>1, <4>2
    <3>4. QED
      BY <1>5, <2>4, <3>2, <3>3 DEF Moved
  <2>5. QED
    BY <2>3, <2>4
<1>6. MintedOnce'
  BY <1>5 DEF MintedOnce
<1>7. QED
  BY <1>4, <1>6 DEF LinkInv

LEMMA KeepsPats ==
  ASSUME IInv, AccountStep, PatStep, hs' = hs \/ \E h \in Handler : Moved(h)
  PROVE  PatInv'
<1>1. TypeOK /\ PatLimit /\ MadeAfterReset /\ ResetBehind
  BY DEF IInv, PatInv, AccountInv
<1>2. \A p \in Pat : Active(p, now)' => Active(p, now)
  BY DEF PatStep, Active
<1> DEFINE worked == {p \in Pat : Active(p, now)}
           work   == {p \in Pat : Active(p, now)'}
<1>3. work \subseteq worked /\ IsFiniteSet(worked)
  BY <1>2, AccountFinite, FS_Subset
<1>4. Cardinality(work) <= Cardinality(worked) /\ Cardinality(work) \in Nat
      /\ Cardinality(worked) \in Nat
  BY <1>3, FS_Subset, FS_CardinalityType
<1>5. Activity(now) = Cardinality(worked) /\ Activity(now)' = Cardinality(work)
  BY DEF Activity, Active
<1> HIDE DEF work, worked
<1>6. PatLimit'
  BY <1>1, <1>4, <1>5, AccountBounds DEF PatLimit
<1>7. ASSUME NEW p \in Pat, (pats[p].state = "active" \/ Coming(p))'
      PROVE  resetAt' <= madeWith'[p] \/ p \in late'
  <2>1. CASE pats[p].state = "active" \/ Coming(p)
    <3>1. resetAt <= madeWith[p] \/ p \in late
      BY <1>1, <2>1 DEF MadeAfterReset
    <3>2. CASE /\ resetAt' = resetAt /\ late' = late
               /\ \A q \in Pat : madeWith'[q] \in {madeWith[q], user.ver}
      BY <1>1, <3>1, <3>2 DEF ResetBehind
    <3>3. CASE /\ late' = {q \in Pat : Coming(q)}
               /\ \A q \in Pat : pats'[q].state # "active"
      <4>1. CASE Coming(p)
        BY <3>3, <4>1
      <4>2. CASE ~Coming(p)
        <5>1. PICK g \in Handler : hs'[g].pc = "pat" /\ hs'[g].p = p
          BY <1>7, <3>3 DEF Coming
        <5>2. hs[g] # hs'[g]
          BY <4>2, <5>1 DEF Coming
        <5>3. madeWith'[p] = user.ver /\ resetAt' = resetAt
          BY <5>1, <5>2 DEF Moved
        <5>4. QED
          BY <1>1, <5>3 DEF ResetBehind
      <4>3. QED
        BY <4>1, <4>2
    <3>4. QED
      BY <3>2, <3>3 DEF PatStep
  <2>2. CASE ~(pats[p].state = "active" \/ Coming(p))
    <3>1. PICK g \in Handler : hs'[g].pc = "pat" /\ hs'[g].p = p
      BY <1>7, <2>2 DEF Coming, PatStep
    <3>2. hs[g] # hs'[g]
      BY <2>2, <3>1 DEF Coming
    <3>3. madeWith'[p] = user.ver /\ resetAt' = resetAt
      BY <3>1, <3>2 DEF Moved
    <3>4. QED
      BY <1>1, <3>3 DEF ResetBehind
  <2>3. QED
    BY <2>1, <2>2
<1>8. QED
  BY <1>6, <1>7 DEF PatInv, MadeAfterReset, Coming

\* Everything the handlers and the other requests do, put together.
LEMMA KeepsInv ==
  ASSUME IInv, AccountStep, PatStep, ops' = ops,
         \/ UNCHANGED <<hs, links, inbox, spent>>
         \/ \E h \in Handler : Moved(h) /\ LinkStep(h)
  PROVE  IInv'
<1>1. TypeOK /\ now' = now
  BY DEF IInv, PatStep
<1>2. /\ \A ver \in Versions, pw \in Secrets : Vouched(user, ver, pw) => Vouched(user', ver, pw)
      /\ \A door \in Doors : LetsIn(user, door) => LetsIn(user', door)
      /\ AccountInv' /\ PatInv'
  BY KeepsAccount, KeepsPats
<1>3. CASE UNCHANGED <<hs, links, inbox, spent>>
  <2>1. BusyWithSomething /\ HandlersVouched /\ IssuingIsLetIn /\ CountedAt
    BY DEF IInv, HandlerInv
  <2>2. \A h \in Handler : /\ hs[h].ver \in Versions /\ hs[h].pw \in Secrets
                             /\ hs[h].door \in Doors
    BY <1>1 DEF TypeOK, HState
  <2>3. BusyWithSomething' /\ CountedAt'
    BY <1>1, <1>3, <2>1 DEF BusyWithSomething, CountedAt
  <2>4. HandlersVouched' /\ IssuingIsLetIn'
    BY <1>2, <1>3, <2>1, <2>2 DEF HandlersVouched, IssuingIsLetIn
  <2>5. LinkInv'
    BY <1>3 DEF IInv, LinkInv, LinksSpentOnce, SpentIsOver, MintedOnce
  <2>6. TypeOK'
    BY <1>1, <1>3 DEF TypeOK, AccountStep, PatStep
  <2>7. QED
    BY <1>2, <2>3, <2>4, <2>5, <2>6 DEF IInv, HandlerInv
<1>4. ASSUME NEW h \in Handler, Moved(h), LinkStep(h)  PROVE IInv'
  <2>1. HandlerInv' /\ LinkInv'
    BY <1>1, <1>4, KeepsHandlers, KeepsLinks
  <2>2. TypeOK'
    BY <1>1, <1>4 DEF TypeOK, AccountStep, PatStep, LinkStep, Moved
  <2>3. QED
    BY <1>2, <2>1, <2>2 DEF IInv
<1>5. QED
  BY <1>3, <1>4

-----------------------------------------------------------------------------
(* A token comes to work, and time passes *)

\* The row is counted in at the handler's clock, which is behind: what works
\* now is among what worked then, and the new one, which was on its way.
LEMMA CreatesPat ==
  ASSUME IInv, NEW h \in Handler, CreatePat(h)
  PROVE  IInv'
<1> DEFINE p == hs[h].p
           row == [state |-> "active", expires |-> hs[h].seen, touched |-> Never]
<1>1. /\ TypeOK /\ hs[h] \in HState /\ hs[h].pc = "pat" /\ hs' = [hs EXCEPT ![h] = Idle]
      /\ UNCHANGED <<user, links, inbox, sessions, now, ops, spent, resetAt, madeWith, late>>
  BY DEF IInv, TypeOK, CreatePat, Finish, Go, history
<1>2. p \in Pat /\ hs[h].at \in Nat /\ now \in Nat /\ hs[h].at <= now /\ Coming(p)
  BY <1>1, ConstantTypes
     DEF IInv, HandlerInv, BusyWithSomething, CountedAt, HState, TypeOK, Coming
<1>3. row \in PatRow
  BY <1>1 DEF PatRow, HState
<1>4. \/ pats' = pats
      \/ UnderLimit(hs[h].at) /\ pats' = [pats EXCEPT ![p] = row]
  BY DEF CreatePat
<1>5. Moved(h) /\ LinkStep(h) /\ AccountStep
  BY <1>1, StopMoves, LinksRest, AccountRests
<1>6. CASE pats' = pats
  BY <1>1, <1>5, <1>6, PatsRest, KeepsInv
<1>7. CASE UnderLimit(hs[h].at) /\ pats' = [pats EXCEPT ![p] = row]
  <2> HIDE DEF p, row
  <2>1. /\ pats' \in [Pat -> PatRow]
        /\ \A q \in Pat : q # p => pats'[q] = pats[q]
    BY <1>1, <1>2, <1>3, <1>7 DEF TypeOK
  <2>2. \A q \in Pat : (pats[q].state = "active" \/ Coming(q))'
                       => pats[q].state = "active" \/ Coming(q)
    BY <1>1, <1>2, <2>1 DEF Coming, TypeOK, Idle
  <2>3. MadeAfterReset'
    BY <1>1, <2>2 DEF IInv, PatInv, MadeAfterReset, Coming
  <2>4. \A q \in Pat : pats[q].expires \in Nat
    BY <1>1, ConstantTypes DEF TypeOK, PatRow
  <2>5. \A q \in Pat : q # p /\ Active(q, now)' => Active(q, hs[h].at)
    BY <1>1, <1>2, <2>1, <2>4 DEF Active
  <2> DEFINE then == {q \in Pat : Active(q, hs[h].at)}
             work == {q \in Pat : Active(q, now)'}
  <2>6. work \subseteq then \cup {p} /\ IsFiniteSet(then)
    BY <2>5, AccountFinite, FS_Subset
  <2>7. Cardinality(then) < MaxPats
    BY <1>7 DEF UnderLimit, Activity
  <2>8. Activity(now)' = Cardinality(work)
    BY DEF Activity, Active
  <2> HIDE DEF then, work
  <2>9. /\ IsFiniteSet(then \cup {p}) /\ Cardinality(then) \in Nat
        /\ Cardinality(then \cup {p}) <= Cardinality(then) + 1
        /\ Cardinality(then \cup {p}) \in Nat
    <3>1. IsFiniteSet(then) /\ Cardinality(then) \in Nat
      BY <2>6, FS_CardinalityType
    <3>2. /\ IsFiniteSet(then \cup {p})
          /\ Cardinality(then \cup {p}) = IF p \in then THEN Cardinality(then)
                                          ELSE Cardinality(then) + 1
      BY <3>1, FS_AddElement
    <3>3. QED
      BY <3>1, <3>2
  <2>10. Cardinality(work) <= Cardinality(then \cup {p}) /\ Cardinality(work) \in Nat
    BY <2>6, <2>9, FS_Subset, FS_CardinalityType
  <2>11. PatLimit'
    BY <2>7, <2>8, <2>9, <2>10, AccountBounds DEF PatLimit
  <2>12. LinkInv'
    BY <1>5, KeepsLinks
  <2>13. HandlerInv'
    BY <1>1, <1>5, KeepsHandlers
  <2>14. AccountInv'
    BY <1>5, KeepsAccount
  <2>15. TypeOK'
    BY <1>1, <1>5, <2>1 DEF TypeOK, Moved
  <2>16. QED
    BY <2>3, <2>11, <2>12, <2>13, <2>14, <2>15 DEF IInv, PatInv
<1>8. QED
  BY <1>4, <1>6, <1>7

LEMMA Ticks ==
  ASSUME IInv, Tick
  PROVE  IInv'
<1>1. /\ TypeOK /\ now \in Nat /\ now' = now + 1 /\ now' \in Times /\ sessions' \subseteq sessions
      /\ UNCHANGED <<user, links, inbox, pats, hs, ops, spent, resetAt, madeWith, late>>
  BY ConstantTypes DEF IInv, TypeOK, Tick, Times, history
<1>2. \A p \in Pat : pats[p].expires \in Nat
  BY <1>1, ConstantTypes DEF TypeOK, PatRow
<1>3. \A p \in Pat : Active(p, now)' => Active(p, now)
  BY <1>1, <1>2 DEF Active
<1>4. AccountStep
  BY <1>1 DEF AccountStep, TypeOK
<1>5. AccountInv'
  BY <1>4, KeepsAccount
<1>6. LinkInv'
  BY <1>1 DEF IInv, LinkInv, LinksSpentOnce, SpentIsOver, MintedOnce
<1>7. \A h \in Handler : hs[h].at \in Nat
  BY <1>1, ConstantTypes DEF TypeOK, HState
<1>8. HandlerInv'
  BY <1>1, <1>7
     DEF IInv, HandlerInv, BusyWithSomething, HandlersVouched, IssuingIsLetIn, CountedAt
<1> DEFINE worked == {p \in Pat : Active(p, now)}
           work   == {p \in Pat : Active(p, now)'}
<1>9. work \subseteq worked /\ IsFiniteSet(worked)
  BY <1>3, AccountFinite, FS_Subset
<1>10. Activity(now) = Cardinality(worked) /\ Activity(now)' = Cardinality(work)
  BY DEF Activity, Active
<1> HIDE DEF work, worked
<1>11. Cardinality(work) <= Cardinality(worked) /\ Cardinality(work) \in Nat
       /\ Cardinality(worked) \in Nat
  BY <1>9, FS_Subset, FS_CardinalityType
<1>12. PatLimit'
  BY <1>10, <1>11, AccountBounds DEF PatLimit, IInv, PatInv
<1>13. MadeAfterReset'
  BY <1>1 DEF IInv, PatInv, MadeAfterReset, Coming
<1>14. TypeOK'
  BY <1>1 DEF TypeOK
<1>15. QED
  BY <1>5, <1>6, <1>8, <1>12, <1>13, <1>14 DEF IInv, PatInv

-----------------------------------------------------------------------------
(* The invariant *)

LEMMA Starts ==
  ASSUME Init
  PROVE  IInv
<1> USE DEF Init
<1>1. TypeOK
  BY ConstantTypes, AccountBounds DEF TypeOK, Versions, Times
<1>2. \A h \in Handler : hs[h].pc = "idle"
  BY DEF Idle
<1>3. HandlerInv /\ MintedOnce
  BY <1>2
     DEF HandlerInv, BusyWithSomething, HandlersVouched, IssuingIsLetIn, Issuing, CountedAt,
         MintedOnce, Minters
<1>4. LinksSpentOnce /\ SpentIsOver
  BY DEF LinksSpentOnce, SpentIsOver
<1>5. AccountInv
  BY DEF AccountInv, SessionsVouched, NoSessionWhilePending, ResetBehind, NoUser
<1>6. \A p \in Pat : pats[p].state = "none" /\ ~Active(p, now)
  BY DEF Active, NoPat
<1>7. MadeAfterReset
  BY <1>2, <1>6 DEF MadeAfterReset, Coming
<1>8. {p \in Pat : Active(p, now)} = {}
  BY <1>6
<1>9. PatLimit
  BY <1>8, FS_EmptySet, AccountBounds DEF PatLimit, Activity
<1>10. QED
  BY <1>1, <1>3, <1>4, <1>5, <1>7, <1>9 DEF IInv, LinkInv, PatInv

LEMMA Steps ==
  ASSUME IInv, [Next]_vars
  PROVE  IInv'
<1>1. ASSUME NEW h \in Handler, HandlerNext(h)  PROVE IInv'
  <2>1. CASE Waits(h)
    <3>1. TypeOK /\ UNCHANGED rest
      BY <2>1, Unchanged DEF IInv
    <3>2. Moved(h) /\ LinkStep(h) /\ AccountStep /\ PatStep /\ ops' = ops
      BY <2>1, <3>1, WaitsMoves, LinksRest, AccountRests, PatsRest DEF rest, history
    <3>3. QED
      BY <3>2, KeepsInv
  <2>2. CASE Replace(h) \/ Mint(h) \/ Mail(h) \/ Claim(h)
    BY <2>2, LinkHandlers, KeepsInv
  <2>3. CASE CreatePending(h) \/ \E l \in Link : AdminCreateUser(h, l)
    BY <2>3, CreateHandlers, KeepsInv
  <2>4. CASE \/ Activate(h) \/ ChangePassword(h)
             \/ IssueVerified(h) \/ IssueChanged(h) \/ IssueReset(h)
    BY <2>4, SessionHandlers, KeepsInv
  <2>5. CASE ConfirmReset(h)
    BY <2>5, ResetHandler, KeepsInv
  <2>6. CASE Touch(h)
    BY <2>6, TouchHandler, KeepsInv
  <2>7. CASE CreatePat(h)
    BY <2>7, CreatesPat
  <2>8. CASE \E s \in sessions, p \in Pat, exp \in {now + 1, Never} : OpenCreate(h, s, p, exp)
    BY <2>8, CreateOpens, KeepsInv
  <2>9. QED
    BY <1>1, <2>1, <2>2, <2>3, <2>4, <2>5, <2>6, <2>7, <2>8 DEF HandlerNext, Waits
<1>2. CASE \/ \E pw \in Secret : Login(pw) \/ SetPassword(pw) \/ AdminCreateOwner(pw) \/ CreateOwner(pw)
           \/ OAuthRegister \/ OAuthComplete
           \/ \E b \in BOOLEAN : SetBanned(b)
           \/ \E s \in sessions, p \in Pat : RevokePat(s, p)
  BY <1>2, OneStatement, KeepsInv
<1>3. CASE Tick
  BY <1>3, Ticks
<1>4. CASE UNCHANGED vars
  <2>1. UNCHANGED <<user, links, inbox, sessions, pats, hs, now, ops, spent, resetAt, madeWith, late>>
    BY <1>4 DEF vars
  <2>2. TypeOK
    BY DEF IInv
  <2>3. AccountStep /\ PatStep
    BY <2>1, <2>2, AccountRests, PatsRest
  <2>4. QED
    BY <2>1, <2>3, KeepsInv
<1>5. QED
  BY <1>1, <1>2, <1>3, <1>4 DEF Next

\* What the handlers, the goroutines, the operator and the clock keep.
THEOREM Inductive == Spec => []IInv
<1>1. Init => IInv
  BY Starts
<1>2. IInv /\ [Next]_vars => IInv'
  BY Steps
<1>3. QED
  BY <1>1, <1>2, PTL DEF Spec

\* Every variable keeps its type.
THEOREM TypeCorrect == Spec => []TypeOK
<1>1. IInv => TypeOK
  BY DEF IInv
<1>2. QED
  BY <1>1, Inductive, PTL

\* Of any number of confirms of one link, one counts.
THEOREM LinksCountOnce == Spec => []LinksSpentOnce
<1>1. IInv => LinksSpentOnce
  BY DEF IInv, LinkInv
<1>2. QED
  BY <1>1, Inductive, PTL

\* No session obtained by proving or setting one password, at login, by a
\* change or by a reset, outlives the setting of another, unless the change or
\* the reset that issued it was itself overtaken by the other one.
THEOREM SessionsFollowPassword == Spec => []PasswordSessionsCurrent
<1>1. IInv => PasswordSessionsCurrent
  <2>1. SUFFICES ASSUME IInv, NEW s \in sessions, s.ver = user.ver, s.proof # NoSecret,
                        s.since >= s.ver
                 PROVE  s.proof = user.hash
    <3>1. ASSUME IInv, NEW s \in sessions  PROVE s.ver \in Nat /\ s.since \in Nat
      BY <3>1, ConstantTypes DEF IInv, TypeOK, Session
    <3>2. QED
      BY <3>1 DEF PasswordSessionsCurrent, Overtaken
  <2>2. s.ver \in Nat /\ s.since \in Nat /\ s.since <= s.ver
    BY <2>1, ConstantTypes DEF IInv, TypeOK, Session, AccountInv, SessionsVouched
  <2>3. QED
    BY <2>1, <2>2 DEF IInv, AccountInv, SessionsVouched, Vouched
<1>2. QED
  BY <1>1, Inductive, PTL

\* A pending account has no session by a login, a verification, a reset or a
\* change: the sign-in with the provider is the only door that opens for it.
THEOREM PendingHasNoSession == Spec => []NoSessionWhilePending
<1>1. IInv => NoSessionWhilePending
  BY DEF IInv, AccountInv
<1>2. QED
  BY <1>1, Inductive, PTL

\* Creations at the limit never leave more tokens working than it allows.
THEOREM LimitHolds == Spec => []PatLimit
<1>1. IInv => PatLimit
  BY DEF IInv, PatInv
<1>2. QED
  BY <1>1, Inductive, PTL

\* A token that works after a reset was asked for with a session from after
\* it, or by a creation the reset found past the middleware.
THEOREM ResetEndsTokens == Spec => []TokensFallWithReset
<1>1. IInv => TokensFallWithReset
  BY DEF IInv, PatInv, MadeAfterReset, TokensFallWithReset, Active
<1>2. QED
  BY <1>1, Inductive, PTL
=============================================================================
