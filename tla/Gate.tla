-------------------------------- MODULE Gate --------------------------------
(***************************************************************************)
(* What stands in front of the handlers, all of it in one process's        *)
(* memory: whose address a request counts against, the failure windows of  *)
(* the login and the access token limiter, and the guard that lets a proof *)
(* of work be spent once.                                                  *)
(*                                                                         *)
(* A limiter is asked before a password is looked at and told after, key   *)
(* by key, each time under its lock: what is allowed to several requests   *)
(* at once is recorded by all of them.                                     *)
(***************************************************************************)
EXTENDS Naturals, FiniteSets, Sequences

CONSTANTS
  Handler,
  Client,     \* addresses of clients
  Proxy,      \* the address of a trusted proxy
  Junk,       \* a forwarded entry that is no address
  Account,    \* names submitted
  Solution,   \* solved challenges, each with its signature
  Workloads,  \* sets of operations: every behaviour is of one of them
  NoSolution,
  Max,        \* maxFailures
  Window,     \* the limiters' window
  TTL,        \* altchaChallengeTTL
  MaxNow      \* bound on the clock

ASSUME GateBounds == Max \in Nat \ {0} /\ Window \in Nat /\ TTL \in Nat /\ MaxNow \in Nat
ASSUME GateNames ==
  /\ Proxy \notin Client /\ Junk \notin Client \cup {Proxy} /\ NoSolution \notin Solution
  /\ Account \cap (Client \cup {Proxy, Junk}) = {}   \* keys of names have a prefix of their own
  /\ IsFiniteSet(Handler)

VARIABLES
  entries,    \* the limiters' failure windows, by key
  lastSweep,  \* by limiter
  issued,     \* when a challenge expires, once it is issued
  seen,       \* the redeemed solutions the guard remembers
  hs,         \* handlers
  now,        \* the clock
  ops,        \* the workload of this behaviour
  tries,      \* history: what a client really used up of his window, by surface
  spent       \* history: redemptions of a solution before its expiry

limiter == <<entries, lastSweep, tries>>
replay  == <<issued, seen, spent>>
vars == <<limiter, replay, hs, now, ops>>

Limiter == {"login", "pat"}
Surface == {"login", "pwreset", "pat"}
Peer    == Client \cup {Proxy}
Times   == 0 .. MaxNow
Ends    == 0 .. MaxNow + Window + TTL
Key     == Surface \X ((Peer \cup {Junk}) \cup Account)
HState  == [pc : {"idle", "name", "check", "token", "fail", "clear", "consume"},
            keys : Seq(Key), who : Client \cup {Junk}, sol : Solution \cup {NoSolution}]

Untracked == [tracked |-> FALSE, failures |-> 0, end |-> 0]
Entry     == {Untracked} \cup [tracked : {TRUE}, end : Ends,
                               failures : 1 .. Max + Cardinality(Handler)]
Idle == [pc |-> "idle", keys |-> <<>>, who |-> Junk, sol |-> NoSolution]

Init ==
  /\ entries = [k \in Key |-> Untracked] /\ lastSweep = [l \in Limiter |-> 0]
  /\ issued = [s \in Solution |-> 0] /\ seen = {}
  /\ hs = [h \in Handler |-> Idle] /\ now = 0 /\ ops \in Workloads
  /\ tries = [x \in Surface \X Client |-> Untracked]
  /\ spent = [s \in Solution |-> 0]

Go(h, next) == hs' = [hs EXCEPT ![h] = next]
At(h, pc)   == hs[h].pc = pc
Finish(h)   == Go(h, Idle)

-----------------------------------------------------------------------------
(* resolveClientIP *)

\* From the nearest hop on past the trusted ones: the client is the first hop
\* that is not trusted, the outermost trusted one if all are, and the peer if
\* a hop cannot be read before that.
Hops(header) == 1 .. Len(header)
FirstHop(peer, header) == IF header = <<>> THEN peer ELSE header[1]   \* faulty: as sent
ClientHop(peer, header) ==
  LET strange == {i \in Hops(header) : header[i] # Proxy}
      last == CHOOSE i \in strange : \A j \in strange : j <= i
  IN IF strange = {} THEN Proxy ELSE IF header[last] = Junk THEN peer ELSE header[last]

\* A header from anybody but a trusted proxy is ignored.
Resolve(peer, header) == IF peer = Proxy THEN ClientHop(peer, header) ELSE peer

\* The client comes straight or through the proxy, which adds his address to
\* whatever header he sent.
Arrival(c, forged) == {Resolve(c, forged), Resolve(Proxy, Append(forged, c))}
Forged  == {<<>>} \cup {<<x>> : x \in Peer \cup {Junk}}
Seen(c) == UNION {Arrival(c, forged) : forged \in Forged}

-----------------------------------------------------------------------------
(* InMemoryLimiter: one instance for the tokens, one for everything else *)

Of(k) == IF k[1] = "pat" THEN "pat" ELSE "login"

Active(e) == e.tracked /\ now <= e.end
Allow(k)  == Active(entries[k]) => entries[k].failures < Max

Counted(e) == [e EXCEPT !.failures = @ + 1]                  \* faulty: opens no window
Bumped(e)  == IF Active(e) THEN [e EXCEPT !.failures = @ + 1]
              ELSE [tracked |-> TRUE, failures |-> 1, end |-> now + Window]

\* At most once a window, every entry whose window has ended is dropped.
DueOnce(l)   == lastSweep[l] = 0 /\ now >= Window            \* faulty: only the first time
SweepDue(l)  == now - lastSweep[l] >= Window
Swept(es, l) ==
  [k \in Key |-> IF SweepDue(l) /\ Of(k) = l /\ ~Active(es[k]) THEN Untracked ELSE es[k]]

\* The history keeps the same account of the client who really asked.
ByAddress(k) == k[2] \notin Account
RecordFailure(h) ==
  LET k == Head(hs[h].keys)  l == Of(k) IN
  /\ At(h, "fail")
  /\ entries' = Swept([entries EXCEPT ![k] = Bumped(@)], l)
  /\ lastSweep' = IF SweepDue(l) THEN [lastSweep EXCEPT ![l] = now] ELSE lastSweep
  /\ tries' = IF ByAddress(k) THEN [tries EXCEPT ![<<k[1], hs[h].who>>] = Bumped(@)] ELSE tries
  /\ IF Len(hs[h].keys) = 1 THEN Finish(h) ELSE Go(h, [hs[h] EXCEPT !.keys = Tail(@)])
  /\ UNCHANGED <<replay, now, ops>>

RecordSuccess(h) ==
  LET k == Head(hs[h].keys) IN
  /\ At(h, "clear")
  /\ entries' = [entries EXCEPT ![k] = Untracked]
  /\ tries' = IF ByAddress(k) THEN [tries EXCEPT ![<<k[1], hs[h].who>>] = Untracked] ELSE tries
  /\ IF Len(hs[h].keys) = 1 THEN Finish(h) ELSE Go(h, [hs[h] EXCEPT !.keys = Tail(@)])
  /\ UNCHANGED <<replay, lastSweep, now, ops>>

-----------------------------------------------------------------------------
(* Login, RequestPasswordReset and serveWithPAT *)

\* The address must be under its limit, and then the name, if there is one.
Admit(h, c, keys, pc) ==
  /\ At(h, "idle") /\ keys[1][1] \in ops /\ Allow(keys[1])
  /\ Go(h, [Idle EXCEPT !.pc = pc, !.keys = keys, !.who = c])
  /\ UNCHANGED <<limiter, replay, now, ops>>

AdmitName(h) ==
  LET k == hs[h].keys[2] IN
  /\ At(h, "name")
  /\ IF Allow(k) THEN Go(h, [hs[h] EXCEPT !.pc = IF k[1] = "login" THEN "check" ELSE "fail"])
     ELSE Finish(h)
  /\ UNCHANGED <<limiter, replay, now, ops>>

Keys(surface, ip, a) == <<<<surface, ip>>, <<surface, a>>>>
Login(h, c, a) == \E ip \in Seen(c) : Admit(h, c, Keys("login", ip, a), "name")

\* A wrong password counts, a session clears both keys; an account that is
\* banned or pending does neither (Abort).
Check(h) ==
  /\ At(h, "check")
  /\ \E pc \in {"fail", "clear"} : Go(h, [hs[h] EXCEPT !.pc = pc])
  /\ UNCHANGED <<limiter, replay, now, ops>>

\* Every reset request counts, whatever it finds, under names of its own.
RequestPasswordReset(h, c, a) ==
  \E ip \in Seen(c) : Admit(h, c, Keys("pwreset", ip, a), "name")

\* A token that is unknown or lapsed counts against the address alone; one
\* that is good clears nothing.
ServeWithPAT(h, c) == \E ip \in Seen(c) : Admit(h, c, <<<<"pat", ip>>>>, "token")
Token(h) ==
  /\ At(h, "token")
  /\ \/ Go(h, [hs[h] EXCEPT !.pc = "fail"]) \/ Finish(h)
  /\ UNCHANGED <<limiter, replay, now, ops>>

-----------------------------------------------------------------------------
(* altchaVerifier *)

Challenge(s) ==
  /\ "captcha" \in ops /\ issued[s] = 0
  /\ issued' = [issued EXCEPT ![s] = now + TTL + 1]
  /\ UNCHANGED <<limiter, seen, spent, hs, now, ops>>

\* The signature and the expiry are checked first, without the guard's lock.
Verify(h, s) ==
  /\ At(h, "idle") /\ issued[s] > 0 /\ now <= issued[s]
  /\ Go(h, [Idle EXCEPT !.pc = "consume", !.sol = s])
  /\ UNCHANGED <<limiter, replay, now, ops>>

\* consume drops what has expired, then takes the solution or refuses it.
LastMinute(s) == issued[s] > now + 1                         \* faulty: forgets too early
Remembered(s) == issued[s] > now
Consume(h) ==
  LET s == hs[h].sol
      live == {x \in seen : Remembered(x)} IN
  /\ At(h, "consume")
  /\ seen' = live \cup {s}
  /\ spent' = IF s \notin live /\ now < issued[s] THEN [spent EXCEPT ![s] = @ + 1] ELSE spent
  /\ Finish(h)
  /\ UNCHANGED <<limiter, issued, now, ops>>

-----------------------------------------------------------------------------
\* A request ends without a word to the limiter: a failing statement, or an
\* account that may not sign in.
Abort(h) == At(h, "check") /\ Finish(h) /\ UNCHANGED <<limiter, replay, now, ops>>

\* Everything but the signatures is in memory.
Restart ==
  /\ entries' = [k \in Key |-> Untracked] /\ lastSweep' = [l \in Limiter |-> now]
  /\ seen' = {} /\ hs' = [h \in Handler |-> Idle]
  /\ tries' = [x \in Surface \X Client |-> Untracked] /\ spent' = [s \in Solution |-> 0]
  /\ UNCHANGED <<issued, now, ops>>

Tick == now < MaxNow /\ now' = now + 1 /\ UNCHANGED <<limiter, replay, hs, ops>>

Next ==
  \/ \E h \in Handler : \/ \E c \in Client, a \in Account : Login(h, c, a)
                                                            \/ RequestPasswordReset(h, c, a)
                        \/ \E c \in Client : ServeWithPAT(h, c)
                        \/ AdmitName(h) \/ Check(h) \/ Token(h) \/ RecordFailure(h) \/ RecordSuccess(h) \/ Abort(h)
                        \/ \E s \in Solution : Verify(h, s)
                        \/ Consume(h)
  \/ \E s \in Solution : Challenge(s)
  \/ Restart \/ Tick

Spec == Init /\ [][Next]_vars

-----------------------------------------------------------------------------
(* Properties *)

\* Every variable keeps its type.
TypeOK ==
  /\ entries \in [Key -> Entry] /\ lastSweep \in [Limiter -> Times]
  /\ issued \in [Solution -> 0 .. MaxNow + TTL + 1] /\ seen \subseteq Solution
  /\ hs \in [Handler -> HState] /\ now \in Times /\ ops \in Workloads
  /\ tries \in [Surface \X Client -> [tracked : BOOLEAN, failures : Nat, end : Ends]]
  /\ spent \in [Solution -> Nat]

\* However he comes and whatever header he forges, a client gets no more
\* failures into a window than the limit and what his other requests have in
\* flight when he reaches it; a login refills no reset window.
AttemptsBounded ==
  \A x \in Surface \X Client : Active(tries[x]) => tries[x].failures < Max + Cardinality(Handler)

\* The map does not grow with old keys: when a failure is recorded, no entry is
\* kept but those whose window is open or ended less than a window ago.
SweepKeepsUp ==
  [][\A h \in Handler : RecordFailure(h) =>
       \A k \in Key : Of(k) = Of(Head(hs[h].keys)) /\ entries'[k].tracked =>
         Active(entries'[k]) \/ entries'[k].end + Window > now]_vars

\* A solution submitted any number of times at once is redeemed once while it
\* lives and the process keeps running.
SolutionOnce == \A s \in Solution : spent[s] <= 1
=============================================================================
