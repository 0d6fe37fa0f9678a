------------------------------ MODULE GateProofs ------------------------------
(***************************************************************************)
(* Gate keeps its promises for any number of handlers, clients, names and  *)
(* solutions, any limit and windows, and whatever header a client forges.  *)
(***************************************************************************)
EXTENDS Gate, TLAPS, FiniteSetTheorems, SequenceTheorems

-----------------------------------------------------------------------------
(* Whose address a request counts against *)

\* However long the header a client sent, the entry the proxy added after it
\* is the one that is taken.
LEMMA NearestHopIsReal ==
  ASSUME NEW c \in Client, NEW peer, NEW forged \in Seq(Peer \cup {Junk})
  PROVE  ClientHop(peer, Append(forged, c)) = c
<1> DEFINE header == Append(forged, c)
           n == Len(forged) + 1
           strange == {i \in Hops(header) : header[i] # Proxy}
           last == CHOOSE i \in strange : \A j \in strange : j <= i
<1>1. c \in Peer \cup {Junk} /\ c # Proxy /\ c # Junk
  BY GateNames DEF Peer
<1>2. /\ Len(header) = n /\ header[n] = c /\ Len(forged) \in Nat
      /\ Hops(header) = 1 .. n
  BY <1>1, AppendProperties, LenProperties DEF Hops
<1>3. n \in strange /\ \A j \in strange : j \in 1 .. n /\ j <= n
  BY <1>1, <1>2
<1>4. last \in strange /\ \A j \in strange : j <= last
  BY <1>3
<1>5. last = n /\ strange # {}
  BY <1>2, <1>3, <1>4
<1>6. ClientHop(peer, header)
        = IF strange = {} THEN Proxy ELSE IF header[last] = Junk THEN peer ELSE header[last]
  BY DEF ClientHop
<1> HIDE DEF strange, last, header, n
<1>7. QED
  BY <1>1, <1>2, <1>5, <1>6 DEF header

\* A client counts under his own address, straight or through the proxy.
THEOREM ArrivesAsHimself ==
  ASSUME NEW c \in Client, NEW forged \in Seq(Peer \cup {Junk})
  PROVE  Arrival(c, forged) = {c}
<1>1. Resolve(c, forged) = c
  BY GateNames DEF Resolve
<1>2. Resolve(Proxy, Append(forged, c)) = c
  BY NearestHopIsReal DEF Resolve
<1>3. QED
  BY <1>1, <1>2 DEF Arrival

LEMMA SeenAsHimself ==
  ASSUME NEW c \in Client, NEW ip \in Seen(c)
  PROVE  ip = c
<1>1. PICK forged \in Forged : ip \in Arrival(c, forged)
  BY DEF Seen
<1>2. forged \in Seq(Peer \cup {Junk})
  <2>1. CASE forged = <<>>
    BY <2>1
  <2>2. ASSUME NEW x \in Peer \cup {Junk}, forged = <<x>>  PROVE forged \in Seq(Peer \cup {Junk})
    BY <2>2
  <2>3. QED
    BY <2>1, <2>2 DEF Forged
<1>3. QED
  BY <1>1, <1>2, ArrivesAsHimself

-----------------------------------------------------------------------------
(* The inductive invariant *)

\* What a request has left to tell: nothing, the key of its address, that and
\* the key of its name, or the name's alone.
ByClient(x) ==
  /\ x.pc \in {"token", "fail", "clear"}
  /\ \E s \in Surface : x.keys = <<<<s, x.who>>>>
ByBoth(x) ==
  /\ x.pc \in {"name", "check", "fail", "clear"}
  /\ \E s \in Surface, a \in Account : x.keys = Keys(s, x.who, a)
ByName(x) ==
  /\ x.pc \in {"fail", "clear"}
  /\ \E s \in Surface, a \in Account : x.keys = <<<<s, a>>>>
Shape(x) ==
  \/ x.pc \in {"idle", "consume"} /\ x.keys = <<>>
  \/ x.who \in Client /\ (ByClient(x) \/ ByBoth(x) \/ ByName(x))

Shapes == \A h \in Handler : Shape(hs[h])

\* The keys it has been let through on and has yet to tell of.
Left(x)     == {x.keys[i] : i \in 1 .. IF x.pc = "name" THEN 1 ELSE Len(x.keys)}
InFlight(k) == {h \in Handler : k \in Left(hs[h])}

\* A key that was let through below the limit has room for all who were.
WindowsBounded ==
  \A k \in Key : Active(entries[k]) =>
    entries[k].failures + Cardinality(InFlight(k)) < Max + Cardinality(Handler)

\* The limiter's account of an open window is the true one.
Mirrors ==
  \A x \in Surface \X Client : Active(entries[x]) \/ Active(tries[x]) => entries[x] = tries[x]

\* The last sweep left nothing whose window had ended.
SweptSince ==
  /\ \A l \in Limiter : lastSweep[l] <= now
  /\ \A k \in Key : entries[k].tracked => entries[k].end >= lastSweep[Of(k)]

\* A redemption is remembered as long as the solution is valid.
SpentKnown ==
  \A s \in Solution :
    \/ spent[s] = 0
    \/ spent[s] = 1 /\ issued[s] > 0 /\ (now < issued[s] => s \in seen)
SolvedOnes == \A h \in Handler : At(h, "consume") => hs[h].sol \in Solution /\ issued[hs[h].sol] > 0

IInv == TypeOK /\ Shapes /\ WindowsBounded /\ Mirrors /\ SweptSince /\ SpentKnown /\ SolvedOnes

-----------------------------------------------------------------------------
(* The keys of a request *)

LEMMA KeysInKey ==
  ASSUME NEW s \in Surface
  PROVE  /\ \A c \in Client : <<s, c>> \in Key /\ ByAddress(<<s, c>>)
         /\ \A a \in Account : <<s, a>> \in Key /\ ~ByAddress(<<s, a>>)
  BY GateNames DEF Key, Peer, ByAddress

LEMMA OneKey ==
  ASSUME NEW p \in Key
  PROVE  /\ <<p>> \in Seq(Key) /\ Len(<<p>>) = 1 /\ <<p>>[1] = p /\ Head(<<p>>) = p
         /\ 1 .. 1 = {1}
  OBVIOUS

LEMMA TwoKeys ==
  ASSUME NEW p \in Key, NEW q \in Key
  PROVE  /\ <<p, q>> \in Seq(Key) /\ Len(<<p, q>>) = 2 /\ <<p, q>>[1] = p /\ <<p, q>>[2] = q
         /\ Head(<<p, q>>) = p /\ Tail(<<p, q>>) = <<q>> /\ 1 .. 2 = {1, 2}
  OBVIOUS

LEMMA LeftNone ==
  ASSUME NEW x, x.keys = <<>>, x.pc # "name"
  PROVE  Left(x) = {}
  BY DEF Left

LEMMA LeftOne ==
  ASSUME NEW x, NEW p \in Key, x.keys = <<p>>, x.pc # "name"
  PROVE  Left(x) = {p}
  BY OneKey DEF Left

LEMMA LeftFirst ==
  ASSUME NEW x, NEW p \in Key, NEW q \in Key, x.keys = <<p, q>>, x.pc = "name"
  PROVE  Left(x) = {p}
  BY OneKey, TwoKeys DEF Left

LEMMA LeftBoth ==
  ASSUME NEW x, NEW p \in Key, NEW q \in Key, x.keys = <<p, q>>, x.pc # "name"
  PROVE  Left(x) = {p, q}
<1>1. Left(x) = {x.keys[i] : i \in {1, 2}}
  BY TwoKeys DEF Left
<1>2. QED
  BY <1>1, TwoKeys

\* The record a request has once it has told of its first key.
After(x) == IF Len(x.keys) = 1 THEN Idle ELSE [x EXCEPT !.keys = Tail(@)]

LEMMA IdleShape == Idle \in HState /\ Shape(Idle) /\ Left(Idle) = {}
<1>1. Idle.keys = <<>> /\ Idle.pc = "idle"
  BY DEF Idle
<1>2. <<>> \in Seq(Key)
  OBVIOUS
<1>3. QED
  BY <1>1, <1>2, LeftNone DEF Idle, HState, Shape

\* Telling of a key leaves the others, and an address told of is the client's.
LEMMA TellsOne ==
  ASSUME NEW x \in HState, Shape(x), x.pc \in {"fail", "clear"}
  PROVE  /\ Head(x.keys) \in Key /\ Head(x.keys) \in Left(x)
         /\ After(x) \in HState /\ Shape(After(x)) /\ After(x).pc # "consume"
         /\ Left(After(x)) = Left(x) \ {Head(x.keys)}
         /\ ByAddress(Head(x.keys)) => x.who \in Client /\ Head(x.keys)[2] = x.who
<1>1. ASSUME NEW p \in Key, x.keys = <<p>>
      PROVE  /\ Head(x.keys) = p /\ Left(x) = {p} /\ After(x) = Idle
    BY <1>1, OneKey, LeftOne DEF After
<1>2. CASE x.who \in Client /\ ByClient(x)
  <2>1. PICK s \in Surface : x.keys = <<<<s, x.who>>>>
    BY <1>2 DEF ByClient
  <2>2. QED
    BY <1>1, <1>2, <2>1, KeysInKey, IdleShape DEF Idle
<1>3. CASE x.who \in Client /\ ByName(x)
  <2>1. PICK s \in Surface, a \in Account : x.keys = <<<<s, a>>>>
    BY <1>3 DEF ByName
  <2>2. QED
    BY <1>1, <2>1, KeysInKey, IdleShape DEF Idle
<1>4. CASE x.who \in Client /\ ByBoth(x)
  <2>1. PICK s \in Surface, a \in Account : x.keys = Keys(s, x.who, a)
    BY <1>4 DEF ByBoth
  <2>2. PICK p \in Key, q \in Key : p = <<s, x.who>> /\ q = <<s, a>>
    BY <1>4, KeysInKey
  <2>3. x.keys = <<p, q>>
    BY <2>1, <2>2 DEF Keys
  <2>4. p # q
    BY <1>4, <2>2, GateNames
  <2>5. /\ Head(x.keys) = p /\ Tail(x.keys) = <<q>> /\ Len(x.keys) = 2 /\ Left(x) = {p, q}
    BY <2>3, TwoKeys, LeftBoth
  <2>6. After(x) = [x EXCEPT !.keys = <<q>>]
    <3>1. After(x) = [x EXCEPT !.keys = Tail(x.keys)]
      BY <2>5 DEF After
    <3>2. QED
      BY <2>5, <3>1
  <2>7. /\ After(x) \in HState /\ After(x).keys = <<q>> /\ After(x).pc = x.pc
        /\ After(x).who = x.who
    BY <2>6, OneKey DEF HState
  <2>8. Left(After(x)) = {q}
    BY <2>7, LeftOne
  <2>9. Shape(After(x))
    BY <1>4, <2>2, <2>7 DEF Shape, ByName
  <2>10. QED
    BY <1>4, <2>2, <2>4, <2>5, <2>7, <2>8, <2>9
<1>5. QED
  BY <1>2, <1>3, <1>4 DEF Shape

-----------------------------------------------------------------------------
(* How many requests are in flight on a key *)

LEMMA FlightsCounted ==
  ASSUME NEW k
  PROVE  /\ IsFiniteSet(InFlight(k)) /\ Cardinality(InFlight(k)) \in Nat
         /\ Cardinality(Handler) \in Nat /\ Cardinality(InFlight(k)) <= Cardinality(Handler)
<1>1. InFlight(k) \subseteq Handler
  BY DEF InFlight
<1>2. QED
  BY <1>1, GateNames, FS_Subset, FS_CardinalityType

LEMMA FlightsPrimed ==
  ASSUME NEW k
  PROVE  /\ IsFiniteSet(InFlight(k)') /\ Cardinality(InFlight(k)') \in Nat
         /\ Cardinality(InFlight(k)') <= Cardinality(Handler)
<1>1. InFlight(k)' \subseteq Handler
  BY DEF InFlight
<1>2. QED
  BY <1>1, GateNames, FS_Subset, FS_CardinalityType

LEMMA NoMoreInFlight ==
  ASSUME NEW k, InFlight(k)' \subseteq InFlight(k)
  PROVE  Cardinality(InFlight(k)') <= Cardinality(InFlight(k))
  BY FlightsCounted, FS_Subset

LEMMA OneLess ==
  ASSUME NEW k, NEW h \in InFlight(k), InFlight(k)' \subseteq InFlight(k) \ {h}
  PROVE  Cardinality(InFlight(k)') + 1 <= Cardinality(InFlight(k))
<1>1. /\ IsFiniteSet(InFlight(k) \ {h})
      /\ Cardinality(InFlight(k) \ {h}) = Cardinality(InFlight(k)) - 1
  BY FlightsCounted, FS_RemoveElement
<1>2. Cardinality(InFlight(k)') <= Cardinality(InFlight(k) \ {h})
  BY <1>1, FS_Subset
<1>3. QED
  BY <1>1, <1>2, FlightsCounted, FlightsPrimed

\* A request that moves changes only its own flights.
LEMMA FlightMoves ==
  ASSUME hs \in [Handler -> HState], NEW h \in Handler, NEW n, hs' = [hs EXCEPT ![h] = n],
         NEW k
  PROVE  /\ (k \in Left(n) => k \in Left(hs[h])) => InFlight(k)' \subseteq InFlight(k)
         /\ k \notin Left(n) => InFlight(k)' \subseteq InFlight(k) \ {h}
<1>1. \A g \in Handler : hs'[g] = IF g = h THEN n ELSE hs[g]
  OBVIOUS
<1>2. InFlight(k)' = {g \in Handler : k \in Left(hs'[g])}
  BY DEF InFlight, Left
<1> HIDE DEF Left
<1>3. QED
  BY <1>1, <1>2 DEF InFlight

-----------------------------------------------------------------------------
(* Steps of a request that only looks *)

LEMMA EntryTypes ==
  ASSUME TypeOK, NEW k \in Key
  PROVE  /\ entries[k] \in Entry /\ entries[k].failures \in Nat /\ entries[k].end \in Ends
         /\ now \in Nat
         /\ Max \in Nat /\ Max > 0 /\ Window \in Nat /\ TTL \in Nat /\ MaxNow \in Nat
         /\ Cardinality(Handler) \in Nat
<1>1. Cardinality(Handler) \in Nat
  BY GateNames, FS_CardinalityType
<1>2. Untracked.failures = 0 /\ Untracked.end = 0
  BY DEF Untracked
<1>3. now \in Nat /\ 0 \in Ends
  BY GateBounds DEF TypeOK, Times, Ends
<1>4. entries[k] \in Entry
  BY DEF TypeOK
<1>5. PICK e : e = entries[k]
  OBVIOUS
<1>6. e.failures \in Nat /\ e.end \in Ends
  <2>1. CASE e = Untracked
    BY <1>2, <1>3, <2>1
  <2>2. CASE e \in [tracked : {TRUE}, end : Ends, failures : 1 .. Max + Cardinality(Handler)]
    BY <1>1, <2>2, GateBounds
  <2>3. QED
    BY <1>4, <1>5, <2>1, <2>2 DEF Entry
<1>7. QED
  BY <1>1, <1>3, <1>4, <1>5, <1>6, GateBounds

\* A request may come to any state of its own as long as it is let through on
\* every key it newly has to tell of, and holds a solved challenge to redeem.
LEMMA Moves ==
  ASSUME IInv, NEW h \in Handler, NEW n \in HState, Shape(n), hs' = [hs EXCEPT ![h] = n],
         UNCHANGED <<limiter, replay, now, ops>>,
         \A k \in Left(n) : k \in Left(hs[h]) \/ Allow(k),
         n.pc = "consume" => n.sol \in Solution /\ issued[n.sol] > 0
  PROVE  IInv'
<1>1. /\ entries' = entries /\ lastSweep' = lastSweep /\ tries' = tries /\ issued' = issued
      /\ seen' = seen /\ spent' = spent /\ now' = now /\ ops' = ops
  BY DEF limiter, replay
<1>2. hs \in [Handler -> HState] /\ \A g \in Handler : hs'[g] = IF g = h THEN n ELSE hs[g]
  BY DEF IInv, TypeOK
<1>3. TypeOK'
  BY <1>1, <1>2 DEF IInv, TypeOK
<1>4. Shapes'
  BY <1>2 DEF IInv, Shapes
<1>5. WindowsBounded'
  <2> SUFFICES ASSUME NEW k \in Key, Active(entries[k])
               PROVE  entries[k].failures + Cardinality(InFlight(k)')
                        < Max + Cardinality(Handler)
    BY <1>1 DEF WindowsBounded, Active
  <2>1. CASE k \in Left(hs[h]) \/ k \notin Left(n)
    <3>1. Cardinality(InFlight(k)') <= Cardinality(InFlight(k))
      BY <1>2, <2>1, FlightMoves, NoMoreInFlight
    <3>2. entries[k].failures + Cardinality(InFlight(k)) < Max + Cardinality(Handler)
      BY DEF IInv, WindowsBounded
    <3>3. QED
      BY <3>1, <3>2, EntryTypes, FlightsCounted, FlightsPrimed DEF IInv
  <2>2. CASE k \notin Left(hs[h]) /\ k \in Left(n)
    <3>1. entries[k].failures < Max
      BY <2>2 DEF Allow
    <3>2. QED
      BY <3>1, EntryTypes, FlightsCounted, FlightsPrimed DEF IInv
  <2>3. QED
    BY <2>1, <2>2
<1>6. Mirrors' /\ SweptSince' /\ SpentKnown'
  BY <1>1 DEF IInv, Mirrors, SweptSince, SpentKnown, Active
<1>7. SolvedOnes'
  BY <1>1, <1>2 DEF IInv, SolvedOnes, At
<1>8. QED
  BY <1>3, <1>4, <1>5, <1>6, <1>7 DEF IInv

LEMMA StopsEarly ==
  ASSUME IInv, NEW h \in Handler, Finish(h), UNCHANGED <<limiter, replay, now, ops>>
  PROVE  IInv'
<1>1. Idle.pc = "idle"
  BY DEF Idle
<1>2. QED
  BY <1>1, IdleShape, Moves DEF Finish, Go

\* Looking at a key or a password takes a request on with the keys it has.
LEMMA GoesOn ==
  ASSUME IInv, NEW h \in Handler, NEW pc, Go(h, [hs[h] EXCEPT !.pc = pc]),
         UNCHANGED <<limiter, replay, now, ops>>,
         \/ At(h, "name") /\ Allow(hs[h].keys[2]) /\ pc \in {"check", "fail"}
         \/ At(h, "check") /\ pc \in {"fail", "clear"}
         \/ At(h, "token") /\ pc = "fail"
  PROVE  IInv'
<1> DEFINE x == hs[h]
           n == [x EXCEPT !.pc = pc]
<1>1. x \in HState /\ Shape(x) /\ hs' = [hs EXCEPT ![h] = n]
  BY DEF IInv, TypeOK, Shapes, Go
<1>2. /\ n \in HState /\ n.pc = pc /\ n.keys = x.keys /\ n.who = x.who
      /\ pc \in {"check", "fail", "clear"}
  BY <1>1 DEF HState
<1>3. x.pc \in {"name", "check", "token"}
  BY DEF At
<1> HIDE DEF n
<1>4. CASE x.who \in Client /\ ByClient(x)
  <2>1. x.pc = "token" /\ pc = "fail"
    BY <1>3, <1>4 DEF ByClient, At
  <2>2. Shape(n)
    BY <1>2, <1>4, <2>1 DEF Shape, ByClient
  <2>3. Left(n) = Left(x)
    BY <1>2, <2>1 DEF Left
  <2>4. QED
    BY <1>1, <1>2, <2>1, <2>2, <2>3, Moves
<1>5. CASE x.who \in Client /\ ByBoth(x)
  <2>1. PICK s \in Surface, a \in Account : x.keys = Keys(s, x.who, a)
    BY <1>5 DEF ByBoth
  <2>2. PICK p \in Key, q \in Key : p = <<s, x.who>> /\ q = <<s, a>>
    BY <1>5, KeysInKey
  <2>3. x.keys = <<p, q>> /\ x.keys[2] = q
    BY <2>1, <2>2, TwoKeys DEF Keys
  <2>4. Shape(n)
    BY <1>2, <1>5 DEF Shape, ByBoth
  <2>5. Left(n) = {p, q}
    BY <1>2, <2>3, LeftBoth
  <2>6. \A k \in Left(n) : k \in Left(x) \/ Allow(k)
    <3>1. CASE x.pc = "name"
      BY <2>3, <2>5, <3>1, LeftFirst DEF At
    <3>2. CASE x.pc # "name"
      BY <2>3, <2>5, <3>2, LeftBoth
    <3>3. QED
      BY <3>1, <3>2
  <2>7. QED
    BY <1>1, <1>2, <2>4, <2>6, Moves
<1>6. QED
  BY <1>1, <1>3, <1>4, <1>5 DEF Shape, ByName

LEMMA Admits ==
  ASSUME IInv, NEW h \in Handler, NEW c \in Client, NEW s \in Surface, NEW pc, NEW keys,
         Admit(h, c, keys, pc),
         \/ pc = "token" /\ keys = <<<<s, c>>>>
         \/ pc = "name" /\ \E a \in Account : keys = Keys(s, c, a)
  PROVE  IInv'
<1> DEFINE n == [Idle EXCEPT !.pc = pc, !.keys = keys, !.who = c]
<1>1. hs' = [hs EXCEPT ![h] = n] /\ Allow(keys[1])
  BY DEF Admit, Go
<1>2. PICK p \in Key : p = <<s, c>>
  BY KeysInKey
<1>3. keys \in Seq(Key) /\ keys[1] = p
  <2>1. CASE pc = "token"
    BY <1>2, <2>1, OneKey
  <2>2. ASSUME NEW a \in Account, keys = Keys(s, c, a)
        PROVE  keys \in Seq(Key) /\ keys[1] = p
    BY <1>2, <2>2, KeysInKey, TwoKeys DEF Keys
  <2>3. QED
    BY <2>1, <2>2
<1>4. /\ n \in HState /\ n.pc = pc /\ n.keys = keys /\ n.who = c
  BY <1>3, IdleShape DEF HState
<1> HIDE DEF n
<1>5. Shape(n)
  BY <1>4 DEF Shape, ByClient, ByBoth
<1>6. Left(n) = {p}
  <2>1. CASE pc = "token"
    BY <1>2, <1>4, <2>1, LeftOne
  <2>2. ASSUME pc = "name", NEW a \in Account, keys = Keys(s, c, a)  PROVE Left(n) = {p}
    BY <1>2, <1>4, <2>2, KeysInKey, LeftFirst DEF Keys
  <2>3. QED
    BY <2>1, <2>2
<1>7. UNCHANGED <<limiter, replay, now, ops>>
  BY DEF Admit
<1>8. QED
  BY <1>1, <1>3, <1>4, <1>5, <1>6, <1>7, Moves

LEMMA Looks ==
  ASSUME IInv, NEW h \in Handler,
         \/ \E c \in Client, a \in Account : Login(h, c, a) \/ RequestPasswordReset(h, c, a)
         \/ \E c \in Client : ServeWithPAT(h, c)
         \/ AdmitName(h) \/ Check(h) \/ Token(h) \/ Abort(h)
         \/ \E s \in Solution : Verify(h, s)
  PROVE  IInv'
<1>1. ASSUME NEW c \in Client, NEW a \in Account, Login(h, c, a)  PROVE IInv'
  BY <1>1, SeenAsHimself, Admits DEF Login, Surface
<1>2. ASSUME NEW c \in Client, NEW a \in Account, RequestPasswordReset(h, c, a)  PROVE IInv'
  BY <1>2, SeenAsHimself, Admits DEF RequestPasswordReset, Surface
<1>3. ASSUME NEW c \in Client, ServeWithPAT(h, c)  PROVE IInv'
  BY <1>3, SeenAsHimself, Admits DEF ServeWithPAT, Surface
<1>4. CASE AdmitName(h)
  BY <1>4, GoesOn, StopsEarly DEF AdmitName
<1>5. CASE Check(h)
  BY <1>5, GoesOn DEF Check
<1>6. CASE Token(h)
  BY <1>6, GoesOn, StopsEarly DEF Token
<1>7. CASE Abort(h)
  BY <1>7, StopsEarly DEF Abort
<1>8. ASSUME NEW s \in Solution, Verify(h, s)  PROVE IInv'
  <2> DEFINE n == [Idle EXCEPT !.pc = "consume", !.sol = s]
  <2>1. /\ hs' = [hs EXCEPT ![h] = n] /\ issued[s] > 0
        /\ UNCHANGED <<limiter, replay, now, ops>>
    BY <1>8 DEF Verify, Go
  <2>2. Idle.keys = <<>>
    BY DEF Idle
  <2>3. n \in HState /\ n.pc = "consume" /\ n.keys = <<>> /\ n.sol = s
    BY <2>2, IdleShape DEF HState
  <2> HIDE DEF n
  <2>4. Shape(n) /\ Left(n) = {}
    BY <2>3, LeftNone DEF Shape
  <2>5. QED
    BY <2>1, <2>3, <2>4, Moves
<1>9. QED
  BY <1>1, <1>2, <1>3, <1>4, <1>5, <1>6, <1>7, <1>8

-----------------------------------------------------------------------------
(* Telling a limiter *)

LEMMA OfLimiter == ASSUME NEW k  PROVE Of(k) \in Limiter
  BY DEF Of, Limiter

LEMMA BumpTyped ==
  ASSUME TypeOK, NEW N \in Nat,
         NEW e \in {Untracked} \cup [tracked : {TRUE}, failures : 1 .. N, end : Ends],
         Active(e) => e.failures < N, N > 0
  PROVE  /\ Bumped(e) \in [tracked : {TRUE}, failures : 1 .. N, end : Ends] /\ Active(Bumped(e))
         /\ Active(e) => Bumped(e).failures = e.failures + 1 /\ Bumped(e).end = e.end
         /\ ~Active(e) => Bumped(e).failures = 1 /\ Bumped(e).end = now + Window
<1>1. /\ now \in Nat /\ now <= MaxNow /\ Window \in Nat /\ TTL \in Nat /\ MaxNow \in Nat
      /\ now + Window \in Ends /\ Ends \subseteq Nat
  BY GateBounds DEF TypeOK, Times, Ends
<1>2. CASE Active(e)
  <2>1. e \in [tracked : {TRUE}, failures : 1 .. N, end : Ends] /\ now <= e.end
    <3>1. ~Untracked.tracked
      BY DEF Untracked
    <3>2. QED
      BY <1>2, <3>1 DEF Active
  <2>2. Bumped(e) = [e EXCEPT !.failures = e.failures + 1]
    BY <1>2 DEF Bumped
  <2>3. e.failures + 1 \in 1 .. N
    BY <1>2, <2>1
  <2>4. QED
    BY <1>1, <1>2, <2>1, <2>2, <2>3 DEF Active
<1>3. CASE ~Active(e)
  <2>1. Bumped(e) = [tracked |-> TRUE, failures |-> 1, end |-> now + Window]
    BY <1>3 DEF Bumped
  <2>2. 1 \in 1 .. N /\ now <= now + Window
    BY <1>1
  <2>3. QED
    BY <1>1, <1>3, <2>1, <2>2 DEF Active
<1>4. QED
  BY <1>2, <1>3

\* What a recorded failure does to the map: its own entry is open and counts
\* one more, and a sweep takes nothing that is open.
LEMMA Fails ==
  ASSUME IInv, NEW h \in Handler, RecordFailure(h), NEW k, k = Head(hs[h].keys)
  PROVE  /\ k \in Key /\ h \in InFlight(k)
         /\ Bumped(entries[k]) \in Entry /\ Bumped(entries[k]).tracked
         /\ entries' \in [Key -> Entry] /\ entries'[k] = Bumped(entries[k])
         /\ Active(entries'[k])
         /\ Active(entries[k]) => entries'[k].failures = entries[k].failures + 1
                                   /\ entries'[k].end = entries[k].end
         /\ ~Active(entries[k]) => entries'[k].failures = 1 /\ entries'[k].end = now + Window
         /\ \A j \in Key \ {k} :
              entries'[j] = entries[j] \/ (entries'[j] = Untracked /\ ~Active(entries[j]))
         /\ SweepDue(Of(k)) => \A j \in Key : Of(j) = Of(k) /\ entries'[j].tracked =>
                                   Active(entries'[j])
<1> DEFINE B == [entries EXCEPT ![k] = Bumped(@)]
           N == Max + Cardinality(Handler)
<1>1. hs[h] \in HState /\ Shape(hs[h]) /\ hs[h].pc = "fail" /\ entries' = Swept(B, Of(k))
  BY DEF RecordFailure, At, IInv, TypeOK, Shapes
<1>2. k \in Key /\ k \in Left(hs[h])
  BY <1>1, TellsOne
<1>3. h \in InFlight(k)
  BY <1>2 DEF InFlight
<1>4. N \in Nat /\ N > 0 /\ Entry = {Untracked} \cup [tracked : {TRUE}, failures : 1 .. N, end : Ends]
  <2>1. N \in Nat /\ N > 0
    BY <1>2, EntryTypes DEF IInv
  <2>2. [tracked : {TRUE}, end : Ends, failures : 1 .. N]
          = [tracked : {TRUE}, failures : 1 .. N, end : Ends]
    OBVIOUS
  <2>3. QED
    BY <2>1, <2>2 DEF Entry
<1>5. Active(entries[k]) => entries[k].failures < N
  <2>1. Cardinality(InFlight(k)) \in Nat
    BY FlightsCounted
  <2>2. Active(entries[k]) => entries[k].failures + Cardinality(InFlight(k)) < N
    BY <1>2 DEF IInv, WindowsBounded
  <2>3. entries[k].failures \in Nat
    BY <1>2, EntryTypes DEF IInv
  <2>4. QED
    BY <1>4, <2>1, <2>2, <2>3
<1>6. entries \in [Key -> Entry] /\ entries[k] \in Entry
  BY <1>2 DEF IInv, TypeOK
<1> HIDE DEF N
<1>7. /\ Bumped(entries[k]) \in [tracked : {TRUE}, failures : 1 .. N, end : Ends]
      /\ Active(Bumped(entries[k]))
      /\ Active(entries[k]) => Bumped(entries[k]).failures = entries[k].failures + 1
                                /\ Bumped(entries[k]).end = entries[k].end
      /\ ~Active(entries[k]) => Bumped(entries[k]).failures = 1
                                /\ Bumped(entries[k]).end = now + Window
  BY <1>4, <1>5, <1>6, BumpTyped DEF IInv
<1>8. Bumped(entries[k]) \in Entry /\ Bumped(entries[k]).tracked
  BY <1>4, <1>7
<1>9. /\ B \in [Key -> Entry] /\ B[k] = Bumped(entries[k])
      /\ \A j \in Key \ {k} : B[j] = entries[j]
  BY <1>2, <1>6, <1>8
<1> HIDE DEF B
<1>10. /\ \A j \in Key : entries'[j] = IF SweepDue(Of(k)) /\ Of(j) = Of(k) /\ ~Active(B[j])
                                       THEN Untracked ELSE B[j]
       /\ entries' \in [Key -> Entry]
  BY <1>1, <1>9 DEF Swept, Entry
<1>11. entries'[k] = Bumped(entries[k])
  BY <1>2, <1>7, <1>9, <1>10
<1>12. \A j \in Key \ {k} :
              entries'[j] = entries[j] \/ (entries'[j] = Untracked /\ ~Active(entries[j]))
  BY <1>9, <1>10
<1>13. ~Untracked.tracked
  BY DEF Untracked
<1>14. SweepDue(Of(k)) => \A j \in Key : Of(j) = Of(k) /\ entries'[j].tracked => Active(entries'[j])
  BY <1>10, <1>13
<1>15. QED
  BY <1>2, <1>3, <1>7, <1>8, <1>10, <1>11, <1>12, <1>14

\* The request that told of a key has it no longer, and keeps its others.
LEMMA TellerMoves ==
  ASSUME IInv, NEW h \in Handler, RecordFailure(h) \/ RecordSuccess(h),
         NEW k, k = Head(hs[h].keys)
  PROVE  /\ hs' \in [Handler -> HState] /\ Shapes'
         /\ \A g \in Handler : At(g, "consume")' => At(g, "consume") /\ hs'[g] = hs[g]
         /\ InFlight(k)' \subseteq InFlight(k) \ {h}
         /\ \A j : InFlight(j)' \subseteq InFlight(j)
<1>1. hs[h] \in HState /\ Shape(hs[h]) /\ hs[h].pc \in {"fail", "clear"}
  BY DEF RecordFailure, RecordSuccess, At, IInv, TypeOK, Shapes
<1>2. hs' = [hs EXCEPT ![h] = After(hs[h])]
  <2>1. hs' = IF Len(hs[h].keys) = 1 THEN [hs EXCEPT ![h] = Idle]
              ELSE [hs EXCEPT ![h] = [hs[h] EXCEPT !.keys = Tail(@)]]
    BY DEF RecordFailure, RecordSuccess, Finish, Go
  <2>2. QED
    BY <2>1 DEF After
<1>3. /\ After(hs[h]) \in HState /\ Shape(After(hs[h])) /\ After(hs[h]).pc # "consume"
      /\ Left(After(hs[h])) = Left(hs[h]) \ {k}
  BY <1>1, TellsOne
<1>4. hs \in [Handler -> HState]
  BY DEF IInv, TypeOK
<1>5. \A g \in Handler : hs'[g] = IF g = h THEN After(hs[h]) ELSE hs[g]
  BY <1>2, <1>4
<1>6. hs' \in [Handler -> HState] /\ Shapes'
  BY <1>2, <1>3, <1>4, <1>5 DEF IInv, Shapes
<1>7. \A g \in Handler : At(g, "consume")' => At(g, "consume") /\ hs'[g] = hs[g]
  BY <1>3, <1>5 DEF At
<1>8. /\ InFlight(k)' \subseteq InFlight(k) \ {h}
      /\ \A j : InFlight(j)' \subseteq InFlight(j)
  BY <1>2, <1>3, <1>4, FlightMoves
<1>9. QED
  BY <1>6, <1>7, <1>8

\* The bound survives for a key nothing was recorded on.
LEMMA RoomStays ==
  ASSUME IInv, NEW k \in Key, InFlight(k)' \subseteq InFlight(k), now' = now,
         entries'[k] = entries[k] \/ ~Active(entries'[k])
  PROVE  Active(entries'[k]) =>
           entries'[k].failures + Cardinality(InFlight(k)') < Max + Cardinality(Handler)
<1> SUFFICES ASSUME Active(entries'[k])
             PROVE  entries[k].failures + Cardinality(InFlight(k)') < Max + Cardinality(Handler)
  OBVIOUS
<1>1. entries[k].failures + Cardinality(InFlight(k)) < Max + Cardinality(Handler)
  BY DEF IInv, WindowsBounded
<1>2. QED
  BY <1>1, NoMoreInFlight, FlightsCounted, FlightsPrimed, EntryTypes DEF IInv

LEMMA Failures ==
  ASSUME IInv, NEW h \in Handler, RecordFailure(h)
  PROVE  IInv'
<1>1. PICK k : k = Head(hs[h].keys)
  OBVIOUS
<1>2. /\ issued' = issued /\ seen' = seen /\ spent' = spent /\ now' = now /\ ops' = ops
      /\ At(h, "fail")
      /\ lastSweep' = IF SweepDue(Of(k)) THEN [lastSweep EXCEPT ![Of(k)] = now] ELSE lastSweep
      /\ tries' = IF ByAddress(k) THEN [tries EXCEPT ![<<k[1], hs[h].who>>] = Bumped(@)] ELSE tries
  BY <1>1 DEF RecordFailure, replay
<1>3. /\ k \in Key /\ h \in InFlight(k) /\ entries' \in [Key -> Entry]
      /\ entries'[k] = Bumped(entries[k]) /\ Active(entries'[k])
  BY <1>1, Fails
<1>4. \A j \in Key \ {k} :
              entries'[j] = entries[j] \/ (entries'[j] = Untracked /\ ~Active(entries[j]))
  BY <1>1, Fails
<1>5. ~Active(Untracked)
  BY DEF Active, Untracked
<1>6. /\ hs[h] \in HState /\ (ByAddress(k) => hs[h].who \in Client /\ k[2] = hs[h].who)
  BY <1>1, <1>2, TellsOne DEF At, IInv, TypeOK, Shapes
<1>7. ByAddress(k) => k \in Surface \X Client /\ k = <<k[1], hs[h].who>>
  BY <1>3, <1>6 DEF Key
<1>8. tries \in [Surface \X Client -> [tracked : BOOLEAN, failures : Nat, end : Ends]]
  BY DEF IInv, TypeOK
<1>9. \A y \in Surface \X Client : tries'[y] = IF y = k THEN Bumped(tries[y]) ELSE tries[y]
  <2>1. \A y \in Surface \X Client : ByAddress(y)
    BY KeysInKey
  <2>2. CASE ByAddress(k)
    BY <1>2, <1>7, <1>8, <2>2
  <2>3. CASE ~ByAddress(k)
    BY <1>2, <2>1, <2>3
  <2>4. QED
    BY <2>2, <2>3
<1>10. TypeOK'
  <2>1. tries' \in [Surface \X Client -> [tracked : BOOLEAN, failures : Nat, end : Ends]]
    <3>1. now + Window \in Ends /\ now \in Nat
      BY GateBounds DEF IInv, TypeOK, Times, Ends
    <3>2. \A e \in [tracked : BOOLEAN, failures : Nat, end : Ends] :
            Bumped(e) \in [tracked : BOOLEAN, failures : Nat, end : Ends]
      BY <3>1 DEF Bumped
    <3>3. QED
      BY <1>2, <1>7, <1>8, <3>2
  <2>2. lastSweep' \in [Limiter -> Times]
    BY <1>2, OfLimiter DEF IInv, TypeOK
  <2>3. hs' \in [Handler -> HState]
    BY <1>1, TellerMoves
  <2>4. QED
    BY <1>2, <1>3, <2>1, <2>2, <2>3 DEF IInv, TypeOK
<1>11. Shapes' /\ SpentKnown' /\ SolvedOnes'
  BY <1>1, <1>2, TellerMoves DEF IInv, SpentKnown, SolvedOnes, At
<1>12. WindowsBounded'
  <2> SUFFICES ASSUME NEW j \in Key
               PROVE  Active(entries'[j]) =>
                        entries'[j].failures + Cardinality(InFlight(j)') < Max + Cardinality(Handler)
    BY <1>2 DEF WindowsBounded, Active
  <2>1. CASE j # k
    BY <1>1, <1>2, <1>4, <1>5, <2>1, TellerMoves, RoomStays
  <2>2. CASE j = k
    <3>1. Cardinality(InFlight(k)') + 1 <= Cardinality(InFlight(k))
      BY <1>1, <1>3, TellerMoves, OneLess
    <3>2. CASE Active(entries[k])
      <4>1. entries'[k].failures = entries[k].failures + 1
        BY <1>1, <3>2, Fails
      <4>2. entries[k].failures + Cardinality(InFlight(k)) < Max + Cardinality(Handler)
        BY <1>3, <3>2 DEF IInv, WindowsBounded
      <4>3. QED
        BY <1>3, <2>2, <3>1, <4>1, <4>2, FlightsCounted, FlightsPrimed, EntryTypes DEF IInv
    <3>3. CASE ~Active(entries[k])
      <4>1. entries'[k].failures = 1
        BY <1>1, <3>3, Fails
      <4>2. QED
        BY <1>3, <2>2, <3>1, <4>1, FlightsCounted, FlightsPrimed, EntryTypes DEF IInv
    <3>4. QED
      BY <3>2, <3>3
  <2>3. QED
    BY <2>1, <2>2
<1>13. Mirrors'
  <2> SUFFICES ASSUME NEW y \in Surface \X Client, Active(entries'[y]) \/ Active(tries'[y])
               PROVE  entries'[y] = tries'[y]
    BY <1>2 DEF Mirrors, Active
  <2>1. Active(entries[y]) \/ Active(tries[y]) => entries[y] = tries[y]
    BY DEF IInv, Mirrors
  <2>2. y \in Key
    BY KeysInKey
  <2>3. CASE y = k
    BY <1>3, <1>9, <2>1, <2>3 DEF Bumped
  <2>4. CASE y # k
    BY <1>4, <1>5, <1>9, <2>1, <2>2, <2>4
  <2>5. QED
    BY <2>3, <2>4
<1>14. SweptSince'
  <2>1. now \in Nat /\ lastSweep \in [Limiter -> Times] /\ Times \subseteq Nat /\ Window \in Nat
    BY GateBounds DEF IInv, TypeOK, Times
  <2>2. \A l \in Limiter : lastSweep[l] <= now /\ lastSweep'[l] \in Nat /\ lastSweep'[l] <= now
    <3>1. \A l \in Limiter : lastSweep[l] \in Nat /\ lastSweep[l] <= now
      BY <2>1 DEF IInv, SweptSince
    <3>2. CASE SweepDue(Of(k))
      <4>1. \A l \in Limiter : lastSweep'[l] = IF l = Of(k) THEN now ELSE lastSweep[l]
        BY <1>2, <2>1, <3>2, OfLimiter
      <4>2. QED
        BY <2>1, <3>1, <4>1
    <3>3. CASE ~SweepDue(Of(k))
      BY <1>2, <3>1, <3>3
    <3>4. QED
      BY <3>2, <3>3
  <2>3. ASSUME NEW j \in Key, entries'[j].tracked
        PROVE  entries'[j].end >= lastSweep'[Of(j)]
    <3>1. CASE Active(entries'[j])
      <4>1. now <= entries'[j].end /\ entries'[j].end \in Nat
        <5>1. entries'[j] # Untracked
          BY <1>5, <3>1
        <5>2. entries'[j].end \in Nat
          <6>1. entries'[j] \in [tracked : {TRUE}, end : Ends,
                                 failures : 1 .. Max + Cardinality(Handler)]
            BY <1>3, <5>1 DEF Entry
          <6>2. Ends \subseteq Nat
            BY GateBounds DEF Ends
          <6>3. QED
            BY <6>1, <6>2
        <5>3. QED
          BY <3>1, <5>2 DEF Active
      <4>2. QED
        BY <2>1, <2>2, <4>1, OfLimiter
    <3>2. CASE ~Active(entries'[j])
      <4>1. entries'[j] = entries[j]
        BY <1>3, <1>4, <2>3, <3>2 DEF Untracked
      <4>2. ~(SweepDue(Of(k)) /\ Of(j) = Of(k))
        BY <1>1, <2>3, <3>2, Fails
      <4>3. lastSweep'[Of(j)] = lastSweep[Of(j)]
        BY <1>2, <2>1, <4>2, OfLimiter
      <4>4. QED
        BY <2>3, <4>1, <4>3 DEF IInv, SweptSince
    <3>3. QED
      BY <3>1, <3>2
  <2>4. QED
    BY <1>2, <2>2, <2>3 DEF SweptSince, Of
<1>15. QED
  BY <1>10, <1>11, <1>12, <1>13, <1>14 DEF IInv

LEMMA Successes ==
  ASSUME IInv, NEW h \in Handler, RecordSuccess(h)
  PROVE  IInv'
<1>1. PICK k : k = Head(hs[h].keys)
  OBVIOUS
<1>2. /\ issued' = issued /\ seen' = seen /\ spent' = spent /\ now' = now /\ ops' = ops
      /\ lastSweep' = lastSweep /\ At(h, "clear") /\ entries' = [entries EXCEPT ![k] = Untracked]
      /\ tries' = IF ByAddress(k) THEN [tries EXCEPT ![<<k[1], hs[h].who>>] = Untracked] ELSE tries
  BY <1>1 DEF RecordSuccess, replay
<1>3. /\ k \in Key /\ ~Active(Untracked) /\ ~Untracked.tracked /\ Untracked \in Entry
      /\ entries \in [Key -> Entry]
      /\ tries \in [Surface \X Client -> [tracked : BOOLEAN, failures : Nat, end : Ends]]
  BY <1>1, <1>2, TellsOne DEF At, IInv, TypeOK, Shapes, Active, Untracked, Entry
<1>4. ByAddress(k) => hs[h].who \in Client /\ k = <<k[1], hs[h].who>>
  <2>1. ByAddress(k) => hs[h].who \in Client /\ k[2] = hs[h].who
    BY <1>1, <1>2, TellsOne DEF At, IInv, TypeOK, Shapes
  <2>2. QED
    BY <1>3, <2>1 DEF Key
<1>5. Untracked \in [tracked : BOOLEAN, failures : Nat, end : Ends]
  BY GateBounds DEF Untracked, Ends
<1>6. /\ \A j \in Key : entries'[j] = IF j = k THEN Untracked ELSE entries[j]
      /\ \A y \in Surface \X Client : y # k => tries'[y] = tries[y]
      /\ k \in Surface \X Client => tries'[k] = Untracked
  <2>1. k \in Surface \X Client => ByAddress(k)
    BY KeysInKey
  <2>2. QED
    BY <1>2, <1>3, <1>4, <2>1
<1>7. TypeOK'
  <2>1. hs' \in [Handler -> HState]
    BY <1>1, TellerMoves
  <2>2. QED
    BY <1>2, <1>3, <1>5, <2>1 DEF IInv, TypeOK
<1>8. Shapes' /\ SpentKnown' /\ SolvedOnes'
  BY <1>1, <1>2, TellerMoves DEF IInv, SpentKnown, SolvedOnes, At
<1>9. WindowsBounded'
  BY <1>1, <1>2, <1>3, <1>6, TellerMoves, RoomStays DEF WindowsBounded, Active
<1>10. Mirrors'
  <2> SUFFICES ASSUME NEW y \in Surface \X Client, Active(entries'[y]) \/ Active(tries'[y])
               PROVE  entries'[y] = tries'[y]
    BY <1>2 DEF Mirrors, Active
  <2>1. Active(entries[y]) \/ Active(tries[y]) => entries[y] = tries[y]
    BY DEF IInv, Mirrors
  <2>2. y \in Key
    BY KeysInKey
  <2>3. QED
    BY <1>6, <2>1, <2>2
<1>11. SweptSince'
  BY <1>2, <1>3, <1>6 DEF IInv, SweptSince, Of
<1>12. QED
  BY <1>7, <1>8, <1>9, <1>10, <1>11 DEF IInv

-----------------------------------------------------------------------------
(* The proof of work *)

LEMMA Consumes ==
  ASSUME IInv, NEW h \in Handler, Consume(h)
  PROVE  /\ IInv'
         /\ \A s \in Solution : spent'[s] # spent[s] => spent[s] = 0
<1> DEFINE s == hs[h].sol
           live == {x \in seen : Remembered(x)}
<1>1. /\ s \in Solution /\ issued[s] > 0
  BY DEF IInv, SolvedOnes, Consume
<1>2. /\ entries' = entries /\ lastSweep' = lastSweep /\ tries' = tries /\ issued' = issued
      /\ now' = now /\ ops' = ops /\ hs' = [hs EXCEPT ![h] = Idle]
      /\ seen' = live \cup {s}
      /\ spent' = IF s \notin live /\ now < issued[s] THEN [spent EXCEPT ![s] = @ + 1] ELSE spent
  BY DEF Consume, limiter, Finish, Go
<1>3. /\ now \in Nat /\ issued \in [Solution -> Nat] /\ spent \in [Solution -> Nat]
      /\ seen \subseteq Solution /\ hs \in [Handler -> HState]
  BY GateBounds DEF IInv, TypeOK, Times
<1>4. \A x \in Solution : spent[x] > 0 /\ now < issued[x] => x \in live
  BY <1>3 DEF IInv, SpentKnown, Remembered
<1> HIDE DEF live, s
<1>5. \A x \in Solution : spent'[x] # spent[x] => x = s /\ spent[x] = 0 /\ spent'[x] = 1
  BY <1>1, <1>2, <1>3, <1>4
<1>6. SpentKnown'
  BY <1>1, <1>2, <1>3, <1>4, <1>5 DEF IInv, SpentKnown
<1>7. Idle.pc # "consume"
  BY DEF Idle
<1>8. live \cup {s} \subseteq Solution
  BY <1>1, <1>3 DEF live
<1>9. TypeOK'
  BY <1>2, <1>3, <1>5, <1>8, IdleShape DEF IInv, TypeOK
<1>10. Shapes' /\ SolvedOnes'
  BY <1>2, <1>3, <1>7, IdleShape DEF IInv, Shapes, SolvedOnes, At
<1>11. WindowsBounded'
  <2>1. \A k : InFlight(k)' \subseteq InFlight(k)
    BY <1>2, <1>3, IdleShape, FlightMoves
  <2>2. QED
    BY <1>2, <2>1, RoomStays DEF WindowsBounded, Active
<1>12. Mirrors' /\ SweptSince'
  BY <1>2 DEF IInv, Mirrors, SweptSince, Active, Of
<1>13. QED
  BY <1>5, <1>6, <1>9, <1>10, <1>11, <1>12 DEF IInv

LEMMA Challenges ==
  ASSUME IInv, NEW s \in Solution, Challenge(s)
  PROVE  IInv'
<1>1. /\ entries' = entries /\ lastSweep' = lastSweep /\ tries' = tries /\ hs' = hs
      /\ now' = now /\ ops' = ops /\ seen' = seen /\ spent' = spent
      /\ issued[s] = 0 /\ issued' = [issued EXCEPT ![s] = now + TTL + 1]
  BY DEF Challenge, limiter
<1>2. now \in Nat /\ now + TTL + 1 \in 0 .. MaxNow + TTL + 1 /\ now + TTL + 1 > 0
  BY GateBounds DEF IInv, TypeOK, Times
<1>3. TypeOK'
  BY <1>1, <1>2 DEF IInv, TypeOK
<1>4. issued \in [Solution -> Nat] /\ spent \in [Solution -> Nat]
  BY GateBounds DEF IInv, TypeOK
<1>5. SpentKnown' /\ SolvedOnes'
  BY <1>1, <1>2, <1>4 DEF IInv, SpentKnown, SolvedOnes, At
<1>6. Shapes' /\ WindowsBounded' /\ Mirrors' /\ SweptSince'
  BY <1>1 DEF IInv, Shapes, WindowsBounded, InFlight, Mirrors, SweptSince, Active
<1>7. QED
  BY <1>3, <1>5, <1>6 DEF IInv

-----------------------------------------------------------------------------
(* Time, restarts and the beginning *)

LEMMA Ticks ==
  ASSUME IInv, Tick
  PROVE  IInv'
<1>1. /\ entries' = entries /\ lastSweep' = lastSweep /\ tries' = tries /\ hs' = hs
      /\ ops' = ops /\ seen' = seen /\ spent' = spent /\ issued' = issued
      /\ now' = now + 1 /\ now < MaxNow
  BY DEF Tick, limiter, replay
<1>2. now \in Nat /\ now' \in Times
  BY <1>1, GateBounds DEF IInv, TypeOK, Times
<1>3. TypeOK'
  BY <1>1, <1>2 DEF IInv, TypeOK
<1>4. /\ issued \in [Solution -> Nat] /\ lastSweep \in [Limiter -> Nat]
  BY GateBounds DEF IInv, TypeOK, Times
<1>5. /\ \A k \in Key : entries[k].end \in Nat
      /\ \A y \in Surface \X Client : tries[y].end \in Nat
  <2>1. Ends \subseteq Nat
    BY GateBounds DEF Ends
  <2>2. QED
    BY <2>1, EntryTypes DEF IInv, TypeOK
<1>6. /\ \A k \in Key : Active(entries[k])' => Active(entries[k])
      /\ \A y \in Surface \X Client : Active(tries[y])' => Active(tries[y])
  BY <1>1, <1>2, <1>5 DEF Active
<1>7. WindowsBounded'
  BY <1>1, <1>6 DEF IInv, WindowsBounded, InFlight
<1>8. Mirrors'
  <2>1. \A y \in Surface \X Client : y \in Key
    BY KeysInKey
  <2>2. QED
    BY <1>1, <1>6, <2>1 DEF IInv, Mirrors
<1>9. SweptSince' /\ SpentKnown'
  BY <1>1, <1>2, <1>4 DEF IInv, SweptSince, SpentKnown, Of
<1>10. Shapes' /\ SolvedOnes'
  BY <1>1 DEF IInv, Shapes, SolvedOnes, At
<1>11. QED
  BY <1>3, <1>7, <1>8, <1>9, <1>10 DEF IInv

LEMMA UntrackedTypes ==
  /\ ~Untracked.tracked /\ Untracked \in Entry
  /\ Untracked \in [tracked : BOOLEAN, failures : Nat, end : Ends]
  BY GateBounds DEF Untracked, Entry, Ends

\* Nothing of a process is left after a restart, but the signatures' expiry.
LEMMA Restarts ==
  ASSUME IInv, Restart
  PROVE  IInv'
<1>1. /\ entries' = [k \in Key |-> Untracked] /\ lastSweep' = [l \in Limiter |-> now]
      /\ seen' = {} /\ hs' = [h \in Handler |-> Idle]
      /\ tries' = [x \in Surface \X Client |-> Untracked] /\ spent' = [s \in Solution |-> 0]
      /\ issued' = issued /\ now' = now /\ ops' = ops
  BY DEF Restart
<1>2. now \in Nat /\ now <= now
  BY GateBounds DEF IInv, TypeOK, Times
<1>3. /\ \A k \in Key : ~entries'[k].tracked
      /\ \A x \in Surface \X Client : ~tries'[x].tracked /\ x \in Key
  BY <1>1, UntrackedTypes, KeysInKey
<1>4. TypeOK'
  BY <1>1, UntrackedTypes, IdleShape DEF IInv, TypeOK
<1>5. WindowsBounded' /\ Mirrors' /\ SweptSince' /\ SpentKnown'
  BY <1>1, <1>2, <1>3 DEF WindowsBounded, Mirrors, SweptSince, SpentKnown, Active
<1>6. Shapes' /\ SolvedOnes'
  BY <1>1, IdleShape DEF Shapes, SolvedOnes, At, Idle
<1>7. QED
  BY <1>4, <1>5, <1>6 DEF IInv

LEMMA Starts == Init => IInv
<1> SUFFICES ASSUME Init  PROVE IInv
  OBVIOUS
<1>1. 0 \in Times /\ 0 \in 0 .. MaxNow + TTL + 1 /\ 0 <= 0
  BY GateBounds DEF Times
<1>2. /\ \A k \in Key : ~entries[k].tracked
      /\ \A x \in Surface \X Client : ~tries[x].tracked /\ x \in Key
  BY UntrackedTypes, KeysInKey DEF Init
<1>3. TypeOK
  BY <1>1, UntrackedTypes, IdleShape DEF Init, TypeOK
<1>4. WindowsBounded /\ Mirrors /\ SweptSince /\ SpentKnown
  BY <1>1, <1>2 DEF Init, WindowsBounded, Mirrors, SweptSince, SpentKnown, Active
<1>5. Shapes /\ SolvedOnes
  BY IdleShape DEF Init, Shapes, SolvedOnes, At, Idle
<1>6. QED
  BY <1>3, <1>4, <1>5 DEF IInv

LEMMA Steps == IInv /\ [Next]_vars => IInv'
<1> SUFFICES ASSUME IInv, [Next]_vars  PROVE IInv'
  OBVIOUS
<1>1. CASE UNCHANGED vars
  <2>1. /\ entries' = entries /\ lastSweep' = lastSweep /\ tries' = tries /\ hs' = hs
        /\ ops' = ops /\ seen' = seen /\ spent' = spent /\ issued' = issued /\ now' = now
    BY <1>1 DEF vars, limiter, replay
  <2>2. QED
    BY <2>1 DEF IInv, TypeOK, Shapes, WindowsBounded, InFlight, Mirrors, SweptSince, SpentKnown,
       SolvedOnes, Active, At
<1>2. ASSUME NEW h \in Handler,
             \/ \E c \in Client, a \in Account : Login(h, c, a) \/ RequestPasswordReset(h, c, a)
             \/ \E c \in Client : ServeWithPAT(h, c)
             \/ AdmitName(h) \/ Check(h) \/ Token(h) \/ Abort(h)
             \/ \E s \in Solution : Verify(h, s)
      PROVE  IInv'
  BY <1>2, Looks
<1>3. ASSUME NEW h \in Handler, RecordFailure(h) \/ RecordSuccess(h) \/ Consume(h)  PROVE IInv'
  BY <1>3, Failures, Successes, Consumes
<1>4. ASSUME NEW s \in Solution, Challenge(s)  PROVE IInv'
  BY <1>4, Challenges
<1>5. CASE Restart
  BY <1>5, Restarts
<1>6. CASE Tick
  BY <1>6, Ticks
<1>7. QED
  BY <1>1, <1>2, <1>3, <1>4, <1>5, <1>6 DEF Next

THEOREM Inductive == Spec => []IInv
  BY Starts, Steps, PTL DEF Spec

-----------------------------------------------------------------------------
(* What is promised *)

\* Every variable keeps its type; in particular no window, of an address or a
\* name, ever counts more than the limit and the requests that ran beside it.
THEOREM TypeCorrect == Spec => []TypeOK
<1>1. IInv => TypeOK
  BY DEF IInv
<1>2. QED
  BY <1>1, Inductive, PTL

\* Whatever headers he forges and however many requests he sends at once, a
\* client gets fewer failures into a window than the limit and the number of
\* requests the server runs at a time.
THEOREM AttemptsAreBounded == Spec => []AttemptsBounded
<1>1. IInv => AttemptsBounded
  <2> SUFFICES ASSUME IInv, NEW x \in Surface \X Client, Active(tries[x])
               PROVE  tries[x].failures < Max + Cardinality(Handler)
    BY DEF AttemptsBounded
  <2>1. x \in Key
    BY KeysInKey
  <2>2. entries[x] = tries[x]
    BY DEF IInv, Mirrors
  <2>3. entries[x].failures + Cardinality(InFlight(x)) < Max + Cardinality(Handler)
    BY <2>1, <2>2 DEF IInv, WindowsBounded
  <2>4. QED
    BY <2>1, <2>2, <2>3, EntryTypes, FlightsCounted DEF IInv
<1>2. QED
  BY <1>1, Inductive, PTL

\* A solution is redeemed once while it is valid, however often it is
\* submitted at a time and however late the guard forgets it.
THEOREM RedeemedOnce == Spec => []SolutionOnce
<1>1. IInv => SolutionOnce
  BY DEF IInv, SpentKnown, SolutionOnce
<1>2. QED
  BY <1>1, Inductive, PTL

\* A recorded failure leaves no entry behind whose window ended a window ago,
\* although the map is swept at most once a window.
THEOREM NothingOldIsKept == Spec => SweepKeepsUp
<1>1. IInv /\ [Next]_vars =>
        [\A h \in Handler : RecordFailure(h) =>
           \A k \in Key : Of(k) = Of(Head(hs[h].keys)) /\ entries'[k].tracked =>
             Active(entries'[k]) \/ entries'[k].end + Window > now]_vars
  <2> SUFFICES ASSUME IInv, NEW h \in Handler, RecordFailure(h), NEW k \in Key,
                      Of(k) = Of(Head(hs[h].keys)), entries'[k].tracked, ~Active(entries'[k])
               PROVE  entries'[k].end + Window > now
    OBVIOUS
  <2>1. PICK j : j = Head(hs[h].keys)
    OBVIOUS
  <2>2. ~SweepDue(Of(k))
    BY <2>1, Fails
  <2>3. entries'[k] = entries[k]
    <3>1. Active(entries'[j]) /\ ~Untracked.tracked
      BY <2>1, Fails DEF Untracked
    <3>2. QED
      BY <2>1, <3>1, Fails
  <2>4. entries[k].end >= lastSweep[Of(k)]
    BY <2>3 DEF IInv, SweptSince
  <2>5. /\ entries[k].end \in Nat /\ lastSweep[Of(k)] \in Nat /\ now \in Nat /\ Window \in Nat
    <3>1. Ends \subseteq Nat /\ Times \subseteq Nat
      BY GateBounds DEF Ends, Times
    <3>2. QED
      BY <3>1, EntryTypes, OfLimiter DEF IInv, TypeOK
  <2>6. QED
    BY <2>2, <2>3, <2>4, <2>5 DEF SweepDue
<1>2. QED
  BY <1>1, Inductive, PTL DEF Spec, SweepKeepsUp
=============================================================================
