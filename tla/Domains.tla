------------------------------ MODULE Domains ------------------------------
(***************************************************************************)
(* One hostname that several tenants may claim: a claim is a row with a    *)
(* token of its own, verified when a lookup finds the token in the DNS.    *)
(* An unverified claim may be taken over once it is old; a verified one    *)
(* decides which tenant the requests for the hostname belong to.           *)
(*                                                                         *)
(* The lookup takes its time outside any lock, between the read of the     *)
(* row and the write of its flag, and meanwhile the hostname may change    *)
(* hands.                                                                  *)
(***************************************************************************)
EXTENDS Naturals, FiniteSets

CONSTANTS
  Tenant, Handler,
  Claim,      \* rows, each with a fresh id and a fresh token
  NoClaim, NoTenant,
  ClaimTTL,   \* domainClaimTTL, 0 to switch the take-over off
  MaxNow      \* bound on the clock

ASSUME DomainBounds == ClaimTTL \in Nat /\ MaxNow \in Nat
ASSUME DomainNames  == NoClaim \notin Claim /\ NoTenant \notin Tenant

VARIABLES
  rows,   \* the domains rows of the hostname
  dns,    \* the tokens its TXT record holds
  hs,     \* handlers
  now,    \* the clock
  shown   \* history: the tokens the DNS ever held

vars == <<rows, dns, hs, now, shown>>

Times  == 0 .. MaxNow
Row    == [state : {"none", "live", "gone"}, tenant : Tenant \cup {NoTenant},
           verified : BOOLEAN, at : Times]
HState == [pc : {"idle", "insert", "lookup", "update"}, c : Claim \cup {NoClaim},
           t : Tenant \cup {NoTenant}, at : Times]

NoRow == [state |-> "none", tenant |-> NoTenant, verified |-> FALSE, at |-> 0]
Idle  == [pc |-> "idle", c |-> NoClaim, t |-> NoTenant, at |-> 0]

Init ==
  /\ rows = [c \in Claim |-> NoRow]
  /\ dns = {} /\ shown = {}
  /\ hs = [h \in Handler |-> Idle]
  /\ now = 0

-----------------------------------------------------------------------------
(* Helpers *)

Go(h, next) == hs' = [hs EXCEPT ![h] = next]
At(h, pc)   == hs[h].pc = pc
Finish(h)   == Go(h, Idle)

Live(c)     == rows[c].state = "live"
Verified(c) == Live(c) /\ rows[c].verified
Gone(c)     == [rows[c] EXCEPT !.state = "gone"]

\* TenantByCustomDomain: whose requests those for the hostname are.
Serves(t) == \E c \in Claim : Verified(c) /\ rows[c].tenant = t

-----------------------------------------------------------------------------
(* AddDomain *)

\* The time of the claim, and with it the cutoff, is read before the
\* transaction begins.
AddDomain(h, t, c) ==
  /\ At(h, "idle") /\ rows[c].state = "none" /\ \A g \in Handler : hs[g].c # c
  /\ Go(h, [pc |-> "insert", c |-> c, t |-> t, at |-> now])
  /\ UNCHANGED <<rows, dns, now, shown>>

\* A claim made before the cutoff has expired unless it is verified.
OldEnough(c, at) == ClaimTTL > 0 /\ rows[c].at + ClaimTTL < at
AnyOld(c, at)    == OldEnough(c, at)               \* faulty: verified claims expire too
Expired(c, at)   == ~rows[c].verified /\ OldEnough(c, at)

\* CreateReclaimingExpired, under the lock of the row that is there.
Deadlined(h) == [state |-> "live", tenant |-> hs[h].t, verified |-> FALSE,
                 at |-> hs[h].at + ClaimTTL]       \* faulty: stores its end
Inserted(h)  == [state |-> "live", tenant |-> hs[h].t, verified |-> FALSE, at |-> hs[h].at]
CreateReclaimingExpired(h) ==
  LET TakenOver == {d \in Claim : Live(d)} IN
  /\ At(h, "insert")
  /\ rows' = IF \A d \in TakenOver : Expired(d, hs[h].at)
               THEN [d \in Claim |-> IF d = hs[h].c THEN Inserted(h)
                                     ELSE IF d \in TakenOver THEN Gone(d) ELSE rows[d]]
               ELSE rows
  /\ Finish(h)
  /\ UNCHANGED <<dns, now, shown>>

-----------------------------------------------------------------------------
(* DeleteDomain and VerifyDomain *)

DeleteDomain(t, c) ==
  /\ Live(c) /\ rows[c].tenant = t
  /\ rows' = [rows EXCEPT ![c] = Gone(c)]
  /\ UNCHANGED <<dns, hs, now, shown>>

\* A verified claim is answered as it is.
VerifyDomain(h, c) ==
  /\ At(h, "idle") /\ Live(c) /\ ~rows[c].verified
  /\ Go(h, [Idle EXCEPT !.pc = "lookup", !.c = c])
  /\ UNCHANGED <<rows, dns, now, shown>>

\* LookupTXT and containsToken: a lookup that fails is as one that finds
\* nothing.
Lookup(h) ==
  /\ At(h, "lookup")
  /\ \/ hs[h].c \in dns /\ Go(h, [hs[h] EXCEPT !.pc = "update"])
     \/ Finish(h)
  /\ UNCHANGED <<rows, dns, now, shown>>

\* Update writes the row of that id, if it is still there.
OfHostname(h) == {c \in Claim : Live(c)}           \* faulty: the hostname's row
OfId(h)       == {c \in Claim : Live(c) /\ c = hs[h].c}
Update(h) ==
  /\ At(h, "update")
  /\ rows' = [c \in Claim |-> IF c \in OfId(h) THEN [rows[c] EXCEPT !.verified = TRUE]
                                               ELSE rows[c]]
  /\ Finish(h)
  /\ UNCHANGED <<dns, now, shown>>

-----------------------------------------------------------------------------
\* Whoever runs the zone publishes a token he was shown, or clears it.
Publish(c) ==
  /\ rows[c].state # "none" /\ c \notin dns
  /\ dns' = dns \cup {c} /\ shown' = shown \cup {c}
  /\ UNCHANGED <<rows, hs, now>>

Unpublish(c) ==
  /\ c \in dns /\ dns' = dns \ {c}
  /\ UNCHANGED <<rows, hs, now, shown>>

Abort(h) == ~At(h, "idle") /\ Finish(h) /\ UNCHANGED <<rows, dns, now, shown>>

Tick == now < MaxNow /\ now' = now + 1 /\ UNCHANGED <<rows, dns, hs, shown>>

Next ==
  \/ \E h \in Handler : \/ \E t \in Tenant, c \in Claim : AddDomain(h, t, c)
                        \/ CreateReclaimingExpired(h)
                        \/ \E c \in Claim : VerifyDomain(h, c)
                        \/ Lookup(h) \/ Update(h) \/ Abort(h)
  \/ \E c \in Claim : \/ \E t \in Tenant : DeleteDomain(t, c)
                      \/ Publish(c) \/ Unpublish(c)
  \/ Tick

Spec == Init /\ [][Next]_vars

-----------------------------------------------------------------------------
(* Properties *)

\* Every variable keeps its type.
TypeOK ==
  /\ rows \in [Claim -> Row] /\ dns \subseteq Claim /\ shown \subseteq Claim
  /\ hs \in [Handler -> HState] /\ now \in Times

\* A tenant gets the requests for the hostname only by a claim whose own
\* token was in its zone, however many claims came and went while a lookup
\* was under way.
ServedByProof ==
  \A t \in Tenant : Serves(t) =>
    \E c \in shown : rows[c].tenant = t /\ Verified(c)

\* A claim goes by its own tenant's delete, or to a take-over after its whole
\* window and then only while it is unverified, however long ago the newcomer
\* read the time; and a verified claim stays verified.
ClaimStands ==
  [][\A c \in Claim : Live(c) =>
       \/ rows'[c].state = "live" /\ (rows[c].verified => rows'[c].verified)
       \/ ~rows[c].verified /\ now > rows[c].at + ClaimTTL
       \/ \E t \in Tenant : rows[c].tenant = t /\ DeleteDomain(t, c)]_vars
=============================================================================
