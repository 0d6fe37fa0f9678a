---------------------------- MODULE Reservations ----------------------------
(***************************************************************************)
(* The reservations of one item: reserving within the wanted quantity,     *)
(* the email-confirmed tier, release, the decay sweep with its reminder    *)
(* and its one-click links, and the owner's archive, edit and delete.      *)
(*                                                                         *)
(* A request handler runs several statements against the store and other   *)
(* requests and sweeps run between them, so a handler is a small process   *)
(* here: one action reads, a later one acts on what was read.  One         *)
(* transaction of the store (withRowLock, withItemLock) is one action.     *)
(*                                                                         *)
(* Time is kept as ages: how long ago a reservation's state_at and         *)
(* last_activity_at were stamped, in ticks, saturating at MaxAge, beyond   *)
(* which no comparison of the code can tell two ages apart.                *)
(***************************************************************************)
EXTENDS Naturals, FiniteSets

CONSTANTS
  Resv,           \* reservation ids (fresh uuids: an id is used for one row)
  Handler,        \* request handlers that may be in flight together
  Sweeper,        \* decay sweepers: one per running instance
  NoResv,         \* no reservation
  NoToken,        \* the empty hash of a token column
  MaxQty,         \* bound on the quantity of a request and of an item
  MaxAge,         \* bound on ages
  ConfirmWindow,  \* reserver_confirm_window in ticks, 0 disables it
  DecayPeriod,    \* decay_days in ticks, 0 disables decay
  ResponseWindow, \* how long the reserver has to answer a reminder
  Kinds,          \* the reserve paths in use
  OwnerOps        \* the operations the owner performs

PathKinds == {"guest", "account", "confirm"}
OwnerOpKinds == {"archive", "edit", "list", "delete"}

ASSUME BoundsAssumption ==
  /\ MaxQty \in Nat \ {0}
  /\ ConfirmWindow \in Nat /\ DecayPeriod \in Nat /\ ResponseWindow \in Nat
  /\ MaxAge \in Nat
  /\ ConfirmWindow <= MaxAge /\ DecayPeriod <= MaxAge /\ ResponseWindow <= MaxAge

ASSUME NamesAssumption ==
  /\ NoResv \notin Resv
  /\ Handler \cap {"pending", "account"} = {}
  /\ NoToken \notin Sweeper
  /\ Kinds \subseteq PathKinds
  /\ OwnerOps \subseteq OwnerOpKinds

ASSUME FiniteAssumption == IsFiniteSet(Resv)

VARIABLES
  res,       \* the reservations table, by id
  item,      \* the item row: "live", "archived" or "deleted"
  wanted,    \* the item's quantity_wanted
  list,      \* the list: "open", "past" its event date, or "inactive"
  pledged,   \* some contribution on the item is not terminal (other track)
  hs,        \* request handlers
  sw,        \* decay sweepers
  back,      \* history: how long ago the item last came back from the archive
  raced,     \* history: the holds a sweep had listed when it came back
  peak,      \* history: the largest quantity_wanted the item ever had
  returned,  \* history: capability tokens returned to the giver of a row
  invited,   \* rows whose confirm link reached the giver's inbox
  inbox      \* reminders (by the token pair they carry) in the giver's inbox

rows     == <<res, peak, returned, invited, inbox>>
itemVars == <<item, wanted, list, pledged, back, raced>>
vars     == <<rows, itemVars, hs, sw>>

LiveStates == {"pending_confirmation", "active", "reserver_notified"}
RowStates  == LiveStates \cup {"expired"}
States     == RowStates \cup {"none", "gone"}   \* not inserted yet, deleted
Ages       == 0 .. MaxAge
Qty        == 1 .. MaxQty

\* The token_hash column: a real token (named by the handler that minted
\* it) or one of the two sentinels that no presented token can match.
CapHash == Handler \cup {"pending", "account"}

Row     == [state : States, qty : Qty, mail : BOOLEAN, cap : CapHash,
            link : Sweeper \cup {NoToken}, idle : Ages, dwell : Ages]
Request == [kind : PathKinds, qty : Qty, mail : BOOLEAN]
PC      == {"idle", "insert", "send", "rollback", "confirm", "keep", "drop"}
HState  == [pc : PC, r : Resv \cup {NoResv}, req : Request, want : Qty]
SState  == [pc : {"idle", "sweeping", "marking"}, todo : [Resv -> States],
            cur : Resv \cup {NoResv}, age : Ages]

NoReq     == [kind |-> "guest", qty |-> 1, mail |-> FALSE]
Idle      == [pc |-> "idle", r |-> NoResv, req |-> NoReq, want |-> 1]
NoTodo    == [r \in Resv |-> "none"]
IdleSweep == [pc |-> "idle", todo |-> NoTodo, cur |-> NoResv, age |-> 0]
NoRow     == [state |-> "none", qty |-> 1, mail |-> FALSE, cap |-> "pending",
              link |-> NoToken, idle |-> 0, dwell |-> 0]

Init ==
  /\ res = [r \in Resv |-> NoRow]
  /\ item = "live" /\ list = "open" /\ pledged = FALSE
  /\ back = MaxAge /\ raced = {}
  /\ wanted \in Qty /\ peak = wanted
  /\ hs = [h \in Handler |-> Idle]
  /\ sw = [s \in Sweeper |-> IdleSweep]
  /\ returned = [r \in Resv |-> {}]
  /\ inbox = [r \in Resv |-> {}]
  /\ invited = {}

-----------------------------------------------------------------------------
(* Helpers *)

Exists(r) == res[r].state \in RowStates
Live(r)   == res[r].state \in LiveStates
Older(a)  == IF a < MaxAge THEN a + 1 ELSE a
MaxOf(a, b) == IF a < b THEN b ELSE a

\* SELECT SUM(quantity) ... WHERE state != 'expired': the sum is the number
\* of (row, unit) pairs.
Units(f) == {u \in Resv \X Qty : f[u[1]].state \in LiveStates /\ u[2] <= f[u[1]].qty}
ReservedQuantity == Cardinality(Units(res))

Give(h, next) == hs' = [hs EXCEPT ![h] = next]
Finish(h)     == Give(h, Idle)
Delete(r)     == res' = [res EXCEPT ![r].state = "gone"]

\* transitionState: the row-locked transition that fires only from `from`.
AnyRow(r, from)    == Exists(r)                   \* faulty variant: no guard
StillIn(r, from)   == res[r].state = from
Transition(r, from, row) ==
  res' = IF StillIn(r, from) THEN [res EXCEPT ![r] = row] ELSE res

-----------------------------------------------------------------------------
(* Reserving: CreateReservation, reserveEmailConfirmed, CreateMyReservation *)

\* The handler reads the list and the item; the quantity wanted it read is
\* the one it will check against.
Reserve(h, r, q) ==
  /\ hs[h].pc = "idle"
  /\ res[r].state = "none" /\ \A g \in Handler : hs[g].r # r
  /\ list = "open" /\ item = "live"
  /\ q.kind \in Kinds /\ (q.kind # "guest" => q.mail)
  /\ Give(h, [pc |-> "insert", r |-> r, req |-> q, want |-> wanted])
  /\ UNCHANGED <<rows, itemVars, sw>>

NewRow(h, q) ==
  [state |-> IF q.kind = "confirm" THEN "pending_confirmation" ELSE "active",
   qty |-> q.qty, mail |-> q.mail,
   cap |-> CASE q.kind = "guest" -> h [] q.kind = "account" -> "account"
             [] q.kind = "confirm" -> "pending",
   link |-> NoToken, idle |-> 0, dwell |-> 0]

\* CreateWithinCapacity under the item lock.
FitsAlone(q, want) == q <= want                   \* faulty: the sum is dropped
Fits(q, want)      == ReservedQuantity + q <= want

Insert(h) ==
  LET r == hs[h].r  q == hs[h].req IN
  /\ hs[h].pc = "insert"
  /\ item # "deleted" /\ ~pledged /\ Fits(q.qty, hs[h].want)
  /\ res' = [res EXCEPT ![r] = NewRow(h, q)]
  /\ returned' = [returned EXCEPT ![r] = IF q.kind = "guest" THEN {h} ELSE {}]
  /\ IF q.kind = "confirm" THEN Give(h, [hs[h] EXCEPT !.pc = "send"]) ELSE Finish(h)
  /\ UNCHANGED <<peak, invited, inbox, itemVars, sw>>

\* 404 (item gone), 409 (co-bought) or 409 (fully reserved).
Refuse(h) ==
  /\ hs[h].pc = "insert"
  /\ item = "deleted" \/ pledged \/ ~Fits(hs[h].req.qty, hs[h].want)
  /\ Finish(h)
  /\ UNCHANGED <<rows, itemVars, sw>>

\* The confirm email is accepted by the mail server.
SendConfirm(h) ==
  /\ hs[h].pc = "send"
  /\ invited' = invited \cup {hs[h].r}
  /\ Finish(h)
  /\ UNCHANGED <<res, peak, returned, inbox, itemVars, sw>>

\* The send reports an error; the message may have been accepted all the
\* same, because an error of QUIT is returned as the error of the send.
SendConfirmFails(h) ==
  /\ hs[h].pc = "send"
  /\ invited' \in {invited, invited \cup {hs[h].r}}
  /\ Give(h, [hs[h] EXCEPT !.pc = "rollback"])
  /\ UNCHANGED <<res, peak, returned, inbox, itemVars, sw>>

\* The pending hold is deleted by id, whatever its state is by now.
Rollback(h) ==
  /\ hs[h].pc = "rollback"
  /\ IF Exists(hs[h].r) THEN Delete(hs[h].r) ELSE UNCHANGED res
  /\ Finish(h)
  /\ UNCHANGED <<peak, returned, invited, inbox, itemVars, sw>>

\* A handler stops: a store error, a cancelled request, a crash.
Abort(h) ==
  /\ hs[h].pc # "idle"
  /\ Finish(h)
  /\ UNCHANGED <<rows, itemVars, sw>>

-----------------------------------------------------------------------------
(* Confirming: ConfirmReservation *)

ReadConfirm(h, r) ==
  /\ hs[h].pc = "idle"
  /\ r \in invited /\ res[r].state = "pending_confirmation"
  /\ Give(h, [Idle EXCEPT !.pc = "confirm", !.r = r])
  /\ UNCHANGED <<rows, itemVars, sw>>

\* The capability token is returned only by the call whose transition fired.
Confirm(h) ==
  LET r == hs[h].r IN
  /\ hs[h].pc = "confirm"
  /\ Transition(r, "pending_confirmation",
       [res[r] EXCEPT !.state = "active", !.cap = h, !.idle = 0, !.dwell = 0])
  /\ returned' = IF StillIn(r, "pending_confirmation")
                   THEN [returned EXCEPT ![r] = @ \cup {h}] ELSE returned
  /\ Finish(h)
  /\ UNCHANGED <<peak, invited, inbox, itemVars, sw>>

-----------------------------------------------------------------------------
(* Releasing and keeping *)

\* With the token the giver was handed, in any state of the row, or by the
\* account that holds it.  Neither reads anything that can change before its
\* DELETE, so each is one action.
ReleaseReservation(r) ==
  /\ Exists(r) /\ res[r].cap \in returned[r]
  /\ Delete(r)
  /\ UNCHANGED <<peak, returned, invited, inbox, itemVars, hs, sw>>

DeleteMyReservation(r) ==
  /\ Exists(r) /\ res[r].cap = "account"
  /\ Delete(r)
  /\ UNCHANGED <<peak, returned, invited, inbox, itemVars, hs, sw>>

Release(r) == ReleaseReservation(r) \/ DeleteMyReservation(r)

\* KeepByDecayToken and ReleaseByDecayToken: the link resolves to a row
\* that is not expired; the answer is acted on later.
ReadLink(h, r, todo) ==
  /\ hs[h].pc = "idle"
  /\ Live(r) /\ res[r].link \in inbox[r]
  /\ Give(h, [Idle EXCEPT !.pc = todo, !.r = r])
  /\ UNCHANGED <<rows, itemVars, sw>>

Keep(h) ==
  LET r == hs[h].r IN
  /\ hs[h].pc = "keep"
  /\ Transition(r, "reserver_notified",
       [res[r] EXCEPT !.state = "active", !.link = NoToken, !.idle = 0, !.dwell = 0])
  /\ Finish(h)
  /\ UNCHANGED <<peak, returned, invited, inbox, itemVars, sw>>

Drop(h) ==
  /\ hs[h].pc = "drop"
  /\ IF Exists(hs[h].r) THEN Delete(hs[h].r) ELSE UNCHANGED res
  /\ Finish(h)
  /\ UNCHANGED <<peak, returned, invited, inbox, itemVars, sw>>

-----------------------------------------------------------------------------
(* The decay sweep: DecayCandidates, Sweep, step *)

ActiveOnly(r) == res[r].state = "active" /\ list # "inactive" /\ item = "live"  \* faulty
Candidate(r)  == Live(r) /\ list # "inactive" /\ item = "live"

\* step's decision for a candidate: what it is due for at the sweep's now.
Due(r) ==
  CASE res[r].state = "pending_confirmation" ->
         ConfirmWindow > 0 /\ res[r].dwell >= ConfirmWindow
    [] res[r].state = "active" -> DecayPeriod > 0 /\ res[r].idle >= DecayPeriod
    [] res[r].state = "reserver_notified" -> res[r].dwell >= ResponseWindow
    [] OTHER -> FALSE

Sweeping(s, next) == sw' = [sw EXCEPT ![s] = next]
Done(s, r)        == [sw[s] EXCEPT !.pc = "sweeping", !.todo[r] = "none", !.cur = NoResv]

\* One read of all candidates: the sweep works through this snapshot.
StartSweep(s) ==
  /\ sw[s].pc = "idle"
  /\ Sweeping(s, [IdleSweep EXCEPT !.pc = "sweeping",
       !.todo = [r \in Resv |-> IF Candidate(r) /\ Due(r) THEN res[r].state ELSE "none"]])
  /\ UNCHANGED <<rows, itemVars, hs>>

\* ExpirePending and MarkExpired.
Expire(s, r) ==
  LET from == sw[s].todo[r] IN
  /\ sw[s].pc = "sweeping" /\ from \in {"pending_confirmation", "reserver_notified"}
  /\ Transition(r, from, [res[r] EXCEPT !.state = "expired", !.dwell = sw[s].age])
  /\ Sweeping(s, Done(s, r))
  /\ UNCHANGED <<peak, returned, invited, inbox, itemVars, hs>>

\* The reminder with a fresh pair of tokens goes out before the state moves.
Remind(s, r) ==
  /\ sw[s].pc = "sweeping" /\ sw[s].todo[r] = "active" /\ res[r].mail
  /\ inbox' = [inbox EXCEPT ![r] = @ \cup {s}]
  /\ Sweeping(s, [sw[s] EXCEPT !.pc = "marking", !.cur = r])
  /\ UNCHANGED <<res, peak, returned, invited, itemVars, hs>>

\* No address, or the send failed: nothing advances.  The pair minted for
\* this attempt replaced the sweeper's previous one, which is dead.
RemindFailsAdvances(s, r) ==                      \* faulty: advances anyway
  [sw[s] EXCEPT !.pc = "marking", !.cur = r]
AfterFailedReminder(s, r) == Done(s, r)

RemindFails(s, r) ==
  /\ sw[s].pc = "sweeping" /\ sw[s].todo[r] = "active"
  /\ inbox' = [inbox EXCEPT ![r] = @ \ {s}]
  /\ Sweeping(s, AfterFailedReminder(s, r))
  /\ UNCHANGED <<res, peak, returned, invited, itemVars, hs>>

\* MarkReserverNotified: state_at is the sweep's now, not the moment.
Mark(s) ==
  LET r == sw[s].cur IN
  /\ sw[s].pc = "marking"
  /\ Transition(r, "active",
       [res[r] EXCEPT !.state = "reserver_notified", !.link = s, !.dwell = sw[s].age])
  /\ Sweeping(s, Done(s, r))
  /\ UNCHANGED <<peak, returned, invited, inbox, itemVars, hs>>

\* The write after a sent reminder fails: its links are dead.
MarkFails(s) ==
  /\ sw[s].pc = "marking"
  /\ Sweeping(s, Done(s, sw[s].cur))
  /\ UNCHANGED <<rows, itemVars, hs>>

\* The sweep is through its snapshot, or the process stops.
EndSweep(s) ==
  /\ sw[s].pc = "sweeping" /\ sw[s].todo = NoTodo
  /\ Sweeping(s, IdleSweep)
  /\ UNCHANGED <<rows, itemVars, hs>>

StopSweep(s) ==
  /\ sw[s].pc # "idle" /\ sw[s].todo # NoTodo
  /\ Sweeping(s, IdleSweep)
  /\ UNCHANGED <<rows, itemVars, hs>>

-----------------------------------------------------------------------------
(* The owner, the other track, and time *)

\* UpdateItem: the quantity asked for, at least one, whatever is reserved.
AsAsked(n)    == n                                \* faulty: zero is stored
AtLeastOne(n) == IF n < 1 THEN 1 ELSE n
UpdateItem(n) ==
  /\ "edit" \in OwnerOps /\ item # "deleted"
  /\ wanted' = AtLeastOne(n) /\ peak' = MaxOf(peak, wanted')
  /\ UNCHANGED <<res, returned, invited, inbox, item, list, pledged, back, raced, hs, sw>>

\* ArchiveItem: the compare-and-set on archived_at (the notices to givers
\* that follow it change nothing in the store).
Archive ==
  /\ "archive" \in OwnerOps /\ item = "live" /\ item' = "archived"
  /\ UNCHANGED <<rows, wanted, list, pledged, back, raced, hs, sw>>

\* Unarchive clears the flag and restarts both clocks in one transaction,
\* which a sweep that has listed a hold by then does not learn of.
Listed(r) == \E s \in Sweeper : sw[s].todo[r] # "none"
ClocksKept(row)      == row                       \* faulty: the stamps stay
ClocksRestarted(row) == IF row.state \in LiveStates
                          THEN [row EXCEPT !.idle = 0, !.dwell = 0] ELSE row
Unarchive ==
  /\ "archive" \in OwnerOps /\ item = "archived" /\ item' = "live"
  /\ res' = [r \in Resv |-> ClocksRestarted(res[r])]
  /\ back' = 0 /\ raced' = {r \in Resv : Listed(r)}
  /\ UNCHANGED <<peak, returned, invited, inbox, wanted, list, pledged, hs, sw>>

\* DeleteItem removes the item row alone; reservations keep theirs.
DeleteItem ==
  /\ "delete" \in OwnerOps /\ item # "deleted" /\ item' = "deleted"
  /\ UNCHANGED <<rows, wanted, list, pledged, back, raced, hs, sw>>

\* UpdateList, or the event day passing.
SetList(l) ==
  /\ "list" \in OwnerOps /\ l # list /\ list' = l
  /\ UNCHANGED <<rows, item, wanted, pledged, back, raced, hs, sw>>

\* Contributions come and go on the other track.
OtherTrack ==
  /\ pledged' = ~pledged
  /\ UNCHANGED <<rows, item, wanted, list, back, raced, hs, sw>>

Tick ==
  /\ res' = [r \in Resv |-> IF Live(r)
               THEN [res[r] EXCEPT !.idle = Older(@), !.dwell = Older(@)] ELSE res[r]]
  /\ sw' = [s \in Sweeper |-> IF sw[s].pc # "idle"
               THEN [sw[s] EXCEPT !.age = Older(@)] ELSE sw[s]]
  /\ back' = Older(back)
  /\ UNCHANGED <<peak, returned, invited, inbox, item, wanted, list, pledged, raced, hs>>

-----------------------------------------------------------------------------
HandlerNext(h) ==
  \/ \E r \in Resv, q \in Request : Reserve(h, r, q)
  \/ Insert(h) \/ Refuse(h) \/ SendConfirm(h) \/ SendConfirmFails(h)
  \/ Rollback(h) \/ Abort(h) \/ Confirm(h) \/ Keep(h) \/ Drop(h)
  \/ \E r \in Resv : ReadConfirm(h, r)
  \/ \E r \in Resv, todo \in {"keep", "drop"} : ReadLink(h, r, todo)

SweeperNext(s) ==
  \/ StartSweep(s) \/ Mark(s) \/ MarkFails(s) \/ EndSweep(s) \/ StopSweep(s)
  \/ \E r \in Resv : Expire(s, r) \/ Remind(s, r) \/ RemindFails(s, r)

OwnerNext ==
  \/ Archive \/ Unarchive \/ DeleteItem
  \/ \E n \in {0} \cup Qty : UpdateItem(n)
  \/ \E l \in {"open", "past", "inactive"} : SetList(l)

\* Everything but the other track, whose steps a composition supplies.
TrackNext ==
  \/ \E h \in Handler : HandlerNext(h)
  \/ \E r \in Resv : Release(r)
  \/ \E s \in Sweeper : SweeperNext(s)
  \/ OwnerNext
  \/ Tick

Next == TrackNext \/ OtherTrack

Spec == Init /\ [][Next]_vars

-----------------------------------------------------------------------------
(* Properties *)

\* Every variable keeps its type.
TypeOK ==
  /\ res \in [Resv -> Row]
  /\ item \in {"live", "archived", "deleted"} /\ list \in {"open", "past", "inactive"}
  /\ wanted \in Qty /\ peak \in Qty /\ pledged \in BOOLEAN
  /\ back \in Ages /\ raced \subseteq Resv
  /\ hs \in [Handler -> HState] /\ sw \in [Sweeper -> SState]
  /\ returned \in [Resv -> SUBSET Handler] /\ inbox \in [Resv -> SUBSET Sweeper]
  /\ invited \subseteq Resv

\* Concurrent reservers never take more units than the item ever asked for,
\* provisional holds included, whatever the owner edits meanwhile: the sum
\* and the insert of CreateWithinCapacity are one step under the item lock.
WithinCapacity == ReservedQuantity <= peak

\* A capability token a giver was handed works: it is the one the row
\* stores.  Of two confirms that both read a pending row, and of a confirm
\* racing the confirm-window expiry, only the winner returns its token.
TokensHonoured ==
  \A r \in Resv : Exists(r) => returned[r] \subseteq {res[r].cap}

\* Nobody whose reservation was once active loses it to the sweep without a
\* reminder in their inbox whose links are the ones the row stores (#39).
NoSilentExpiry ==
  \A r \in Resv :
    \/ res[r].state = "reserver_notified"
    \/ res[r].state = "expired" /\ res[r].cap # "pending"
    => res[r].mail /\ res[r].link \in inbox[r]

\* Every behaviour is one of the ledger's: two reservers never book beyond the
\* limit, an expired row never comes back by a keep, a confirm or an unarchive
\* that started before the expiry, an active one does not expire unasked, and
\* of two confirms one hands out the only key.
Promised == INSTANCE Ledger WITH
  Hold <- Resv, Key <- Handler, MaxUnits <- MaxQty,
  state <- [r \in Resv |-> res[r].state], units <- [r \in Resv |-> res[r].qty],
  keys <- returned, limit <- peak
KeepsLedger == Promised!Spec

\* The sweep expires a hold only when its window has run out since the row's
\* state_at, and when the item has been back from the archive for as long:
\* the time it was off the list never counts, as UnarchiveItem promises by
\* restarting the clocks.  The code does not keep that promise to a hold a
\* sweep had listed before the item came back, so those are left out.
WindowOver(r) ==
  LET waited(window) == window <= res[r].dwell /\ window <= back IN
  \/ res[r].state = "pending_confirmation" /\ ConfirmWindow > 0 /\ waited(ConfirmWindow)
  \/ res[r].state = "reserver_notified" /\ waited(ResponseWindow)
EarnedExpiry ==
  [][\A r \in Resv \ raced : Live(r) /\ res'[r].state = "expired" => WindowOver(r)]_vars

\* The ticker of runSweeper never stops, a sweep gets through its snapshot,
\* and a store or mail server that keeps answering is not beaten for ever by
\* the failures between its answers.
Fairness ==
  /\ WF_vars(Tick)
  /\ \A s \in Sweeper :
       /\ WF_vars(SweeperNext(s))
       /\ \A r \in Resv : /\ SF_vars(Expire(s, r))
                          /\ SF_vars(Remind(s, r))
                          /\ SF_vars(Mark(s) /\ sw[s].cur = r)

FairSpec == Spec /\ Fairness

\* While the item stays on an active list, no hold with an address sits in
\* one state for ever: a pending one is confirmed or expires, an active one
\* is asked again, an unanswered reminder frees the item.
HoldsMoveOn ==
  <>[](item = "live" /\ list # "inactive") =>
    \A r \in Resv, st \in LiveStates :
      (res[r].state = st /\ res[r].mail) ~> res[r].state # st

=============================================================================
