------------------------- MODULE ReservationsProofs -------------------------
(***************************************************************************)
(* Proofs about Reservations, for every number of reservations, handlers   *)
(* and sweepers and every bound: type correctness, and the inductive       *)
(* invariant IInv from which capacity, the capability tokens, the          *)
(* reminders and the finality of expiry follow; that a hold expires only   *)
(* when its window has run out; and that Reservations implements Ledger.   *)
(***************************************************************************)
EXTENDS Reservations, FiniteSetTheorems, TLAPS

-----------------------------------------------------------------------------
(* The inductive invariant *)

\* The quantity a handler will check against was the item's at some time.
WantedWithinPeak ==
  /\ wanted <= peak
  /\ \A h \in Handler : hs[h].want <= peak

\* A row about to be inserted does not exist yet, and one handler inserts it.
InsertsFresh ==
  /\ \A h \in Handler : hs[h].pc = "insert" => res[hs[h].r].state = "none"
  /\ \A g, h \in Handler :
       hs[g].pc = "insert" /\ hs[h].pc = "insert" /\ hs[g].r = hs[h].r => g = h

\* A busy handler and a sweeper between its send and its write name a row.
BusyOnARow ==
  /\ \A h \in Handler : hs[h].pc # "idle" => hs[h].r \in Resv
  /\ \A s \in Sweeper : sw[s].pc = "marking" => sw[s].cur \in Resv

\* A pending row stores the sentinel, so nobody holds a token for it.
PendingHasSentinel ==
  \A r \in Resv : res[r].state = "pending_confirmation" => res[r].cap = "pending"

\* Only a row that was notified stores links.
LinksOnlyOnceNotified ==
  \A r \in Resv : res[r].state \in {"none", "pending_confirmation", "active"}
                    => res[r].link = NoToken

\* What a sweep still has to do concerns existing rows, and a row it has yet
\* to remind does not store its links.
TodoIsFresh ==
  \A s \in Sweeper, r \in Resv :
    /\ sw[s].todo[r] # "none" => res[r].state # "none"
    /\ sw[s].todo[r] = "active" => res[r].link # s

\* Between the send and the write the reminder is in the inbox.
MarkingAfterSend ==
  \A s \in Sweeper : sw[s].pc = "marking" =>
    /\ sw[s].todo[sw[s].cur] = "active"
    /\ s \in inbox[sw[s].cur] /\ res[sw[s].cur].mail

IInv ==
  /\ TypeOK /\ WantedWithinPeak /\ InsertsFresh /\ BusyOnARow
  /\ PendingHasSentinel /\ LinksOnlyOnceNotified /\ TodoIsFresh /\ MarkingAfterSend
  /\ TokensHonoured /\ NoSilentExpiry

-----------------------------------------------------------------------------
(* Type correctness *)

LEMMA AgesType ==
  ASSUME NEW a \in Ages
  PROVE  Older(a) \in Ages
  BY BoundsAssumption DEF Older, Ages

LEMMA IdleTypes ==
  Idle \in HState /\ IdleSweep \in SState /\ NoRow \in Row /\ NoReq \in Request
<1>1. 0 \in Ages /\ 1 \in Qty
  BY BoundsAssumption DEF Ages, Qty
<1>2. NoReq \in Request
  BY <1>1 DEF NoReq, Request, PathKinds
<1>3. Idle \in HState
  BY <1>1, <1>2 DEF Idle, HState, PC
<1>4. IdleSweep \in SState
  BY <1>1 DEF IdleSweep, NoTodo, SState, States, RowStates, LiveStates
<1>5. NoRow \in Row
  BY <1>1 DEF NoRow, Row, States, CapHash
<1>6. QED
  BY <1>2, <1>3, <1>4, <1>5

\* A guarded transition stores a row of the right type if the new row is one.
LEMMA TransitionType ==
  ASSUME res \in [Resv -> Row], NEW r, NEW from, NEW row,
         r \in Resv => row \in Row, Transition(r, from, row)
  PROVE  res' \in [Resv -> Row]
  BY DEF Transition

\* What a sweeper that is through with a row goes on with.
LEMMA DoneType ==
  ASSUME sw \in [Sweeper -> SState], NEW s \in Sweeper, NEW r
  PROVE  Done(s, r) \in SState
<1>1. sw[s] \in SState /\ "none" \in States
  BY DEF States
<1>2. [sw[s].todo EXCEPT ![r] = "none"] \in [Resv -> States]
  BY <1>1 DEF SState
<1>3. QED
  BY <1>1, <1>2 DEF Done, SState

LEMMA NewRowType ==
  ASSUME NEW h \in Handler, NEW q \in Request
  PROVE  NewRow(h, q) \in Row
<1>1. 0 \in Ages /\ q.qty \in Qty /\ q.mail \in BOOLEAN /\ q.kind \in PathKinds
  BY BoundsAssumption DEF Ages, Request
<1>2. NewRow(h, q).cap \in CapHash
  BY <1>1 DEF NewRow, CapHash, PathKinds
<1>3. QED
  BY <1>1, <1>2 DEF NewRow, Row, States, RowStates, LiveStates, CapHash

LEMMA HandlerType ==
  ASSUME TypeOK, BusyOnARow, NEW h \in Handler, HandlerNext(h)
  PROVE  TypeOK'
<1> USE DEF TypeOK, rows, itemVars
<1>a. /\ Idle \in HState /\ IdleSweep \in SState /\ NoReq \in Request
      /\ hs[h] \in HState /\ 0 \in Ages /\ 1 \in Qty /\ 0 \in Nat
      /\ {"gone", "active"} \subseteq States
  BY IdleTypes, BoundsAssumption DEF Ages, Qty, States, RowStates, LiveStates
<1>b. ASSUME NEW r \in Resv, Delete(r)  PROVE res' \in [Resv -> Row]
  <2>1. [res[r] EXCEPT !.state = "gone"] \in Row
    BY <1>a DEF Row
  <2>2. QED
    BY <1>b, <2>1 DEF Delete
<1>c. Finish(h) => hs' \in [Handler -> HState]
  BY <1>a DEF Finish, Give
<1>d. \A pc \in PC : [hs[h] EXCEPT !.pc = pc] \in HState
  BY <1>a DEF HState
<1>e. \A pc \in PC, r \in Resv : [Idle EXCEPT !.pc = pc, !.r = r] \in HState
  BY <1>a DEF HState
<1>1. ASSUME NEW r \in Resv, NEW q \in Request, Reserve(h, r, q)  PROVE TypeOK'
  <2>1. [pc |-> "insert", r |-> r, req |-> q, want |-> wanted] \in HState
    BY DEF HState, PC
  <2>2. QED
    BY <1>1, <2>1 DEF Reserve, Give
<1>2. CASE Insert(h)
  <2>1. NewRow(h, hs[h].req) \in Row /\ "send" \in PC
    BY <1>a, NewRowType DEF HState, PC
  <2>2. res' \in [Resv -> Row]
    BY <1>2, <2>1 DEF Insert
  <2>3. hs' \in [Handler -> HState]
    BY <1>2, <1>c, <1>d, <2>1 DEF Insert, Give
  <2>4. returned' \in [Resv -> SUBSET Handler]
    BY <1>2 DEF Insert
  <2>5. QED
    BY <1>2, <2>2, <2>3, <2>4 DEF Insert
<1>3. CASE Refuse(h)
  BY <1>3, <1>c DEF Refuse
<1>4. CASE SendConfirm(h)
  <2>1. hs[h].r \in Resv
    BY <1>4 DEF SendConfirm, BusyOnARow
  <2>2. QED
    BY <1>4, <1>c, <2>1 DEF SendConfirm
<1>5. CASE SendConfirmFails(h)
  <2>1. hs[h].r \in Resv
    BY <1>5 DEF SendConfirmFails, BusyOnARow
  <2>2. QED
    BY <1>5, <1>d, <2>1 DEF SendConfirmFails, Give, PC
<1>6. CASE Rollback(h)
  <2>1. hs[h].r \in Resv
    BY <1>6 DEF Rollback, BusyOnARow
  <2>2. QED
    BY <1>6, <1>b, <1>c, <2>1 DEF Rollback
<1>7. CASE Abort(h)
  BY <1>7, <1>c DEF Abort
<1>8. CASE Confirm(h)
  <2> DEFINE row == [res[hs[h].r] EXCEPT !.state = "active", !.cap = h, !.idle = 0, !.dwell = 0]
  <2>1. ASSUME hs[h].r \in Resv  PROVE row \in Row
    <3>1. res[hs[h].r] \in Row /\ h \in CapHash /\ "active" \in States
      BY <1>a, <2>1 DEF CapHash
    <3>2. QED
      BY <1>a, <3>1 DEF Row
  <2>2. res' \in [Resv -> Row]
    <3>1. Transition(hs[h].r, "pending_confirmation", row)
      BY <1>8 DEF Confirm
    <3>2. QED
      BY <2>1, <3>1, TransitionType
  <2>3. returned' \in [Resv -> SUBSET Handler]
    BY <1>8 DEF Confirm
  <2>4. QED
    BY <1>8, <1>c, <2>2, <2>3 DEF Confirm
<1>9. CASE Keep(h)
  <2> DEFINE row == [res[hs[h].r] EXCEPT !.state = "active", !.link = NoToken,
                                         !.idle = 0, !.dwell = 0]
  <2>1. ASSUME hs[h].r \in Resv  PROVE row \in Row
    <3>1. res[hs[h].r] \in Row /\ "active" \in States
      BY <1>a, <2>1
    <3>2. QED
      BY <1>a, <3>1 DEF Row
  <2>2. res' \in [Resv -> Row]
    <3>1. Transition(hs[h].r, "reserver_notified", row)
      BY <1>9 DEF Keep
    <3>2. QED
      BY <2>1, <3>1, TransitionType
  <2>3. QED
    BY <1>9, <1>c, <2>2 DEF Keep
<1>10. CASE Drop(h)
  <2>1. hs[h].r \in Resv
    BY <1>10 DEF Drop, BusyOnARow
  <2>2. QED
    BY <1>10, <1>b, <1>c, <2>1 DEF Drop
<1>11. ASSUME NEW r \in Resv, ReadConfirm(h, r)  PROVE TypeOK'
  BY <1>11, <1>e DEF ReadConfirm, Give, PC
<1>12. ASSUME NEW r \in Resv, NEW todo \in {"keep", "drop"}, ReadLink(h, r, todo)
       PROVE  TypeOK'
  BY <1>12, <1>e DEF ReadLink, Give, PC
<1>13. QED
  BY <1>1, <1>2, <1>3, <1>4, <1>5, <1>6, <1>7, <1>8, <1>9, <1>10, <1>11, <1>12
     DEF HandlerNext

LEMMA SweeperType ==
  ASSUME TypeOK, NEW s \in Sweeper, SweeperNext(s)
  PROVE  TypeOK'
<1> USE DEF TypeOK, rows, itemVars
<1>a. /\ IdleSweep \in SState /\ sw[s] \in SState /\ sw[s].age \in Ages
      /\ {"expired", "reserver_notified"} \subseteq States
  BY IdleTypes DEF SState, States, RowStates, LiveStates
<1>b. \A r : Done(s, r) \in SState
  BY DoneType
<1>c. \A next \in SState : Sweeping(s, next) => sw' \in [Sweeper -> SState]
  BY DEF Sweeping
<1>1. CASE StartSweep(s)
  <2> DEFINE todo == [r \in Resv |-> IF Candidate(r) /\ Due(r) THEN res[r].state ELSE "none"]
             next == [IdleSweep EXCEPT !.pc = "sweeping", !.todo = todo]
  <2>1. \A r \in Resv : res[r].state \in States /\ "none" \in States
    BY DEF Row, States
  <2>2. todo \in [Resv -> States]
    BY <2>1
  <2>3. next \in SState
    <3> HIDE DEF todo
    <3> QED BY <1>a, <2>2 DEF SState
  <2>4. Sweeping(s, next)
    BY <1>1 DEF StartSweep
  <2>5. sw' \in [Sweeper -> SState]
    BY <1>c, <2>3, <2>4
  <2>6. QED
    BY <1>1, <2>5 DEF StartSweep
<1>2. CASE Mark(s)
  <2> DEFINE r == sw[s].cur
             row == [res[r] EXCEPT !.state = "reserver_notified", !.link = s,
                                   !.dwell = sw[s].age]
  <2>1. ASSUME r \in Resv  PROVE row \in Row
    <3>1. res[r] \in Row
      BY <2>1
    <3>2. QED
      BY <1>a, <3>1 DEF Row
  <2>2. Transition(r, "active", row)
    BY <1>2 DEF Mark
  <2>3. res' \in [Resv -> Row]
    BY <2>1, <2>2, TransitionType
  <2>4. QED
    BY <1>2, <1>b, <1>c, <2>3 DEF Mark
<1>3. CASE MarkFails(s)
  BY <1>3, <1>b, <1>c DEF MarkFails
<1>4. CASE EndSweep(s)
  BY <1>4, <1>a, <1>c DEF EndSweep
<1>5. CASE StopSweep(s)
  BY <1>5, <1>a, <1>c DEF StopSweep
<1>6. ASSUME NEW r \in Resv, Expire(s, r)  PROVE TypeOK'
  <2> DEFINE row == [res[r] EXCEPT !.state = "expired", !.dwell = sw[s].age]
  <2>1. row \in Row
    <3>1. res[r] \in Row
      OBVIOUS
    <3>2. QED
      BY <1>a, <3>1 DEF Row
  <2>2. Transition(r, sw[s].todo[r], row)
    BY <1>6 DEF Expire
  <2>3. res' \in [Resv -> Row]
    BY <2>1, <2>2, TransitionType
  <2>4. QED
    BY <1>6, <1>b, <1>c, <2>3 DEF Expire
<1>7. ASSUME NEW r \in Resv, Remind(s, r)  PROVE TypeOK'
  <2>1. [sw[s] EXCEPT !.pc = "marking", !.cur = r] \in SState
    BY <1>a DEF SState
  <2>2. sw' \in [Sweeper -> SState]
    BY <1>7, <1>c, <2>1 DEF Remind
  <2>3. QED
    BY <1>7, <2>2 DEF Remind
<1>8. ASSUME NEW r \in Resv, RemindFails(s, r)  PROVE TypeOK'
  <2>1. sw' \in [Sweeper -> SState]
    BY <1>8, <1>b, <1>c DEF RemindFails, AfterFailedReminder
  <2>2. QED
    BY <1>8, <2>1 DEF RemindFails
<1>9. QED
  BY <1>1, <1>2, <1>3, <1>4, <1>5, <1>6, <1>7, <1>8 DEF SweeperNext

LEMMA OthersType ==
  ASSUME TypeOK,
         (\E r \in Resv : Release(r)) \/ OwnerNext \/ OtherTrack \/ Tick
  PROVE  TypeOK'
<1> USE DEF TypeOK, rows, itemVars
<1>a. 0 \in Ages /\ "gone" \in States
  BY BoundsAssumption DEF Ages, States
<1>1. ASSUME NEW r \in Resv, Release(r)  PROVE TypeOK'
  <2>1. [res[r] EXCEPT !.state = "gone"] \in Row
    BY <1>a DEF Row
  <2>2. res' \in [Resv -> Row]
    BY <1>1, <2>1 DEF Release, ReleaseReservation, DeleteMyReservation, Delete
  <2>3. QED
    BY <1>1, <2>2 DEF Release, ReleaseReservation, DeleteMyReservation
<1>2. CASE Archive
  BY <1>2 DEF Archive
<1>3. CASE Unarchive
  <2>1. \A r \in Resv : ClocksRestarted(res[r]) \in Row
    BY <1>a DEF ClocksRestarted, Row
  <2>2. res' \in [Resv -> Row]
    BY <1>3, <2>1 DEF Unarchive
  <2>3. back' \in Ages /\ raced' \subseteq Resv
    BY <1>3, <1>a DEF Unarchive
  <2>4. QED
    BY <1>3, <2>2, <2>3 DEF Unarchive
<1>4. CASE DeleteItem
  BY <1>4 DEF DeleteItem
<1>5. ASSUME NEW n \in {0} \cup Qty, UpdateItem(n)  PROVE TypeOK'
  <2>1. AtLeastOne(n) \in Qty
    BY BoundsAssumption DEF AtLeastOne, Qty
  <2>2. MaxOf(peak, AtLeastOne(n)) \in Qty
    BY <2>1 DEF MaxOf
  <2>3. QED
    BY <1>5, <2>1, <2>2 DEF UpdateItem
<1>6. ASSUME NEW l \in {"open", "past", "inactive"}, SetList(l)  PROVE TypeOK'
  BY <1>6 DEF SetList
<1>7. CASE OtherTrack
  BY <1>7 DEF OtherTrack
<1>8. CASE Tick
  <2>1. ASSUME NEW r \in Resv
        PROVE [res[r] EXCEPT !.idle = Older(@), !.dwell = Older(@)] \in Row
    <3>1. res[r] \in Row /\ Older(res[r].idle) \in Ages /\ Older(res[r].dwell) \in Ages
      BY <2>1, AgesType DEF Row
    <3>2. QED
      BY <3>1 DEF Row
  <2>2. ASSUME NEW s \in Sweeper  PROVE [sw[s] EXCEPT !.age = Older(@)] \in SState
    <3>1. sw[s] \in SState /\ Older(sw[s].age) \in Ages
      BY <2>2, AgesType DEF SState
    <3>2. QED
      BY <3>1 DEF SState
  <2>3. res' \in [Resv -> Row]
    BY <1>8, <2>1 DEF Tick
  <2>4. sw' \in [Sweeper -> SState]
    BY <1>8, <2>2 DEF Tick
  <2>5. back' \in Ages
    BY <1>8, AgesType DEF Tick
  <2>6. QED
    BY <1>8, <2>3, <2>4, <2>5 DEF Tick
<1>9. QED
  BY <1>1, <1>2, <1>3, <1>4, <1>5, <1>6, <1>7, <1>8 DEF OwnerNext

\* A handler that starts picks a row; one that goes on keeps it.
LEMMA BusyStep ==
  ASSUME TypeOK, BusyOnARow, [Next]_vars
  PROVE  BusyOnARow'
<1> DEFINE BusyH == \A h \in Handler : hs[h].pc # "idle" => hs[h].r \in Resv
           BusyS == \A s \in Sweeper : sw[s].pc = "marking" => sw[s].cur \in Resv
<1> USE DEF TypeOK, BusyOnARow
<1>1. ASSUME NEW h \in Handler, HandlerNext(h)  PROVE BusyH'
  <2>1. Idle.pc = "idle"
    BY DEF Idle
  <2>2. hs[h] \in HState
    OBVIOUS
  <2>3. hs'[h].pc # "idle" => hs'[h].r \in Resv
    <3>1. ASSUME Finish(h)  PROVE hs'[h].pc = "idle"
      BY <2>1, <3>1 DEF Finish, Give
    <3>2. ASSUME NEW pc \in PC, hs[h].pc # "idle", Give(h, [hs[h] EXCEPT !.pc = pc])
          PROVE  hs'[h].r \in Resv
      BY <2>2, <3>2 DEF Give, HState
    <3>3. ASSUME NEW pc, NEW r \in Resv, Give(h, [Idle EXCEPT !.pc = pc, !.r = r])
          PROVE  hs'[h].r \in Resv
      BY <3>3 DEF Give, Idle
    <3>4. ASSUME NEW r \in Resv, NEW q \in Request, Reserve(h, r, q)
          PROVE  hs'[h].r \in Resv
      BY <3>4 DEF Reserve, Give
    <3>5. CASE Insert(h) \/ SendConfirmFails(h)
      BY <3>1, <3>2, <3>5 DEF Insert, SendConfirmFails, PC
    <3>6. CASE \E r \in Resv : \/ ReadConfirm(h, r)
                              \/ \E todo \in {"keep", "drop"} : ReadLink(h, r, todo)
      BY <3>3, <3>6 DEF ReadConfirm, ReadLink
    <3>7. CASE \/ Refuse(h) \/ SendConfirm(h) \/ Rollback(h) \/ Abort(h)
               \/ Confirm(h) \/ Keep(h) \/ Drop(h)
      BY <3>1, <3>7 DEF Refuse, SendConfirm, Rollback, Abort, Confirm, Keep, Drop
    <3>8. QED
      BY <1>1, <3>4, <3>5, <3>6, <3>7 DEF HandlerNext
  <2>4. \A g \in Handler \ {h} : hs'[g] = hs[g]
    BY <1>1
       DEF HandlerNext, Reserve, Insert, Refuse, SendConfirm, SendConfirmFails, Rollback,
           Abort, ReadConfirm, Confirm, ReadLink, Keep, Drop, Give, Finish
  <2>5. QED
    BY <2>3, <2>4
<1>2. ASSUME NEW h \in Handler, HandlerNext(h)  PROVE sw' = sw
  BY <1>2 DEF HandlerNext, Reserve, Insert, Refuse, SendConfirm, SendConfirmFails, Rollback,
              Abort, ReadConfirm, Confirm, ReadLink, Keep, Drop
<1>3. ASSUME NEW s \in Sweeper, SweeperNext(s)  PROVE BusyS'
  <2>1. IdleSweep.pc = "idle" /\ sw[s] \in SState
    BY DEF IdleSweep
  <2>2. \A r : Done(s, r).pc = "sweeping"
    BY <2>1 DEF Done, SState
  <2>3. sw'[s].pc = "marking" => sw'[s].cur \in Resv
    <3>1. ASSUME NEW r \in Resv, Remind(s, r)  PROVE sw'[s].cur \in Resv
      BY <2>1, <3>1 DEF Remind, Sweeping, SState
    <3>2. CASE StartSweep(s)
      BY <2>1, <3>2 DEF StartSweep, Sweeping, IdleSweep
    <3>3. CASE EndSweep(s) \/ StopSweep(s)
      BY <2>1, <3>3 DEF EndSweep, StopSweep, Sweeping
    <3>4. CASE Mark(s) \/ MarkFails(s) \/ (\E r \in Resv : Expire(s, r) \/ RemindFails(s, r))
      BY <2>2, <3>4 DEF Mark, MarkFails, Expire, RemindFails, AfterFailedReminder, Sweeping
    <3>5. QED
      BY <1>3, <3>1, <3>2, <3>3, <3>4 DEF SweeperNext
  <2>4. \A z \in Sweeper \ {s} : sw'[z] = sw[z]
    BY <1>3
       DEF SweeperNext, StartSweep, Mark, MarkFails, EndSweep, StopSweep, Expire, Remind,
           RemindFails, Sweeping
  <2>5. QED
    BY <2>3, <2>4
<1>4. ASSUME NEW s \in Sweeper, SweeperNext(s)  PROVE hs' = hs
  BY <1>4 DEF SweeperNext, StartSweep, Mark, MarkFails, EndSweep, StopSweep, Expire, Remind,
              RemindFails
<1>5. CASE Tick
  <2>1. \A s \in Sweeper : sw'[s].pc = sw[s].pc /\ sw'[s].cur = sw[s].cur
    BY <1>5 DEF Tick, SState
  <2>2. QED
    BY <1>5, <2>1 DEF Tick
<1>6. CASE (\E r \in Resv : Release(r)) \/ OwnerNext \/ OtherTrack \/ UNCHANGED vars
  BY <1>6 DEF Release, ReleaseReservation, DeleteMyReservation, OwnerNext, Archive, Unarchive, DeleteItem, UpdateItem, SetList,
              OtherTrack, vars
<1>7. QED
  BY <1>1, <1>2, <1>3, <1>4, <1>5, <1>6 DEF Next, TrackNext

LEMMA TypeStep ==
  ASSUME TypeOK, BusyOnARow, [Next]_vars
  PROVE  TypeOK'
<1>1. CASE UNCHANGED vars
  BY <1>1 DEF TypeOK, vars, rows, itemVars
<1>2. QED
  BY <1>1, HandlerType, SweeperType, OthersType DEF Next, TrackNext

LEMMA TypeInit ==
  ASSUME Init
  PROVE  TypeOK /\ BusyOnARow
<1>1. Idle.pc = "idle" /\ IdleSweep.pc = "idle"
  BY DEF Idle, IdleSweep
<1>2. MaxAge \in Ages
  BY BoundsAssumption DEF Ages
<1>3. QED
  BY <1>1, <1>2, IdleTypes DEF Init, TypeOK, BusyOnARow

\* Every table, handler and sweeper keeps its type, whatever the interleaving.
THEOREM TypeCorrect == Spec => []TypeOK
<1>1. Init => TypeOK /\ BusyOnARow
  BY TypeInit
<1>2. TypeOK /\ BusyOnARow /\ [Next]_vars => (TypeOK /\ BusyOnARow)'
  BY BusyStep, TypeStep
<1>3. QED
  BY <1>1, <1>2, PTL DEF Spec

-----------------------------------------------------------------------------
(* What one step does to one row, its clocks aside *)

Same(r) == /\ res'[r].qty = res[r].qty /\ res'[r].mail = res[r].mail

RowUntouched(r) ==
  Same(r) /\ res'[r].state = res[r].state /\ res'[r].cap = res[r].cap /\ res'[r].link = res[r].link

RowInserted(r, h) == Insert(h) /\ hs[h].r = r /\ res'[r] = NewRow(h, hs[h].req)

RowDeleted(r) ==
  Same(r) /\ Exists(r) /\ res'[r].state = "gone" /\ res'[r].cap = res[r].cap
          /\ res'[r].link = res[r].link

RowConfirmed(r, h) ==
  /\ Confirm(h) /\ hs[h].r = r /\ Same(r) /\ res'[r].link = res[r].link
  /\ res[r].state = "pending_confirmation" /\ res'[r].state = "active" /\ res'[r].cap = h

RowKept(r) ==
  /\ Same(r) /\ res'[r].cap = res[r].cap /\ res'[r].link = NoToken
  /\ res[r].state = "reserver_notified" /\ res'[r].state = "active"

RowExpired(r) ==
  /\ Same(r) /\ res'[r].cap = res[r].cap /\ res'[r].link = res[r].link
  /\ res[r].state \in {"pending_confirmation", "reserver_notified"}
  /\ res'[r].state = "expired"
  /\ \E s \in Sweeper : Expire(s, r) /\ sw[s].todo[r] = res[r].state

RowNotified(r, s) ==
  /\ Mark(s) /\ sw[s].cur = r /\ Same(r) /\ res'[r].cap = res[r].cap /\ res'[r].link = s
  /\ res[r].state = "active" /\ res'[r].state = "reserver_notified"

RowStep(r) ==
  \/ RowUntouched(r) \/ RowDeleted(r) \/ RowKept(r) \/ RowExpired(r)
  \/ \E h \in Handler : RowInserted(r, h) \/ RowConfirmed(r, h)
  \/ \E s \in Sweeper : RowNotified(r, s)

LEMMA UntouchedWhenSame ==
  ASSUME NEW r \in Resv, res'[r] = res[r]
  PROVE  RowUntouched(r)
  BY DEF RowUntouched, Same

LEMMA DeleteStep ==
  ASSUME TypeOK, NEW r \in Resv, NEW d \in Resv, Exists(d), Delete(d)
  PROVE  RowUntouched(r) \/ RowDeleted(r)
<1>1. CASE r # d
  BY <1>1, UntouchedWhenSame DEF Delete, TypeOK
<1>2. CASE r = d
  <2>1. res[d] \in Row /\ res'[d] = [res[d] EXCEPT !.state = "gone"]
    BY DEF Delete, TypeOK
  <2>2. QED
    BY <1>2, <2>1 DEF RowDeleted, Same, Row
<1>3. QED
  BY <1>1, <1>2

LEMMA TransitionStep ==
  ASSUME TypeOK, NEW r \in Resv, NEW d, NEW from, NEW row, Transition(d, from, row)
  PROVE  RowUntouched(r) \/ (r = d /\ res[r].state = from /\ res'[r] = row)
<1>1. res'[r] = res[r] \/ (r = d /\ res[r].state = from /\ res'[r] = row)
  BY DEF Transition, StillIn, TypeOK
<1>2. QED
  BY <1>1, UntouchedWhenSame

LEMMA HandlerRowStep ==
  ASSUME TypeOK, BusyOnARow, NEW r \in Resv, NEW h \in Handler, HandlerNext(h)
  PROVE  RowStep(r)
<1>1. CASE res' = res
  BY <1>1, UntouchedWhenSame DEF RowStep
<1>2. CASE Insert(h)
  <2>1. hs[h].r # r => res'[r] = res[r]
    BY <1>2 DEF Insert, TypeOK
  <2>2. hs[h].r = r => res'[r] = NewRow(h, hs[h].req)
    BY <1>2 DEF Insert, TypeOK
  <2>3. QED
    BY <1>2, <2>1, <2>2, UntouchedWhenSame DEF RowStep, RowInserted
<1>3. CASE Rollback(h) \/ Drop(h)
  <2>1. hs[h].r \in Resv
    BY <1>3 DEF Rollback, Drop, BusyOnARow
  <2>2. CASE Exists(hs[h].r)
    BY <1>3, <2>1, <2>2, DeleteStep DEF Rollback, Drop, RowStep
  <2>3. CASE ~Exists(hs[h].r)
    BY <1>1, <1>3, <2>3 DEF Rollback, Drop
  <2>4. QED
    BY <2>2, <2>3
<1>4. CASE Confirm(h)
  <2> DEFINE row == [res[hs[h].r] EXCEPT !.state = "active", !.cap = h, !.idle = 0, !.dwell = 0]
  <2>1. Transition(hs[h].r, "pending_confirmation", row)
    BY <1>4 DEF Confirm
  <2>2. ASSUME r = hs[h].r, res[r].state = "pending_confirmation", res'[r] = row
        PROVE  RowConfirmed(r, h)
    <3>1. res[r] \in Row
      BY DEF TypeOK
    <3>2. QED
      BY <1>4, <2>2, <3>1 DEF RowConfirmed, Same, Row
  <2>3. QED
    BY <2>1, <2>2, TransitionStep DEF RowStep
<1>5. CASE Keep(h)
  <2> DEFINE row == [res[hs[h].r] EXCEPT !.state = "active", !.link = NoToken,
                                         !.idle = 0, !.dwell = 0]
  <2>1. Transition(hs[h].r, "reserver_notified", row)
    BY <1>5 DEF Keep
  <2>2. ASSUME r = hs[h].r, res[r].state = "reserver_notified", res'[r] = row
        PROVE  RowKept(r)
    <3>1. res[r] \in Row
      BY DEF TypeOK
    <3>2. QED
      BY <2>2, <3>1 DEF RowKept, Same, Row
  <2>3. QED
    BY <2>1, <2>2, TransitionStep DEF RowStep
<1>6. CASE \/ Refuse(h) \/ SendConfirm(h) \/ SendConfirmFails(h) \/ Abort(h)
           \/ \E d \in Resv, q \in Request : Reserve(h, d, q)
           \/ \E d \in Resv : ReadConfirm(h, d)
           \/ \E d \in Resv, todo \in {"keep", "drop"} : ReadLink(h, d, todo)
  BY <1>1, <1>6 DEF Refuse, SendConfirm, SendConfirmFails, Abort, Reserve, ReadConfirm,
                    ReadLink, rows
<1>7. QED
  BY <1>2, <1>3, <1>4, <1>5, <1>6 DEF HandlerNext

LEMMA SweeperRowStep ==
  ASSUME TypeOK, NEW r \in Resv, NEW s \in Sweeper, SweeperNext(s)
  PROVE  RowStep(r)
<1>1. CASE res' = res
  BY <1>1, UntouchedWhenSame DEF RowStep
<1>2. ASSUME NEW d \in Resv, Expire(s, d)  PROVE RowStep(r)
  <2> DEFINE from == sw[s].todo[d]
             row == [res[d] EXCEPT !.state = "expired", !.dwell = sw[s].age]
  <2>1. Transition(d, from, row) /\ from \in {"pending_confirmation", "reserver_notified"}
    BY <1>2 DEF Expire
  <2>2. ASSUME r = d, res[r].state = from, res'[r] = row
        PROVE  RowExpired(r)
    <3>1. res[r] \in Row
      BY DEF TypeOK
    <3>2. QED
      BY <1>2, <2>1, <2>2, <3>1 DEF RowExpired, Same, Row
  <2>3. QED
    BY <2>1, <2>2, TransitionStep DEF RowStep
<1>3. CASE Mark(s)
  <2> DEFINE row == [res[sw[s].cur] EXCEPT !.state = "reserver_notified", !.link = s,
                                           !.dwell = sw[s].age]
  <2>1. Transition(sw[s].cur, "active", row)
    BY <1>3 DEF Mark
  <2>2. ASSUME r = sw[s].cur, res[r].state = "active", res'[r] = row
        PROVE  RowNotified(r, s)
    <3>1. res[r] \in Row
      BY DEF TypeOK
    <3>2. QED
      BY <1>3, <2>2, <3>1 DEF RowNotified, Same, Row
  <2>3. QED
    BY <2>1, <2>2, TransitionStep DEF RowStep
<1>4. CASE \/ StartSweep(s) \/ MarkFails(s) \/ EndSweep(s) \/ StopSweep(s)
           \/ \E d \in Resv : Remind(s, d) \/ RemindFails(s, d)
  BY <1>1, <1>4 DEF StartSweep, MarkFails, EndSweep, StopSweep, Remind, RemindFails, rows
<1>5. QED
  BY <1>2, <1>3, <1>4 DEF SweeperNext

LEMMA RowSteps ==
  ASSUME TypeOK, BusyOnARow, [Next]_vars, NEW r \in Resv
  PROVE  RowStep(r)
<1>1. CASE res' = res
  BY <1>1, UntouchedWhenSame DEF RowStep
<1>2. ASSUME NEW d \in Resv, Release(d)  PROVE RowStep(r)
  BY <1>2, DeleteStep DEF Release, ReleaseReservation, DeleteMyReservation, RowStep
<1>3. CASE Unarchive
  <2>1. res[r] \in Row /\ res'[r] = ClocksRestarted(res[r])
    BY <1>3 DEF Unarchive, TypeOK
  <2>2. QED
    BY <2>1 DEF ClocksRestarted, Row, RowStep, RowUntouched, Same
<1>4. CASE Tick
  <2>1. res[r] \in Row
    BY DEF TypeOK
  <2>2. \/ res'[r] = res[r]
        \/ res'[r] = [res[r] EXCEPT !.idle = Older(@), !.dwell = Older(@)]
    BY <1>4 DEF Tick
  <2>3. QED
    BY <2>1, <2>2 DEF Row, RowStep, RowUntouched, Same
<1>5. CASE \/ Archive \/ DeleteItem \/ OtherTrack \/ UNCHANGED vars
           \/ \E n \in {0} \cup Qty : UpdateItem(n)
           \/ \E l \in {"open", "past", "inactive"} : SetList(l)
  BY <1>1, <1>5 DEF Archive, DeleteItem, OtherTrack, UpdateItem, SetList, vars, rows
<1>6. QED
  BY <1>2, <1>3, <1>4, <1>5, HandlerRowStep, SweeperRowStep DEF Next, TrackNext, OwnerNext

-----------------------------------------------------------------------------
(* What one step does to one handler and to one sweeper *)

HandlerStep(h) ==
  \/ hs'[h] = hs[h]
  \/ hs'[h] = Idle
  \/ hs'[h].pc \in {"send", "rollback"} /\ hs'[h].want = hs[h].want
  \/ hs'[h].pc \in {"confirm", "keep", "drop"} /\ hs'[h].want = 1
  \/ \E r \in Resv, q \in Request : Reserve(h, r, q)

SweeperStep(s) ==
  \/ sw'[s].pc = sw[s].pc /\ sw'[s].todo = sw[s].todo /\ sw'[s].cur = sw[s].cur
  \/ sw'[s] = IdleSweep
  \/ StartSweep(s)
  \/ \E r : sw'[s] = Done(s, r) /\ sw[s].pc # "idle"
  \/ \E r \in Resv : Remind(s, r)

LEMMA OneHandlerMoves ==
  ASSUME NEW h \in Handler, NEW g \in Handler \ {h}, HandlerNext(h)
  PROVE  hs \in [Handler -> HState] => hs'[g] = hs[g]
  BY DEF HandlerNext, Reserve, Insert, Refuse, SendConfirm, SendConfirmFails, Rollback,
         Abort, ReadConfirm, Confirm, ReadLink, Keep, Drop, Give, Finish

LEMMA HandlerSteps ==
  ASSUME TypeOK, [Next]_vars, NEW h \in Handler
  PROVE  HandlerStep(h)
<1>1. CASE hs' = hs
  BY <1>1 DEF HandlerStep
<1>2. CASE HandlerNext(h)
  <2>1. hs[h] \in HState /\ Idle.want = 1
    BY DEF TypeOK, Idle
  <2>2. Finish(h) => HandlerStep(h)
    BY DEF Finish, Give, TypeOK, HandlerStep
  <2>3. ASSUME NEW pc \in {"send", "rollback"}, Give(h, [hs[h] EXCEPT !.pc = pc])
        PROVE  HandlerStep(h)
    <3>1. hs'[h] = [hs[h] EXCEPT !.pc = pc]
      BY <2>3 DEF Give, TypeOK
    <3>2. QED
      BY <2>1, <3>1 DEF HandlerStep, HState
  <2>4. ASSUME NEW pc \in {"confirm", "keep", "drop"}, NEW r,
               Give(h, [Idle EXCEPT !.pc = pc, !.r = r])
        PROVE  HandlerStep(h)
    <3>1. hs'[h] = [Idle EXCEPT !.pc = pc, !.r = r]
      BY <2>4 DEF Give, TypeOK
    <3>2. QED
      BY <3>1 DEF HandlerStep, Idle
  <2>5. CASE Insert(h) \/ SendConfirmFails(h)
    BY <2>2, <2>3, <2>5 DEF Insert, SendConfirmFails
  <2>6. CASE \E r \in Resv : \/ ReadConfirm(h, r)
                             \/ \E todo \in {"keep", "drop"} : ReadLink(h, r, todo)
    BY <2>4, <2>6 DEF ReadConfirm, ReadLink
  <2>7. CASE \/ Refuse(h) \/ SendConfirm(h) \/ Rollback(h) \/ Abort(h)
             \/ Confirm(h) \/ Keep(h) \/ Drop(h)
    BY <2>2, <2>7 DEF Refuse, SendConfirm, Rollback, Abort, Confirm, Keep, Drop
  <2>8. CASE \E r \in Resv, q \in Request : Reserve(h, r, q)
    BY <2>8 DEF HandlerStep
  <2>9. QED
    BY <1>2, <2>5, <2>6, <2>7, <2>8 DEF HandlerNext
<1>3. ASSUME NEW g \in Handler, HandlerNext(g), g # h  PROVE HandlerStep(h)
  BY <1>3, OneHandlerMoves DEF HandlerStep, TypeOK
<1>4. ASSUME NEW s \in Sweeper, SweeperNext(s)  PROVE hs' = hs
  BY <1>4 DEF SweeperNext, StartSweep, Mark, MarkFails, EndSweep, StopSweep, Expire, Remind,
              RemindFails
<1>5. CASE (\E r \in Resv : Release(r)) \/ OwnerNext \/ OtherTrack \/ Tick \/ UNCHANGED vars
  BY <1>1, <1>5 DEF Release, ReleaseReservation, DeleteMyReservation, OwnerNext, Archive, Unarchive, DeleteItem, UpdateItem, SetList,
                    OtherTrack, Tick, vars
<1>6. QED
  BY <1>1, <1>2, <1>3, <1>4, <1>5 DEF Next, TrackNext

LEMMA SweeperSteps ==
  ASSUME TypeOK, [Next]_vars, NEW s \in Sweeper
  PROVE  SweeperStep(s)
<1>1. CASE sw' = sw
  BY <1>1 DEF SweeperStep
<1>2. CASE SweeperNext(s)
  <2>1. \A next : Sweeping(s, next) => sw'[s] = next
    BY DEF Sweeping, TypeOK
  <2>2. CASE StartSweep(s)
    BY <2>2 DEF SweeperStep
  <2>3. CASE EndSweep(s) \/ StopSweep(s)
    BY <2>1, <2>3 DEF EndSweep, StopSweep, SweeperStep
  <2>4. CASE \/ Mark(s) \/ MarkFails(s)
             \/ \E r \in Resv : Expire(s, r) \/ RemindFails(s, r)
    BY <2>1, <2>4 DEF Mark, MarkFails, Expire, RemindFails, AfterFailedReminder, SweeperStep
  <2>5. CASE \E r \in Resv : Remind(s, r)
    BY <2>5 DEF SweeperStep
  <2>6. QED
    BY <1>2, <2>2, <2>3, <2>4, <2>5 DEF SweeperNext
<1>3. ASSUME NEW z \in Sweeper, SweeperNext(z), z # s  PROVE sw'[s] = sw[s]
  BY <1>3 DEF SweeperNext, StartSweep, Mark, MarkFails, EndSweep, StopSweep, Expire, Remind,
              RemindFails, Sweeping, TypeOK
<1>4. ASSUME NEW h \in Handler, HandlerNext(h)  PROVE sw' = sw
  BY <1>4 DEF HandlerNext, Reserve, Insert, Refuse, SendConfirm, SendConfirmFails, Rollback,
              Abort, ReadConfirm, Confirm, ReadLink, Keep, Drop
<1>5. CASE (\E r \in Resv : Release(r)) \/ OwnerNext \/ OtherTrack \/ UNCHANGED vars
  BY <1>1, <1>5 DEF Release, ReleaseReservation, DeleteMyReservation, OwnerNext, Archive, Unarchive, DeleteItem, UpdateItem, SetList,
                    OtherTrack, vars
<1>6. CASE Tick
  BY <1>6 DEF Tick, SweeperStep, SState, TypeOK
<1>7. QED
  BY <1>1, <1>2, <1>3, <1>4, <1>5, <1>6 DEF Next, TrackNext, SweeperStep

-----------------------------------------------------------------------------
(* IInv is inductive: one lemma per conjunct *)

\* peak only grows, and the quantity wanted stays below it.
LEMMA PeakStep ==
  ASSUME TypeOK, wanted <= peak, [Next]_vars
  PROVE  peak <= peak' /\ wanted' <= peak'
<1>1. wanted \in Int /\ peak \in Int
  BY BoundsAssumption DEF TypeOK, Qty
<1>2. CASE UNCHANGED <<peak, wanted>>
  BY <1>1, <1>2
<1>3. ASSUME NEW n \in {0} \cup Qty, UpdateItem(n)  PROVE peak <= peak' /\ wanted' <= peak'
  <2>1. AtLeastOne(n) \in Int
    BY BoundsAssumption DEF AtLeastOne, Qty
  <2>2. QED
    BY <1>1, <1>3, <2>1 DEF UpdateItem, MaxOf
<1>4. ASSUME NEW h \in Handler, HandlerNext(h)  PROVE UNCHANGED <<peak, wanted>>
  BY <1>4 DEF HandlerNext, Reserve, Insert, Refuse, SendConfirm, SendConfirmFails, Rollback,
              Abort, ReadConfirm, Confirm, ReadLink, Keep, Drop, rows, itemVars
<1>5. ASSUME NEW s \in Sweeper, SweeperNext(s)  PROVE UNCHANGED <<peak, wanted>>
  BY <1>5 DEF SweeperNext, StartSweep, Mark, MarkFails, EndSweep, StopSweep, Expire, Remind,
              RemindFails, rows, itemVars
<1>6. CASE \/ (\E r \in Resv : Release(r)) \/ Archive \/ Unarchive \/ DeleteItem
           \/ (\E l \in {"open", "past", "inactive"} : SetList(l))
           \/ OtherTrack \/ Tick \/ UNCHANGED vars
  BY <1>2, <1>6 DEF Release, ReleaseReservation, DeleteMyReservation, Archive, Unarchive, DeleteItem, SetList, OtherTrack, Tick,
                    vars, rows, itemVars
<1>7. QED
  BY <1>2, <1>3, <1>4, <1>5, <1>6 DEF Next, TrackNext, OwnerNext

LEMMA WantedStep ==
  ASSUME TypeOK, WantedWithinPeak, TypeOK', [Next]_vars
  PROVE  WantedWithinPeak'
<1> USE DEF WantedWithinPeak
<1>1. peak <= peak' /\ wanted' <= peak'
  BY PeakStep
<1>2. wanted \in Int /\ peak \in Int /\ peak' \in Int /\ 1 <= peak'
  BY BoundsAssumption DEF TypeOK, Qty
<1>3. ASSUME NEW h \in Handler  PROVE hs'[h].want <= peak'
  <2>1. hs[h].want \in Int /\ hs[h].want <= peak /\ Idle.want = 1
    BY BoundsAssumption DEF TypeOK, HState, Qty, Idle
  <2>2. CASE hs'[h].want \in {hs[h].want, 1}
    BY <1>1, <1>2, <2>1, <2>2
  <2>3. ASSUME NEW r \in Resv, NEW q \in Request, Reserve(h, r, q)
        PROVE  hs'[h].want <= peak'
    <3>1. hs'[h].want = wanted
      BY <2>3 DEF Reserve, Give, TypeOK
    <3>2. QED
      BY <1>1, <1>2, <3>1
  <2>4. QED
    BY <2>1, <2>2, <2>3, HandlerSteps DEF HandlerStep
<1>4. QED
  BY <1>1, <1>3

\* Only Reserve brings a handler to its insert, on a row that does not exist
\* and that no other handler has; only that handler's Insert creates it.
LEMMA InsertsStep ==
  ASSUME TypeOK, InsertsFresh, BusyOnARow, [Next]_vars
  PROVE  InsertsFresh'
<1> USE DEF InsertsFresh
<1>1. ASSUME NEW h \in Handler, hs'[h].pc = "insert"
      PROVE  \/ hs'[h] = hs[h]
             \/ \E r \in Resv, q \in Request : Reserve(h, r, q)
  BY <1>1, HandlerSteps DEF HandlerStep, Idle
<1>2. ASSUME NEW h \in Handler, NEW r \in Resv, NEW q \in Request, Reserve(h, r, q)
      PROVE  /\ hs'[h].r = r /\ res'[r].state = "none"
             /\ \A g \in Handler \ {h} : hs'[g] = hs[g] /\ hs[g].r # r
  BY <1>2 DEF Reserve, Give, rows, TypeOK
<1>3. ASSUME NEW h \in Handler, hs'[h].pc = "insert"
      PROVE  res'[hs'[h].r].state = "none"
  <2>1. CASE hs'[h] = hs[h]
    <3> DEFINE r == hs[h].r
    <3>1. hs[h].pc = "insert" /\ r \in Resv /\ res[r].state = "none"
      BY <1>3, <2>1 DEF BusyOnARow
    <3>2. ASSUME NEW g \in Handler, RowInserted(r, g)  PROVE FALSE
      <4>1. g = h
        BY <3>1, <3>2 DEF RowInserted, Insert
      <4>2. hs'[h].pc # "insert"
        BY <3>2, <4>1 DEF RowInserted, Insert, Give, Finish, Idle, TypeOK, HState
      <4>3. QED
        BY <1>3, <4>2
    <3>3. RowStep(r)
      BY <3>1, RowSteps
    <3>4. QED
      BY <2>1, <3>1, <3>2, <3>3
         DEF RowStep, RowUntouched, RowDeleted, RowKept, RowExpired, RowConfirmed,
             RowNotified, Exists, RowStates, LiveStates
  <2>2. QED
    BY <1>1, <1>2, <1>3, <2>1
<1>4. ASSUME NEW g \in Handler, NEW h \in Handler, g # h,
             hs'[g].pc = "insert", hs'[h].pc = "insert", hs'[g].r = hs'[h].r
      PROVE  FALSE
  BY <1>1, <1>2, <1>4
<1>5. QED
  BY <1>3, <1>4

LEMMA NewRowFields ==
  ASSUME NEW h \in Handler, NEW q \in Request
  PROVE  /\ NewRow(h, q).link = NoToken /\ NewRow(h, q).qty = q.qty
         /\ NewRow(h, q).state \in {"pending_confirmation", "active"}
         /\ NewRow(h, q).state = "pending_confirmation" => NewRow(h, q).cap = "pending"
         /\ q.kind = "guest" => NewRow(h, q).cap = h
  BY DEF NewRow, Request, PathKinds

LEMMA SentinelStep ==
  ASSUME TypeOK, BusyOnARow, PendingHasSentinel, [Next]_vars
  PROVE  PendingHasSentinel'
<1>1. ASSUME NEW r \in Resv, res'[r].state = "pending_confirmation"
      PROVE  res'[r].cap = "pending"
  <2>1. \A h \in Handler : RowInserted(r, h) => res'[r].cap = "pending"
    BY <1>1, NewRowFields DEF RowInserted, TypeOK, HState
  <2>2. RowStep(r)
    BY RowSteps
  <2>3. QED
    BY <1>1, <2>1, <2>2 DEF PendingHasSentinel, RowStep, RowUntouched, RowDeleted, RowKept,
                            RowExpired, RowConfirmed, RowNotified
<1>2. QED
  BY <1>1 DEF PendingHasSentinel

LEMMA LinksStep ==
  ASSUME TypeOK, BusyOnARow, LinksOnlyOnceNotified, [Next]_vars
  PROVE  LinksOnlyOnceNotified'
<1>1. ASSUME NEW r \in Resv, res'[r].state \in {"none", "pending_confirmation", "active"}
      PROVE  res'[r].link = NoToken
  <2>1. \A h \in Handler : RowInserted(r, h) => res'[r].link = NoToken
    BY NewRowFields DEF RowInserted, TypeOK, HState
  <2>2. RowStep(r)
    BY RowSteps
  <2>3. QED
    BY <1>1, <2>1, <2>2 DEF LinksOnlyOnceNotified, RowStep, RowUntouched, RowDeleted, RowKept,
                            RowExpired, RowConfirmed, RowNotified
<1>2. QED
  BY <1>1 DEF LinksOnlyOnceNotified

\* A reminder leaves the inbox only when its own sweeper's next one replaces
\* the pair it carries.
LEMMA InboxStep ==
  ASSUME TypeOK, [Next]_vars, NEW r \in Resv, NEW z \in inbox[r]
  PROVE  z \in inbox'[r] \/ (z \in Sweeper /\ RemindFails(z, r))
<1>1. CASE inbox' = inbox
  BY <1>1
<1>2. ASSUME NEW s \in Sweeper, NEW d \in Resv, Remind(s, d)  PROVE z \in inbox'[r]
  BY <1>2 DEF Remind, TypeOK
<1>3. ASSUME NEW s \in Sweeper, NEW d \in Resv, RemindFails(s, d)
      PROVE  z \in inbox'[r] \/ (z = s /\ r = d)
  BY <1>3 DEF RemindFails, TypeOK
<1>4. ASSUME NEW s \in Sweeper,
             \/ StartSweep(s) \/ Mark(s) \/ MarkFails(s) \/ EndSweep(s) \/ StopSweep(s)
             \/ \E d \in Resv : Expire(s, d)
      PROVE  inbox' = inbox
  BY <1>4 DEF StartSweep, Mark, MarkFails, EndSweep, StopSweep, Expire, rows
<1>5. ASSUME NEW h \in Handler, HandlerNext(h)  PROVE inbox' = inbox
  BY <1>5 DEF HandlerNext, Reserve, Insert, Refuse, SendConfirm, SendConfirmFails, Rollback,
              Abort, ReadConfirm, Confirm, ReadLink, Keep, Drop, rows
<1>6. CASE (\E d \in Resv : Release(d)) \/ OwnerNext \/ OtherTrack \/ Tick \/ UNCHANGED vars
  BY <1>1, <1>6 DEF Release, ReleaseReservation, DeleteMyReservation, OwnerNext, Archive, Unarchive, DeleteItem, UpdateItem, SetList,
                    OtherTrack, Tick, vars, rows
<1>7. QED
  BY <1>1, <1>2, <1>3, <1>4, <1>5, <1>6 DEF Next, TrackNext, SweeperNext

LEMMA TodoStep ==
  ASSUME TypeOK, BusyOnARow, LinksOnlyOnceNotified, TodoIsFresh, [Next]_vars
  PROVE  TodoIsFresh'
<1>1. SUFFICES ASSUME NEW s \in Sweeper, NEW r \in Resv
               PROVE  /\ sw'[s].todo[r] # "none" => res'[r].state # "none"
                      /\ sw'[s].todo[r] = "active" => res'[r].link # s
  BY DEF TodoIsFresh
<1>2. /\ sw[s] \in SState /\ sw[s].todo \in [Resv -> States] /\ IdleSweep.todo[r] = "none"
      /\ s # NoToken
  BY NamesAssumption DEF TypeOK, SState, IdleSweep, NoTodo
<1>3. \A d : Done(s, d).todo[r] \in {"none", sw[s].todo[r]} /\ Done(s, r).todo[r] = "none"
  BY <1>2 DEF Done, SState
<1>4. CASE StartSweep(s)
  <2>1. res' = res /\ sw'[s].todo[r] \in {"none", res[r].state}
    BY <1>4 DEF StartSweep, Sweeping, rows, TypeOK, IdleSweep
  <2>2. QED
    BY <1>2, <2>1 DEF LinksOnlyOnceNotified
<1>5. CASE sw'[s].todo[r] \in {"none", sw[s].todo[r]}
  <2>1. ASSUME res[r].state # "none"  PROVE res'[r].state # "none"
    <3>1. \A h \in Handler : RowInserted(r, h) => res'[r].state # "none"
      BY NewRowFields DEF RowInserted, TypeOK, HState
    <3>2. QED
      BY <2>1, <3>1, RowSteps DEF RowStep, RowUntouched, RowDeleted, RowKept, RowExpired,
                                  RowConfirmed, RowNotified
  <2>2. ASSUME res[r].link # s, res'[r].link = s  PROVE RowNotified(r, s)
    <3>1. \A h \in Handler : ~RowInserted(r, h)
      BY <1>2, <2>2, NewRowFields DEF RowInserted, TypeOK, HState
    <3>2. QED
      BY <1>2, <2>2, <3>1, RowSteps DEF RowStep, RowUntouched, RowDeleted, RowKept, RowExpired,
                                        RowConfirmed, RowNotified
  <2>3. RowNotified(r, s) => sw'[s].todo[r] = "none"
    <3>1. RowNotified(r, s) => sw'[s] = Done(s, r)
      BY DEF RowNotified, Mark, Sweeping, TypeOK
    <3>2. QED
      BY <1>3, <3>1
  <2>4. QED
    BY <1>5, <2>1, <2>2, <2>3 DEF TodoIsFresh
<1>6. ASSUME NEW d \in Resv, Remind(s, d)  PROVE sw'[s].todo = sw[s].todo
  BY <1>2, <1>6 DEF Remind, Sweeping, TypeOK, SState
<1>7. QED
  BY <1>2, <1>3, <1>4, <1>5, <1>6, SweeperSteps DEF SweeperStep

LEMMA MarkingStep ==
  ASSUME TypeOK, BusyOnARow, InsertsFresh, TodoIsFresh, MarkingAfterSend, [Next]_vars
  PROVE  MarkingAfterSend'
<1>1. SUFFICES ASSUME NEW s \in Sweeper, sw'[s].pc = "marking"
               PROVE  /\ sw'[s].todo[sw'[s].cur] = "active"
                      /\ s \in inbox'[sw'[s].cur] /\ res'[sw'[s].cur].mail
  BY DEF MarkingAfterSend
<1>2. sw[s] \in SState /\ IdleSweep.pc = "idle"
  BY DEF TypeOK, IdleSweep
<1>3. \A d : Done(s, d).pc = "sweeping"
  BY <1>2 DEF Done, SState
<1>4. ASSUME NEW d \in Resv, Remind(s, d)
      PROVE  /\ sw'[s].todo[sw'[s].cur] = "active"
             /\ s \in inbox'[sw'[s].cur] /\ res'[sw'[s].cur].mail
  <2>1. sw'[s].cur = d /\ sw'[s].todo = sw[s].todo
    BY <1>2, <1>4 DEF Remind, Sweeping, TypeOK, SState
  <2>2. QED
    BY <1>4, <2>1 DEF Remind, TypeOK
<1>5. CASE sw'[s].pc = sw[s].pc /\ sw'[s].todo = sw[s].todo /\ sw'[s].cur = sw[s].cur
  <2> DEFINE r == sw[s].cur
  <2>1. /\ r \in Resv /\ sw[s].pc = "marking" /\ sw[s].todo[r] = "active"
        /\ s \in inbox[r] /\ res[r].mail /\ res[r].state # "none"
    BY <1>1, <1>5 DEF BusyOnARow, MarkingAfterSend, TodoIsFresh
  <2>2. s \in inbox'[r]
    BY <2>1, InboxStep DEF RemindFails
  <2>3. \A h \in Handler : ~RowInserted(r, h)
    BY <2>1 DEF RowInserted, Insert, InsertsFresh
  <2>4. res'[r].mail
    BY <2>1, <2>3, RowSteps DEF RowStep, RowUntouched, RowDeleted, RowKept, RowExpired,
                                RowConfirmed, RowNotified, Same
  <2>5. QED
    BY <1>5, <2>1, <2>2, <2>4
<1>6. StartSweep(s) => sw'[s].pc = "sweeping"
  BY DEF StartSweep, Sweeping, TypeOK, IdleSweep
<1>7. QED
  BY <1>1, <1>2, <1>3, <1>4, <1>5, <1>6, SweeperSteps DEF SweeperStep

LEMMA ReturnedStep ==
  ASSUME TypeOK, [Next]_vars, NEW r \in Resv
  PROVE  \/ returned'[r] = returned[r]
         \/ \E h \in Handler : RowInserted(r, h)
         \/ \E h \in Handler : Confirm(h) /\ hs[h].r = r /\ res[r].state = "pending_confirmation"
<1>1. CASE returned' = returned
  BY <1>1
<1>2. ASSUME NEW h \in Handler, Insert(h)
      PROVE  returned'[r] = returned[r] \/ RowInserted(r, h)
  BY <1>2 DEF Insert, RowInserted, TypeOK
<1>3. ASSUME NEW h \in Handler, Confirm(h)
      PROVE  \/ returned'[r] = returned[r]
             \/ hs[h].r = r /\ res[r].state = "pending_confirmation"
  BY <1>3 DEF Confirm, StillIn, TypeOK
<1>4. ASSUME NEW h \in Handler,
             \/ Refuse(h) \/ SendConfirm(h) \/ SendConfirmFails(h) \/ Rollback(h)
             \/ Abort(h) \/ Keep(h) \/ Drop(h)
             \/ \E d \in Resv, q \in Request : Reserve(h, d, q)
             \/ \E d \in Resv : ReadConfirm(h, d)
             \/ \E d \in Resv, todo \in {"keep", "drop"} : ReadLink(h, d, todo)
      PROVE  returned' = returned
  BY <1>4 DEF Reserve, Refuse, SendConfirm, SendConfirmFails, Rollback, Abort, ReadConfirm,
              ReadLink, Keep, Drop, rows
<1>5. ASSUME NEW s \in Sweeper, SweeperNext(s)  PROVE returned' = returned
  BY <1>5 DEF SweeperNext, StartSweep, Mark, MarkFails, EndSweep, StopSweep, Expire, Remind,
              RemindFails, rows
<1>6. CASE (\E d \in Resv : Release(d)) \/ OwnerNext \/ OtherTrack \/ Tick \/ UNCHANGED vars
  BY <1>1, <1>6 DEF Release, ReleaseReservation, DeleteMyReservation, OwnerNext, Archive, Unarchive, DeleteItem, UpdateItem, SetList,
                    OtherTrack, Tick, vars, rows
<1>7. QED
  BY <1>1, <1>2, <1>3, <1>4, <1>5, <1>6 DEF Next, TrackNext, HandlerNext

LEMMA TokensStep ==
  ASSUME TypeOK, BusyOnARow, PendingHasSentinel, TokensHonoured, [Next]_vars
  PROVE  TokensHonoured'
<1>1. SUFFICES ASSUME NEW r \in Resv, res'[r].state \in RowStates
               PROVE  returned'[r] \subseteq {res'[r].cap}
  BY DEF TokensHonoured, Exists
<1>2. ASSUME NEW h \in Handler, RowInserted(r, h)  PROVE returned'[r] \subseteq {res'[r].cap}
  <2>1. returned'[r] = IF hs[h].req.kind = "guest" THEN {h} ELSE {}
    BY <1>2 DEF RowInserted, Insert, TypeOK
  <2>2. hs[h].req.kind = "guest" => res'[r].cap = h
    BY <1>2, NewRowFields DEF RowInserted, TypeOK, HState
  <2>3. QED
    BY <2>1, <2>2
<1>3. ASSUME NEW h \in Handler, Confirm(h), hs[h].r = r, res[r].state = "pending_confirmation"
      PROVE  returned'[r] \subseteq {res'[r].cap}
  <2>1. returned[r] = {}
    <3>1. returned[r] \subseteq {"pending"} /\ returned[r] \subseteq Handler
      BY <1>3 DEF TokensHonoured, Exists, RowStates, LiveStates, PendingHasSentinel, TypeOK
    <3>2. QED
      BY <3>1, NamesAssumption
  <2>2. returned'[r] = {h}
    BY <1>3, <2>1 DEF Confirm, StillIn, TypeOK
  <2>3. res'[r].cap = h
    BY <1>3 DEF Confirm, Transition, StillIn, TypeOK, Row
  <2>4. QED
    BY <2>2, <2>3
<1>4. CASE returned'[r] = returned[r] /\ \A h \in Handler : ~RowInserted(r, h)
  <2>1. CASE \E h \in Handler : RowConfirmed(r, h)
    BY <1>3, <2>1 DEF RowConfirmed
  <2>2. CASE \A h \in Handler : ~RowConfirmed(r, h)
    BY <1>1, <1>4, <2>2, RowSteps
       DEF TokensHonoured, Exists, RowStates, LiveStates, RowStep, RowUntouched, RowDeleted,
           RowKept, RowExpired, RowNotified
  <2>3. QED
    BY <2>1, <2>2
<1>5. QED
  BY <1>2, <1>3, <1>4, ReturnedStep

LEMMA SilentStep ==
  ASSUME TypeOK, BusyOnARow, PendingHasSentinel, TodoIsFresh, MarkingAfterSend,
         NoSilentExpiry, [Next]_vars
  PROVE  NoSilentExpiry'
<1>1. SUFFICES ASSUME NEW r \in Resv,
                      \/ res'[r].state = "reserver_notified"
                      \/ res'[r].state = "expired" /\ res'[r].cap # "pending"
               PROVE  res'[r].mail /\ res'[r].link \in inbox'[r]
  BY DEF NoSilentExpiry
<1>2. ASSUME \/ res[r].state = "reserver_notified"
             \/ res[r].state = "expired" /\ res[r].cap # "pending"
      PROVE  res[r].mail /\ res[r].link \in inbox'[r]
  <2>1. res[r].mail /\ res[r].link \in inbox[r]
    BY <1>2 DEF NoSilentExpiry
  <2>2. \A s \in Sweeper : RemindFails(s, r) => res[r].link # s
    BY DEF RemindFails, TodoIsFresh
  <2>3. QED
    BY <2>1, <2>2, InboxStep
<1>3. ASSUME NEW s \in Sweeper, RowNotified(r, s)
      PROVE  res'[r].mail /\ res'[r].link \in inbox'[r]
  <2>1. res[r].mail /\ s \in inbox[r] /\ inbox' = inbox
    BY <1>3 DEF RowNotified, Mark, MarkingAfterSend
  <2>2. QED
    BY <1>3, <2>1 DEF RowNotified, Same
<1>4. ASSUME RowUntouched(r) \/ RowExpired(r)
      PROVE  res'[r].mail /\ res'[r].link \in inbox'[r]
  BY <1>1, <1>2, <1>4 DEF RowUntouched, RowExpired, Same, PendingHasSentinel
<1>5. \A h \in Handler : ~RowInserted(r, h)
  BY <1>1, NewRowFields DEF RowInserted, TypeOK, HState
<1>6. QED
  BY <1>1, <1>3, <1>4, <1>5, RowSteps DEF RowStep, RowDeleted, RowKept, RowConfirmed

LEMMA IInvInit ==
  ASSUME Init
  PROVE  IInv
<1>1. TypeOK /\ BusyOnARow
  BY TypeInit
<1>2. /\ \A r \in Resv : res[r] = NoRow
      /\ \A h \in Handler : hs[h] = Idle
      /\ \A s \in Sweeper : sw[s] = IdleSweep
  BY DEF Init
<1>3. /\ Idle.pc = "idle" /\ Idle.want = 1 /\ IdleSweep.pc = "idle"
      /\ \A r \in Resv : IdleSweep.todo[r] = "none"
      /\ NoRow.state = "none" /\ NoRow.link = NoToken
  BY DEF Idle, IdleSweep, NoTodo, NoRow
<1>4. WantedWithinPeak
  BY <1>1, <1>2, <1>3, BoundsAssumption DEF Init, TypeOK, Qty, WantedWithinPeak
<1>5. InsertsFresh /\ TodoIsFresh /\ MarkingAfterSend
  BY <1>2, <1>3 DEF InsertsFresh, TodoIsFresh, MarkingAfterSend
<1>6. /\ PendingHasSentinel /\ LinksOnlyOnceNotified /\ NoSilentExpiry
      /\ TokensHonoured
  BY <1>2, <1>3 DEF PendingHasSentinel, LinksOnlyOnceNotified, NoSilentExpiry,
                    TokensHonoured, Exists, RowStates, LiveStates
<1>7. QED
  BY <1>1, <1>4, <1>5, <1>6 DEF IInv

\* IInv holds throughout.
THEOREM Inductive == Spec => []IInv
<1>1. Init => IInv
  BY IInvInit
<1>2. IInv /\ [Next]_vars => IInv'
  BY TypeStep, BusyStep, WantedStep, InsertsStep, SentinelStep, LinksStep, TodoStep,
     MarkingStep, TokensStep, SilentStep DEF IInv
<1>3. QED
  BY <1>1, <1>2, PTL DEF Spec

-----------------------------------------------------------------------------
(* The theorems *)

\* Of concurrent confirms, and of a confirm against the confirm-window sweep,
\* only the winner's token reaches a giver, and it is the one stored.
THEOREM TokensAreHonoured == Spec => []TokensHonoured
<1>1. IInv => TokensHonoured
  BY DEF IInv
<1>2. QED
  BY <1>1, Inductive, PTL

\* Decay takes a once active reservation only after a reminder that reached
\* its giver with working links, for any number of sweepers.
THEOREM NoExpiryIsSilent == Spec => []NoSilentExpiry
<1>1. IInv => NoSilentExpiry
  BY DEF IInv
<1>2. QED
  BY <1>1, Inductive, PTL

\* An expired row never comes back to life.
ExpiredIsFinal ==
  [][\A r \in Resv : res[r].state = "expired" => res'[r].state \in {"expired", "gone"}]_vars

\* No step, stale or not, revives an expired row.
THEOREM ExpiryIsFinal == Spec => ExpiredIsFinal
<1>1. ASSUME IInv, [Next]_vars
      PROVE  [\A r \in Resv : res[r].state = "expired"
                                => res'[r].state \in {"expired", "gone"}]_vars
  <2>1. ASSUME NEW r \in Resv, res[r].state = "expired"
        PROVE  res'[r].state \in {"expired", "gone"}
    <3>1. RowStep(r)
      BY <1>1, RowSteps DEF IInv
    <3>2. \A h \in Handler : ~RowInserted(r, h)
      BY <1>1, <2>1 DEF RowInserted, Insert, IInv, InsertsFresh
    <3>3. QED
      BY <2>1, <3>1, <3>2 DEF RowStep, RowUntouched, RowDeleted, RowKept, RowExpired,
                              RowConfirmed, RowNotified
  <2>2. QED
    BY <2>1
<1>2. QED
  BY <1>1, Inductive, PTL DEF Spec, ExpiredIsFinal

-----------------------------------------------------------------------------
(* Capacity *)

LEMMA UnitsFinite ==
  ASSUME NEW f
  PROVE  IsFiniteSet(Units(f)) /\ Cardinality(Units(f)) \in Nat
<1>1. IsFiniteSet(Qty)
  BY BoundsAssumption, FS_Interval DEF Qty
<1>2. IsFiniteSet(Resv \X Qty)
  BY <1>1, FiniteAssumption, FS_Product
<1>3. Units(f) \subseteq Resv \X Qty
  BY DEF Units
<1>4. IsFiniteSet(Units(f))
  BY <1>2, <1>3, FS_Subset
<1>5. QED
  BY <1>4, FS_CardinalityType

\* Only an insert adds units, and it adds as many as it asked for.
LEMMA InsertAdds ==
  ASSUME TypeOK, TypeOK', BusyOnARow, NEW h \in Handler, Insert(h)
  PROVE  ReservedQuantity' <= ReservedQuantity + hs[h].req.qty
<1> DEFINE r == hs[h].r
           q == hs[h].req.qty
           added == {r} \X (1 .. q)
<1>1. r \in Resv /\ q \in Nat /\ q \in Qty /\ res'[r].qty = q
  <2>1. hs[h].req \in Request /\ r \in Resv
    BY DEF TypeOK, HState, BusyOnARow, Insert
  <2>2. res'[r] = NewRow(h, hs[h].req)
    BY <2>1 DEF Insert, TypeOK
  <2>3. QED
    BY <2>1, <2>2, NewRowFields DEF Request, Qty
<1>2. \A d \in Resv : d # r => res'[d] = res[d]
  BY DEF Insert, TypeOK
<1>3. Units(res)' \subseteq Units(res) \cup added
  BY <1>1, <1>2 DEF Units, Qty
<1>4. IsFiniteSet(added) /\ Cardinality(added) = q
  <2>1. IsFiniteSet({r}) /\ Cardinality({r}) = 1
    BY FS_Singleton
  <2>2. IsFiniteSet(1 .. q) /\ Cardinality(1 .. q) = q
    <3>1. 1 \in Int /\ q \in Int /\ 1 <= q
      BY <1>1 DEF Qty
    <3>2. IsFiniteSet(1 .. q) /\ Cardinality(1 .. q) = IF 1 > q THEN 0 ELSE q - 1 + 1
      BY <3>1, FS_Interval
    <3>3. QED
      BY <3>1, <3>2
  <2>3. IsFiniteSet(added) /\ Cardinality(added) = 1 * q
    BY <2>1, <2>2, FS_Product
  <2>4. QED
    BY <1>1, <2>3
<1>5. /\ IsFiniteSet(Units(res) \cup added)
      /\ Cardinality(Units(res) \cup added)
           = Cardinality(Units(res)) + Cardinality(added) - Cardinality(Units(res) \cap added)
  BY <1>4, UnitsFinite, FS_Union
<1>6. Cardinality(Units(res) \cap added) \in Nat
  BY UnitsFinite, FS_Intersection, FS_CardinalityType
<1>7. Cardinality(Units(res)') <= Cardinality(Units(res) \cup added)
  BY <1>3, <1>5, FS_Subset
<1>8. Cardinality(Units(res)') \in Nat
  BY UnitsFinite
<1>9. Cardinality(Units(res) \cup added) <= Cardinality(Units(res)) + q
  BY <1>1, <1>4, <1>5, <1>6, UnitsFinite
<1>10. Cardinality(Units(res) \cup added) \in Nat
  BY <1>5, FS_CardinalityType
<1>11. QED
  BY <1>1, <1>7, <1>8, <1>9, <1>10, UnitsFinite DEF ReservedQuantity

LEMMA NoInsertNoUnits ==
  ASSUME TypeOK, BusyOnARow, [Next]_vars, \A h \in Handler : ~Insert(h)
  PROVE  ReservedQuantity' <= ReservedQuantity
<1>1. ASSUME NEW r \in Resv, res'[r].state \in LiveStates
      PROVE  res[r].state \in LiveStates /\ res'[r].qty = res[r].qty
  BY <1>1, RowSteps DEF RowStep, RowUntouched, RowDeleted, RowKept, RowExpired, RowConfirmed,
                        RowNotified, RowInserted, Same, LiveStates
<1>2. Units(res)' \subseteq Units(res)
  BY <1>1 DEF Units
<1>3. QED
  BY <1>2, UnitsFinite, FS_Subset DEF ReservedQuantity

\* Concurrent reservers never hold more than the item ever asked for.
THEOREM CapacityKept == Spec => []WithinCapacity
<1>1. Init => WithinCapacity
  <2>1. SUFFICES ASSUME Init  PROVE WithinCapacity
    OBVIOUS
  <2>2. Units(res) = {}
    BY <2>1 DEF Init, Units, NoRow, LiveStates
  <2>3. peak \in Nat
    BY <2>1, TypeInit, BoundsAssumption DEF TypeOK, Qty
  <2>4. QED
    BY <2>2, <2>3, FS_EmptySet DEF WithinCapacity, ReservedQuantity
<1>2. IInv /\ IInv' /\ WithinCapacity /\ [Next]_vars => WithinCapacity'
  <2>1. SUFFICES ASSUME IInv, IInv', WithinCapacity, [Next]_vars
                 PROVE  ReservedQuantity' <= peak'
    BY DEF WithinCapacity
  <2>2. /\ TypeOK /\ TypeOK' /\ BusyOnARow /\ peak <= peak'
        /\ ReservedQuantity \in Int /\ peak \in Int /\ peak' \in Int
    BY <2>1, PeakStep, UnitsFinite DEF IInv, WantedWithinPeak, ReservedQuantity, TypeOK, Qty
  <2>3. ReservedQuantity' \in Int
    BY UnitsFinite DEF ReservedQuantity
  <2>4. ASSUME NEW h \in Handler, Insert(h)  PROVE ReservedQuantity' <= peak'
    <3>1. hs[h].want <= peak /\ hs[h].want \in Int /\ hs[h].req.qty \in Int
      BY <2>1, <2>2 DEF IInv, WantedWithinPeak, TypeOK, HState, Request, Qty
    <3>2. ReservedQuantity + hs[h].req.qty <= hs[h].want
      BY <2>4 DEF Insert, Fits
    <3>3. ReservedQuantity' <= ReservedQuantity + hs[h].req.qty
      BY <2>2, <2>4, InsertAdds
    <3>4. QED
      BY <2>2, <2>3, <3>1, <3>2, <3>3
  <2>5. CASE \A h \in Handler : ~Insert(h)
    <3>1. ReservedQuantity' <= ReservedQuantity /\ ReservedQuantity <= peak
      BY <2>1, <2>2, <2>5, NoInsertNoUnits DEF WithinCapacity
    <3>2. QED
      BY <2>2, <2>3, <3>1
  <2>6. QED
    BY <2>4, <2>5
<1>3. QED
  BY <1>1, <1>2, Inductive, PTL DEF Spec

-----------------------------------------------------------------------------
(* Earned expiry.  A sweep holds the verdict of its snapshot: the row it     *)
(* will expire had used up its window then, and neither the row's clock nor  *)
(* the item's has been restarted since, or a return of the item raced the    *)
(* sweep.  A stamp is never older than the item's last return: the return    *)
(* renewed it, or a sweep wrote it that began after the return.              *)

Earned(s, r, st) ==
  /\ sw[s].pc # "idle" /\ sw[s].todo[r] = st
  /\ res[r].state = st /\ r \notin raced
  => WindowOver(r)

PendingEarned  == \A s \in Sweeper, r \in Resv : Earned(s, r, "pending_confirmation")
NotifiedEarned == \A s \in Sweeper, r \in Resv : Earned(s, r, "reserver_notified")

ClocksSince ==
  /\ \A r \in Resv \ raced : Live(r) => res[r].dwell <= back
  /\ \A s \in Sweeper, r \in Resv \ raced :
       sw[s].pc # "idle" /\ sw[s].todo[r] # "none" => sw[s].age <= back

\* At most one sweep is under way: a second instance sweeps between the
\* sweeps of the first, never across one.
OneSweep == \A s, t \in Sweeper : sw[s].pc # "idle" /\ sw[t].pc # "idle" => s = t

\* What a step that is neither a tick nor a return does to a row's clock, and
\* to what a sweep has listed.
ClockStep(r) ==
  \/ res'[r].state = res[r].state /\ res'[r].dwell = res[r].dwell
  \/ res'[r].dwell = 0 /\ (res[r].state = "none" \/ res'[r].state = "active")
  \/ res'[r].state \notin LiveStates
  \/ \E s \in Sweeper : /\ Mark(s) /\ sw[s].cur = r /\ res'[r].state = "reserver_notified"
                        /\ res'[r].dwell = sw[s].age

SweepStep(s, r, st) ==
  sw'[s].pc # "idle" /\ sw'[s].todo[r] = st =>
    \/ sw[s].pc # "idle" /\ sw[s].todo[r] = st /\ sw'[s].age = sw[s].age
    \/ Due(r) /\ res[r].state = st /\ res' = res /\ sw'[s].age = 0

LEMMA TransitionClock ==
  ASSUME TypeOK, NEW r \in Resv, NEW d, NEW from, NEW row, Transition(d, from, row)
  PROVE  \/ res'[r].state = res[r].state /\ res'[r].dwell = res[r].dwell
         \/ r = d /\ res'[r] = row
  BY DEF Transition, StillIn, TypeOK

LEMMA DeleteClock ==
  ASSUME TypeOK, NEW r \in Resv, NEW d, Delete(d)
  PROVE  ClockStep(r)
<1>1. CASE r = d
  <2>1. res[r] \in Row /\ res'[r] = [res[r] EXCEPT !.state = "gone"]
    BY <1>1 DEF Delete, TypeOK
  <2>2. QED
    BY <2>1 DEF Row, ClockStep, LiveStates
<1>2. CASE r # d
  BY <1>2 DEF Delete, TypeOK, ClockStep
<1>3. QED
  BY <1>1, <1>2

LEMMA HandlerClock ==
  ASSUME IInv, NEW r \in Resv, NEW h \in Handler, HandlerNext(h)
  PROVE  ClockStep(r)
<1>1. CASE res' = res
  BY <1>1 DEF ClockStep
<1>2. CASE Insert(h)
  <2>1. \/ res'[r] = res[r]
        \/ r = hs[h].r /\ res'[r] = NewRow(h, hs[h].req)
    BY <1>2 DEF Insert, IInv, TypeOK
  <2>2. NewRow(h, hs[h].req).dwell = 0
    BY DEF NewRow
  <2>3. r = hs[h].r => res[r].state = "none"
    BY <1>2 DEF Insert, IInv, InsertsFresh
  <2>4. QED
    BY <2>1, <2>2, <2>3 DEF ClockStep
<1>3. CASE Rollback(h) \/ Drop(h)
  BY <1>1, <1>3, DeleteClock DEF Rollback, Drop, IInv
<1>4. CASE Confirm(h)
  <2> DEFINE row == [res[hs[h].r] EXCEPT !.state = "active", !.cap = h, !.idle = 0, !.dwell = 0]
  <2>1. Transition(hs[h].r, "pending_confirmation", row)
    BY <1>4 DEF Confirm
  <2>2. CASE r = hs[h].r /\ res'[r] = row
    BY <2>2 DEF ClockStep, IInv, TypeOK, Row
  <2>3. QED
    BY <2>1, <2>2, TransitionClock DEF ClockStep, IInv
<1>5. CASE Keep(h)
  <2> DEFINE row == [res[hs[h].r] EXCEPT !.state = "active", !.link = NoToken,
                                         !.idle = 0, !.dwell = 0]
  <2>1. Transition(hs[h].r, "reserver_notified", row)
    BY <1>5 DEF Keep
  <2>2. CASE r = hs[h].r /\ res'[r] = row
    BY <2>2 DEF ClockStep, IInv, TypeOK, Row
  <2>3. QED
    BY <2>1, <2>2, TransitionClock DEF ClockStep, IInv
<1>6. CASE \/ Refuse(h) \/ SendConfirm(h) \/ SendConfirmFails(h) \/ Abort(h)
           \/ \E d \in Resv, q \in Request : Reserve(h, d, q)
           \/ \E d \in Resv : ReadConfirm(h, d)
           \/ \E d \in Resv, todo \in {"keep", "drop"} : ReadLink(h, d, todo)
  BY <1>1, <1>6 DEF Refuse, SendConfirm, SendConfirmFails, Abort, Reserve, ReadConfirm,
                    ReadLink, rows
<1>7. QED
  BY <1>2, <1>3, <1>4, <1>5, <1>6 DEF HandlerNext

LEMMA SweeperClock ==
  ASSUME TypeOK, NEW r \in Resv, NEW s \in Sweeper, SweeperNext(s)
  PROVE  ClockStep(r)
<1>1. CASE res' = res
  BY <1>1 DEF ClockStep
<1>2. ASSUME NEW d \in Resv, Expire(s, d)  PROVE ClockStep(r)
  <2> DEFINE row == [res[d] EXCEPT !.state = "expired", !.dwell = sw[s].age]
  <2>1. Transition(d, sw[s].todo[d], row)
    BY <1>2 DEF Expire
  <2>2. CASE r = d /\ res'[r] = row
    BY <2>2 DEF ClockStep, TypeOK, Row, LiveStates
  <2>3. QED
    BY <2>1, <2>2, TransitionClock DEF ClockStep
<1>3. CASE Mark(s)
  <2> DEFINE row == [res[sw[s].cur] EXCEPT !.state = "reserver_notified", !.link = s,
                                           !.dwell = sw[s].age]
  <2>1. Transition(sw[s].cur, "active", row)
    BY <1>3 DEF Mark
  <2>2. CASE r = sw[s].cur /\ res'[r] = row
    BY <1>3, <2>2 DEF ClockStep, TypeOK, Row
  <2>3. QED
    BY <2>1, <2>2, TransitionClock DEF ClockStep
<1>4. CASE \/ StartSweep(s) \/ MarkFails(s) \/ EndSweep(s) \/ StopSweep(s)
           \/ \E d \in Resv : Remind(s, d) \/ RemindFails(s, d)
  BY <1>1, <1>4 DEF StartSweep, MarkFails, EndSweep, StopSweep, Remind, RemindFails, rows
<1>5. QED
  BY <1>2, <1>3, <1>4 DEF SweeperNext

LEMMA ClockSteps ==
  ASSUME IInv, NEW r \in Resv, [Next]_vars, ~Tick, ~Unarchive
  PROVE  ClockStep(r)
<1>1. CASE res' = res
  BY <1>1 DEF ClockStep
<1>2. ASSUME NEW d \in Resv, Release(d)  PROVE ClockStep(r)
  BY <1>2, DeleteClock DEF Release, ReleaseReservation, DeleteMyReservation, IInv
<1>3. CASE \/ Archive \/ DeleteItem \/ OtherTrack \/ UNCHANGED vars
           \/ \E n \in {0} \cup Qty : UpdateItem(n)
           \/ \E l \in {"open", "past", "inactive"} : SetList(l)
  BY <1>1, <1>3 DEF Archive, DeleteItem, OtherTrack, UpdateItem, SetList, vars, rows
<1>4. QED
  BY <1>2, <1>3, HandlerClock, SweeperClock DEF IInv, Next, TrackNext, OwnerNext

LEMMA SweepSteps ==
  ASSUME TypeOK, NEW s \in Sweeper, NEW r \in Resv, [Next]_vars, ~Tick, NEW st, st # "none"
  PROVE  SweepStep(s, r, st)
<1>1. CASE sw'[s] = sw[s]
  BY <1>1 DEF SweepStep
<1>2. CASE SweeperNext(s)
  <2>1. \A next : Sweeping(s, next) => sw'[s] = next
    BY DEF Sweeping, TypeOK
  <2>2. sw[s] \in SState
    BY DEF TypeOK
  <2>3. CASE StartSweep(s)
    <3> DEFINE snapshot == [d \in Resv |-> IF Candidate(d) /\ Due(d) THEN res[d].state ELSE "none"]
    <3>0. sw'[s] = [IdleSweep EXCEPT !.pc = "sweeping", !.todo = snapshot]
      BY <2>1, <2>3 DEF StartSweep
    <3>1. sw'[s].todo[r] = IF Candidate(r) /\ Due(r) THEN res[r].state ELSE "none"
      BY <3>0 DEF IdleSweep
    <3>2. res' = res
      BY <2>3 DEF StartSweep, rows
    <3>3. QED
      BY <3>0, <3>1, <3>2 DEF SweepStep, IdleSweep
  <2>4. CASE EndSweep(s) \/ StopSweep(s)
    <3>1. sw'[s].pc = "idle"
      BY <2>1, <2>4 DEF EndSweep, StopSweep, IdleSweep
    <3>2. QED
      BY <3>1 DEF SweepStep
  <2>5. CASE \/ Mark(s) \/ MarkFails(s)
             \/ \E d \in Resv : Expire(s, d) \/ RemindFails(s, d)
    <3>1. PICK d : sw'[s] = Done(s, d) /\ sw[s].pc # "idle"
      BY <2>1, <2>5 DEF Mark, MarkFails, Expire, RemindFails, AfterFailedReminder
    <3>2. sw'[s].age = sw[s].age /\ (sw'[s].todo[r] = sw[s].todo[r] \/ sw'[s].todo[r] = "none")
      BY <2>2, <3>1 DEF Done, SState
    <3>3. QED
      BY <3>1, <3>2 DEF SweepStep
  <2>6. ASSUME NEW d \in Resv, Remind(s, d)  PROVE SweepStep(s, r, st)
    <3>1. sw'[s] = [sw[s] EXCEPT !.pc = "marking", !.cur = d] /\ sw[s].pc = "sweeping"
      BY <2>1, <2>6 DEF Remind
    <3>2. sw'[s].age = sw[s].age /\ sw'[s].todo = sw[s].todo
      BY <2>2, <3>1 DEF SState
    <3>3. QED
      BY <3>1, <3>2 DEF SweepStep
  <2>7. QED
    BY <1>2, <2>3, <2>4, <2>5, <2>6 DEF SweeperNext
<1>3. ASSUME NEW z \in Sweeper, SweeperNext(z), z # s  PROVE sw'[s] = sw[s]
  BY <1>3 DEF SweeperNext, StartSweep, Mark, MarkFails, EndSweep, StopSweep, Expire, Remind,
              RemindFails, Sweeping, TypeOK
<1>4. ASSUME NEW h \in Handler, HandlerNext(h)  PROVE sw' = sw
  BY <1>4 DEF HandlerNext, Reserve, Insert, Refuse, SendConfirm, SendConfirmFails, Rollback,
              Abort, ReadConfirm, Confirm, ReadLink, Keep, Drop
<1>5. CASE (\E d \in Resv : Release(d)) \/ OwnerNext \/ OtherTrack \/ UNCHANGED vars
  BY <1>1, <1>5 DEF Release, ReleaseReservation, DeleteMyReservation, OwnerNext, Archive,
                    Unarchive, DeleteItem, UpdateItem, SetList, OtherTrack, vars
<1>6. QED
  BY <1>1, <1>2, <1>3, <1>4, <1>5 DEF Next, TrackNext

LEMMA SinceSteps ==
  ASSUME [Next]_vars, ~Tick, ~Unarchive
  PROVE  back' = back /\ raced' = raced
<1> USE DEF itemVars
<1>1. ASSUME NEW h \in Handler, HandlerNext(h)  PROVE back' = back /\ raced' = raced
  BY <1>1 DEF HandlerNext, Reserve, Insert, Refuse, SendConfirm, SendConfirmFails, Rollback,
              Abort, ReadConfirm, Confirm, ReadLink, Keep, Drop
<1>2. ASSUME NEW s \in Sweeper, SweeperNext(s)  PROVE back' = back /\ raced' = raced
  BY <1>2 DEF SweeperNext, StartSweep, Mark, MarkFails, EndSweep, StopSweep, Expire, Remind,
              RemindFails
<1>3. QED
  BY <1>1, <1>2 DEF Next, TrackNext, OwnerNext, Release, ReleaseReservation,
    DeleteMyReservation, Archive, DeleteItem, UpdateItem, SetList, OtherTrack, vars

LEMMA OlderGrows ==
  ASSUME NEW a \in Ages, NEW b \in Ages
  PROVE  /\ a <= b => Older(a) <= Older(b)
         /\ a <= Older(a)
  BY BoundsAssumption DEF Older, Ages

\* What a tick makes older: every live row, every sweep under way, the return.
LEMMA TickAges ==
  ASSUME TypeOK, Tick
  PROVE  /\ \A r \in Resv :
              /\ res'[r].state = res[r].state
              /\ Live(r) => res'[r].dwell = Older(res[r].dwell)
         /\ \A s \in Sweeper :
              /\ sw'[s].pc = sw[s].pc /\ sw'[s].todo = sw[s].todo
              /\ sw[s].pc # "idle" => sw'[s].age = Older(sw[s].age)
         /\ back' = Older(back) /\ raced' = raced
<1>1. ASSUME NEW r \in Resv
      PROVE  res'[r].state = res[r].state /\ (Live(r) => res'[r].dwell = Older(res[r].dwell))
  <2>1. res[r] \in Row
    BY DEF TypeOK
  <2>2. QED
    BY <2>1 DEF Tick, Row
<1>2. ASSUME NEW s \in Sweeper
      PROVE  /\ sw'[s].pc = sw[s].pc /\ sw'[s].todo = sw[s].todo
             /\ sw[s].pc # "idle" => sw'[s].age = Older(sw[s].age)
  <2>1. sw[s] \in SState
    BY DEF TypeOK
  <2>2. QED
    BY <2>1 DEF Tick, SState
<1>3. QED
  BY <1>1, <1>2 DEF Tick

\* No stamp and no sweep is older than the item's last return, but for the
\* holds that the return raced.
LEMMA ClocksSinceStep ==
  ASSUME IInv, TypeOK', ClocksSince, [Next]_vars
  PROVE  ClocksSince'
<1>0. TypeOK
  BY DEF IInv
<1>1. CASE Tick
  <2>1. ASSUME NEW r \in Resv \ raced, Live(r)'  PROVE res'[r].dwell <= back'
    <3>1. Live(r) /\ res'[r].dwell = Older(res[r].dwell) /\ back' = Older(back)
      BY <1>0, <1>1, <2>1, TickAges DEF Live
    <3>2. res[r].dwell <= back /\ res[r].dwell \in Ages /\ back \in Ages
      BY <1>0, <2>1, <3>1 DEF ClocksSince, TypeOK, Row
    <3>3. QED
      BY <3>1, <3>2, OlderGrows
  <2>2. ASSUME NEW s \in Sweeper, NEW r \in Resv \ raced,
               sw'[s].pc # "idle", sw'[s].todo[r] # "none"
        PROVE  sw'[s].age <= back'
    <3>1. /\ sw[s].pc # "idle" /\ sw[s].todo[r] # "none"
          /\ sw'[s].age = Older(sw[s].age) /\ back' = Older(back)
      BY <1>0, <1>1, <2>2, TickAges
    <3>2. sw[s].age <= back /\ sw[s].age \in Ages /\ back \in Ages
      BY <1>0, <2>2, <3>1 DEF ClocksSince, TypeOK, SState
    <3>3. QED
      BY <3>1, <3>2, OlderGrows
  <2>3. raced' = raced
    BY <1>1 DEF Tick
  <2>4. QED
    BY <2>1, <2>2, <2>3 DEF ClocksSince
<1>2. CASE Unarchive
  <2>1. /\ back' = 0 /\ raced' = {r \in Resv : Listed(r)} /\ sw' = sw
    BY <1>2 DEF Unarchive
  <2>2. ASSUME NEW r \in Resv, Live(r)'  PROVE res'[r].dwell = 0
    <3>1. res[r] \in Row /\ res'[r] = ClocksRestarted(res[r])
      BY <1>0, <1>2 DEF Unarchive, TypeOK
    <3>2. QED
      BY <2>2, <3>1 DEF ClocksRestarted, Live, Row
  <2>3. \A s \in Sweeper, r \in Resv \ raced' : sw'[s].todo[r] = "none"
    BY <2>1 DEF Listed
  <2>4. QED
    BY <2>1, <2>2, <2>3 DEF ClocksSince
<1>3. CASE ~Tick /\ ~Unarchive
  <2>1. back' = back /\ raced' = raced /\ back \in Nat
    BY <1>0, <1>3, SinceSteps DEF TypeOK, Ages
  <2>2. ASSUME NEW r \in Resv \ raced, Live(r)'  PROVE res'[r].dwell <= back
    <3>1. ClockStep(r)
      BY <1>3, ClockSteps
    <3>2. ASSUME NEW s \in Sweeper, Mark(s), sw[s].cur = r  PROVE sw[s].age <= back
      BY <3>2 DEF Mark, IInv, MarkingAfterSend, ClocksSince
    <3>3. QED
      BY <2>1, <2>2, <3>1, <3>2 DEF ClockStep, ClocksSince, Live
  <2>3. ASSUME NEW s \in Sweeper, NEW r \in Resv \ raced,
               sw'[s].pc # "idle", sw'[s].todo[r] # "none"
        PROVE  sw'[s].age <= back
    <3>1. SweepStep(s, r, sw'[s].todo[r])
      BY <1>0, <1>3, <2>3, SweepSteps
    <3>2. QED
      BY <2>1, <2>3, <3>1 DEF SweepStep, ClocksSince
  <2>4. QED
    BY <2>1, <2>2, <2>3 DEF ClocksSince
<1>4. QED
  BY <1>1, <1>2, <1>3

\* Time takes no window away that was over.
LEMMA TickEarned ==
  ASSUME TypeOK, Tick, NEW s \in Sweeper, NEW r \in Resv,
         NEW st \in {"pending_confirmation", "reserver_notified"}, Earned(s, r, st)
  PROVE  Earned(s, r, st)'
<1> SUFFICES ASSUME sw'[s].pc # "idle", sw'[s].todo[r] = st, res'[r].state = st, r \notin raced'
             PROVE  WindowOver(r)'
  BY DEF Earned
<1>1. /\ sw[s].pc # "idle" /\ sw[s].todo[r] = st /\ res[r].state = st /\ r \notin raced
      /\ back' = Older(back)
  BY TickAges
<1>2. res'[r].state = st /\ res'[r].dwell = Older(res[r].dwell)
  BY <1>1, TickAges DEF Live, LiveStates
<1>3. WindowOver(r)
  BY <1>1 DEF Earned
<1>4. /\ res[r].dwell \in Nat /\ res'[r].dwell \in Nat /\ res[r].dwell <= res'[r].dwell
      /\ back \in Nat /\ back' \in Nat /\ back <= back'
  <2>1. res[r].dwell \in Ages /\ back \in Ages
    BY DEF TypeOK, Row
  <2>2. QED
    BY <1>1, <1>2, <2>1, OlderGrows, AgesType DEF Ages
<1>5. QED
  BY <1>1, <1>2, <1>3, <1>4, BoundsAssumption DEF WindowOver

\* A row is not listed before it is there, and only a reminder's write, which
\* is another sweep's, brings a listed row a clock that is not its own.
LEMMA EarnedStep ==
  ASSUME IInv, TypeOK', ClocksSince, [Next]_vars, NEW s \in Sweeper, NEW r \in Resv,
         NEW st \in {"pending_confirmation", "reserver_notified"},
         Earned(s, r, st), st = "reserver_notified" => OneSweep
  PROVE  Earned(s, r, st)'
<1>0. TypeOK
  BY DEF IInv
<1>1. CASE Tick
  BY <1>0, <1>1, TickEarned
<1> SUFFICES ASSUME sw'[s].pc # "idle", sw'[s].todo[r] = st, res'[r].state = st, r \notin raced',
                    ~Tick
             PROVE  WindowOver(r)'
  BY <1>1 DEF Earned
<1>2. CASE Unarchive
  BY <1>2 DEF Unarchive, Listed
<1>3. CASE ~Unarchive
  <2>1. ClockStep(r) /\ SweepStep(s, r, st) /\ back' = back /\ raced' = raced
    BY <1>0, <1>3, ClockSteps, SweepSteps, SinceSteps
  <2>2. res[r].dwell \in Nat /\ back \in Nat
    BY <1>0 DEF TypeOK, Row, Ages
  <2>3. CASE res[r].state = "none"
    BY <2>1, <2>3 DEF SweepStep, IInv, TodoIsFresh
  <2>4. CASE Due(r) /\ res[r].state = st /\ res' = res
    <3>1. res[r].dwell <= back
      BY <2>1, <2>4 DEF ClocksSince, Live, LiveStates
    <3>2. WindowOver(r)
      BY <2>2, <2>4, <3>1, BoundsAssumption DEF Due, WindowOver
    <3>3. QED
      BY <2>1, <2>4, <3>2 DEF WindowOver
  <2>5. CASE /\ sw[s].pc # "idle" /\ sw[s].todo[r] = st
             /\ res'[r].state = res[r].state /\ res'[r].dwell = res[r].dwell
    BY <2>1, <2>5 DEF Earned, WindowOver
  <2>6. ASSUME NEW t \in Sweeper, Mark(t), sw[t].cur = r, res'[r].state = "reserver_notified",
               sw[s].pc # "idle"
        PROVE  FALSE
    <3>1. s = t
      BY <2>6 DEF OneSweep, Mark
    <3>2. sw'[s] = Done(s, r) /\ sw[s] \in SState
      BY <1>0, <2>6, <3>1 DEF Mark, Sweeping, TypeOK
    <3>3. sw'[s].todo[r] = "none"
      BY <3>2 DEF Done, SState
    <3>4. QED
      BY <3>3
  <2>7. QED
    BY <2>1, <2>3, <2>4, <2>5, <2>6 DEF ClockStep, SweepStep, LiveStates
<1>4. QED
  BY <1>2, <1>3

LEMMA EarnedInit ==
  ASSUME Init
  PROVE  PendingEarned /\ NotifiedEarned /\ ClocksSince
  BY DEF Init, PendingEarned, NotifiedEarned, Earned, IdleSweep, ClocksSince, NoRow, Live,
    LiveStates

\* Only a sweep expires, a row its snapshot still lists in the row's state.
LEMMA ExpiringSweep ==
  ASSUME IInv, [Next]_vars, NEW r \in Resv, Live(r), res'[r].state = "expired"
  PROVE  \E s \in Sweeper : /\ sw[s].pc # "idle" /\ sw[s].todo[r] = res[r].state
                            /\ res[r].state \in {"pending_confirmation", "reserver_notified"}
<1>1. RowStep(r) /\ res[r].state # "expired"
  BY RowSteps DEF IInv, Live, LiveStates
<1>2. \A h \in Handler : ~RowInserted(r, h)
  BY NewRowFields DEF RowInserted, IInv, TypeOK, HState
<1>3. RowExpired(r)
  BY <1>1, <1>2 DEF RowStep, RowUntouched, RowDeleted, RowKept, RowConfirmed, RowNotified
<1>4. QED
  BY <1>3 DEF RowExpired, Expire

LEMMA EarnedWhenExpired ==
  ASSUME IInv, PendingEarned, [Next]_vars, NEW r \in Resv \ raced,
         Live(r), res'[r].state = "expired",
         res[r].state = "reserver_notified" => NotifiedEarned
  PROVE  WindowOver(r)
<1>1. PICK s \in Sweeper : /\ sw[s].pc # "idle" /\ sw[s].todo[r] = res[r].state
                           /\ res[r].state \in {"pending_confirmation", "reserver_notified"}
  BY ExpiringSweep
<1>2. Earned(s, r, res[r].state)
  BY <1>1 DEF PendingEarned, NotifiedEarned
<1>3. QED
  BY <1>1, <1>2 DEF Earned

\* What EarnedExpiry says of the holds that were never confirmed.
PendingExpiryIsEarned ==
  [][\A r \in Resv \ raced :
       res[r].state = "pending_confirmation" /\ res'[r].state = "expired" => WindowOver(r)]_vars

\* However many sweepers overlap, no pending hold loses part of its confirm
\* window, nor any of it to the archive, unless a sweep had listed it when
\* the item came back.
THEOREM NoPendingHoldIsCutShort == Spec => PendingExpiryIsEarned
<1>1. Init => PendingEarned /\ ClocksSince
  BY EarnedInit
<1>2. IInv /\ IInv' /\ PendingEarned /\ ClocksSince /\ [Next]_vars
        => PendingEarned' /\ ClocksSince'
  BY EarnedStep, ClocksSinceStep DEF IInv, PendingEarned
<1>3. IInv /\ PendingEarned /\ [Next]_vars =>
        [\A r \in Resv \ raced :
           res[r].state = "pending_confirmation" /\ res'[r].state = "expired" => WindowOver(r)]_vars
  BY EarnedWhenExpired DEF Live, LiveStates
<1>4. QED
  BY <1>1, <1>2, <1>3, Inductive, PTL DEF Spec, PendingExpiryIsEarned

\* Where sweeps do not overlap, no reminded giver does either: no hold
\* expires before its own window has run out, on its own clock and since the
\* item was last back from the archive.
THEOREM ExpiryIsEarned == Spec /\ []OneSweep => EarnedExpiry
<1>1. Init => PendingEarned /\ NotifiedEarned /\ ClocksSince
  BY EarnedInit
<1>2. IInv /\ IInv' /\ PendingEarned /\ ClocksSince /\ [Next]_vars
        => PendingEarned' /\ ClocksSince'
  BY EarnedStep, ClocksSinceStep DEF IInv, PendingEarned
<1>3. IInv /\ IInv' /\ OneSweep /\ NotifiedEarned /\ ClocksSince /\ [Next]_vars
        => NotifiedEarned'
  BY EarnedStep DEF IInv, NotifiedEarned
<1>4. IInv /\ PendingEarned /\ NotifiedEarned /\ [Next]_vars =>
        [\A r \in Resv \ raced : Live(r) /\ res'[r].state = "expired" => WindowOver(r)]_vars
  BY EarnedWhenExpired
<1>5. QED
  BY <1>1, <1>2, <1>3, <1>4, Inductive, PTL DEF Spec, EarnedExpiry

\* One instance runs one sweep at a time, so with one instance expiry is earned.
THEOREM OneInstanceEarns ==
  ASSUME \A s, t \in Sweeper : s = t
  PROVE  Spec => EarnedExpiry
<1>1. OneSweep
  BY DEF OneSweep
<1>2. QED
  BY <1>1, ExpiryIsEarned, PTL

-----------------------------------------------------------------------------
(* The refinement of Ledger.  Under the mapping Promised, which drops        *)
(* handlers, sweeps, clocks and mails and takes the largest quantity ever    *)
(* wanted for the limit, every step that changes a row is a step of the      *)
(* ledger on that row, and every other step stutters.                        *)

state == [r \in Resv |-> res[r].state]
units == [r \in Resv |-> res[r].qty]

\* The row of d has gone from one state to another, and nothing else of what
\* the ledger sees has changed.
Moved(d, from, to) ==
  /\ d \in Resv /\ state[d] = from /\ state' = [state EXCEPT ![d] = to]
  /\ units' = units /\ peak' = peak

Seen == <<state, units, returned, peak>>

\* Storing a row that differs in its state alone moves that row.
LEMMA StoringMoves ==
  ASSUME res \in [Resv -> Row], NEW d \in Resv, NEW row,
         row.qty = res[d].qty, res' = [res EXCEPT ![d] = row], peak' = peak
  PROVE  Moved(d, res[d].state, row.state)
  BY DEF Moved, state, units

LEMMA DeletingMoves ==
  ASSUME TypeOK, NEW d \in Resv, Exists(d), Delete(d), peak' = peak
  PROVE  \E from \in RowStates : Moved(d, from, "gone")
<1> DEFINE row == [res[d] EXCEPT !.state = "gone"]
<1>1. res[d] \in Row /\ res' = [res EXCEPT ![d] = row]
  BY DEF TypeOK, Delete
<1>2. row.qty = res[d].qty /\ row.state = "gone"
  BY <1>1 DEF Row
<1>3. Moved(d, res[d].state, "gone")
  <2> HIDE DEF row
  <2>1. QED
    BY <1>1, <1>2, StoringMoves DEF TypeOK
<1>4. QED
  BY <1>3 DEF Exists

\* A guarded transition moves the row or leaves the whole table alone.
LEMMA TransitionMoves ==
  ASSUME TypeOK, NEW d \in Resv, NEW from, NEW row,
         row.qty = res[d].qty, Transition(d, from, row), peak' = peak
  PROVE  res' = res \/ Moved(d, from, row.state)
  BY StoringMoves DEF TypeOK, Transition, StillIn

LEMMA InsertBooks ==
  ASSUME IInv, NEW h \in Handler, Insert(h)
  PROVE  \E d \in Resv, n \in Qty, K \in Promised!AtMostOne : Promised!Book(d, n, K)
<1>1. /\ hs[h].r \in Resv /\ hs[h].req \in Request
      /\ res[hs[h].r].state = "none"
  BY DEF IInv, BusyOnARow, InsertsFresh, Insert, TypeOK, HState
<1>2. PICK d \in Resv, q \in Request, K \in Promised!AtMostOne :
        /\ d = hs[h].r /\ q = hs[h].req
        /\ K = IF q.kind = "guest" THEN {h} ELSE {}
  BY <1>1 DEF Promised!AtMostOne
<1>3. /\ q.qty \in Qty
      /\ res' = [res EXCEPT ![d] = NewRow(h, q)] /\ peak' = peak
      /\ returned' = [returned EXCEPT ![d] = K]
  BY <1>2 DEF Insert, Request
<1>4. Promised!Taken + q.qty <= peak
  <2>1. Promised!Taken = ReservedQuantity
    <3>1. {u \in Resv \X (1 .. MaxQty) : state[u[1]] \in LiveStates /\ u[2] <= units[u[1]]}
            = Units(res)
      BY DEF Units, Qty, state, units
    <3>2. QED
      BY <3>1 DEF Promised!Taken, Promised!Occupying, LiveStates, ReservedQuantity, state, units,
                  Promised!Cardinality, Cardinality
  <2>2. ReservedQuantity + q.qty <= hs[h].want
    BY <1>2 DEF Insert, Fits
  <2>3. hs[h].want <= peak /\ hs[h].want \in Int /\ peak \in Int
    BY DEF IInv, WantedWithinPeak, TypeOK, HState, Qty
  <2>4. ReservedQuantity \in Nat /\ q.qty \in Int
    BY <1>3, UnitsFinite DEF ReservedQuantity, Qty
  <2>5. QED
    BY <2>1, <2>2, <2>3, <2>4
<1>5. units' = [units EXCEPT ![d] = q.qty]
  BY <1>3, NewRowFields DEF units, IInv, TypeOK
<1>6. \/ Promised!Becomes(d, "none", "pending_confirmation") /\ K = {}
      \/ Promised!Becomes(d, "none", "active")
  <2>1. /\ q.kind = "confirm" => NewRow(h, q).state = "pending_confirmation"
        /\ q.kind # "confirm" => NewRow(h, q).state = "active"
    BY DEF NewRow
  <2>2. state[d] = "none" /\ state' = [state EXCEPT ![d] = NewRow(h, q).state]
    BY <1>1, <1>2, <1>3 DEF state, IInv, TypeOK
  <2>3. QED
    BY <1>2, <2>1, <2>2 DEF Promised!Becomes, state
<1>7. Promised!Book(d, q.qty, K)
  BY <1>3, <1>4, <1>5, <1>6 DEF Promised!Book, units
<1>8. QED
  BY <1>3, <1>7

\* What the ledger sees of a step of Reservations.
Step ==
  \/ \E d \in Resv, n \in Qty, K \in Promised!AtMostOne : Promised!Book(d, n, K)
  \/ \E d \in Resv, h \in Handler :
       /\ Moved(d, "pending_confirmation", "active")
       /\ returned[d] = {} /\ returned' = [returned EXCEPT ![d] = {h}]
  \/ \E d \in Resv :
       /\ \/ Moved(d, "active", "reserver_notified")
          \/ Moved(d, "reserver_notified", "active")
          \/ \E from \in {"pending_confirmation", "reserver_notified"} :
               Moved(d, from, "expired")
          \/ \E from \in RowStates : Moved(d, from, "gone")
       /\ returned' = returned
  \/ \E n \in Qty : n > peak /\ peak' = n /\ <<state, units, returned>>' = <<state, units, returned>>
  \/ Seen' = Seen

LEMMA ConfirmStep ==
  ASSUME IInv, NEW h \in Handler, Confirm(h)
  PROVE  Step
<1> DEFINE d == hs[h].r
           row == [res[d] EXCEPT !.state = "active", !.cap = h, !.idle = 0, !.dwell = 0]
<1>1. d \in Resv /\ TypeOK /\ res[d] \in Row
  BY DEF IInv, BusyOnARow, Confirm, TypeOK
<1>2. Transition(d, "pending_confirmation", row) /\ peak' = peak
  BY DEF Confirm
<1>3. row.qty = res[d].qty /\ row.state = "active"
  BY <1>1 DEF Row
<1>4. CASE StillIn(d, "pending_confirmation")
  <2>1. res' = [res EXCEPT ![d] = row] /\ res[d].state = "pending_confirmation"
    BY <1>2, <1>4 DEF Transition, StillIn
  <2>2. Moved(d, "pending_confirmation", "active")
    <3> HIDE DEF row
    <3>1. QED
      BY <1>1, <1>2, <1>3, <2>1, StoringMoves DEF TypeOK
  <2>3. returned[d] = {}
    <3>1. returned[d] \subseteq {"pending"} /\ returned[d] \subseteq Handler
      BY <1>1, <2>1 DEF IInv, TokensHonoured, Exists, RowStates, LiveStates,
                        PendingHasSentinel, TypeOK
    <3>2. QED
      BY <3>1, NamesAssumption
  <2>4. returned' = [returned EXCEPT ![d] = {h}]
    BY <1>4, <2>3 DEF Confirm
  <2>5. QED
    BY <1>1, <2>2, <2>3, <2>4 DEF Step
<1>5. CASE ~StillIn(d, "pending_confirmation")
  BY <1>2, <1>5 DEF Transition, Confirm, Step, Seen, state, units
<1>6. QED
  BY <1>4, <1>5

LEMMA KeepStep ==
  ASSUME IInv, NEW h \in Handler, Keep(h)
  PROVE  Step
<1> DEFINE d == hs[h].r
           row == [res[d] EXCEPT !.state = "active", !.link = NoToken, !.idle = 0, !.dwell = 0]
<1>1. d \in Resv /\ TypeOK /\ res[d] \in Row
  BY DEF IInv, BusyOnARow, Keep, TypeOK
<1>2. Transition(d, "reserver_notified", row) /\ peak' = peak /\ returned' = returned
  BY DEF Keep
<1>3. row.qty = res[d].qty /\ row.state = "active"
  BY <1>1 DEF Row
<1>4. res' = res \/ Moved(d, "reserver_notified", "active")
  <2> HIDE DEF row
  <2>1. QED
    BY <1>1, <1>2, <1>3, TransitionMoves
<1>5. QED
  BY <1>1, <1>2, <1>4 DEF Step, Seen, state, units

LEMMA ExpireStep ==
  ASSUME IInv, NEW s \in Sweeper, NEW d \in Resv, Expire(s, d)
  PROVE  Step
<1> DEFINE from == sw[s].todo[d]
           row == [res[d] EXCEPT !.state = "expired", !.dwell = sw[s].age]
<1>1. TypeOK /\ res[d] \in Row
  BY DEF IInv, TypeOK
<1>2. /\ Transition(d, from, row) /\ peak' = peak /\ returned' = returned
      /\ from \in {"pending_confirmation", "reserver_notified"}
  BY DEF Expire
<1>3. row.qty = res[d].qty /\ row.state = "expired"
  BY <1>1 DEF Row
<1>4. res' = res \/ Moved(d, from, "expired")
  <2> HIDE DEF row
  <2>1. QED
    BY <1>1, <1>2, <1>3, TransitionMoves
<1>5. QED
  BY <1>2, <1>4 DEF Step, Seen, state, units

LEMMA MarkStep ==
  ASSUME IInv, NEW s \in Sweeper, Mark(s)
  PROVE  Step
<1> DEFINE d == sw[s].cur
           row == [res[d] EXCEPT !.state = "reserver_notified", !.link = s, !.dwell = sw[s].age]
<1>1. d \in Resv /\ TypeOK /\ res[d] \in Row
  BY DEF IInv, BusyOnARow, Mark, TypeOK
<1>2. Transition(d, "active", row) /\ peak' = peak /\ returned' = returned
  BY DEF Mark
<1>3. row.qty = res[d].qty /\ row.state = "reserver_notified"
  BY <1>1 DEF Row
<1>4. res' = res \/ Moved(d, "active", "reserver_notified")
  <2> HIDE DEF row
  <2>1. QED
    BY <1>1, <1>2, <1>3, TransitionMoves
<1>5. QED
  BY <1>1, <1>2, <1>4 DEF Step, Seen, state, units

LEMMA DeletionStep ==
  ASSUME IInv, NEW d \in Resv, Exists(d), Delete(d), peak' = peak, returned' = returned
  PROVE  Step
  BY DeletingMoves DEF IInv, Step

\* Restarted clocks and a tick show nothing.
LEMMA ShowsNothing ==
  ASSUME IInv, Unarchive \/ Tick
  PROVE  Seen' = Seen
<1>1. ASSUME NEW r \in Resv
      PROVE  res'[r].state = res[r].state /\ res'[r].qty = res[r].qty
  <2>1. res[r] \in Row
    BY DEF IInv, TypeOK
  <2>2. CASE Unarchive
    BY <2>1, <2>2 DEF Unarchive, ClocksRestarted, Row
  <2>3. CASE Tick
    BY <2>1, <2>3 DEF Tick, Row
  <2>4. QED
    BY <2>2, <2>3
<1>2. peak' = peak /\ returned' = returned
  BY DEF Unarchive, Tick
<1>3. QED
  BY <1>1, <1>2 DEF Seen, state, units

LEMMA EveryStep ==
  ASSUME IInv, [Next]_vars
  PROVE  Step
<1> USE DEF Step
<1>1. CASE UNCHANGED <<res, peak, returned>>
  BY <1>1 DEF Seen, state, units
<1>2. ASSUME NEW h \in Handler, HandlerNext(h)  PROVE Step
  <2>1. CASE Insert(h)
    BY <2>1, InsertBooks
  <2>2. CASE Confirm(h)
    BY <2>2, ConfirmStep
  <2>3. CASE Keep(h)
    BY <2>3, KeepStep
  <2>4. CASE Rollback(h) \/ Drop(h)
    <3>1. hs[h].r \in Resv /\ peak' = peak /\ returned' = returned
      BY <2>4 DEF Rollback, Drop, IInv, BusyOnARow
    <3>2. (Exists(hs[h].r) /\ Delete(hs[h].r)) \/ res' = res
      BY <2>4 DEF Rollback, Drop
    <3>3. QED
      BY <1>1, <3>1, <3>2, DeletionStep
  <2>5. CASE \/ Refuse(h) \/ SendConfirm(h) \/ SendConfirmFails(h) \/ Abort(h)
             \/ \E d \in Resv, q \in Request : Reserve(h, d, q)
             \/ \E d \in Resv : ReadConfirm(h, d)
             \/ \E d \in Resv, todo \in {"keep", "drop"} : ReadLink(h, d, todo)
    BY <1>1, <2>5 DEF Refuse, SendConfirm, SendConfirmFails, Abort, Reserve, ReadConfirm,
                      ReadLink, rows
  <2>6. QED
    BY <1>2, <2>1, <2>2, <2>3, <2>4, <2>5 DEF HandlerNext
<1>3. ASSUME NEW s \in Sweeper, SweeperNext(s)  PROVE Step
  <2>1. CASE Mark(s)
    BY <2>1, MarkStep
  <2>2. ASSUME NEW d \in Resv, Expire(s, d)  PROVE Step
    BY <2>2, ExpireStep
  <2>3. CASE \/ StartSweep(s) \/ MarkFails(s) \/ EndSweep(s) \/ StopSweep(s)
             \/ \E d \in Resv : Remind(s, d) \/ RemindFails(s, d)
    BY <1>1, <2>3 DEF StartSweep, MarkFails, EndSweep, StopSweep, Remind, RemindFails, rows
  <2>4. QED
    BY <1>3, <2>1, <2>2, <2>3 DEF SweeperNext
<1>4. ASSUME NEW d \in Resv, Release(d)  PROVE Step
  BY <1>4, DeletionStep DEF Release, ReleaseReservation, DeleteMyReservation
<1>5. CASE Unarchive \/ Tick
  BY <1>5, ShowsNothing
<1>6. ASSUME NEW n \in {0} \cup Qty, UpdateItem(n)  PROVE Step
  <2>1. peak \in Qty /\ AtLeastOne(n) \in Qty
    BY BoundsAssumption DEF IInv, TypeOK, AtLeastOne, Qty
  <2>2. /\ peak' = MaxOf(peak, AtLeastOne(n))
        /\ UNCHANGED <<res, returned>>
    BY <1>6 DEF UpdateItem
  <2>3. peak' = peak \/ (AtLeastOne(n) > peak /\ peak' = AtLeastOne(n))
    BY <2>1, <2>2 DEF MaxOf, Qty
  <2>4. QED
    BY <1>1, <2>1, <2>2, <2>3 DEF state, units
<1>7. CASE \/ Archive \/ DeleteItem \/ OtherTrack \/ UNCHANGED vars
           \/ \E l \in {"open", "past", "inactive"} : SetList(l)
  BY <1>1, <1>7 DEF Archive, DeleteItem, OtherTrack, SetList, vars, rows
<1>8. QED
  BY <1>2, <1>3, <1>4, <1>5, <1>6, <1>7 DEF Next, TrackNext, OwnerNext

LEMMA StepsOfTheLedger ==
  ASSUME Step
  PROVE  [Promised!Next]_(Promised!ledger)
<1>1. ASSUME NEW d \in Resv, NEW n \in Qty, NEW K \in Promised!AtMostOne, Promised!Book(d, n, K)
      PROVE  Promised!Next
  BY <1>1 DEF Promised!Next, Qty
<1>2. ASSUME NEW d \in Resv, NEW h \in Handler, Moved(d, "pending_confirmation", "active"),
             returned[d] = {}, returned' = [returned EXCEPT ![d] = {h}]
      PROVE  Promised!Next
  <2>1. Promised!Confirm(d, h)
    BY <1>2 DEF Promised!Confirm, Promised!Becomes, Moved, state, units
  <2>2. QED
    BY <2>1 DEF Promised!Next
<1>3. ASSUME NEW d \in Resv, NEW from, NEW to, Moved(d, from, to)
      PROVE  /\ Promised!Becomes(d, from, to)
             /\ [r \in Resv |-> res'[r].qty] = [r \in Resv |-> res[r].qty] /\ peak' = peak
  BY <1>3 DEF Promised!Becomes, Moved, state, units
<1>4. ASSUME NEW d \in Resv, Moved(d, "active", "reserver_notified"), returned' = returned
      PROVE  Promised!Next
  <2>1. Promised!Ask(d)
    BY <1>3, <1>4 DEF Promised!Ask
  <2>2. QED
    BY <2>1 DEF Promised!Next
<1>5. ASSUME NEW d \in Resv, Moved(d, "reserver_notified", "active"), returned' = returned
      PROVE  Promised!Next
  <2>1. Promised!Keep(d)
    BY <1>3, <1>5 DEF Promised!Keep
  <2>2. QED
    BY <2>1 DEF Promised!Next
<1>6. ASSUME NEW d \in Resv, NEW from \in {"pending_confirmation", "reserver_notified"},
             Moved(d, from, "expired"), returned' = returned
      PROVE  Promised!Next
  <2>1. Promised!Lapse(d)
    BY <1>3, <1>6 DEF Promised!Lapse
  <2>2. QED
    BY <2>1 DEF Promised!Next
<1>7. ASSUME NEW d \in Resv, NEW from \in RowStates, Moved(d, from, "gone"), returned' = returned
      PROVE  Promised!Next
  <2>1. Promised!Release(d)
    BY <1>3, <1>7 DEF Promised!Release, Promised!Occupying, RowStates, LiveStates
  <2>2. QED
    BY <2>1 DEF Promised!Next
<1>8. ASSUME NEW n \in Qty, n > peak, peak' = n,
             <<state, units, returned>>' = <<state, units, returned>>
      PROVE  Promised!Next
  <2>1. Promised!Raise(n)
    BY <1>8 DEF Promised!Raise, state, units
  <2>2. QED
    BY <2>1 DEF Promised!Next, Qty
<1>9. CASE Seen' = Seen
  BY <1>9 DEF Promised!ledger, Seen, state, units
<1>10. QED
  BY <1>1, <1>2, <1>4, <1>5, <1>6, <1>7, <1>8, <1>9 DEF Step

LEMMA InitImplements ==
  ASSUME Init
  PROVE  Promised!Init
  BY DEF Init, Promised!Init, NoRow, Qty

\* Every behaviour of the reservations of an item is one the ledger allows.
THEOREM LedgerKept == Spec => KeepsLedger
<1>1. Init => Promised!Init
  BY InitImplements
<1>2. IInv /\ [Next]_vars => [Promised!Next]_(Promised!ledger)
  BY EveryStep, StepsOfTheLedger
<1>3. QED
  BY <1>1, <1>2, Inductive, PTL DEF Spec, KeepsLedger, Promised!Spec
=============================================================================
