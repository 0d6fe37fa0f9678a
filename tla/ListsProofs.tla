----------------------------- MODULE ListsProofs -----------------------------
(***************************************************************************)
(* Proofs about Lists, for every number of accounts, handlers, lists,      *)
(* items and givers: whose rows a request writes, who owns a list in spite *)
(* of his role, what an archive stands against and whom it tells.          *)
(***************************************************************************)
EXTENDS Lists, FiniteSetTheorems, TLAPS

Acting  == {"create", "own", "write", "count", "role"}
Notifying == {"reserved", "pledged"}

\* A handler acts for an account, on a list and an item that it has.
Typed(h) ==
  /\ hs[h].pc \in Acting => hs[h].u \in User
  /\ hs[h].pc \in {"own", "write"} => /\ hs[h].l \in List
                                      /\ hs[h].op \in ListOp \/ hs[h].i \in Item
  /\ hs[h].pc \in Notifying => hs[h].i \in Item
  /\ hs[h].pc \in {"count", "role"} => hs[h].op \in Role

\* It writes what its account made, and whoever is about to be made a giver
\* owns no list whose creation did not overlap that.
Rightful(h) ==
  /\ hs[h].pc = "write" => made[hs[h].l] = hs[h].u
  /\ hs[h].pc = "role" /\ hs[h].op = "giver" =>
       \A x \in owners : x[2] = hs[h].u => x[1] \in raced

Sound(h) == Typed(h) /\ Rightful(h)
Handlers == \A h \in Handler : Sound(h)

\* Only a list that is there has an owner, the one who made it.
OwnersMade ==
  /\ \A l \in List : lists[l].state = "none" => made[l] = NoUser
  /\ \A x \in owners : Open(x[1]) /\ made[x[1]] = x[2]

\* An item that is there was put on some list.
ItemsListed == \A i \in Item : Live(i) => items[i].list \in List

\* Every archive has at most one telling under way or done.
Tellers(i) == {h \in Handler : hs[h].pc \in Notifying /\ hs[h].i = i}
NoticesCounted ==
  \A i \in Item, a \in Address : notices[i][a] + Cardinality(Tellers(i)) <= archivings[i]

\* Who holds an archived item since then was told, or is going to be by a
\* telling that has not looked yet or has noted him.
Noting(h, x) ==
  /\ hs[h].i = x[1]
  /\ \/ hs[h].pc = "reserved"
     \/ hs[h].pc = "pledged" /\ (x[3] = "reservation" => x[2] \in hs[h].to)
Covered(x) == x[2] \in told[x[1]] \/ \E h \in Handler : Noting(h, x)
HoldersCovered == \A x \in kept : Due(x) => Covered(x)

ListInv   == OwnersMade /\ GiverByRaceOnly
NoticeInv == NoticesCounted /\ kept \subseteq held /\ HoldersCovered
IInv      == TypeOK /\ Handlers /\ ListInv /\ ItemsListed /\ NoticeInv

-----------------------------------------------------------------------------
(* Handlers *)

LEMMA ConstantTypes ==
  /\ Idle \in HState /\ Idle.pc = "idle" /\ NoRow \in ItemRow
  /\ \A h \in Handler : hs[h] = Idle => hs[h].pc \notin Acting \cup Notifying
<1>1. Idle \in HState /\ Idle.pc = "idle"
  BY DEF Idle, HState
<1>2. NoRow \in ItemRow
  BY DEF NoRow, ItemRow, Name
<1>3. QED
  BY <1>1, <1>2 DEF Acting, Notifying

\* Who made a list stays, and a list that comes to somebody who is being
\* demoted is one of those that raced.
Grows ==
  /\ \A l \in List : made[l] # NoUser => made'[l] = made[l]
  /\ raced \subseteq raced'
  /\ \A x \in owners' : x \in owners \/ (Demoting(x[2]) => x[1] \in raced')

LEMMA OtherStays ==
  ASSUME IInv, Grows, NEW g \in Handler, hs'[g] = hs[g]
  PROVE  Sound(g)'
<1>1. Sound(g) /\ NoUser \notin User
  BY ListsNames DEF IInv, Handlers
<1>2. Typed(g)'
  BY <1>1 DEF Sound, Typed
<1>3. hs[g].pc = "write" => made'[hs[g].l] = hs[g].u
  BY <1>1 DEF Sound, Typed, Rightful, Grows, Acting
<1>4. ASSUME hs[g].pc = "role", hs[g].op = "giver", NEW x \in owners', x[2] = hs[g].u
      PROVE  x[1] \in raced'
  <2>1. Demoting(x[2])
    BY <1>4 DEF Demoting, At
  <2>2. x \in owners => x[1] \in raced
    BY <1>1, <1>4 DEF Sound, Rightful
  <2>3. QED
    BY <1>4, <2>1, <2>2 DEF Grows
<1>5. QED
  BY <1>2, <1>3, <1>4 DEF Sound, Rightful

Moves == Handlers' /\ hs' \in [Handler -> HState]

\* From one record of a handler to another.
LEMMA StepMoves ==
  ASSUME IInv, Grows, NEW h \in Handler, NEW next \in HState, hs' = [hs EXCEPT ![h] = next],
         hs'[h] = next => Sound(h)'
  PROVE  Moves
<1>1. /\ hs' \in [Handler -> HState] /\ hs'[h] = next
      /\ \A g \in Handler : g # h => hs'[g] = hs[g]
  BY DEF IInv, TypeOK
<1>2. ASSUME NEW g \in Handler  PROVE Sound(g)'
  <2>1. CASE g = h
    BY <1>1, <2>1
  <2>2. CASE g # h
    BY <1>1, <2>2, OtherStays
  <2>3. QED
    BY <2>1, <2>2
<1>3. QED
  BY <1>1, <1>2 DEF Moves, Handlers

LEMMA StopMoves ==
  ASSUME IInv, Grows, NEW h \in Handler, hs' = [hs EXCEPT ![h] = Idle]
  PROVE  Moves
<1>1. Idle \in HState
  BY ConstantTypes
<1>2. hs'[h] = Idle => Sound(h)'
  BY ConstantTypes DEF Sound, Typed, Rightful, Acting, Notifying
<1>3. QED
  BY <1>1, <1>2, StepMoves

LEMMA NobodyMoves ==
  ASSUME IInv, Grows, UNCHANGED hs
  PROVE  Moves
<1>1. \A g \in Handler : Sound(g)'
  BY OtherStays
<1>2. QED
  BY <1>1 DEF Moves, Handlers, IInv, TypeOK

\* A step that starts and ends no telling.
Quiet ==
  /\ \A g \in Handler : \/ hs'[g] = hs[g]
                        \/ hs[g].pc \notin Notifying /\ hs'[g].pc \notin Notifying
  /\ UNCHANGED <<archivings, told, notices, lost>>
  /\ kept' \subseteq kept /\ kept' \subseteq held'
  /\ \A i \in Item : (Live(i) /\ items[i].archived)' => Live(i) /\ items[i].archived

LEMMA QuietKeeps ==
  ASSUME IInv, Quiet
  PROVE  NoticeInv'
<1>1. NoticesCounted /\ HoldersCovered
  BY DEF IInv, NoticeInv
<1>2. \A i \in Item : Tellers(i)' = Tellers(i)
  BY DEF Quiet, Tellers
<1>3. NoticesCounted'
  <2>1. \A i \in Item : Cardinality(Tellers(i))' = Cardinality(Tellers(i))
    BY <1>2
  <2>2. QED
    BY <1>1, <2>1 DEF NoticesCounted, Quiet
<1>4. ASSUME NEW h \in Handler, NEW x \in kept', Noting(h, x)  PROVE Noting(h, x)'
  BY <1>4 DEF Noting, Quiet, Notifying
<1>5. HoldersCovered'
  <2>1. ASSUME NEW x \in kept', Due(x)'  PROVE Covered(x)'
    <3>1. x \in kept /\ x[1] \in Item
      BY DEF Quiet, IInv, TypeOK
    <3>2. Due(x)
      BY <2>1, <3>1 DEF Quiet, Due
    <3>3. Covered(x)
      BY <1>1, <3>1, <3>2 DEF HoldersCovered
    <3>4. QED
      BY <1>4, <3>3 DEF Quiet, Covered
  <2>2. QED
    BY <2>1 DEF HoldersCovered
<1>6. QED
  BY <1>3, <1>5 DEF NoticeInv, Quiet

-----------------------------------------------------------------------------
(* Requests that only read *)

data == <<role, ops, lists, owners, items, held, made, raced, shown, archivings, kept, told, lost, notices>>

LEMMA DataKept ==
  ASSUME IInv, UNCHANGED data
  PROVE  Grows /\ (ListInv /\ ItemsListed)'
<1>1. Grows
  BY DEF data, Grows
<1>2. ListInv' /\ ItemsListed'
  BY DEF IInv, data, ListInv, OwnersMade, GiverByRaceOnly, ItemsListed, Open, Live
<1>3. QED
  BY <1>1, <1>2

\* A handler that neither was nor is now telling anybody.
LEMMA ReadKeeps ==
  ASSUME IInv, UNCHANGED data, Moves, NEW h \in Handler, NEW next, hs' = [hs EXCEPT ![h] = next],
         hs[h].pc \notin Notifying, next.pc \notin Notifying
  PROVE  IInv'
<1>1. Quiet
  <2>1. hs'[h] = next /\ \A g \in Handler : g # h => hs'[g] = hs[g]
    BY DEF IInv, TypeOK
  <2>2. \A i \in Item : (Live(i) /\ items[i].archived)' => Live(i) /\ items[i].archived
    BY DEF data, Live
  <2>3. kept \subseteq held
    BY DEF IInv, NoticeInv
  <2>4. QED
    BY <2>1, <2>2, <2>3 DEF Quiet, data
<1>2. NoticeInv' /\ (ListInv /\ ItemsListed)'
  BY <1>1, QuietKeeps, DataKept
<1>3. TypeOK'
  BY DEF IInv, TypeOK, data, Moves
<1>4. QED
  BY <1>2, <1>3 DEF IInv, Moves

LEMMA Begins ==
  ASSUME IInv, NEW h \in Handler,
         \/ \E u \in User : BeginCreateList(h, u) \/ \E l \in List, op \in ListOp : BeginList(h, u, op, l)
         \/ \E u \in User, i \in Item, op \in ItemOp : BeginItem(h, u, op, i)
         \/ \E u \in User, to \in Role : BeginRole(h, u, to)
  PROVE  IInv'
<1> USE DEF Go, At
<1>1. /\ UNCHANGED data /\ hs[h].pc = "idle" /\ TypeOK /\ ItemsListed /\ GiverByRaceOnly
  BY DEF IInv, ListInv, data, BeginCreateList, BeginList, BeginItem, BeginRole, admin, rows,
         origin, letters
<1>2. Grows
  BY <1>1, DataKept
<1>3. hs[h].pc \notin Notifying
  BY <1>1 DEF Notifying
<1>4. ASSUME NEW u \in User, BeginCreateList(h, u)  PROVE IInv'
  <2> DEFINE next == [Idle EXCEPT !.pc = "create", !.u = u]
  <2>1. hs' = [hs EXCEPT ![h] = next]
    BY <1>4 DEF BeginCreateList
  <2>2. next \in HState /\ next.pc = "create" /\ next.u = u
    BY ConstantTypes DEF HState
  <2> HIDE DEF next
  <2>3. hs'[h] = next => Sound(h)'
    BY <2>2 DEF Sound, Typed, Rightful, Acting, Notifying
  <2>4. Moves
    BY <1>2, <2>1, <2>2, <2>3, StepMoves
  <2>5. QED
    BY <1>1, <1>3, <2>1, <2>2, <2>4, ReadKeeps DEF Notifying
<1>5. ASSUME NEW u \in User, NEW l \in List, NEW op \in ListOp, BeginList(h, u, op, l)  PROVE IInv'
  <2>1. PICK open \in BOOLEAN :
          hs' = [hs EXCEPT ![h] = [Idle EXCEPT !.pc = "own", !.op = op, !.u = u, !.l = l,
                                               !.active = open]]
    BY <1>5 DEF BeginList
  <2> DEFINE next == [Idle EXCEPT !.pc = "own", !.op = op, !.u = u, !.l = l, !.active = open]
  <2>2. /\ next \in HState /\ next.pc = "own" /\ next.u = u /\ next.l = l /\ next.op = op
        /\ hs' = [hs EXCEPT ![h] = next]
    BY <2>1, ConstantTypes DEF HState
  <2> HIDE DEF next
  <2>3. hs'[h] = next => Sound(h)'
    BY <2>2 DEF Sound, Typed, Rightful, Acting, Notifying
  <2>4. Moves
    BY <1>2, <2>2, <2>3, StepMoves
  <2>5. QED
    BY <1>1, <1>3, <2>2, <2>4, ReadKeeps DEF Notifying
<1>6. ASSUME NEW u \in User, NEW i \in Item, NEW op \in ItemOp, BeginItem(h, u, op, i)  PROVE IInv'
  <2> DEFINE next == [Idle EXCEPT !.pc = "own", !.op = op, !.u = u, !.i = i, !.l = items[i].list,
                                  !.archived = items[i].archived]
  <2>1. hs' = [hs EXCEPT ![h] = next] /\ Live(i)
    BY <1>6 DEF BeginItem
  <2>2. items[i] \in ItemRow /\ items[i].list \in List
    BY <1>1, <2>1 DEF TypeOK, ItemsListed
  <2>3. items[i].archived \in BOOLEAN
    BY <2>2 DEF ItemRow
  <2>4. /\ next \in HState /\ next.pc = "own" /\ next.u = u /\ next.l = items[i].list
        /\ next.i = i
    BY <2>2, <2>3, ConstantTypes DEF HState
  <2> HIDE DEF next
  <2>5. hs'[h] = next => Sound(h)'
    BY <2>2, <2>4 DEF Sound, Typed, Rightful, Acting, Notifying
  <2>6. Moves
    BY <1>2, <2>1, <2>4, <2>5, StepMoves
  <2>7. QED
    BY <1>1, <1>3, <2>1, <2>4, <2>6, ReadKeeps DEF Notifying
\* An account that already is a giver owns only what raced.
<1>7. ASSUME NEW u \in User, NEW to \in Role, BeginRole(h, u, to)  PROVE IInv'
  <2> DEFINE pc == IF role[u] = "owner" /\ to = "giver" THEN "count" ELSE "role"
             next == [Idle EXCEPT !.u = u, !.op = to, !.pc = pc]
  <2>1. hs' = [hs EXCEPT ![h] = next]
    BY <1>7 DEF BeginRole
  <2>2. /\ pc \in {"count", "role"}
        /\ pc = "role" /\ to = "giver" => role[u] = "giver"
    BY <1>1 DEF TypeOK, Role
  <2> HIDE DEF pc
  <2>3. /\ next \in HState /\ next.pc = pc /\ next.u = u /\ next.op = to
    BY <2>2, ConstantTypes DEF HState
  <2> HIDE DEF next
  <2>4. pc = "role" /\ to = "giver" => \A x \in owners' : x[2] = u => x[1] \in raced'
    BY <1>1, <2>2 DEF GiverByRaceOnly, data
  <2>5. hs'[h] = next => Sound(h)'
    BY <2>2, <2>3, <2>4 DEF Sound, Typed, Rightful, Acting, Notifying
  <2>6. Moves
    BY <1>2, <2>1, <2>3, <2>5, StepMoves
  <2>7. QED
    BY <1>1, <1>3, <2>1, <2>2, <2>3, <2>6, ReadKeeps DEF Notifying
<1>8. QED
  BY <1>4, <1>5, <1>6, <1>7

\* The ownership joins the list, so it is of a list that is there; the count
\* before a demotion sees every one.
LEMMA Judges ==
  ASSUME IInv, NEW h \in Handler,
         OwnsList(h) \/ CountLists(h) \/ \E new \in SUBSET Item \ {{}} : RefuseImport(h, new)
  PROVE  IInv'
<1> USE DEF Go, At, Finish
<1>1. /\ UNCHANGED data /\ TypeOK /\ OwnersMade /\ Sound(h) /\ hs[h] \in HState
      /\ hs[h].pc \in {"own", "count", "write"}
  BY DEF IInv, TypeOK, ListInv, Handlers, data, OwnsList, CountLists, RefuseImport, Writes, admin, rows,
         origin, letters
<1>2. Grows
  BY <1>1, DataKept
<1>3. hs[h].pc \notin Notifying /\ Idle.pc \notin Notifying
  BY <1>1, ConstantTypes DEF Notifying
<1>4. CASE hs' = [hs EXCEPT ![h] = Idle]
  BY <1>1, <1>2, <1>3, <1>4, StopMoves, ReadKeeps
<1>5. ASSUME hs[h].pc = "own", Owns(hs[h].u, hs[h].l),
             hs' = [hs EXCEPT ![h] = [hs[h] EXCEPT !.pc = "write"]]
      PROVE  IInv'
  <2> DEFINE next == [hs[h] EXCEPT !.pc = "write"]
  <2>1. /\ next \in HState /\ next.pc = "write" /\ next.u = hs[h].u /\ next.l = hs[h].l
        /\ next.op = hs[h].op /\ next.i = hs[h].i /\ hs' = [hs EXCEPT ![h] = next]
    BY <1>1, <1>5 DEF HState
  <2> HIDE DEF next
  <2>2. made'[hs[h].l] = hs[h].u
    BY <1>1, <1>5 DEF Owns, OwnersMade, data
  <2>3. hs'[h] = next => Sound(h)'
    BY <1>1, <1>5, <2>1, <2>2 DEF Sound, Typed, Rightful, Acting, Notifying
  <2>4. Moves
    BY <1>2, <2>1, <2>3, StepMoves
  <2>5. QED
    BY <1>1, <1>3, <2>1, <2>4, ReadKeeps DEF Notifying
<1>6. ASSUME hs[h].pc = "count", ~StillOwning(hs[h].u),
             hs' = [hs EXCEPT ![h] = [hs[h] EXCEPT !.pc = "role"]],
             hs[h].op \in Role
      PROVE  IInv'
  <2> DEFINE next == [hs[h] EXCEPT !.pc = "role"]
  <2>1. /\ next \in HState /\ next.pc = "role" /\ next.u = hs[h].u /\ next.op = hs[h].op
        /\ hs' = [hs EXCEPT ![h] = next]
    BY <1>1, <1>6 DEF HState
  <2> HIDE DEF next
  <2>2. \A x \in owners' : x[2] # hs[h].u
    <3>1. ASSUME NEW x \in owners, x[2] = hs[h].u  PROVE FALSE
      <4>1. x[1] \in List /\ x = <<x[1], hs[h].u>> /\ Open(x[1])
        BY <1>1, <3>1 DEF OwnersMade, TypeOK
      <4>2. QED
        BY <1>6, <3>1, <4>1 DEF StillOwning, Owns
    <3>2. QED
      BY <1>1, <3>1 DEF data
  <2>3. hs'[h] = next => Sound(h)'
    BY <1>1, <1>6, <2>1, <2>2 DEF Sound, Typed, Rightful, Acting, Notifying
  <2>4. Moves
    BY <1>2, <2>1, <2>3, StepMoves
  <2>5. QED
    BY <1>1, <1>3, <2>1, <2>4, ReadKeeps DEF Notifying
<1>7. hs[h].pc = "count" => hs[h].op \in Role
  BY <1>1 DEF Sound, Typed
<1>8. QED
  BY <1>1, <1>4, <1>5, <1>6, <1>7 DEF OwnsList, CountLists, RefuseImport, Writes

-----------------------------------------------------------------------------
(* Requests that write a row, and are done *)

LEMMA WriteKeeps ==
  ASSUME IInv, NEW h \in Handler, hs' = [hs EXCEPT ![h] = Idle], hs[h].pc \notin Notifying, Grows,
         (ListInv /\ ItemsListed)',
         role' \in [User -> Role], lists' \in [List -> ListRow], owners' \subseteq List \X User,
         items' \in [Item -> ItemRow], made' \in [List -> User \cup {NoUser}], raced' \subseteq List,
         \A i \in Item : (Live(i) /\ items[i].archived)' => Live(i) /\ items[i].archived,
         UNCHANGED <<ops, shown, held, archivings, kept, told, lost, notices>>
  PROVE  IInv'
<1>1. Moves
  BY StopMoves
<1>2. Quiet
  <2>1. hs'[h] = Idle /\ \A g \in Handler : g # h => hs'[g] = hs[g]
    BY DEF IInv, TypeOK
  <2>2. Idle.pc \notin Notifying
    BY ConstantTypes DEF Notifying
  <2>3. kept \subseteq held
    BY DEF IInv, NoticeInv
  <2>4. QED
    BY <2>1, <2>2, <2>3 DEF Quiet
<1>3. NoticeInv'
  BY <1>2, QuietKeeps
<1>4. TypeOK'
  BY <1>1 DEF IInv, TypeOK, Moves
<1>5. QED
  BY <1>1, <1>3, <1>4 DEF IInv, Moves

LEMMA WritesList ==
  ASSUME IInv, NEW h \in Handler,
         UpdateList(h) \/ DeleteList(h) \/ \E l \in List : CreateList(h, l)
  PROVE  IInv'
<1> USE DEF Go, At, Finish, Writes
<1>1. /\ TypeOK /\ OwnersMade /\ GiverByRaceOnly /\ ItemsListed /\ Sound(h) /\ hs[h] \in HState
      /\ hs[h].pc \notin Notifying /\ hs' = [hs EXCEPT ![h] = Idle] /\ NoUser \notin User
      /\ UNCHANGED <<role, ops, items, held, shown, archivings, kept, told, lost, notices>>
  BY ListsNames DEF IInv, TypeOK, ListInv, Handlers, UpdateList, DeleteList, CreateList, admin, letters,
                    origin, Notifying
<1>2. /\ ItemsListed'
      /\ \A i \in Item : (Live(i) /\ items[i].archived)' => Live(i) /\ items[i].archived
  BY <1>1 DEF ItemsListed, Live
<1>3. ASSUME UpdateList(h)
      PROVE  /\ ListInv' /\ Grows /\ lists' \in [List -> ListRow] /\ owners' = owners
             /\ made' = made /\ raced' = raced
  <2> DEFINE row == [lists[hs[h].l] EXCEPT !.active = hs[h].active]
  <2>1. /\ UNCHANGED <<owners, made, raced>>
        /\ lists' = lists \/ lists' = [lists EXCEPT ![hs[h].l] = row]
        /\ hs[h].l \in List
    BY <1>1, <1>3 DEF UpdateList, origin, Sound, Typed
  <2>2. row \in ListRow /\ row.state = lists[hs[h].l].state
    <3>1. lists[hs[h].l] \in ListRow
      BY <1>1, <2>1 DEF TypeOK
    <3>2. hs[h].active \in BOOLEAN
      BY <1>1 DEF HState
    <3>3. QED
      BY <3>1, <3>2 DEF ListRow
  <2> HIDE DEF row
  <2>3. lists' \in [List -> ListRow] /\ \A l \in List : lists'[l].state = lists[l].state
    BY <1>1, <2>1, <2>2 DEF TypeOK
  <2>4. OwnersMade'
    BY <1>1, <2>1, <2>3 DEF OwnersMade, Open, TypeOK
  <2>5. GiverByRaceOnly' /\ Grows
    BY <1>1, <2>1 DEF GiverByRaceOnly, Grows
  <2>6. QED
    BY <2>1, <2>3, <2>4, <2>5 DEF ListInv
\* The owner rows of a list go with it.
<1>4. ASSUME DeleteList(h)
      PROVE  /\ ListInv' /\ Grows /\ lists' \in [List -> ListRow] /\ owners' \subseteq owners
             /\ made' = made /\ raced' = raced
  <2> DEFINE row == [lists[hs[h].l] EXCEPT !.state = "gone"]
  <2>1. /\ UNCHANGED <<made, raced>> /\ hs[h].l \in List
        /\ \/ UNCHANGED <<lists, owners>>
           \/ /\ lists' = [lists EXCEPT ![hs[h].l] = row]
              /\ owners' = {x \in owners : x[1] # hs[h].l}
    BY <1>1, <1>4 DEF DeleteList, OwnerRows, origin, Sound, Typed
  <2>2. row \in ListRow /\ row.state = "gone"
    BY <1>1, <2>1 DEF TypeOK, ListRow
  <2> HIDE DEF row
  <2>3. lists' \in [List -> ListRow] /\ owners' \subseteq owners
    BY <1>1, <2>1, <2>2 DEF TypeOK
  <2>4. OwnersMade'
    BY <1>1, <2>1, <2>2 DEF OwnersMade, Open, TypeOK
  <2>5. GiverByRaceOnly' /\ Grows
    BY <1>1, <2>1, <2>3 DEF GiverByRaceOnly, Grows
  <2>6. QED
    BY <2>1, <2>3, <2>4, <2>5 DEF ListInv
\* A list that comes to an account that is a giver by now, or will be, raced.
<1>5. ASSUME NEW l \in List, CreateList(h, l)
      PROVE  /\ ListInv' /\ Grows /\ lists' \in [List -> ListRow] /\ owners' \subseteq List \X User
             /\ made' \in [List -> User \cup {NoUser}] /\ raced' \subseteq List
  <2> DEFINE row == [state |-> "live", active |-> TRUE]
             x == <<l, hs[h].u>>
  <2>1. /\ hs[h].u \in User /\ lists[l].state = "none" /\ made[l] = NoUser
        /\ lists' = [lists EXCEPT ![l] = row] /\ owners' = owners \cup {x}
        /\ made' = [made EXCEPT ![l] = hs[h].u]
        /\ Demoting(hs[h].u) => l \in raced'
        /\ raced' = raced \cup {l} \/ raced' = raced
    BY <1>1, <1>5 DEF CreateList, Sound, Typed, Acting, OwnersMade
  <2>2. row \in ListRow /\ row.state = "live" /\ x \in List \X User /\ x[1] = l /\ x[2] = hs[h].u
    BY <2>1 DEF ListRow
  <2> HIDE DEF row, x
  <2>3. /\ lists' \in [List -> ListRow] /\ owners' \subseteq List \X User
        /\ made' \in [List -> User \cup {NoUser}] /\ raced' \subseteq List /\ raced \subseteq raced'
        /\ lists'[l] = row /\ made'[l] = hs[h].u
        /\ \A k \in List : k # l => lists'[k] = lists[k] /\ made'[k] = made[k]
    BY <1>1, <2>1, <2>2 DEF TypeOK
  <2>4. OwnersMade'
    <3>1. \A k \in List : lists'[k].state = "none" => made'[k] = NoUser
      BY <1>1, <2>2, <2>3 DEF OwnersMade
    <3>2. ASSUME NEW y \in owners'  PROVE Open(y[1])' /\ made'[y[1]] = y[2]
      <4>1. CASE y = x
        BY <2>2, <2>3, <4>1 DEF Open
      <4>2. CASE y \in owners
        <5>1. y[1] \in List /\ Open(y[1]) /\ made[y[1]] = y[2]
          BY <1>1, <4>2 DEF OwnersMade, TypeOK
        <5>2. y[1] # l
          BY <2>1, <5>1 DEF Open
        <5>3. QED
          BY <2>3, <5>1, <5>2 DEF Open
      <4>3. QED
        BY <2>1, <3>2, <4>1, <4>2
    <3>3. QED
      BY <3>1, <3>2 DEF OwnersMade
  <2>5. GiverByRaceOnly'
    BY <1>1, <2>1, <2>2, <2>3 DEF GiverByRaceOnly, Demoting
  <2>6. Grows
    BY <2>1, <2>2, <2>3 DEF Grows
  <2>7. QED
    BY <2>3, <2>4, <2>5, <2>6 DEF ListInv
<1>6. QED
  <2>1. CASE UpdateList(h)
    BY <1>1, <1>2, <1>3, <2>1, WriteKeeps DEF TypeOK
  <2>2. CASE DeleteList(h)
    BY <1>1, <1>2, <1>4, <2>2, WriteKeeps DEF TypeOK
  <2>3. CASE \E l \in List : CreateList(h, l)
    BY <1>1, <1>2, <1>5, <2>3, WriteKeeps DEF TypeOK
  <2>4. QED
    BY <2>1, <2>2, <2>3

\* A row is inserted where there was none, unstamped; an edit leaves the stamp
\* alone, and no other write sets it.
LEMMA WritesItem ==
  ASSUME IInv, NEW h \in Handler,
         \/ UpdateItem(h) \/ DeleteItem(h) \/ UnarchiveItem(h)
         \/ \E i \in Item : CreateItem(h, i)
         \/ \E new \in SUBSET Item \ {{}} : CreateMany(h, new)
  PROVE  IInv'
<1> USE DEF Go, At, Finish, Writes
<1>1. /\ TypeOK /\ ListInv /\ ItemsListed /\ Sound(h) /\ hs[h] \in HState
      /\ hs[h].pc = "write" /\ hs[h].l \in List /\ hs' = [hs EXCEPT ![h] = Idle]
      /\ UNCHANGED <<role, lists, owners, made, raced, shown, ops, held, archivings, kept, told, lost,
                     notices>>
  BY DEF IInv, TypeOK, Handlers, Sound, Typed, UpdateItem, DeleteItem, UnarchiveItem, CreateItem,
         CreateMany, Insert, admin, letters, origin
<1>2. ListInv' /\ Grows /\ hs[h].pc \notin Notifying
  BY <1>1 DEF ListInv, OwnersMade, GiverByRaceOnly, Open, Grows, Notifying
<1>3. ASSUME NEW new \in SUBSET Item, Insert(h, new)
      PROVE  /\ items' \in [Item -> ItemRow] /\ ItemsListed'
             /\ \A i \in Item : (Live(i) /\ items[i].archived)' => Live(i) /\ items[i].archived
  <2> DEFINE row == [NoRow EXCEPT !.state = "live", !.list = hs[h].l]
  <2>1. items' = [i \in Item |-> IF i \in new THEN row ELSE items[i]]
    BY <1>3 DEF Insert
  <2>2. row \in ItemRow /\ row.list = hs[h].l /\ row.archived = FALSE
    BY <1>1 DEF NoRow, ItemRow, Name
  <2> HIDE DEF row
  <2>3. QED
    BY <1>1, <2>1, <2>2 DEF TypeOK, ItemsListed, Live
<1>4. ASSUME UpdateItem(h) \/ DeleteItem(h) \/ UnarchiveItem(h)
      PROVE  /\ items' \in [Item -> ItemRow] /\ ItemsListed'
             /\ \A i \in Item : (Live(i) /\ items[i].archived)' => Live(i) /\ items[i].archived
  <2>1. hs[h].i \in Item
    BY <1>1, <1>4 DEF UpdateItem, DeleteItem, UnarchiveItem, Sound, Typed, ListOp, ReadOp
  <2> DEFINE old == items[hs[h].i]
  <2>2. old \in ItemRow
    BY <1>1, <2>1 DEF TypeOK
  <2>3. PICK row \in ItemRow :
          /\ items' = [items EXCEPT ![hs[h].i] = row]
          /\ row.list = old.list /\ row.state \in {old.state, "gone"}
          /\ row.archived => old.archived
    <3>1. /\ [old EXCEPT !.name = "edited"] \in ItemRow
          /\ [old EXCEPT !.name = "edited"].list = old.list
          /\ [old EXCEPT !.name = "edited"].state = old.state
          /\ [old EXCEPT !.name = "edited"].archived = old.archived
      BY <2>2 DEF ItemRow, Name
    <3>2. /\ [old EXCEPT !.state = "gone"] \in ItemRow
          /\ [old EXCEPT !.state = "gone"].list = old.list
          /\ [old EXCEPT !.state = "gone"].state = "gone"
          /\ [old EXCEPT !.state = "gone"].archived = old.archived
      BY <2>2 DEF ItemRow
    <3>3. /\ [old EXCEPT !.archived = FALSE] \in ItemRow
          /\ [old EXCEPT !.archived = FALSE].list = old.list
          /\ [old EXCEPT !.archived = FALSE].state = old.state
          /\ [old EXCEPT !.archived = FALSE].archived = FALSE
      BY <2>2 DEF ItemRow
    <3>4. \/ items' = items
          \/ items' = [items EXCEPT ![hs[h].i] = [old EXCEPT !.name = "edited"]]
          \/ items' = [items EXCEPT ![hs[h].i] = [old EXCEPT !.state = "gone"]]
          \/ items' = [items EXCEPT ![hs[h].i] = [old EXCEPT !.archived = FALSE]]
      BY <1>4 DEF UpdateItem, Patched, DeleteItem, UnarchiveItem
    <3>5. items = [items EXCEPT ![hs[h].i] = old]
      BY <1>1, <2>1 DEF TypeOK
    <3> HIDE DEF old
    <3>6. QED
      BY <2>2, <3>1, <3>2, <3>3, <3>4, <3>5
  <2>4. items' \in [Item -> ItemRow]
    BY <1>1, <2>3 DEF TypeOK
  <2>5. ItemsListed'
    BY <1>1, <2>1, <2>2, <2>3 DEF TypeOK, ItemsListed, Live
  <2>6. \A i \in Item : (Live(i) /\ items[i].archived)' => Live(i) /\ items[i].archived
    BY <1>1, <2>1, <2>2, <2>3 DEF TypeOK, Live
  <2>7. QED
    BY <2>4, <2>5, <2>6
<1>5. /\ items' \in [Item -> ItemRow] /\ ItemsListed'
      /\ \A i \in Item : (Live(i) /\ items[i].archived)' => Live(i) /\ items[i].archived
  BY <1>3, <1>4 DEF CreateItem, CreateMany
<1>6. QED
  BY <1>1, <1>2, <1>5, WriteKeeps DEF TypeOK

\* What is shown changes nothing but that it was shown.
LEMMA Answers ==
  ASSUME IInv, NEW h \in Handler, GetList(h) \/ ListItems(h) \/ ExportList(h)
  PROVE  IInv'
<1> USE DEF Go, At, Finish, Writes
<1>1. /\ TypeOK /\ ListInv /\ ItemsListed /\ Sound(h) /\ NoticeInv /\ hs[h].pc = "write"
      /\ hs' = [hs EXCEPT ![h] = Idle]
      /\ UNCHANGED <<role, ops, lists, owners, items, held, made, raced, archivings, kept, told, lost,
                     notices>>
  BY DEF IInv, Handlers, GetList, ListItems, ExportList, Answer, admin, rows, letters
<1>2. shown' \subseteq User \X Item
  <2>1. PICK is \in SUBSET Item : Answer(h, is)
    BY DEF GetList, ListItems, ExportList, ListByList, Exported
  <2>2. hs[h].u \in User
    BY <1>1 DEF Sound, Typed, Acting
  <2>3. QED
    BY <1>1, <2>1, <2>2 DEF TypeOK, Answer
<1>3. Grows /\ (ListInv /\ ItemsListed)'
  BY <1>1 DEF Grows, ListInv, OwnersMade, GiverByRaceOnly, ItemsListed, Open, Live
<1>4. Moves
  BY <1>1, <1>3, StopMoves
<1>5. Quiet
  <2>1. hs'[h] = Idle /\ \A g \in Handler : g # h => hs'[g] = hs[g]
    BY <1>1 DEF TypeOK
  <2>2. Idle.pc \notin Notifying /\ hs[h].pc \notin Notifying
    BY <1>1, ConstantTypes DEF Notifying
  <2>3. QED
    BY <1>1, <2>1, <2>2 DEF Quiet, NoticeInv, Live
<1>6. TypeOK'
  BY <1>1, <1>2, <1>4 DEF TypeOK, Moves
<1>7. QED
  BY <1>3, <1>4, <1>5, <1>6, QuietKeeps DEF IInv, Moves

LEMMA SetsRole ==
  ASSUME IInv, NEW h \in Handler, SetRole(h)
  PROVE  IInv'
<1> USE DEF Go, At, Finish
<1>1. /\ TypeOK /\ ListInv /\ ItemsListed /\ Sound(h) /\ hs[h].pc = "role"
      /\ hs[h].u \in User /\ hs[h].op \in Role /\ hs' = [hs EXCEPT ![h] = Idle]
      /\ role' = [role EXCEPT ![hs[h].u] = hs[h].op]
      /\ UNCHANGED <<lists, owners, items, made, raced, shown, ops, held, archivings, kept, told, lost,
                     notices>>
  BY DEF IInv, Handlers, Sound, Typed, Acting, SetRole, rows, letters, origin
<1>2. role' \in [User -> Role]
  BY <1>1 DEF TypeOK
<1>3. GiverByRaceOnly'
  <2>1. ASSUME NEW x \in owners, role'[x[2]] = "giver"  PROVE x[1] \in raced
    <3>1. x[2] \in User
      BY <1>1, <2>1 DEF TypeOK
    <3>2. CASE x[2] = hs[h].u
      BY <1>1, <2>1, <3>1, <3>2 DEF Sound, Rightful, TypeOK
    <3>3. CASE x[2] # hs[h].u
      BY <1>1, <2>1, <3>1, <3>3 DEF ListInv, GiverByRaceOnly, TypeOK
    <3>4. QED
      BY <3>2, <3>3
  <2>2. QED
    BY <1>1, <2>1 DEF GiverByRaceOnly
<1>4. OwnersMade' /\ ItemsListed' /\ Grows /\ hs[h].pc \notin Notifying
  BY <1>1 DEF ListInv, OwnersMade, Open, ItemsListed, Live, Grows, Notifying
<1>5. \A i \in Item : (Live(i) /\ items[i].archived)' => Live(i) /\ items[i].archived
  BY <1>1 DEF Live
<1>6. QED
  BY <1>1, <1>2, <1>3, <1>4, <1>5, WriteKeeps DEF TypeOK, ListInv

-----------------------------------------------------------------------------
(* Archiving and telling *)

LEMMA TellersFinite ==
  ASSUME NEW i
  PROVE  IsFiniteSet(Tellers(i)) /\ Cardinality(Tellers(i)) \in Nat
<1>1. Tellers(i) \subseteq Handler /\ IsFiniteSet(Handler)
  BY ListsBounds DEF Tellers
<1>2. QED
  BY <1>1, FS_Subset, FS_CardinalityType

\* A new telling is paid for by the archive that starts it.
LEMMA Archives ==
  ASSUME IInv, NEW h \in Handler, NEW i \in Item, hs[h].i = i, ArchiveItem(h)
  PROVE  IInv'
<1> USE DEF Go, At, Finish, Writes
<1> DEFINE next == [hs[h] EXCEPT !.pc = "reserved"]
<1>1. /\ TypeOK /\ ListInv /\ ItemsListed /\ Sound(h) /\ hs[h] \in HState /\ NoticeInv
      /\ hs[h].pc = "write"
      /\ UNCHANGED <<role, lists, owners, made, raced, shown, ops, held, notices>>
  BY DEF IInv, TypeOK, Handlers, ArchiveItem, admin, origin
<1>2. ListInv' /\ Grows /\ hs[h].pc \notin Notifying
  BY <1>1 DEF ListInv, OwnersMade, GiverByRaceOnly, Open, Grows, Notifying
<1>3. CASE ~Unstamped(i)
  <2>1. hs' = [hs EXCEPT ![h] = Idle] /\ UNCHANGED <<items, archivings, kept, told, lost>>
    BY <1>3 DEF ArchiveItem
  <2>2. ItemsListed' /\ \A j \in Item : (Live(j) /\ items[j].archived)' => Live(j) /\ items[j].archived
    BY <1>1, <2>1 DEF ItemsListed, Live
  <2>3. QED
    BY <1>1, <1>2, <2>1, <2>2, WriteKeeps DEF TypeOK
<1>4. CASE Unstamped(i)
  <2> DEFINE row == [items[i] EXCEPT !.archived = TRUE]
  <2>1. items[i] \in ItemRow /\ Live(i) /\ ~items[i].archived
    BY <1>1, <1>4 DEF TypeOK, Unstamped
  <2>2. row \in ItemRow /\ row.state = items[i].state /\ row.list = items[i].list
    BY <2>1 DEF ItemRow
  <2>3. /\ next \in HState /\ next.pc = "reserved" /\ next.i = i
    BY <1>1 DEF HState
  <2>4. /\ archivings[i] < MaxArchivings /\ items' = [items EXCEPT ![i] = row]
        /\ archivings' = [archivings EXCEPT ![i] = @ + 1]
        /\ kept' = {x \in held : x[1] = i} \cup {x \in kept : x[1] # i}
        /\ told' = [told EXCEPT ![i] = {}] /\ lost' = lost \ ({i} \X Track)
        /\ hs' = [hs EXCEPT ![h] = next]
    BY <1>4, <2>1 DEF ArchiveItem, Stamped
  <2> HIDE DEF row, next
  <2>5. Moves
    <3>1. hs'[h] = next => Sound(h)'
      BY <1>1, <2>3 DEF Sound, Typed, Rightful, Acting, Notifying
    <3>2. QED
      BY <1>2, <2>3, <2>4, <3>1, StepMoves
  <2>6. /\ archivings[i] \in Nat /\ archivings'[i] = archivings[i] + 1
        /\ archivings' \in [Item -> 0 .. MaxArchivings]
        /\ \A j \in Item : j # i => archivings'[j] = archivings[j]
    BY <1>1, <2>4, ListsBounds DEF TypeOK
  <2>7. /\ items' \in [Item -> ItemRow] /\ told' \in [Item -> SUBSET Address]
        /\ \A j \in Item : j # i => items'[j] = items[j] /\ told'[j] = told[j]
        /\ \A j \in Item : Live(j)' = Live(j) /\ items'[j].list = items[j].list
    BY <1>1, <2>2, <2>4 DEF TypeOK, Live
  <2>8. ItemsListed'
    BY <1>1, <2>7 DEF ItemsListed
  <2>9. TypeOK'
    BY <1>1, <2>4, <2>5, <2>6, <2>7 DEF TypeOK, Moves
  <2>10. /\ hs'[h] = next /\ hs[h].pc \notin Notifying
         /\ \A g \in Handler : g # h => hs'[g] = hs[g]
    BY <1>1, <1>2, <2>4 DEF TypeOK
  <2>11. /\ Tellers(i)' = Tellers(i) \cup {h} /\ h \notin Tellers(i)
         /\ \A j \in Item : j # i => Tellers(j)' = Tellers(j)
    BY <2>3, <2>10 DEF Tellers, Notifying
  <2>12. NoticesCounted'
    <3>1. ASSUME NEW j \in Item, NEW a \in Address
          PROVE  notices'[j][a] + Cardinality(Tellers(j))' <= archivings'[j]
      <4>1. /\ notices'[j][a] \in Nat /\ notices'[j][a] = notices[j][a]
            /\ notices[j][a] + Cardinality(Tellers(j)) <= archivings[j]
        BY <1>1 DEF TypeOK, NoticeInv, NoticesCounted
      <4>2. CASE j = i
        <5>1. /\ IsFiniteSet(Tellers(i)) /\ Cardinality(Tellers(i)) \in Nat
              /\ Cardinality(Tellers(i) \cup {h}) = Cardinality(Tellers(i)) + 1
          BY <2>11, TellersFinite, FS_AddElement
        <5>2. Cardinality(Tellers(i))' = Cardinality(Tellers(i)) + 1
          BY <2>11, <5>1
        <5>3. /\ notices'[i][a] \in Nat /\ notices'[i][a] = notices[i][a]
              /\ notices[i][a] + Cardinality(Tellers(i)) <= archivings[i]
          BY <4>1, <4>2
        <5>4. notices'[i][a] + Cardinality(Tellers(i))' <= archivings'[i]
          BY <2>6, <5>1, <5>2, <5>3
        <5>5. QED
          BY <4>2, <5>4
      <4>3. CASE j # i
        BY <2>6, <2>11, <4>1, <4>3
      <4>4. QED
        BY <4>2, <4>3
    <3>2. QED
      BY <3>1 DEF NoticesCounted
  <2>13. HoldersCovered'
    <3>1. ASSUME NEW x, x[1] = i  PROVE Covered(x)'
      BY <2>3, <2>10, <3>1 DEF Noting, Covered
    <3>2. ASSUME NEW x \in kept', x[1] # i, Due(x)'  PROVE Covered(x)'
      <4>1. x \in kept /\ x[1] \in Item
        BY <1>1, <2>4, <3>2 DEF TypeOK
      <4>2. <<x[1], x[3]>> \notin lost
        BY <2>4, <3>2 DEF Due
      <4>3. Covered(x)
        BY <1>1, <2>7, <3>2, <4>1, <4>2 DEF NoticeInv, HoldersCovered, Due
      <4>4. ASSUME NEW g \in Handler, Noting(g, x)  PROVE Noting(g, x)'
        BY <2>10, <4>4 DEF Noting, Notifying
      <4>5. QED
        BY <2>7, <3>2, <4>1, <4>3, <4>4 DEF Covered
    <3>3. QED
      BY <3>1, <3>2 DEF HoldersCovered
  <2>14. kept' \subseteq held'
    BY <1>1, <2>4 DEF NoticeInv
  <2>15. QED
    BY <1>2, <2>5, <2>8, <2>9, <2>12, <2>13, <2>14 DEF IInv, NoticeInv, Moves
<1>5. QED
  BY <1>3, <1>4

\* What was held since the archive is still held when it is looked for; when
\* the look fails, the reservations are lost and nobody else.
LEMMA NotesReserved ==
  ASSUME IInv, NEW h \in Handler, NEW i \in Item, hs[h].i = i, NotifyReserved(h)
  PROVE  IInv'
<1> USE DEF Go, At
<1>1. /\ TypeOK /\ ListInv /\ ItemsListed /\ Sound(h) /\ hs[h] \in HState /\ NoticeInv
      /\ hs[h].pc = "reserved"
      /\ UNCHANGED <<role, ops, lists, owners, items, held, made, raced, shown, archivings, kept, told,
                     notices>>
  BY DEF IInv, TypeOK, Handlers, NotifyReserved, admin, rows, origin
<1>2. Grows /\ (ListInv /\ ItemsListed)'
  BY <1>1 DEF Grows, ListInv, OwnersMade, GiverByRaceOnly, ItemsListed, Open, Live
<1>3. PICK to \in SUBSET Address :
        /\ hs' = [hs EXCEPT ![h] = [hs[h] EXCEPT !.pc = "pledged", !.to = to]]
        /\ \/ to = On(i, {"reservation"}) /\ lost' = lost
           \/ lost' = lost \cup ({i} \X {"reservation"})
  <2>1. On(i, {"reservation"}) \in SUBSET Address /\ hs[h].to \in SUBSET Address
    BY <1>1 DEF On, HState
  <2>2. [hs[h] EXCEPT !.pc = "pledged"] = [hs[h] EXCEPT !.pc = "pledged", !.to = hs[h].to]
    BY <1>1 DEF HState
  <2>3. QED
    BY <2>1, <2>2 DEF NotifyReserved, NotedReserved, Missed
<1> DEFINE next == [hs[h] EXCEPT !.pc = "pledged", !.to = to]
<1>4. /\ next \in HState /\ next.pc = "pledged" /\ next.i = i /\ next.to = to
      /\ hs' = [hs EXCEPT ![h] = next]
  BY <1>1, <1>3 DEF HState
<1> HIDE DEF next
<1>5. Moves
  <2>1. hs'[h] = next => Sound(h)'
    BY <1>1, <1>4 DEF Sound, Typed, Rightful, Acting, Notifying
  <2>2. QED
    BY <1>1, <1>2, <1>4, <2>1, StepMoves
<1>6. hs'[h] = next /\ \A g \in Handler : g # h => hs'[g] = hs[g]
  BY <1>1, <1>4 DEF TypeOK
<1>7. TypeOK'
  <2>1. lost' \subseteq Item \X Track
    BY <1>1, <1>3 DEF TypeOK, Track
  <2>2. QED
    BY <1>1, <1>5, <2>1 DEF TypeOK, Moves
<1>8. \A j \in Item : Tellers(j)' = Tellers(j)
  BY <1>1, <1>4, <1>6 DEF Tellers, Notifying
<1>9. NoticesCounted'
  <2>1. \A j \in Item : Cardinality(Tellers(j))' = Cardinality(Tellers(j))
    BY <1>8
  <2>2. QED
    BY <1>1, <2>1 DEF NoticesCounted, NoticeInv
<1>10. ASSUME NEW x \in kept', Due(x)', Noting(h, x)  PROVE Noting(h, x)'
  <2>1. x \in held /\ x \in Item \X Address \X Track /\ x[1] = i
    BY <1>1, <1>10 DEF NoticeInv, TypeOK, Noting
  <2>2. x = <<i, x[2], x[3]>> /\ x[2] \in Address
    BY <2>1
  <2>3. x[3] = "reservation" => x[2] \in to
    <3>1. ASSUME x[3] = "reservation"  PROVE lost' # lost \cup ({i} \X {"reservation"})
      BY <1>10, <2>1, <3>1 DEF Due
    <3>2. QED
      BY <1>3, <2>1, <2>2, <3>1 DEF On
  <2>4. QED
    BY <1>4, <1>6, <2>1, <2>3 DEF Noting
<1>11. HoldersCovered'
  <2>1. ASSUME NEW x \in kept', Due(x)'  PROVE Covered(x)'
    <3>1. Due(x)
      BY <1>1, <1>3, <2>1 DEF Due, Live
    <3>2. Covered(x)
      BY <1>1, <3>1 DEF NoticeInv, HoldersCovered
    <3>3. ASSUME NEW g \in Handler, g # h, Noting(g, x)  PROVE Noting(g, x)'
      BY <1>6, <3>3 DEF Noting
    <3>4. QED
      BY <1>1, <1>10, <2>1, <3>2, <3>3 DEF Covered
  <2>2. QED
    BY <2>1 DEF HoldersCovered
<1>12. kept' \subseteq held'
  BY <1>1 DEF NoticeInv
<1>13. QED
  BY <1>2, <1>5, <1>7, <1>9, <1>11, <1>12 DEF IInv, NoticeInv, Moves

\* The letters are written at most once to an address, and the telling ends.
LEMMA NotesPledged ==
  ASSUME IInv, NEW h \in Handler, NEW i \in Item, hs[h].i = i, NotifyPledged(h)
  PROVE  IInv'
<1> USE DEF Go, At, Finish
<1>1. /\ TypeOK /\ ListInv /\ ItemsListed /\ Sound(h) /\ hs[h] \in HState /\ NoticeInv
      /\ hs[h].pc = "pledged" /\ hs' = [hs EXCEPT ![h] = Idle]
      /\ UNCHANGED <<role, ops, lists, owners, items, held, made, raced, shown, archivings, kept>>
  BY DEF IInv, TypeOK, Handlers, NotifyPledged, admin, rows, origin
<1>2. Grows /\ (ListInv /\ ItemsListed)'
  BY <1>1 DEF Grows, ListInv, OwnersMade, GiverByRaceOnly, ItemsListed, Open, Live
<1>3. Moves
  BY <1>1, <1>2, StopMoves
<1>4. /\ hs'[h] = Idle /\ Idle.pc \notin Notifying /\ hs[h].pc \in Notifying
      /\ \A g \in Handler : g # h => hs'[g] = hs[g]
  BY <1>1, ConstantTypes DEF TypeOK, Notifying
<1>5. PICK to \in SUBSET Address :
        /\ hs[h].to \subseteq to
        /\ told' = [told EXCEPT ![i] = @ \cup to]
        /\ notices' = [notices EXCEPT ![i] = [a \in Address |-> IF a \in to THEN @[a] + 1 ELSE @[a]]]
        /\ \/ On(i, {"pledge"}) \subseteq to /\ lost' = lost
           \/ lost' = lost \cup ({i} \X {"pledge"})
  <2>1. On(i, {"pledge"}) \subseteq Address /\ hs[h].to \subseteq Address
    BY <1>1 DEF On, HState
  <2>2. Noted(h) = hs[h].to \cup On(i, {"pledge"})
    BY DEF Noted
  <2>3. \/ WriteTo(i, Noted(h)) /\ lost' = lost
        \/ WriteTo(i, hs[h].to) /\ lost' = lost \cup ({i} \X {"pledge"})
    BY DEF NotifyPledged, Missed
  <2>4. CASE WriteTo(i, Noted(h)) /\ lost' = lost
    <3>1. Noted(h) \in SUBSET Address /\ hs[h].to \subseteq Noted(h) /\ On(i, {"pledge"}) \subseteq Noted(h)
      BY <2>1, <2>2
    <3>2. QED
      BY <2>4, <3>1 DEF WriteTo
  <2>5. CASE WriteTo(i, hs[h].to) /\ lost' = lost \cup ({i} \X {"pledge"})
    BY <2>1, <2>5 DEF WriteTo
  <2>6. QED
    BY <2>3, <2>4, <2>5
<1>6. /\ told' \in [Item -> SUBSET Address] /\ told'[i] = told[i] \cup to
      /\ \A j \in Item : j # i => told'[j] = told[j]
  BY <1>1, <1>5 DEF TypeOK
<1>7. /\ notices' \in [Item -> [Address -> Nat]]
      /\ \A a \in Address : notices'[i][a] <= notices[i][a] + 1
      /\ \A j \in Item : j # i => notices'[j] = notices[j]
  <2> DEFINE more == [a \in Address |-> IF a \in to THEN notices[i][a] + 1 ELSE notices[i][a]]
  <2>1. notices[i] \in [Address -> Nat] /\ notices' = [notices EXCEPT ![i] = more]
    BY <1>1, <1>5 DEF TypeOK
  <2>2. more \in [Address -> Nat] /\ \A a \in Address : more[a] <= notices[i][a] + 1
    BY <2>1
  <2> HIDE DEF more
  <2>3. QED
    BY <1>1, <2>1, <2>2 DEF TypeOK
<1>8. TypeOK'
  <2>1. lost' \subseteq Item \X Track
    BY <1>1, <1>5 DEF TypeOK, Track
  <2>2. QED
    BY <1>1, <1>3, <1>6, <1>7, <2>1 DEF TypeOK, Moves
<1>9. /\ Tellers(i)' = Tellers(i) \ {h} /\ h \in Tellers(i)
      /\ \A j \in Item : j # i => Tellers(j)' = Tellers(j)
  BY <1>4 DEF Tellers
<1>10. NoticesCounted'
  <2>1. ASSUME NEW a \in Address
        PROVE  notices'[i][a] + Cardinality(Tellers(i))' <= archivings'[i]
    <3>1. /\ notices[i][a] \in Nat /\ notices'[i][a] \in Nat
          /\ notices'[i][a] <= notices[i][a] + 1
          /\ notices[i][a] + Cardinality(Tellers(i)) <= archivings[i]
          /\ archivings[i] \in Nat /\ archivings'[i] = archivings[i]
      BY <1>1, <1>7, ListsBounds DEF TypeOK, NoticeInv, NoticesCounted
    <3>2. /\ IsFiniteSet(Tellers(i)) /\ Cardinality(Tellers(i)) \in Nat
          /\ Cardinality(Tellers(i) \ {h}) = Cardinality(Tellers(i)) - 1
      BY <1>9, TellersFinite, FS_RemoveElement
    <3>3. Cardinality(Tellers(i))' = Cardinality(Tellers(i)) - 1
      BY <1>9, <3>2
    <3>4. QED
      BY <3>1, <3>2, <3>3
  <2>2. ASSUME NEW j \in Item, NEW a \in Address, j # i
        PROVE  notices'[j][a] + Cardinality(Tellers(j))' <= archivings'[j]
    <3>1. Cardinality(Tellers(j))' = Cardinality(Tellers(j))
      BY <1>9, <2>2
    <3>2. QED
      BY <1>1, <1>7, <2>2, <3>1 DEF NoticeInv, NoticesCounted
  <2>3. QED
    BY <2>1, <2>2 DEF NoticesCounted
<1>11. HoldersCovered'
  <2>1. ASSUME NEW x \in kept', Due(x)'  PROVE Covered(x)'
    <3>1. x \in held /\ x \in Item \X Address \X Track /\ Due(x)
      BY <1>1, <1>5, <2>1 DEF NoticeInv, TypeOK, Due, Live
    <3>2. Covered(x)
      BY <1>1, <3>1 DEF NoticeInv, HoldersCovered
    <3>3. x[2] \in told[x[1]] => x[2] \in told'[x[1]]
      BY <1>6, <3>1
    <3>4. ASSUME NEW g \in Handler, g # h, Noting(g, x)  PROVE Noting(g, x)'
      BY <1>4, <3>4 DEF Noting
    <3>5. ASSUME Noting(h, x)  PROVE x[2] \in told'[x[1]]
      <4>1. x[1] = i /\ x = <<i, x[2], x[3]>> /\ x[2] \in Address /\ x[3] \in Track
        BY <3>1, <3>5 DEF Noting
      <4>2. CASE x[3] = "reservation"
        BY <1>1, <1>5, <1>6, <3>5, <4>1, <4>2 DEF Noting
      <4>3. CASE x[3] = "pledge"
        <5>1. lost' # lost \cup ({i} \X {"pledge"})
          BY <2>1, <4>1, <4>3 DEF Due
        <5>2. QED
          BY <1>5, <1>6, <3>1, <4>1, <4>3, <5>1 DEF On
      <4>4. QED
        BY <4>1, <4>2, <4>3 DEF Track
    <3>6. QED
      BY <3>2, <3>3, <3>4, <3>5 DEF Covered
  <2>2. QED
    BY <2>1 DEF HoldersCovered
<1>12. kept' \subseteq held'
  BY <1>1 DEF NoticeInv
<1>13. QED
  BY <1>2, <1>3, <1>8, <1>10, <1>11, <1>12 DEF IInv, NoticeInv, Moves

\* A telling that is cut short leaves both tracks of its item among the lost.
LEMMA Aborts ==
  ASSUME IInv, NEW h \in Handler, Abort(h)
  PROVE  IInv'
<1> USE DEF Go, At, Finish
<1>1. /\ TypeOK /\ ListInv /\ ItemsListed /\ Sound(h) /\ NoticeInv
      /\ hs' = [hs EXCEPT ![h] = Idle]
      /\ UNCHANGED <<role, ops, lists, owners, items, held, made, raced, shown, archivings, kept, told,
                     notices>>
      /\ lost' = IF hs[h].pc \in Notifying THEN lost \cup ({hs[h].i} \X Track) ELSE lost
  BY DEF IInv, TypeOK, Handlers, Abort, Missed, admin, rows, origin, Notifying
<1>2. Grows /\ (ListInv /\ ItemsListed)'
  BY <1>1 DEF Grows, ListInv, OwnersMade, GiverByRaceOnly, ItemsListed, Open, Live
<1>3. Moves
  BY <1>1, <1>2, StopMoves
<1>4. /\ hs'[h] = Idle /\ Idle.pc \notin Notifying
      /\ \A g \in Handler : g # h => hs'[g] = hs[g]
  BY <1>1, ConstantTypes DEF TypeOK, Notifying
<1>5. TypeOK'
  BY <1>1, <1>3 DEF TypeOK, Moves, Sound, Typed
<1>6. NoticesCounted'
  <2>1. ASSUME NEW j \in Item, NEW a \in Address
        PROVE  notices'[j][a] + Cardinality(Tellers(j))' <= archivings'[j]
    <3>1. Tellers(j)' \subseteq Tellers(j)
      BY <1>4 DEF Tellers
    <3>2. /\ IsFiniteSet(Tellers(j)) /\ Cardinality(Tellers(j)) \in Nat
          /\ IsFiniteSet(Tellers(j)') /\ Cardinality(Tellers(j)') \in Nat
          /\ Cardinality(Tellers(j)') <= Cardinality(Tellers(j))
      BY <3>1, TellersFinite, FS_Subset, FS_CardinalityType
    <3>3. /\ notices[j][a] \in Nat /\ archivings[j] \in Nat
          /\ notices[j][a] + Cardinality(Tellers(j)) <= archivings[j]
      BY <1>1, ListsBounds DEF TypeOK, NoticeInv, NoticesCounted
    <3>4. QED
      BY <1>1, <3>2, <3>3
  <2>2. QED
    BY <2>1 DEF NoticesCounted
<1>7. HoldersCovered'
  <2>1. ASSUME NEW x \in kept', Due(x)'  PROVE Covered(x)'
    <3>1. Due(x) /\ x[3] \in Track
      BY <1>1, <2>1 DEF Due, Live, TypeOK
    <3>2. Covered(x)
      BY <1>1, <3>1 DEF NoticeInv, HoldersCovered
    <3>3. ASSUME NEW g \in Handler, Noting(g, x)  PROVE Noting(g, x)'
      <4>1. g # h
        BY <1>1, <2>1, <3>1, <3>3 DEF Noting, Notifying, Due
      <4>2. QED
        BY <1>4, <3>3, <4>1 DEF Noting
    <3>4. QED
      BY <1>1, <3>2, <3>3 DEF Covered
  <2>2. QED
    BY <2>1 DEF HoldersCovered
<1>8. kept' \subseteq held'
  BY <1>1 DEF NoticeInv
<1>9. QED
  BY <1>2, <1>3, <1>5, <1>6, <1>7, <1>8 DEF IInv, NoticeInv, Moves

LEMMA Givers ==
  ASSUME IInv, GiverNext
  PROVE  IInv'
<1>1. /\ TypeOK /\ ListInv /\ ItemsListed /\ NoticeInv
      /\ UNCHANGED <<role, ops, lists, owners, items, hs, made, raced, shown, archivings, told, lost,
                     notices>>
  BY DEF IInv, GiverNext, Hold, Release, admin, rows, origin, letters
<1>2. /\ held' \subseteq Item \X Address \X Track
      /\ kept' \subseteq kept /\ kept' \subseteq held'
  <2>1. CASE \E i \in Item, a \in Address, t \in Track : Hold(i, a, t)
    BY <1>1, <2>1 DEF Hold, TypeOK, NoticeInv, letters
  <2>2. CASE \E x \in held : Release(x)
    BY <1>1, <2>2 DEF Release, TypeOK, NoticeInv
  <2>3. QED
    BY <2>1, <2>2 DEF GiverNext
<1>3. Grows /\ (ListInv /\ ItemsListed)'
  BY <1>1 DEF Grows, ListInv, OwnersMade, GiverByRaceOnly, ItemsListed, Open, Live
<1>4. Moves
  BY <1>1, <1>3, NobodyMoves
<1>5. Quiet
  BY <1>1, <1>2 DEF Quiet, Live
<1>6. TypeOK'
  BY <1>1, <1>2, <1>4 DEF TypeOK, Moves
<1>7. QED
  BY <1>3, <1>4, <1>5, <1>6, QuietKeeps DEF IInv, Moves

-----------------------------------------------------------------------------
(* The invariant *)

LEMMA Starts == Init => IInv
<1> SUFFICES ASSUME Init  PROVE IInv
  OBVIOUS
<1> USE DEF Init
<1>1. TypeOK
  <2>1. [l \in List |-> [state |-> "none", active |-> FALSE]] \in [List -> ListRow]
    BY DEF ListRow
  <2>2. 0 \in 0 .. MaxArchivings
    BY ListsBounds
  <2>3. QED
    BY <2>1, <2>2, ConstantTypes DEF TypeOK
<1>2. Handlers
  BY ConstantTypes DEF Handlers, Sound, Typed, Rightful, Acting, Notifying
<1>3. ListInv /\ ItemsListed
  BY DEF ListInv, OwnersMade, GiverByRaceOnly, ItemsListed, Live, NoRow
<1>4. NoticeInv
  <2>1. \A i \in Item : Tellers(i) = {}
    BY ConstantTypes DEF Tellers
  <2>2. \A i \in Item : Cardinality(Tellers(i)) = 0
    BY <2>1, FS_EmptySet
  <2>3. QED
    BY <2>2 DEF NoticeInv, NoticesCounted, HoldersCovered
<1>5. QED
  BY <1>1, <1>2, <1>3, <1>4 DEF IInv

LEMMA Steps == IInv /\ [Next]_vars => IInv'
<1> SUFFICES ASSUME IInv, [Next]_vars  PROVE IInv'
  OBVIOUS
<1>1. ASSUME NEW h \in Handler, hs[h].pc \in Notifying  PROVE hs[h].i \in Item
  BY <1>1 DEF IInv, Handlers, Sound, Typed
<1>2. ASSUME NEW h \in Handler, ListNext(h)  PROVE IInv'
  BY <1>2, Begins, Judges, WritesList, WritesItem, Answers DEF ListNext
<1>3. ASSUME NEW h \in Handler, ItemNext(h)  PROVE IInv'
  <2>1. CASE ArchiveItem(h)
    <3>1. hs[h].i \in Item
      BY <2>1 DEF IInv, Handlers, Sound, Typed, ArchiveItem, Writes, At, ListOp, ReadOp
    <3>2. QED
      BY <2>1, <3>1, Archives
  <2>2. CASE NotifyReserved(h)
    BY <1>1, <2>2, NotesReserved DEF NotifyReserved, At, Notifying
  <2>3. CASE NotifyPledged(h)
    BY <1>1, <2>3, NotesPledged DEF NotifyPledged, At, Notifying
  <2>4. QED
    BY <1>3, <2>1, <2>2, <2>3, Begins, WritesItem DEF ItemNext
<1>4. ASSUME NEW h \in Handler, AdminNext(h)  PROVE IInv'
  BY <1>4, Begins, Judges, SetsRole DEF AdminNext
<1>5. CASE UNCHANGED vars
  <2>1. UNCHANGED data /\ UNCHANGED hs
    BY <1>5 DEF vars, admin, rows, origin, letters, data
  <2>2. Grows /\ (ListInv /\ ItemsListed)'
    BY <2>1, DataKept
  <2>3. Moves
    BY <2>1, <2>2, NobodyMoves
  <2>4. Quiet
    BY <2>1 DEF Quiet, data, Live, IInv, NoticeInv
  <2>5. TypeOK'
    BY <2>1, <2>3 DEF IInv, TypeOK, data, Moves
  <2>6. QED
    BY <2>2, <2>3, <2>4, <2>5, QuietKeeps DEF IInv, Moves
<1>6. QED
  BY <1>2, <1>3, <1>4, <1>5, Aborts, Givers DEF Next

\* The invariant from which every property below follows.
THEOREM Inductive == Spec => []IInv
<1>1. QED
  BY Starts, Steps, PTL DEF Spec

\* Every variable keeps its type: no request acts for nobody, on no row.
THEOREM TypeCorrect == Spec => []TypeOK
<1>1. IInv => TypeOK
  BY DEF IInv
<1>2. QED
  BY <1>1, Inductive, PTL

-----------------------------------------------------------------------------
(* What is shown *)

\* An item that was shown was there, and its list was made by whom it was
\* shown to.
OwnShown ==
  \A x \in shown : /\ items[x[2]].state # "none" /\ items[x[2]].list \in List
                    /\ made[items[x[2]].list] = x[1]

\* An item never moves to another list, nor a list to another account.
LEMMA ItemsStay ==
  ASSUME IInv, Next, NEW i \in Item, items[i].state # "none"
  PROVE  items'[i].state # "none" /\ items'[i].list = items[i].list
<1>1. items \in [Item -> ItemRow] /\ items[i] \in ItemRow
  BY DEF IInv, TypeOK
<1>2. ASSUME NEW h \in Handler, ListNext(h)  PROVE items'[i] = items[i]
  <2>1. CASE UNCHANGED items
    BY <2>1
  <2>2. ASSUME NEW j \in Item, CreateItem(h, j)  PROVE items'[i] = items[i]
    BY <2>2 DEF CreateItem, Insert
  <2>3. ASSUME NEW new \in SUBSET Item \ {{}}, CreateMany(h, new)  PROVE items'[i] = items[i]
    BY <2>3 DEF CreateMany, Insert
  <2>4. QED
    BY <1>2, <2>1, <2>2, <2>3 DEF ListNext, BeginCreateList, BeginList, CreateList, OwnsList, UpdateList,
       DeleteList, RefuseImport, GetList, ListItems, ExportList, Answer, rows
<1>3. ASSUME NEW h \in Handler, ItemNext(h)
      PROVE  items'[i].state # "none" /\ items'[i].list = items[i].list
  <2>1. CASE UNCHANGED items
    BY <2>1
  <2>2. CASE UpdateItem(h)
    BY <1>1, <2>2 DEF UpdateItem, Patched, ItemRow
  <2>3. CASE DeleteItem(h)
    BY <1>1, <2>3 DEF DeleteItem, ItemRow
  <2>4. CASE ArchiveItem(h)
    BY <1>1, <2>4 DEF ArchiveItem, Stamped, ItemRow
  <2>5. CASE UnarchiveItem(h)
    BY <1>1, <2>5 DEF UnarchiveItem, ItemRow
  <2>6. QED
    BY <1>3, <2>1, <2>2, <2>3, <2>4, <2>5 DEF ItemNext, BeginItem, NotifyReserved, NotifyPledged, rows
<1>4. ASSUME NEW h \in Handler, AdminNext(h) \/ Abort(h)  PROVE items'[i] = items[i]
  BY <1>4 DEF AdminNext, BeginRole, CountLists, SetRole, Abort, rows
<1>5. CASE GiverNext
  BY <1>5 DEF GiverNext, Hold, Release, rows
<1>6. QED
  BY <1>2, <1>3, <1>4, <1>5 DEF Next

LEMMA MadeStays ==
  ASSUME IInv, Next, NEW k \in List, made[k] # NoUser
  PROVE  made'[k] = made[k]
<1>1. ASSUME NEW h \in Handler, NEW l \in List, CreateList(h, l)  PROVE made'[k] = made[k]
  <2>1. made[l] = NoUser /\ made \in [List -> User \cup {NoUser}]
    BY <1>1 DEF IInv, ListInv, OwnersMade, TypeOK, CreateList
  <2>2. QED
    BY <1>1, <2>1 DEF CreateList
<1>2. ASSUME NEW h \in Handler, ListNext(h)  PROVE made'[k] = made[k]
  <2>1. CASE made' = made
    BY <2>1
  <2>2. ASSUME NEW j \in Item, CreateItem(h, j)  PROVE made' = made
    BY <2>2 DEF CreateItem, Insert, origin
  <2>3. ASSUME NEW new \in SUBSET Item \ {{}}, CreateMany(h, new)  PROVE made' = made
    BY <2>3 DEF CreateMany, Insert, origin
  <2>4. CASE GetList(h) \/ ListItems(h) \/ ExportList(h)
    BY <2>1, <2>4 DEF GetList, ListItems, ExportList, Answer, origin
  <2>5. CASE OwnsList(h) \/ UpdateList(h) \/ DeleteList(h)
    BY <2>1, <2>5 DEF OwnsList, UpdateList, DeleteList, origin
  <2>6. QED
    BY <1>1, <1>2, <2>1, <2>2, <2>3, <2>4, <2>5 DEF ListNext, BeginCreateList, BeginList, RefuseImport,
       origin
<1>3. ASSUME NEW h \in Handler, ItemNext(h)  PROVE made' = made
  <2>1. CASE UpdateItem(h) \/ DeleteItem(h) \/ ArchiveItem(h) \/ UnarchiveItem(h)
    BY <2>1 DEF UpdateItem, DeleteItem, ArchiveItem, UnarchiveItem, origin
  <2>2. QED
    BY <1>3, <2>1 DEF ItemNext, BeginItem, NotifyReserved, NotifyPledged, origin
<1>4. ASSUME NEW h \in Handler, AdminNext(h) \/ Abort(h)  PROVE made' = made
  BY <1>4 DEF AdminNext, BeginRole, CountLists, SetRole, Abort, origin
<1>5. CASE GiverNext
  BY <1>5 DEF GiverNext, Hold, Release, origin
<1>6. QED
  BY <1>2, <1>3, <1>4, <1>5 DEF Next

LEMMA ShowsOwn ==
  ASSUME IInv, Next, NEW x \in shown', x \notin shown
  PROVE  /\ x[2] \in Item /\ Live(x[2]) /\ items[x[2]].list \in List
         /\ made[items[x[2]].list] = x[1]
<1>1. PICK h \in Handler : ListItems(h) \/ ExportList(h)
  <2>1. shown' # shown
    OBVIOUS
  <2>2. ASSUME NEW h \in Handler, ListNext(h), ~ (ListItems(h) \/ ExportList(h))  PROVE shown' = shown
    <3>1. ASSUME GetList(h)  PROVE shown' = shown
      BY <3>1 DEF GetList, Answer
    <3>2. ASSUME NEW j \in Item, CreateItem(h, j)  PROVE shown' = shown
      BY <3>2 DEF CreateItem, Insert, origin
    <3>3. ASSUME NEW new \in SUBSET Item \ {{}}, CreateMany(h, new)  PROVE shown' = shown
      BY <3>3 DEF CreateMany, Insert, origin
    <3>4. CASE OwnsList(h) \/ UpdateList(h) \/ DeleteList(h)
      BY <3>4 DEF OwnsList, UpdateList, DeleteList, origin
    <3>5. QED
      BY <2>2, <3>1, <3>2, <3>3, <3>4 DEF ListNext, BeginCreateList, BeginList, CreateList, RefuseImport,
         origin
  <2>3. ASSUME NEW h \in Handler, ItemNext(h)  PROVE shown' = shown
    <3>1. CASE UpdateItem(h) \/ DeleteItem(h) \/ ArchiveItem(h) \/ UnarchiveItem(h)
      BY <3>1 DEF UpdateItem, DeleteItem, ArchiveItem, UnarchiveItem, origin
    <3>2. QED
      BY <2>3, <3>1 DEF ItemNext, BeginItem, NotifyReserved, NotifyPledged, origin
  <2>4. ASSUME NEW h \in Handler, AdminNext(h) \/ Abort(h)  PROVE shown' = shown
    BY <2>4 DEF AdminNext, BeginRole, CountLists, SetRole, Abort, origin
  <2>5. CASE GiverNext
    BY <2>1, <2>5 DEF GiverNext, Hold, Release, origin
  <2>6. QED
    BY <2>1, <2>2, <2>3, <2>4, <2>5 DEF Next
<1>2. x[1] = hs[h].u /\ x[2] \in ListByList(hs[h].l) /\ hs[h].pc = "write"
  BY <1>1 DEF ListItems, ExportList, Exported, Answer, Writes, At
<1>3. Sound(h)
  BY DEF IInv, Handlers
<1>4. QED
  BY <1>2, <1>3 DEF ListByList, Sound, Typed, Rightful

LEMMA ShownStays == IInv /\ OwnShown /\ [Next]_vars => OwnShown'
<1> SUFFICES ASSUME IInv, OwnShown, [Next]_vars, NEW x \in shown'
             PROVE  /\ items'[x[2]].state # "none" /\ items'[x[2]].list \in List
                    /\ made'[items'[x[2]].list] = x[1]
  BY DEF OwnShown
<1>1. CASE UNCHANGED vars
  BY <1>1 DEF vars, rows, origin, OwnShown
<1>2. CASE Next
  <2>1. /\ x[2] \in Item /\ items[x[2]].state # "none" /\ items[x[2]].list \in List
        /\ made[items[x[2]].list] = x[1]
    <3>1. CASE x \in shown
      BY <3>1 DEF OwnShown, IInv, TypeOK
    <3>2. CASE x \notin shown
      BY <1>2, <3>2, ShowsOwn DEF Live
    <3>3. QED
      BY <3>1, <3>2
  <2>2. x[1] # NoUser
    <3>1. shown' \subseteq User \X Item /\ NoUser \notin User
      BY <1>2, Steps, ListsNames DEF IInv, TypeOK
    <3>2. QED
      BY <3>1
  <2>3. QED
    BY <1>2, <2>1, <2>2, ItemsStay, MadeStays
<1>3. QED
  BY <1>1, <1>2

\* What a request writes, or shows as its account's own, belongs to a list that
\* account made, however long ago ownsList was asked.
THEOREM WritesAreRightful == Spec => []OwnersOnly
<1>1. Init => OwnShown
  BY DEF Init, OwnShown
<1>2. IInv /\ OwnShown /\ [Next]_vars => OwnShown'
  BY ShownStays
<1>3. IInv /\ OwnShown => OwnersOnly
  BY DEF IInv, Handlers, Sound, Rightful, OwnShown, OwnersOnly, At
<1>4. QED
  BY <1>1, <1>2, <1>3, Inductive, PTL DEF Spec

\* A giver owns a list only if its creation overlapped his demotion, however
\* many administrators change roles at once.
THEOREM GiversOwnByRace == Spec => []GiverByRaceOnly
<1>1. IInv => GiverByRaceOnly
  BY DEF IInv, ListInv
<1>2. QED
  BY <1>1, Inductive, PTL

\* Nobody hears of an archive twice.
THEOREM NoticesPaidFor == Spec => []ToldPerArchive
<1>1. IInv => ToldPerArchive
  <2> SUFFICES ASSUME IInv, NEW i \in Item, NEW a \in Address
               PROVE  notices[i][a] <= archivings[i]
    BY DEF ToldPerArchive
  <2>1. /\ notices[i][a] \in Nat /\ archivings[i] \in Nat
        /\ notices[i][a] + Cardinality(Tellers(i)) <= archivings[i]
    BY ListsBounds DEF IInv, TypeOK, NoticeInv, NoticesCounted
  <2>2. QED
    BY <2>1, TellersFinite
<1>2. QED
  BY <1>1, Inductive, PTL

\* Whoever held an archived item throughout was told when no notice is under
\* way any more, but for a track whose read failed and for a handler that died.
THEOREM EveryHolderTold == Spec => []HoldersTold
<1>1. IInv => HoldersTold
  <2> SUFFICES ASSUME IInv, NEW x \in kept \cap held, Due(x), ~Telling(x[1])
               PROVE  x[2] \in told[x[1]]
    BY DEF HoldersTold
  <2>1. \A h \in Handler : ~Noting(h, x)
    BY DEF Noting, Telling, At
  <2>2. QED
    BY <2>1 DEF IInv, NoticeInv, HoldersCovered, Covered
<1>2. QED
  BY <1>1, Inductive, PTL

\* An edit never takes an archive back: the row it wrote from may be old, the
\* stamp it leaves is not.
THEOREM ArchivesStand == Spec => ArchiveStands
<1> DEFINE Stands == \A i \in Item : Live(i) /\ items[i].archived /\ ~items'[i].archived =>
                       \E h \in Handler : UnarchiveItem(h)
<1>1. IInv /\ [Next]_vars => [Stands]_vars
  <2> SUFFICES ASSUME IInv, Next, NEW i \in Item, Live(i), items[i].archived, ~items'[i].archived
               PROVE  \E h \in Handler : UnarchiveItem(h)
    BY DEF Stands
  <2>1. items \in [Item -> ItemRow] /\ items'[i] # items[i]
    BY DEF IInv, TypeOK
  <2>2. ASSUME NEW h \in Handler, ListNext(h)  PROVE FALSE
    <3>1. \/ \E j \in Item : CreateItem(h, j)
          \/ \E new \in SUBSET Item \ {{}} : CreateMany(h, new)
      BY <2>1, <2>2 DEF ListNext, BeginCreateList, BeginList, CreateList, OwnsList, UpdateList,
         DeleteList, RefuseImport, GetList, ListItems, ExportList, Answer, rows
    <3>2. PICK new \in SUBSET Item : Insert(h, new) /\ \A j \in new : items[j].state = "none"
      <4>1. ASSUME NEW j \in Item, CreateItem(h, j)
            PROVE  {j} \in SUBSET Item /\ Insert(h, {j}) /\ \A k \in {j} : items[k].state = "none"
        BY <4>1 DEF CreateItem
      <4>2. QED
        BY <3>1, <4>1 DEF CreateMany
    <3>3. QED
      BY <2>1, <3>2 DEF Insert, Live
  <2>3. ASSUME NEW h \in Handler, ItemNext(h), ~UnarchiveItem(h)  PROVE FALSE
    <3>1. items[i] \in ItemRow
      BY <2>1
    <3>2. CASE UpdateItem(h)
      BY <2>1, <3>1, <3>2 DEF UpdateItem, Patched, ItemRow
    <3>3. CASE DeleteItem(h)
      BY <2>1, <3>1, <3>3 DEF DeleteItem, ItemRow
    <3>4. CASE ArchiveItem(h)
      BY <2>1, <3>1, <3>4 DEF ArchiveItem, Stamped, ItemRow
    <3>5. QED
      BY <2>1, <2>3, <3>2, <3>3, <3>4 DEF ItemNext, BeginItem, NotifyReserved, NotifyPledged, rows
  <2>4. ASSUME NEW h \in Handler, AdminNext(h) \/ Abort(h)  PROVE FALSE
    BY <2>1, <2>4 DEF AdminNext, BeginRole, CountLists, SetRole, Abort, rows
  <2>5. CASE GiverNext
    BY <2>1, <2>5 DEF GiverNext, Hold, Release, rows
  <2>6. QED
    BY <2>2, <2>3, <2>4, <2>5 DEF Next
<1>2. QED
  BY <1>1, Inductive, PTL DEF Spec, ArchiveStands
=============================================================================
