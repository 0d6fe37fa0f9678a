------------------------------- MODULE Lists -------------------------------
(***************************************************************************)
(* The owner's side: who owns which list, the lists and their items, what  *)
(* archiving an item does and whom it tells, and an administrator who      *)
(* changes roles.                                                          *)
(*                                                                         *)
(* Every handler reads its row, asks whether the account owns the list,    *)
(* and writes, each statement by itself: what was true at the read need    *)
(* not be at the write.  The roles are checked when a request is admitted. *)
(* Reservations and pledges come and go by the rules of Reservations and   *)
(* CoBuying; here only who holds something on an item matters.             *)
(***************************************************************************)
EXTENDS Naturals, FiniteSets

CONSTANTS
  User, Handler,
  List, Item,    \* rows, each with a fresh id
  Address,       \* the givers' e-mail addresses
  NoUser, NoList, NoItem,
  Workloads,     \* sets of operations: every behaviour is of one of them
  MaxArchivings  \* bound on how often an item is archived

ASSUME ListsBounds == MaxArchivings \in Nat /\ IsFiniteSet(Handler)
ASSUME ListsNames  == NoUser \notin User /\ NoList \notin List /\ NoItem \notin Item

VARIABLES
  role,       \* users.role
  lists,      \* the lists rows
  owners,     \* the list_owners rows
  items,      \* the items rows
  held,       \* live holds: item, address and track
  hs,         \* handlers
  ops,        \* the workload of this behaviour
  made,       \* history: who created a list
  shown,      \* history: whom an item was shown to as an owner's own
  raced,      \* history: lists created while their creator was being demoted, or after
  archivings, \* history: how often an item was archived
  kept,       \* history: the holds there have been since their item was last archived
  told,       \* history: who was written to since
  lost,       \* history: the track of an item that a failed read or a crash kept from its notices
  notices     \* history: letters written to an address about an item

admin   == <<role, ops>>
rows    == <<lists, owners, items>>
letters == <<archivings, kept, told, lost, notices>>
origin  == <<made, raced, shown>>
vars == <<admin, rows, held, hs, origin, letters>>

Role     == {"owner", "giver"}
Name     == {"first", "edited"}
ListRow  == [state : {"none", "live", "gone"}, active : BOOLEAN]
ItemRow  == [state : {"none", "live", "gone"}, list : List \cup {NoList},
             name : Name, archived : BOOLEAN]
Track    == {"reservation", "pledge"}
ReadOp   == {"getList", "listItems", "export"}
ListOp   == {"updateList", "deleteList", "createItem", "import"} \cup ReadOp
ItemOp   == {"updateItem", "archive", "unarchive", "deleteItem"}
HState   == [pc : {"idle", "create", "own", "write", "reserved", "pledged", "count", "role"},
             op : ListOp \cup ItemOp \cup Role \cup {"none"},
             u : User \cup {NoUser}, l : List \cup {NoList}, i : Item \cup {NoItem},
             active : BOOLEAN, archived : BOOLEAN, to : SUBSET Address]

NoRow == [state |-> "none", list |-> NoList, name |-> "first", archived |-> FALSE]
Idle  == [pc |-> "idle", op |-> "none", u |-> NoUser, l |-> NoList, i |-> NoItem,
          active |-> FALSE, archived |-> FALSE, to |-> {}]

Init ==
  /\ role \in [User -> Role]
  /\ lists = [l \in List |-> [state |-> "none", active |-> FALSE]]
  /\ owners = {} /\ items = [i \in Item |-> NoRow] /\ held = {}
  /\ hs = [h \in Handler |-> Idle] /\ ops \in Workloads
  /\ made = [l \in List |-> NoUser] /\ raced = {} /\ shown = {}
  /\ archivings = [i \in Item |-> 0] /\ lost = {}
  /\ kept = {} /\ told = [i \in Item |-> {}]
  /\ notices = [i \in Item |-> [a \in Address |-> 0]]

-----------------------------------------------------------------------------
(* Helpers *)

Go(h, next) == hs' = [hs EXCEPT ![h] = next]
At(h, pc)   == hs[h].pc = pc
Writes(h, op) == At(h, "write") /\ hs[h].op = op
Finish(h)   == Go(h, Idle)

Open(l)     == lists[l].state = "live"
Live(i)     == items[i].state = "live"
OwnsSome(u, l) == \E k \in List : Open(k) /\ <<k, u>> \in owners   \* faulty: of any list
Owns(u, l)     == Open(l) /\ <<l, u>> \in owners

On(i, tracks) == {a \in Address : \E t \in tracks : <<i, a, t>> \in held}

-----------------------------------------------------------------------------
(* The start of every owner request: the row, then the ownership *)

\* The middleware has the account's role from its own read; only creating a
\* list, importing and exporting ask for it.
NeedsRole == {"import", "export"}
BeginList(h, u, op, l) ==
  /\ op \in ops /\ At(h, "idle") /\ Open(l)
  /\ op \in NeedsRole => role[u] = "owner"
  /\ \E open \in BOOLEAN :
       /\ op # "updateList" => open = lists[l].active
       /\ Go(h, [Idle EXCEPT !.pc = "own", !.op = op, !.u = u, !.l = l, !.active = open])
  /\ UNCHANGED <<admin, rows, held, origin, letters>>

BeginItem(h, u, op, i) ==
  /\ op \in ops /\ At(h, "idle") /\ Live(i)
  /\ Go(h, [Idle EXCEPT !.pc = "own", !.op = op, !.u = u, !.i = i, !.l = items[i].list,
                        !.archived = items[i].archived])
  /\ UNCHANGED <<admin, rows, held, origin, letters>>

\* ownsList, which joins the list itself: a deleted list has no owner.
OwnsList(h) ==
  /\ At(h, "own")
  /\ IF Owns(hs[h].u, hs[h].l) THEN Go(h, [hs[h] EXCEPT !.pc = "write"]) ELSE Finish(h)
  /\ UNCHANGED <<admin, rows, held, origin, letters>>

-----------------------------------------------------------------------------
(* Lists *)

BeginCreateList(h, u) ==
  /\ "createList" \in ops /\ At(h, "idle") /\ role[u] = "owner"
  /\ Go(h, [Idle EXCEPT !.pc = "create", !.u = u])
  /\ UNCHANGED <<admin, rows, held, origin, letters>>

Demoting(u) == role[u] = "giver" \/ \E h \in Handler : At(h, "role") /\ hs[h].u = u
                                                       /\ hs[h].op = "giver"

\* The list and its one owner row are inserted together.
CreateList(h, l) ==
  /\ At(h, "create") /\ lists[l].state = "none"
  /\ lists' = [lists EXCEPT ![l] = [state |-> "live", active |-> TRUE]]
  /\ owners' = owners \cup {<<l, hs[h].u>>}
  /\ made' = [made EXCEPT ![l] = hs[h].u]
  /\ raced' = IF Demoting(hs[h].u) THEN raced \cup {l} ELSE raced
  /\ Finish(h)
  /\ UNCHANGED <<admin, items, held, shown, letters>>

\* Update writes every column of the row that was read and patched.
UpdateList(h) ==
  /\ Writes(h, "updateList")
  /\ lists' = IF Open(hs[h].l) THEN [lists EXCEPT ![hs[h].l].active = hs[h].active] ELSE lists
  /\ Finish(h)
  /\ UNCHANGED <<admin, owners, items, held, origin, letters>>

\* Delete clears the owner rows itself, for the database that enforces no
\* foreign keys; no key leads to the items, which stay behind on either.
OwnerRows(l) == {x \in owners : x[1] = l}
DeleteList(h) ==
  LET l == hs[h].l IN
  /\ Writes(h, "deleteList")
  /\ IF Open(l)
       THEN /\ lists' = [lists EXCEPT ![l].state = "gone"]
            /\ owners' = owners \ OwnerRows(l)
       ELSE UNCHANGED <<lists, owners>>
  /\ Finish(h)
  /\ UNCHANGED <<admin, items, held, origin, letters>>

-----------------------------------------------------------------------------
(* Items *)

\* One item, or all the rows of a document in one transaction; they are
\* inserted although the list has gone meanwhile.
Insert(h, new) ==
  /\ items' = [i \in Item |-> IF i \in new THEN [NoRow EXCEPT !.state = "live", !.list = hs[h].l]
                                           ELSE items[i]]
  /\ Finish(h)
  /\ UNCHANGED <<admin, lists, owners, held, origin, letters>>

CreateItem(h, i) == Writes(h, "createItem") /\ items[i].state = "none" /\ Insert(h, {i})

\* An uploaded document, JSON or CSV: `known` is the schema version or the
\* header line, `small` the limits on bytes and rows; a cell that is no number
\* makes either format unreadable.
Cells == [name : {"blank", "given"}, amount : {"absent", "garbled", "zero", "positive"},
          currency : BOOLEAN, priority : {"garbled", "negative", "natural"}]
Documents(new) == [known : BOOLEAN, small : BOOLEAN, rows : [new -> Cells]]

ReadableRow(c) == c.amount # "garbled" /\ c.priority # "garbled"
Readable(doc)  == doc.known /\ \A i \in DOMAIN doc.rows : ReadableRow(doc.rows[i])
ValidRow(c) ==
  /\ c.name = "given" /\ c.priority # "negative"
  /\ c.amount # "zero" /\ ((c.amount = "absent") <=> ~c.currency)
Accepted(doc) == doc.small /\ Readable(doc) /\ \A i \in DOMAIN doc.rows : ValidRow(doc.rows[i])

\* All rows of a document or none: one that does not validate refuses it.
CreateMany(h, new) ==
  /\ Writes(h, "import") /\ \A i \in new : items[i].state = "none"
  /\ \E doc \in Documents(new) : Accepted(doc)
  /\ Insert(h, new)

RefuseImport(h, new) ==
  /\ Writes(h, "import")
  /\ \E doc \in Documents(new) : ~Accepted(doc)
  /\ Finish(h)
  /\ UNCHANGED <<admin, rows, held, origin, letters>>

\* Every column but the archive stamp is written as read and patched.
WholeRow(h) == [items[hs[h].i] EXCEPT !.name = "edited",
                                      !.archived = hs[h].archived]    \* faulty
Patched(h)  == [items[hs[h].i] EXCEPT !.name = "edited"]
UpdateItem(h) ==
  /\ Writes(h, "updateItem")
  /\ items' = IF Live(hs[h].i) THEN [items EXCEPT ![hs[h].i] = Patched(h)] ELSE items
  /\ Finish(h)
  /\ UNCHANGED <<admin, lists, owners, held, origin, letters>>

\* The holds keep their rows.
DeleteItem(h) ==
  /\ Writes(h, "deleteItem")
  /\ items' = IF Live(hs[h].i) THEN [items EXCEPT ![hs[h].i].state = "gone"] ELSE items
  /\ Finish(h)
  /\ UNCHANGED <<admin, lists, owners, held, origin, letters>>

-----------------------------------------------------------------------------
(* Reads *)

\* GetList answers with the row it read before it asked for the owner; the
\* items are read after, all of them for the list, and for the export those
\* that would not come back from an import as if they were wanted again.
Answer(h, is) ==
  /\ shown' = shown \cup ({hs[h].u} \X is)
  /\ Finish(h)
  /\ UNCHANGED <<admin, rows, held, made, raced, letters>>

ListByList(l) == {i \in Item : Live(i) /\ items[i].list = l}
Exported(l)   == {i \in ListByList(l) : ~items[i].archived}

GetList(h)    == Writes(h, "getList") /\ Answer(h, {})
ListItems(h)  == Writes(h, "listItems") /\ Answer(h, ListByList(hs[h].l))
ExportList(h) == Writes(h, "export") /\ Answer(h, Exported(hs[h].l))

-----------------------------------------------------------------------------
(* Archiving *)

\* Archive stamps a row that has no stamp; only who did goes on to tell.
AnyStamp(i)  == Live(i)                                      \* faulty: stamps again
Unstamped(i) == Live(i) /\ ~items[i].archived
Shelved(i)   == [items EXCEPT ![i].state = "archived"]       \* faulty: a state of its own
Stamped(i)   == [items EXCEPT ![i].archived = TRUE]
ArchiveItem(h) ==
  LET i == hs[h].i IN
  /\ Writes(h, "archive")
  /\ IF Unstamped(i)
       THEN /\ archivings[i] < MaxArchivings
            /\ items' = Stamped(i)
            /\ archivings' = [archivings EXCEPT ![i] = IF items[i].archived THEN @ ELSE @ + 1]
            /\ kept' = {x \in held : x[1] = i} \cup {x \in kept : x[1] # i}
            /\ told' = [told EXCEPT ![i] = {}] /\ lost' = lost \ ({i} \X Track)
            /\ Go(h, [hs[h] EXCEPT !.pc = "reserved"])
       ELSE UNCHANGED <<items, archivings, kept, told, lost>> /\ Finish(h)
  /\ UNCHANGED <<admin, lists, owners, held, origin, notices>>

\* notifyGiversArchived reads the reservations, then the pledges, and writes
\* once to every address.  A read that fails is logged, and the handler goes
\* on without that track; a send that fails is only logged too.
Missed(h, tracks) == lost \cup ({hs[h].i} \X tracks)

ReservedOnly(h) == hs[h].to                                  \* faulty: pledgers are not told
NotedReserved(h) == On(hs[h].i, {"reservation"})
NotifyReserved(h) ==
  /\ At(h, "reserved")
  /\ \/ Go(h, [hs[h] EXCEPT !.pc = "pledged", !.to = NotedReserved(h)]) /\ UNCHANGED lost
     \/ Go(h, [hs[h] EXCEPT !.pc = "pledged"]) /\ lost' = Missed(h, {"reservation"})
  /\ UNCHANGED <<admin, rows, held, origin, archivings, kept, told, notices>>

WriteTo(i, to) ==
  /\ told' = [told EXCEPT ![i] = @ \cup to]
  /\ notices' = [notices EXCEPT ![i] = [a \in Address |-> IF a \in to THEN @[a] + 1 ELSE @[a]]]

Noted(h) == hs[h].to \cup On(hs[h].i, {"pledge"})
NotifyPledged(h) ==
  /\ At(h, "pledged")
  /\ \/ WriteTo(hs[h].i, Noted(h)) /\ UNCHANGED lost
     \/ WriteTo(hs[h].i, hs[h].to) /\ lost' = Missed(h, {"pledge"})
  /\ Finish(h)
  /\ UNCHANGED <<admin, rows, held, origin, archivings, kept>>

\* Unarchive clears the stamp and tells nobody; the clocks it restarts are
\* Reservations'.
UnarchiveItem(h) ==
  /\ Writes(h, "unarchive")
  /\ items' = IF Live(hs[h].i) THEN [items EXCEPT ![hs[h].i].archived = FALSE] ELSE items
  /\ Finish(h)
  /\ UNCHANGED <<admin, lists, owners, held, origin, letters>>

-----------------------------------------------------------------------------
(* AdminUpdateUser: the role is read, the lists counted, the role written *)

BeginRole(h, u, to) ==
  /\ "role" \in ops /\ At(h, "idle")
  /\ Go(h, [Idle EXCEPT !.u = u, !.op = to,
                        !.pc = IF role[u] = "owner" /\ to = "giver" THEN "count" ELSE "role"])
  /\ UNCHANGED <<admin, rows, held, origin, letters>>

Unasked(u)     == FALSE                                      \* faulty: no precondition
StillOwning(u) == \E l \in List : Owns(u, l)
CountLists(h) ==
  /\ At(h, "count")
  /\ IF StillOwning(hs[h].u) THEN Finish(h) ELSE Go(h, [hs[h] EXCEPT !.pc = "role"])
  /\ UNCHANGED <<admin, rows, held, origin, letters>>

SetRole(h) ==
  /\ At(h, "role")
  /\ role' = [role EXCEPT ![hs[h].u] = hs[h].op]
  /\ Finish(h)
  /\ UNCHANGED <<ops, rows, held, origin, letters>>

-----------------------------------------------------------------------------
(* Everybody else *)

\* A giver gets a hold on an item that is there, archived or not: his request
\* may have been admitted before.
Hold(i, a, t) ==
  /\ "hold" \in ops /\ Live(i) /\ <<i, a, t>> \notin held
  /\ held' = held \cup {<<i, a, t>>}
  /\ UNCHANGED <<admin, rows, hs, origin, letters>>

Release(x) ==
  /\ x \in held /\ held' = held \ {x}
  /\ kept' = kept \ {x}
  /\ UNCHANGED <<admin, rows, hs, origin, archivings, told, lost, notices>>

\* A request fails or its process stops: its notices are never made up for.
Abort(h) ==
  /\ ~At(h, "idle") /\ Finish(h)
  /\ lost' = IF At(h, "reserved") \/ At(h, "pledged") THEN Missed(h, Track) ELSE lost
  /\ UNCHANGED <<admin, rows, held, origin, archivings, kept, told, notices>>

ListNext(h) ==
  \/ \E u \in User : BeginCreateList(h, u) \/ \E l \in List, op \in ListOp : BeginList(h, u, op, l)
  \/ \E l \in List : CreateList(h, l)
  \/ OwnsList(h) \/ UpdateList(h) \/ DeleteList(h)
  \/ \E i \in Item : CreateItem(h, i)
  \/ \E new \in SUBSET Item \ {{}} : CreateMany(h, new) \/ RefuseImport(h, new)
  \/ GetList(h) \/ ListItems(h) \/ ExportList(h)

ItemNext(h) ==
  \/ \E u \in User, i \in Item, op \in ItemOp : BeginItem(h, u, op, i)
  \/ UpdateItem(h) \/ DeleteItem(h)
  \/ ArchiveItem(h) \/ NotifyReserved(h) \/ NotifyPledged(h) \/ UnarchiveItem(h)

AdminNext(h) ==
  \/ \E u \in User, to \in Role : BeginRole(h, u, to)
  \/ CountLists(h) \/ SetRole(h)

GiverNext ==
  \/ \E i \in Item, a \in Address, t \in Track : Hold(i, a, t)
  \/ \E x \in held : Release(x)

Next ==
  \/ \E h \in Handler : ListNext(h) \/ ItemNext(h) \/ AdminNext(h) \/ Abort(h)
  \/ GiverNext

Spec == Init /\ [][Next]_vars

-----------------------------------------------------------------------------
(* Properties *)

\* Every variable keeps its type.
TypeOK ==
  /\ role \in [User -> Role]
  /\ lists \in [List -> ListRow] /\ owners \subseteq List \X User
  /\ items \in [Item -> ItemRow] /\ held \subseteq Item \X Address \X Track
  /\ hs \in [Handler -> HState] /\ ops \in Workloads
  /\ made \in [List -> User \cup {NoUser}] /\ raced \subseteq List /\ shown \subseteq User \X Item
  /\ archivings \in [Item -> 0 .. MaxArchivings] /\ lost \subseteq Item \X Track
  /\ kept \subseteq Item \X Address \X Track /\ told \in [Item -> SUBSET Address]
  /\ notices \in [Item -> [Address -> Nat]]

\* Whatever a request is about to write or shows as its account's own belongs
\* to a list that account made, also when the item or the list has gone since
\* it was read.
OwnersOnly ==
  /\ \A h \in Handler : At(h, "write") => made[hs[h].l] = hs[h].u
  /\ \A x \in shown : made[items[x[2]].list] = x[1]

\* A giver owns a list only if its creation overlapped his demotion: the
\* count before the demotion sees every other.
GiverByRaceOnly == \A x \in owners : role[x[2]] = "giver" => x[1] \in raced

\* An archive is undone by an unarchive and by nothing else, no edit that
\* read the item before.
ArchiveStands ==
  [][\A i \in Item : Live(i) /\ items[i].archived /\ ~items'[i].archived =>
       \E h \in Handler : UnarchiveItem(h)]_vars

\* Nobody is written to more often than the item was archived, however many
\* archive and unarchive requests overlap.
ToldPerArchive == \A i \in Item, a \in Address : notices[i][a] <= archivings[i]

\* When the notices of an archive are through, everybody whose hold on the
\* item has lasted since it was archived was written to, whatever came and went
\* between the two reads.  A read that failed takes its own track with it and
\* not the other, a crash takes both: the notices are best effort.
Telling(i) == \E h \in Handler : (At(h, "reserved") \/ At(h, "pledged")) /\ hs[h].i = i
Due(x)     == Live(x[1]) /\ items[x[1]].archived /\ <<x[1], x[3]>> \notin lost
HoldersTold == \A x \in kept \cap held : Due(x) /\ ~Telling(x[1]) => x[2] \in told[x[1]]
=============================================================================
