-------------------------------- MODULE Item --------------------------------
(***************************************************************************)
(* One item with both its tracks: the reservations of Reservations and the *)
(* pledges of CoBuying, each seeing of the other what its transactions ask *)
(* under the item lock, and one owner whose operations both see.           *)
(*                                                                         *)
(* Each track's module leaves the other one to its environment, as a flag  *)
(* that comes and goes.  Here the flags are what the other track's rows    *)
(* say, step by step.                                                      *)
(***************************************************************************)
EXTENDS CoBuying

CONSTANTS
  Resv, Reserver, Decayer,  \* reservation ids, their handlers and sweepers
  NoResv, NoToken, MaxQty, MaxAge, ConfirmWindow, DecayPeriod, ResponseWindow,
  Kinds, OwnerOps

VARIABLES res, row, wanted, list, back, raced, rs, ds, most, returned, invited, inbox

pledgeVars  == <<tables, mails, price, peak, history, hs, sw>>
reserveVars == <<res, row, wanted, list, back, raced, rs, ds, most, returned, invited, inbox>>

\* The count that CreateWithinCapacity of reservations asks for.
Pledged == \E c \in Contrib : Live(c)

Track == INSTANCE Reservations WITH
  Handler <- Reserver, Sweeper <- Decayer, item <- row, hs <- rs, sw <- ds, peak <- most,
  pledged <- Pledged

\* The count that CreateWithinCapacity of contributions asks for.
Reserved == \E r \in Resv : Track!Live(r)

\* Whether CreateContribution lets a pledge on: the row, the list, and while
\* both do the owner's choice (allow_cobuy).
PledgeDoor ==
  CASE row = "deleted" -> {"deleted"}
    [] row = "live" /\ list = "open" -> {"open", "closed"}
    [] OTHER -> {"closed"}

ItemInit == Init /\ Track!Init

\* A step of the reserve track, the wanted quantity being its own.
Reserving ==
  /\ UNCHANGED <<pledgeVars, item>>
  /\ \/ \E h \in Reserver : Track!HandlerNext(h)
     \/ \E s \in Decayer : Track!SweeperNext(s)
     \/ \E r \in Resv : Track!Release(r)
     \/ \E n \in {0} \cup Track!Qty : Track!UpdateItem(n)
     \/ Track!Tick
  /\ reserved' = Reserved'

\* A step of the co-buy track, the price and the owner's choice being its own.
Pledging ==
  /\ UNCHANGED reserveVars
  /\ \/ \E h \in Handler : HandlerNext(h)
     \/ \E s \in Sweeper : SweeperNext(s)
     \/ \E p \in Prices : SetPrice(p)
     \/ \E i \in PledgeDoor : SetItem(i)
     \/ \E m \in Match : Tick(m)

\* The owner archives, restores or deletes the item, or edits its list.
Owning ==
  /\ UNCHANGED pledgeVars
  /\ \/ Track!Archive \/ Track!Unarchive \/ Track!DeleteItem
     \/ \E l \in {"open", "past", "inactive"} : Track!SetList(l)
  /\ item' \in PledgeDoor' /\ reserved' = Reserved'

ItemNext == Reserving \/ Pledging \/ Owning

ItemSpec == ItemInit /\ [][ItemNext]_<<vars, reserveVars>>

-----------------------------------------------------------------------------
(* Properties *)

\* CreateWithinCapacity of both tracks: "Reserve and co-buy are mutually
\* exclusive per item (#93)": no reservation and pledge live on one item,
\* whatever becomes of either after its insert.
TracksExclude == ~(Reserved /\ Pledged)

\* A pledge that was declined or has expired stays so (which dissolveMatch and
\* matchRepo.Create, writing rows whatever their status, do not ensure).
NoRevival == [][\A c \in Contrib : Exists(c) /\ Live(c)' => Live(c)]_pledges
=============================================================================
