------------------------ MODULE SlotTransactionProofs ------------------------
(***************************************************************************)
(* What the transactions of SlotBooking hold, and that they never          *)
(* deadlock.                                                               *)
(*                                                                         *)
(* TxInv describes, use case by use case, the rows that a transaction has  *)
(* locked or written when it has come to a statement.  It speaks of p's    *)
(* locals and of the rows p has locked, which the steps of the others      *)
(* leave alone (OthersKeepTx); so each statement is treated once, for its  *)
(* own transaction.                                                        *)
(***************************************************************************)
EXTENDS SlotBookingProofs

-----------------------------------------------------------------------------
(* What a transaction holds. *)

HoldsNoBooking(p) == \A b \in BookingIds : bookings[b].lock # p
HoldsNoEntry(p) == \A e \in EntryIds : waitlist_entries[e].lock # p
HoldsNoReservation(p) == \A r \in ReservationIds : slot_reservations[r].lock # p
HoldsNothing(p) == HoldsNoBooking(p) /\ HoldsNoEntry(p) /\ HoldsNoReservation(p)

OnlyBooking(p, b) ==
    b \in BookingIds /\ \A c \in BookingIds : bookings[c].lock = p <=> c = b
OnlyEntry(p, e) ==
    e \in EntryIds /\ \A f \in EntryIds : waitlist_entries[f].lock = p <=> f = e
OnlyReservation(p, r) ==
    r \in ReservationIds /\ \A q \in ReservationIds : slot_reservations[q].lock = p <=> q = r

\* The transaction that holds the row takes it from one status to another one.
Moves(row, from, to) == row.status = from /\ row.pend = to

\* The statements of each use case.
StatementsOf(op) ==
    CASE op = "none" -> {"idle", "rollback"}
      [] op = "create" -> {"checkReservation", "waitReservation", "insertBooking", "commit"}
      [] op = "cancel" -> {"updateBooking", "claim", "insertReservation", "commit"}
      [] op = "join" -> {"lockBooking", "waitBooking", "insertEntry", "commit"}
      [] op = "leave" -> {"commit"}
      [] op = "confirm" -> {"lockReservation", "lockBooking", "waitBooking", "insertBooking",
                            "setConfirmed", "commit"}
      [] op = "cancelRes" -> {"lockReservation", "setCancelled", "claim", "insertReservation",
                              "commit"}
      [] op = "expire" -> {"expireBatch", "claim", "insertReservation", "commit"}

\* Statements before which a transaction has locked nothing yet.
FirstStatements == {"idle", "checkReservation", "waitReservation", "updateBooking",
                    "lockReservation", "expireBatch"}

CreateHolds(p) ==
    /\ HoldsNoEntry(p) /\ HoldsNoReservation(p)
    /\ ~At(p, "commit") => tx[p].user \in Users /\ tx[p].slot \in Slots
    /\ At(p, "insertBooking") => HoldsNoBooking(p)
    /\ At(p, "commit") =>
         \E b \in BookingIds : OnlyBooking(p, b) /\ Moves(bookings[b], "absent", "active")
                               /\ bookings[b].user \in Users /\ bookings[b].slot \in Slots

JoinHolds(p) ==
    /\ HoldsNoReservation(p)
    /\ ~At(p, "commit") => tx[p].user \in Users /\ tx[p].slot \in Slots
    /\ At(p, "lockBooking") \/ At(p, "waitBooking") => HoldsNothing(p)
    /\ At(p, "insertEntry") =>
         /\ HoldsNoEntry(p)
         /\ \E b \in BookingIds :
              /\ OnlyBooking(p, b) /\ Moves(bookings[b], "active", "active")
              /\ bookings[b].slot = tx[p].slot /\ bookings[b].user # tx[p].user
    /\ At(p, "commit") =>
         \E b \in BookingIds, e \in EntryIds :
            /\ OnlyBooking(p, b) /\ Moves(bookings[b], "active", "active")
            /\ OnlyEntry(p, e) /\ Moves(waitlist_entries[e], "absent", "active")
            /\ waitlist_entries[e].user \in Users /\ waitlist_entries[e].slot \in Slots
            /\ bookings[b].slot = waitlist_entries[e].slot
            /\ bookings[b].user # waitlist_entries[e].user

LeaveHolds(p) ==
    /\ HoldsNoBooking(p) /\ HoldsNoReservation(p)
    /\ \E e \in EntryIds : /\ OnlyEntry(p, e) /\ waitlist_entries[e].pend = "cancelled"
                           /\ waitlist_entries[e].status \in {"active", "notified"}

ConfirmHolds(p) ==
    LET offer == slot_reservations[tx[p].rv] IN
    /\ HoldsNoEntry(p)
    /\ ~At(p, "lockReservation") /\ ~At(p, "commit") =>
         /\ OnlyReservation(p, tx[p].rv) /\ Moves(offer, "active", "active")
         /\ offer.user = tx[p].user /\ offer.slot = tx[p].slot
         /\ ~At(p, "setConfirmed") => HoldsNoBooking(p)
    /\ At(p, "setConfirmed") =>
         \E b \in BookingIds : /\ OnlyBooking(p, b) /\ Moves(bookings[b], "absent", "active")
                               /\ bookings[b].user = tx[p].user /\ bookings[b].slot = tx[p].slot
    /\ At(p, "commit") =>
         \E r \in ReservationIds, b \in BookingIds :
            /\ OnlyReservation(p, r) /\ Moves(slot_reservations[r], "active", "confirmed")
            /\ OnlyBooking(p, b) /\ Moves(bookings[b], "absent", "active")
            /\ bookings[b].user = slot_reservations[r].user
            /\ bookings[b].slot = slot_reservations[r].slot

\* A claim: the entry is notified and gets its reservation in the same transaction.
Offers(p, r) == slot_reservations[r].lock = p /\ Moves(slot_reservations[r], "absent", "active")
Ends(p, r) == slot_reservations[r].lock = p /\ slot_reservations[r].status # "absent"
OffersTo(p, r, e) == Offers(p, r) /\ slot_reservations[r].entry = e

ClaimsAreOffered(p) ==
    /\ \A e \in EntryIds : waitlist_entries[e].lock = p =>
         /\ Moves(waitlist_entries[e], "active", "notified")
         /\ \/ \E r \in ReservationIds : OffersTo(p, r, e)
            \/ At(p, "insertReservation") /\ tx[p].en = e
    /\ \A r \in ReservationIds : Offers(p, r) =>
         /\ slot_reservations[r].entry \in EntryIds
         /\ waitlist_entries[slot_reservations[r].entry].lock = p
         /\ waitlist_entries[slot_reservations[r].entry].user = slot_reservations[r].user
         /\ waitlist_entries[slot_reservations[r].entry].slot = slot_reservations[r].slot
    /\ \A r, q \in ReservationIds :
         Offers(p, r) /\ Offers(p, q) /\ slot_reservations[r].entry = slot_reservations[q].entry
         => r = q
    /\ At(p, "insertReservation") =>
         /\ tx[p].en \in EntryIds /\ waitlist_entries[tx[p].en].lock = p
         /\ waitlist_entries[tx[p].en].slot = tx[p].slot
         /\ \A r \in ReservationIds : ~OffersTo(p, r, tx[p].en)

\* CancelBooking offers its slot; it holds the booking unless that was cancelled
\* by somebody else.
CancelHolds(p) ==
    LET b == tx[p].bk IN
    /\ b \in BookingIds /\ bookings[b].status # "absent"
    /\ ~At(p, "commit") => tx[p].slot = bookings[b].slot
    /\ ~tx[p].wasActive => bookings[b].status = "cancelled"
    /\ tx[p].due = {}
    /\ ~At(p, "updateBooking") =>
         /\ \A c \in BookingIds : bookings[c].lock = p => c = b
         /\ IF bookings[b].lock = p THEN Moves(bookings[b], "active", "cancelled")
                                    ELSE bookings[b].status = "cancelled"
         /\ \A r \in ReservationIds : slot_reservations[r].lock = p =>
              Offers(p, r) /\ slot_reservations[r].slot = bookings[b].slot
         /\ ~At(p, "commit") => HoldsNoReservation(p)
         /\ ClaimsAreOffered(p)

\* CancelReservation offers the slot of the one reservation that it ends.  A
\* reservation that has already ended is locked and left as it is.
CancelResHolds(p) ==
    /\ HoldsNoBooking(p)
    /\ tx[p].due = {}
    /\ At(p, "setCancelled") =>
         /\ HoldsNoEntry(p)
         /\ OnlyReservation(p, tx[p].rv)
         /\ Moves(slot_reservations[tx[p].rv], "active", "active")
         /\ slot_reservations[tx[p].rv].slot = tx[p].slot
    /\ tx[p].at_stmt \in {"claim", "insertReservation", "commit"} =>
         \/ /\ At(p, "commit") /\ HoldsNoEntry(p)
            /\ \A r \in ReservationIds : slot_reservations[r].lock = p =>
                 slot_reservations[r].pend = slot_reservations[r].status
         \/ \E r \in ReservationIds :
              /\ slot_reservations[r].lock = p /\ Moves(slot_reservations[r], "active", "cancelled")
              /\ ~At(p, "commit") => slot_reservations[r].slot = tx[p].slot
              /\ \A q \in ReservationIds \ {r} : slot_reservations[q].lock = p =>
                   Offers(p, q) /\ slot_reservations[q].slot = slot_reservations[r].slot
              /\ ClaimsAreOffered(p)

\* ExpireDue offers the slots of the reservations that it ends.
ExpireHolds(p) ==
    /\ HoldsNoBooking(p)
    /\ ~At(p, "expireBatch") =>
         /\ \A r \in ReservationIds : slot_reservations[r].lock = p =>
              \/ Moves(slot_reservations[r], "active", "expired")
              \/ /\ Offers(p, r)
                 /\ \E q \in ReservationIds :
                      Ends(p, q) /\ slot_reservations[q].slot = slot_reservations[r].slot
         /\ \A r \in tx[p].due : Ends(p, r)
         /\ At(p, "insertReservation") =>
              \E q \in ReservationIds : Ends(p, q) /\ slot_reservations[q].slot = tx[p].slot
         /\ ClaimsAreOffered(p)

\* A transaction that waits for a row lock waits for a row of its slot.
WaitsForRow(p) ==
    /\ At(p, "lockReservation") =>
         /\ tx[p].rv \in ReservationIds /\ slot_reservations[tx[p].rv].status # "absent"
         /\ slot_reservations[tx[p].rv].slot = tx[p].slot
    /\ At(p, "waitReservation") => tx[p].rv \in ReservationIds
    /\ At(p, "waitBooking") =>
         /\ tx[p].bk \in BookingIds /\ bookings[tx[p].bk].status # "absent"
         /\ bookings[tx[p].bk].slot = tx[p].slot

\* What the transaction of p holds follows from its use case and the statement
\* it has come to.
TxOK(p) ==
    /\ tx[p].at_stmt \in StatementsOf(tx[p].op)
    /\ WaitsForRow(p)
    /\ tx[p].at_stmt \in FirstStatements => HoldsNothing(p)
    /\ tx[p].op = "create" => CreateHolds(p)
    /\ tx[p].op = "join" => JoinHolds(p)
    /\ tx[p].op = "leave" => LeaveHolds(p)
    /\ tx[p].op = "confirm" => ConfirmHolds(p)
    /\ tx[p].op = "cancel" => CancelHolds(p)
    /\ tx[p].op = "cancelRes" => CancelResHolds(p)
    /\ tx[p].op = "expire" => ExpireHolds(p)

\* The only ways in which the transactions change a row.
BookingMoves(row) ==
    row.pend = row.status \/ Moves(row, "absent", "active") \/ Moves(row, "active", "cancelled")
EntryMoves(row) ==
    \/ row.pend = row.status \/ Moves(row, "absent", "active") \/ Moves(row, "active", "notified")
    \/ row.status \in {"active", "notified"} /\ row.pend = "cancelled"
ReservationMoves(row) ==
    \/ row.pend = row.status \/ Moves(row, "absent", "active")
    \/ row.status = "active" /\ row.pend \in {"confirmed", "cancelled", "expired"}
RowsMove ==
    /\ \A b \in BookingIds : BookingMoves(bookings[b])
    /\ \A e \in EntryIds : EntryMoves(waitlist_entries[e])
    /\ \A r \in ReservationIds : ReservationMoves(slot_reservations[r])

TxInv == IndexInv /\ RowsMove /\ \A p \in Procs : TxOK(p)
-----------------------------------------------------------------------------
(* Effects of the row operations and of Goto. *)

\* The columns that no UPDATE of the service changes, and the committed status.
SameRow(x, y) == x.user = y.user /\ x.slot = y.slot /\ x.status = y.status

\* Everything but the statement that t is about to execute.
SameLocals(t, u) ==
    /\ u.op = t.op /\ u.user = t.user /\ u.slot = t.slot /\ u.bk = t.bk /\ u.en = t.en
    /\ u.rv = t.rv /\ u.wasActive = t.wasActive /\ u.due = t.due

\* What Continue keeps of the locals.
LEMMA ContinueLocals ==
    ASSUME NEW t \in Locals, NEW stage \in Stages
    PROVE  /\ Continue(t, stage).at_stmt = stage
           /\ stage = "rollback" => Continue(t, stage).op = "none"
           /\ stage = "commit" =>
                /\ Continue(t, stage).op = t.op /\ Continue(t, stage).bk = t.bk
                /\ Continue(t, stage).wasActive = t.wasActive /\ Continue(t, stage).due = {}
           /\ stage \notin {"rollback", "commit"} => SameLocals(t, Continue(t, stage))
  <1>1. CASE stage = "rollback"
    BY <1>1 DEF Continue, NoTx
  <1>2. CASE stage = "commit"
    BY <1>2 DEF Continue, NoTx
  <1>3. CASE stage \notin {"rollback", "commit"}
    BY <1>3 DEF Continue, Locals, SameLocals
  <1>. QED  BY <1>1, <1>2, <1>3

\* What Goto does to the locals of p, and that it leaves those of the others alone.
LEMMA GotoLocals ==
    ASSUME TypeInv, NEW p \in Procs, NEW stage \in Stages, Goto(p, stage)
    PROVE  /\ \A q \in Procs \ {p} : tx'[q] = tx[q]
           /\ tx'[p].at_stmt = stage
           /\ stage = "rollback" => tx'[p].op = "none"
           /\ stage = "commit" =>
                /\ tx'[p].op = tx[p].op /\ tx'[p].bk = tx[p].bk
                /\ tx'[p].wasActive = tx[p].wasActive /\ tx'[p].due = {}
           /\ stage \notin {"rollback", "commit"} => SameLocals(tx[p], tx'[p])
  <1>1. tx \in [Procs -> Locals] /\ tx' = [tx EXCEPT ![p] = Continue(tx[p], stage)]
    BY DEF Goto, TypeInv, TypeOK
  <1>2. tx'[p] = Continue(tx[p], stage) /\ tx[p] \in Locals
    BY <1>1
  <1>. QED  BY <1>1, <1>2, ContinueLocals
-----------------------------------------------------------------------------
(* The others. *)

\* A step of p leaves alone the locals and the rows of the others, and no row
\* that is committed disappears or changes its slot.
LeavesOthers(p) ==
    /\ \A q \in Procs \ {p} : tx'[q] = tx[q]
    /\ \A b \in BookingIds :
         /\ \/ bookings[b].lock \in {None, p} /\ bookings'[b].lock \in {None, p}
            \/ bookings'[b] = bookings[b]
         /\ bookings[b].status # "absent" =>
              /\ bookings'[b].status # "absent" /\ bookings'[b].slot = bookings[b].slot
              /\ bookings[b].status = "cancelled" => bookings'[b].status = "cancelled"
    /\ \A e \in EntryIds :
         /\ \/ waitlist_entries[e].lock \in {None, p} /\ waitlist_entries'[e].lock \in {None, p}
            \/ waitlist_entries'[e] = waitlist_entries[e]
    /\ \A r \in ReservationIds :
         /\ \/ slot_reservations[r].lock \in {None, p} /\ slot_reservations'[r].lock \in {None, p}
            \/ slot_reservations'[r] = slot_reservations[r]
         /\ slot_reservations[r].status # "absent" =>
              /\ slot_reservations'[r].status # "absent"
              /\ slot_reservations'[r].slot = slot_reservations[r].slot

\* A row of q is the same row before and after a step of p.
LEMMA OthersRows ==
    ASSUME NEW p, LeavesOthers(p), NEW q \in Procs \ {p}
    PROVE  /\ tx'[q] = tx[q]
           /\ \A b \in BookingIds : bookings[b].lock = q \/ bookings'[b].lock = q =>
                                      bookings'[b] = bookings[b]
           /\ \A e \in EntryIds : waitlist_entries[e].lock = q \/ waitlist_entries'[e].lock = q =>
                                      waitlist_entries'[e] = waitlist_entries[e]
           /\ \A r \in ReservationIds :
                slot_reservations[r].lock = q \/ slot_reservations'[r].lock = q =>
                                      slot_reservations'[r] = slot_reservations[r]
  BY ConstantsAssumption DEF LeavesOthers

\* Claims and their offers are not disturbed by the others.
LEMMA OthersKeepClaims ==
    ASSUME NEW p, LeavesOthers(p), NEW q \in Procs \ {p}, ClaimsAreOffered(q)
    PROVE  ClaimsAreOffered(q)'
  <1>. USE OthersRows DEF At, Offers, OffersTo, Moves
  <1>1. ASSUME NEW e \in EntryIds, waitlist_entries'[e].lock = q
        PROVE  /\ Moves(waitlist_entries'[e], "active", "notified")
               /\ \/ \E r \in ReservationIds : OffersTo(q, r, e)'
                  \/ At(q, "insertReservation")' /\ tx'[q].en = e
    BY <1>1 DEF ClaimsAreOffered
  <1>2. ASSUME NEW r \in ReservationIds, Offers(q, r)'
        PROVE  /\ slot_reservations'[r].entry \in EntryIds
               /\ waitlist_entries'[slot_reservations'[r].entry].lock = q
               /\ waitlist_entries'[slot_reservations'[r].entry].user = slot_reservations'[r].user
               /\ waitlist_entries'[slot_reservations'[r].entry].slot = slot_reservations'[r].slot
    BY <1>2 DEF ClaimsAreOffered
  <1>3. ASSUME NEW r \in ReservationIds, NEW s \in ReservationIds, Offers(q, r)', Offers(q, s)',
               slot_reservations'[r].entry = slot_reservations'[s].entry
        PROVE  r = s
    BY <1>3 DEF ClaimsAreOffered
  <1>4. ASSUME At(q, "insertReservation")'
        PROVE  /\ tx'[q].en \in EntryIds /\ waitlist_entries'[tx'[q].en].lock = q
               /\ waitlist_entries'[tx'[q].en].slot = tx'[q].slot
               /\ \A r \in ReservationIds : ~OffersTo(q, r, tx[q].en)'
    BY <1>4 DEF ClaimsAreOffered
  <1>. QED  BY <1>1, <1>2, <1>3, <1>4 DEF ClaimsAreOffered

\* A step of p keeps what TxInv says of the others.
LEMMA OthersKeepTx ==
    ASSUME TypeInv, NEW p, LeavesOthers(p), NEW q \in Procs \ {p}, TxOK(q)
    PROVE  TxOK(q)'
  <1>0. /\ HoldsNoBooking(q) => HoldsNoBooking(q)'
        /\ HoldsNoEntry(q) => HoldsNoEntry(q)'
        /\ HoldsNoReservation(q) => HoldsNoReservation(q)'
    BY OthersRows DEF HoldsNoBooking, HoldsNoEntry, HoldsNoReservation
  <1>1. tx'[q] = tx[q]
    BY OthersRows
  <1>2. \A b \in BookingIds : OnlyBooking(q, b) => OnlyBooking(q, b)' /\ bookings'[b] = bookings[b]
    BY OthersRows DEF OnlyBooking
  <1>3. \A e \in EntryIds :
          OnlyEntry(q, e) => OnlyEntry(q, e)' /\ waitlist_entries'[e] = waitlist_entries[e]
    BY OthersRows DEF OnlyEntry
  <1>4. ASSUME NEW r, OnlyReservation(q, r)
        PROVE  OnlyReservation(q, r)' /\ slot_reservations'[r] = slot_reservations[r]
    BY <1>4, OthersRows DEF OnlyReservation
  <1>5. tx[q].op = "create" => CreateHolds(q)'
    BY <1>0, <1>1, <1>2 DEF TxOK, CreateHolds, At
  <1>6. tx[q].op = "join" => JoinHolds(q)'
    BY <1>0, <1>1, <1>2, <1>3 DEF TxOK, JoinHolds, At, HoldsNothing
  <1>7. tx[q].op = "leave" => LeaveHolds(q)'
    BY <1>0, <1>3 DEF TxOK, LeaveHolds
  <1>8. tx[q].op = "confirm" => ConfirmHolds(q)'
    BY <1>0, <1>1, <1>2, <1>4 DEF TxOK, ConfirmHolds, At
  <1>9. ASSUME tx[q].op = "cancel"  PROVE CancelHolds(q)'
    <2>1. CancelHolds(q)
      BY <1>9 DEF TxOK
    <2>2. /\ tx'[q].bk \in BookingIds /\ bookings'[tx'[q].bk].status # "absent"
          /\ bookings'[tx'[q].bk].slot = bookings[tx[q].bk].slot
          /\ bookings[tx[q].bk].status = "cancelled" => bookings'[tx'[q].bk].status = "cancelled"
      BY <1>1, <2>1 DEF CancelHolds, LeavesOthers
    <2>3. CASE At(q, "updateBooking")
      BY <1>1, <2>1, <2>2, <2>3 DEF CancelHolds, At
    <2>4. CASE ~At(q, "updateBooking")
      <3>1. ClaimsAreOffered(q)'
        BY <2>1, <2>4, OthersKeepClaims DEF CancelHolds
      <3>2. \A c \in BookingIds : bookings'[c].lock = q => c = tx'[q].bk
        BY <1>1, <2>1, <2>4, OthersRows DEF CancelHolds
      <3>3. IF bookings'[tx'[q].bk].lock = q
            THEN Moves(bookings'[tx'[q].bk], "active", "cancelled")
            ELSE bookings'[tx'[q].bk].status = "cancelled"
        BY <1>1, <2>1, <2>2, <2>4, OthersRows DEF CancelHolds
      <3>4. \A r \in ReservationIds : slot_reservations'[r].lock = q =>
              Offers(q, r)' /\ slot_reservations'[r].slot = bookings'[tx'[q].bk].slot
        BY <1>1, <2>1, <2>2, <2>4, OthersRows DEF CancelHolds, Offers
      <3>. QED  BY <1>0, <1>1, <2>1, <2>2, <2>4, <3>1, <3>2, <3>3, <3>4 DEF CancelHolds, At
    <2>. QED  BY <2>3, <2>4
  <1>10. ASSUME tx[q].op = "cancelRes"  PROVE CancelResHolds(q)'
    <2>1. CancelResHolds(q)
      BY <1>10 DEF TxOK
    <2>2. HoldsNoBooking(q)' /\ tx'[q].due = {}
      BY <1>0, <1>1, <2>1 DEF CancelResHolds
    <2>3. At(q, "setCancelled")' =>
            /\ HoldsNoEntry(q)' /\ OnlyReservation(q, tx[q].rv)'
            /\ Moves(slot_reservations'[tx'[q].rv], "active", "active")
            /\ slot_reservations'[tx'[q].rv].slot = tx'[q].slot
      BY <1>0, <1>1, <1>4, <2>1 DEF CancelResHolds, At
    <2>4. CASE /\ At(q, "commit") /\ HoldsNoEntry(q)
               /\ \A r \in ReservationIds : slot_reservations[r].lock = q =>
                    slot_reservations[r].pend = slot_reservations[r].status
      BY <1>0, <1>1, <2>2, <2>3, <2>4, OthersRows DEF CancelResHolds, At
    <2>5. ASSUME NEW r \in ReservationIds,
                 slot_reservations[r].lock = q, Moves(slot_reservations[r], "active", "cancelled"),
                 ~At(q, "commit") => slot_reservations[r].slot = tx[q].slot,
                 \A s \in ReservationIds \ {r} : slot_reservations[s].lock = q =>
                   Offers(q, s) /\ slot_reservations[s].slot = slot_reservations[r].slot,
                 ClaimsAreOffered(q)
          PROVE  CancelResHolds(q)'
      <3>1. ClaimsAreOffered(q)'
        BY <2>5, OthersKeepClaims
      <3>2. /\ slot_reservations'[r] = slot_reservations[r]
            /\ \A s \in ReservationIds \ {r} : slot_reservations'[s].lock = q =>
                 Offers(q, s)' /\ slot_reservations'[s].slot = slot_reservations'[r].slot
        BY <2>5, OthersRows DEF Offers
      <3>. QED  BY <1>1, <2>2, <2>3, <2>5, <3>1, <3>2 DEF CancelResHolds, At
    <2>6. CASE tx[q].at_stmt \notin {"claim", "insertReservation", "commit"}
      BY <1>1, <2>2, <2>3, <2>6 DEF CancelResHolds
    <2>. QED  BY <2>1, <2>4, <2>5, <2>6 DEF CancelResHolds
  <1>11. ASSUME tx[q].op = "expire"  PROVE ExpireHolds(q)'
    <2>1. ExpireHolds(q)
      BY <1>11 DEF TxOK
    <2>2. CASE At(q, "expireBatch")
      BY <1>0, <1>1, <2>1, <2>2 DEF ExpireHolds, At
    <2>3. CASE ~At(q, "expireBatch")
      <3>1. ClaimsAreOffered(q)'
        BY <2>1, <2>3, OthersKeepClaims DEF ExpireHolds
      <3>2. \A r \in ReservationIds : Ends(q, r) =>
              Ends(q, r)' /\ slot_reservations'[r] = slot_reservations[r]
        BY OthersRows DEF Ends
      <3>3. \A r \in ReservationIds : slot_reservations'[r].lock = q =>
              \/ Moves(slot_reservations'[r], "active", "expired")
              \/ /\ Offers(q, r)'
                 /\ \E s \in ReservationIds :
                      Ends(q, s)' /\ slot_reservations'[s].slot = slot_reservations'[r].slot
        BY <2>1, <2>3, <3>2, OthersRows DEF ExpireHolds, Offers
      <3>4. \A r \in tx'[q].due : Ends(q, r)'
        BY <1>1, <2>1, <2>3, <3>2 DEF ExpireHolds, TypeInv, TypeOK, Locals
      <3>5. At(q, "insertReservation")' =>
              \E s \in ReservationIds : Ends(q, s)' /\ slot_reservations'[s].slot = tx'[q].slot
        BY <1>1, <2>1, <2>3, <3>2 DEF ExpireHolds, At
      <3>. QED  BY <1>0, <1>1, <2>1, <3>1, <3>3, <3>4, <3>5 DEF ExpireHolds
    <2>. QED  BY <2>2, <2>3
  <1>12. WaitsForRow(q)'
    BY <1>1 DEF TxOK, WaitsForRow, At, LeavesOthers
  <1>. QED
    BY <1>0, <1>1, <1>5, <1>6, <1>7, <1>8, <1>9, <1>10, <1>11, <1>12 DEF TxOK, HoldsNothing
-----------------------------------------------------------------------------
(* What a statement does to the tables: it locks, writes or inserts rows   *)
(* that nobody else has locked, and none of it is committed yet.           *)

Touched(x, y, p) ==
    \/ y = x
    \/ /\ x.lock \in {None, p} /\ y.lock = p /\ y.status = x.status
       /\ x.status # "absent" => SameRow(y, x)

BookingsTouched(p) ==
    \A b \in BookingIds : Touched(bookings[b], bookings'[b], p)
EntriesTouched(p) ==
    \A e \in EntryIds : Touched(waitlist_entries[e], waitlist_entries'[e], p)
ReservationsTouched(p) ==
    \A r \in ReservationIds :
        /\ Touched(slot_reservations[r], slot_reservations'[r], p)
        /\ slot_reservations[r].status # "absent" =>
             slot_reservations'[r].entry = slot_reservations[r].entry

StatementTouches(p) ==
    /\ \A q \in Procs \ {p} : tx'[q] = tx[q]
    /\ BookingsTouched(p) /\ EntriesTouched(p)
    /\ ReservationsTouched(p)

\* Locking, writing or inserting one row of bookings.
LEMMA BookingTouched ==
    ASSUME TypeInv, NEW p \in Procs
    PROVE  /\ UNCHANGED bookings => BookingsTouched(p)
           /\ \A b \in BookingIds :
                LockFree(bookings, b, p) /\ bookings' = Locked(bookings, b, p) => BookingsTouched(p)
           /\ \A b \in BookingIds, st \in BookingStatus :
                LockFree(bookings, b, p) /\ bookings' = Written(bookings, b, p, st) => BookingsTouched(p)
           /\ \A row :
                /\ HasFresh(bookings) /\ row.status = "absent" /\ row.lock = p
                /\ bookings' = [bookings EXCEPT ![FreshId(bookings)] = row]
                => BookingsTouched(p)
  <1>0. bookings \in [BookingIds -> BookingRow]
    BY DEF TypeInv, TypeOK
  <1>1. UNCHANGED bookings => BookingsTouched(p)
    BY DEF Touched, BookingsTouched
  <1>2. ASSUME NEW b \in BookingIds, LockFree(bookings, b, p),
               \/ bookings' = Locked(bookings, b, p)
               \/ \E st \in BookingStatus : bookings' = Written(bookings, b, p, st)
        PROVE  BookingsTouched(p)
    <2>1. /\ SameRow(bookings'[b], bookings[b]) /\ bookings'[b].lock = p
          /\ \A c \in BookingIds \ {b} : bookings'[c] = bookings[c]
      <3>1. CASE bookings' = Locked(bookings, b, p)
        BY <1>0, <3>1 DEF Locked, BookingRow, SameRow
      <3>2. ASSUME NEW st, bookings' = Written(bookings, b, p, st)
            PROVE  <2>1!:
        BY <1>0, <3>2 DEF Written, BookingRow, SameRow
      <3>. QED  BY <1>2, <3>1, <3>2
    <2>. QED  BY <1>2, <2>1 DEF Touched, LockFree, SameRow, BookingsTouched
  <1>3. ASSUME HasFresh(bookings), NEW row, row.status = "absent", row.lock = p,
               bookings' = [bookings EXCEPT ![FreshId(bookings)] = row]
        PROVE  BookingsTouched(p)
    <2>1. FreshId(bookings) \in BookingIds /\ IsFresh(bookings, FreshId(bookings))
      BY <1>0, <1>3, FreshIdIsFresh
    <2>. QED  BY <1>0, <1>3, <2>1 DEF Touched, IsFresh, BookingsTouched
  <1>. QED  BY <1>1, <1>2, <1>3

\* Locking, writing or inserting one row of waitlist_entries.
LEMMA EntryTouched ==
    ASSUME TypeInv, NEW p \in Procs
    PROVE  /\ UNCHANGED waitlist_entries => EntriesTouched(p)
           /\ \A e \in EntryIds :
                LockFree(waitlist_entries, e, p) /\ waitlist_entries' = Locked(waitlist_entries, e, p) => EntriesTouched(p)
           /\ \A e \in EntryIds, st \in EntryStatus :
                LockFree(waitlist_entries, e, p) /\ waitlist_entries' = Written(waitlist_entries, e, p, st) => EntriesTouched(p)
           /\ \A row :
                /\ HasFresh(waitlist_entries) /\ row.status = "absent" /\ row.lock = p
                /\ waitlist_entries' = [waitlist_entries EXCEPT ![FreshId(waitlist_entries)] = row]
                => EntriesTouched(p)
  <1>0. waitlist_entries \in [EntryIds -> EntryRow]
    BY DEF TypeInv, TypeOK
  <1>1. UNCHANGED waitlist_entries => EntriesTouched(p)
    BY DEF Touched, EntriesTouched
  <1>2. ASSUME NEW e \in EntryIds, LockFree(waitlist_entries, e, p),
               \/ waitlist_entries' = Locked(waitlist_entries, e, p)
               \/ \E st \in EntryStatus : waitlist_entries' = Written(waitlist_entries, e, p, st)
        PROVE  EntriesTouched(p)
    <2>1. /\ SameRow(waitlist_entries'[e], waitlist_entries[e]) /\ waitlist_entries'[e].lock = p
          /\ \A c \in EntryIds \ {e} : waitlist_entries'[c] = waitlist_entries[c]
      <3>1. CASE waitlist_entries' = Locked(waitlist_entries, e, p)
        BY <1>0, <3>1 DEF Locked, EntryRow, SameRow
      <3>2. ASSUME NEW st, waitlist_entries' = Written(waitlist_entries, e, p, st)
            PROVE  <2>1!:
        BY <1>0, <3>2 DEF Written, EntryRow, SameRow
      <3>. QED  BY <1>2, <3>1, <3>2
    <2>. QED  BY <1>2, <2>1 DEF Touched, LockFree, SameRow, EntriesTouched
  <1>3. ASSUME HasFresh(waitlist_entries), NEW row, row.status = "absent", row.lock = p,
               waitlist_entries' = [waitlist_entries EXCEPT ![FreshId(waitlist_entries)] = row]
        PROVE  EntriesTouched(p)
    <2>1. FreshId(waitlist_entries) \in EntryIds /\ IsFresh(waitlist_entries, FreshId(waitlist_entries))
      BY <1>0, <1>3, FreshIdIsFresh
    <2>. QED  BY <1>0, <1>3, <2>1 DEF Touched, IsFresh, EntriesTouched
  <1>. QED  BY <1>1, <1>2, <1>3

\* Locking, writing or inserting one row of slot_reservations.
LEMMA ReservationTouched ==
    ASSUME TypeInv, NEW p \in Procs
    PROVE  /\ UNCHANGED slot_reservations => ReservationsTouched(p)
           /\ \A r \in ReservationIds :
                LockFree(slot_reservations, r, p) /\ slot_reservations' = Locked(slot_reservations, r, p) => ReservationsTouched(p)
           /\ \A r \in ReservationIds, st \in ReservationStatus :
                LockFree(slot_reservations, r, p) /\ slot_reservations' = Written(slot_reservations, r, p, st) => ReservationsTouched(p)
           /\ \A row :
                /\ HasFresh(slot_reservations) /\ row.status = "absent" /\ row.lock = p
                /\ slot_reservations' = [slot_reservations EXCEPT ![FreshId(slot_reservations)] = row]
                => ReservationsTouched(p)
  <1>0. slot_reservations \in [ReservationIds -> ReservationRow]
    BY DEF TypeInv, TypeOK
  <1>1. UNCHANGED slot_reservations => ReservationsTouched(p)
    BY DEF Touched, ReservationsTouched
  <1>2. ASSUME NEW r \in ReservationIds, LockFree(slot_reservations, r, p),
               \/ slot_reservations' = Locked(slot_reservations, r, p)
               \/ \E st \in ReservationStatus : slot_reservations' = Written(slot_reservations, r, p, st)
        PROVE  ReservationsTouched(p)
    <2>1. /\ SameRow(slot_reservations'[r], slot_reservations[r]) /\ slot_reservations'[r].lock = p
          /\ \A c \in ReservationIds \ {r} : slot_reservations'[c] = slot_reservations[c]
      <3>1. CASE slot_reservations' = Locked(slot_reservations, r, p)
        BY <1>0, <3>1 DEF Locked, ReservationRow, SameRow
      <3>2. ASSUME NEW st, slot_reservations' = Written(slot_reservations, r, p, st)
            PROVE  <2>1!:
        BY <1>0, <3>2 DEF Written, ReservationRow, SameRow
      <3>. QED  BY <1>2, <3>1, <3>2
    <2>2. slot_reservations'[r].entry = slot_reservations[r].entry
      BY <1>0, <1>2 DEF Locked, Written, ReservationRow
    <2>. QED  BY <1>2, <2>1, <2>2 DEF Touched, LockFree, SameRow, ReservationsTouched
  <1>3. ASSUME HasFresh(slot_reservations), NEW row, row.status = "absent", row.lock = p,
               slot_reservations' = [slot_reservations EXCEPT ![FreshId(slot_reservations)] = row]
        PROVE  ReservationsTouched(p)
    <2>1. FreshId(slot_reservations) \in ReservationIds /\ IsFresh(slot_reservations, FreshId(slot_reservations))
      BY <1>0, <1>3, FreshIdIsFresh
    <2>. QED  BY <1>0, <1>3, <2>1 DEF Touched, IsFresh, ReservationsTouched
  <1>. QED  BY <1>1, <1>2, <1>3

\* Every statement of every use case.
LEMMA StatementTouchesRows ==
    ASSUME TypeInv, HoldsReservation, NEW p \in Procs, Statement(p)
    PROVE  StatementTouches(p)
  <1>0. /\ tx \in [Procs -> Locals] /\ RefsOK /\ now \in Nat
        /\ bookings \in [BookingIds -> BookingRow]
        /\ waitlist_entries \in [EntryIds -> EntryRow]
        /\ slot_reservations \in [ReservationIds -> ReservationRow]
    BY DEF TypeInv, TypeOK
  <1>1. \A q \in Procs \ {p} : tx'[q] = tx[q]
    BY <1>0
    DEF Statement, CheckReservation, WaitReservation, InsertBooking, UpdateBooking, Claim,
        ClaimForExpired, ClaimNextForNotify, InsertReservation, LockBooking, WaitBooking,
        InsertEntry, LockReservation, SetConfirmed, SetCancelled, ExpireBatch, Goto
  <1>2. BookingsTouched(p)
    <2>1. CASE UNCHANGED bookings
      BY <2>1, BookingTouched
    <2>2. ASSUME NEW b, LockFree(bookings, b, p),
                 \/ bookings' = Locked(bookings, b, p)
                 \/ bookings' = Written(bookings, b, p, "cancelled")
          PROVE  BookingsTouched(p)
      <3>1. CASE b \in BookingIds
        BY <2>2, <3>1, BookingTouched DEF BookingStatus
      <3>2. CASE b \notin BookingIds
        BY <1>0, <2>1, <2>2, <3>2 DEF Locked, Written
      <3>. QED  BY <3>1, <3>2
    <2>3. CASE InsertBooking(p)
      <3>. DEFINE row == [user |-> tx[p].user, slot |-> tx[p].slot,
                          status |-> "absent", pend |-> "active", lock |-> p]
      <3>1. row.status = "absent" /\ row.lock = p
        OBVIOUS
      <3>2. \/ UNCHANGED bookings
            \/ HasFresh(bookings) /\ bookings' = [bookings EXCEPT ![FreshId(bookings)] = row]
        BY <2>3 DEF InsertBooking
      <3>. HIDE DEF row
      <3>. QED  BY <3>1, <3>2, BookingTouched
    <2>4. CASE UpdateBooking(p) \/ LockBooking(p) \/ WaitBooking(p)
      BY <2>1, <2>2, <2>4 DEF UpdateBooking, LockBooking, WaitBooking
    <2>. QED
      BY <2>1, <2>3, <2>4
      DEF Statement, CheckReservation, WaitReservation, Claim, ClaimForExpired, InsertReservation,
          InsertEntry, LockReservation, SetConfirmed, SetCancelled, ExpireBatch
  <1>3. EntriesTouched(p)
    <2>1. CASE UNCHANGED waitlist_entries
      BY <2>1, EntryTouched
    <2>2. ASSUME NEW s, NEW t, ClaimNextForNotify(p, s, t)  PROVE EntriesTouched(p)
      <3>1. ASSUME NEW e \in NextEntries(s, p),
                   waitlist_entries' = Written(waitlist_entries, e, p, "notified")
            PROVE  EntriesTouched(p)
        <4>1. e \in EntryIds /\ LockFree(waitlist_entries, e, p) /\ "notified" \in EntryStatus
          BY DEF NextEntries, Claimable, Waiting, EntryStatus
        <4>. QED  BY <3>1, <4>1, EntryTouched
      <3>. QED  BY <2>1, <2>2, <3>1 DEF ClaimNextForNotify
    <2>3. CASE InsertEntry(p)
      <3>. DEFINE row(n) == [user |-> tx[p].user, slot |-> tx[p].slot, position |-> n,
                             status |-> "absent", pend |-> "active", lock |-> p]
      <3>1. \A n : row(n).status = "absent" /\ row(n).lock = p
        OBVIOUS
      <3>2. \/ UNCHANGED waitlist_entries
            \/ /\ HasFresh(waitlist_entries)
               /\ \E n \in NextPositions : waitlist_entries' =
                    [waitlist_entries EXCEPT ![FreshId(waitlist_entries)] = row(n)]
        BY <2>3 DEF InsertEntry
      <3>. HIDE DEF row
      <3>. QED  BY <3>1, <3>2, EntryTouched
    <2>4. CASE Claim(p) \/ ClaimForExpired(p)
      BY <2>2, <2>4 DEF Claim, ClaimForExpired
    <2>. QED
      BY <2>1, <2>3, <2>4
      DEF Statement, CheckReservation, WaitReservation, InsertBooking, UpdateBooking,
          InsertReservation, LockBooking, WaitBooking, LockReservation, SetConfirmed,
          SetCancelled, ExpireBatch
  <1>4. ReservationsTouched(p)
    <2>1. CASE UNCHANGED slot_reservations
      BY <2>1, ReservationTouched
    <2>2. ASSUME NEW r, LockFree(slot_reservations, r, p),
                 slot_reservations' = Locked(slot_reservations, r, p)
          PROVE  ReservationsTouched(p)
      <3>1. CASE r \in ReservationIds
        BY <2>2, <3>1, ReservationTouched
      <3>2. CASE r \notin ReservationIds
        BY <1>0, <2>1, <2>2, <3>2 DEF Locked
      <3>. QED  BY <3>1, <3>2
    <2>3. CASE InsertReservation(p)
      <3>. DEFINE row == [user |-> waitlist_entries[tx[p].en].user, slot |-> tx[p].slot,
                          entry |-> tx[p].en, expires_at |-> ExpiresAt(tx[p]),
                          status |-> "absent", pend |-> "active", lock |-> p]
      <3>1. row.status = "absent" /\ row.lock = p
        OBVIOUS
      <3>2. \/ UNCHANGED slot_reservations
            \/ /\ HasFresh(slot_reservations)
               /\ slot_reservations' = [slot_reservations EXCEPT ![FreshId(slot_reservations)] = row]
        BY <2>3 DEF InsertReservation
      <3>. HIDE DEF row
      <3>. QED  BY <3>1, <3>2, ReservationTouched
    <2>4. CASE SetConfirmed(p) \/ SetCancelled(p)
      <3>1. LockFree(slot_reservations, tx[p].rv, p) /\ tx[p].rv \in ReservationIds
        BY <1>0, <2>4 DEF SetConfirmed, SetCancelled, At, HoldsReservation, MustHold, LockFree, RefsOK
      <3>2. \/ UNCHANGED slot_reservations
            \/ slot_reservations' = Written(slot_reservations, tx[p].rv, p, "confirmed")
            \/ slot_reservations' = Written(slot_reservations, tx[p].rv, p, "cancelled")
        BY <2>4 DEF SetConfirmed, SetCancelled, SetReservation
      <3>. QED  BY <3>1, <3>2, ReservationTouched DEF ReservationStatus
    <2>5. CASE ExpireBatch(p)
      <3>1. PICK batch \in Batches(p) :
              slot_reservations' = [r \in ReservationIds |->
                 IF r \in batch THEN [slot_reservations[r] EXCEPT !.pend = "expired", !.lock = p]
                                ELSE slot_reservations[r]]
        BY <2>5 DEF ExpireBatch
      <3>2. \A r \in batch : slot_reservations[r].lock \in {None, p}
        BY DEF Batches, FirstOf, Due, LockFree
      <3>. QED  BY <1>0, <3>1, <3>2 DEF ReservationsTouched, Touched, SameRow, ReservationRow
    <2>6. CASE CheckReservation(p) \/ WaitReservation(p) \/ LockReservation(p)
      BY <2>1, <2>2, <2>6 DEF CheckReservation, WaitReservation, LockReservation
    <2>. QED
      BY <2>1, <2>3, <2>4, <2>5, <2>6
      DEF Statement, InsertBooking, UpdateBooking, Claim, ClaimForExpired, LockBooking, WaitBooking,
          InsertEntry
  <1>. QED  BY <1>1, <1>2, <1>3, <1>4 DEF StatementTouches

\* A statement disturbs nobody else.
LEMMA TouchesLeavesOthers ==
    ASSUME NEW p \in Procs, StatementTouches(p)  PROVE LeavesOthers(p)
  BY DEF StatementTouches, BookingsTouched, EntriesTouched, ReservationsTouched, Touched, SameRow,
         LeavesOthers
-----------------------------------------------------------------------------
(* Each statement, for the transaction that executes it. *)

\* Which use case a statement belongs to.
LEMMA UseCaseOf ==
    ASSUME NEW t, t.op \in Ops, t.at_stmt \in StatementsOf(t.op)
    PROVE  /\ t.at_stmt \in {"idle", "rollback"} => t.op = "none"
           /\ t.at_stmt \in {"checkReservation", "waitReservation"} => t.op = "create"
           /\ t.at_stmt = "insertBooking" => t.op \in {"create", "confirm"}
           /\ t.at_stmt = "updateBooking" => t.op = "cancel"
           /\ t.at_stmt \in {"claim", "insertReservation"} => t.op \in {"cancel", "cancelRes", "expire"}
           /\ t.at_stmt \in {"lockBooking", "waitBooking"} => t.op \in {"join", "confirm"}
           /\ t.at_stmt = "insertEntry" => t.op = "join"
           /\ t.at_stmt = "lockReservation" => t.op \in {"confirm", "cancelRes"}
           /\ t.at_stmt = "setConfirmed" => t.op = "confirm"
           /\ t.at_stmt = "setCancelled" => t.op = "cancelRes"
           /\ t.at_stmt = "expireBatch" => t.op = "expire"
           /\ t.at_stmt = "commit" => t.op # "none"
  BY DEF Ops, StatementsOf

\* A transaction that is rolled back next may hold anything.
LEMMA RollbackOK ==
    ASSUME NEW p, tx'[p].op = "none", tx'[p].at_stmt = "rollback"  PROVE TxOK(p)'
  BY DEF TxOK, StatementsOf, FirstStatements, WaitsForRow, At

\* What TxInv gives for a statement of p.
LEMMA OwnTx ==
    ASSUME TxInv, NEW p \in Procs
    PROVE  /\ TypeInv /\ HoldsReservation /\ TxOK(p)
           /\ tx \in [Procs -> Locals] /\ tx[p] \in Locals /\ tx[p].op \in Ops
           /\ bookings \in [BookingIds -> BookingRow]
           /\ waitlist_entries \in [EntryIds -> EntryRow]
           /\ slot_reservations \in [ReservationIds -> ReservationRow]
           /\ p # None
  BY ConstantsAssumption DEF TxInv, IndexInv, TypeInv, TypeOK, Locals

\* A step that leaves a table alone leaves alone what p holds of it.
LEMMA SameHoldings ==
    ASSUME NEW p
    PROVE  /\ UNCHANGED bookings => (HoldsNoBooking(p)' <=> HoldsNoBooking(p))
           /\ UNCHANGED waitlist_entries => (HoldsNoEntry(p)' <=> HoldsNoEntry(p))
           /\ UNCHANGED slot_reservations => (HoldsNoReservation(p)' <=> HoldsNoReservation(p))
  BY DEF HoldsNoBooking, HoldsNoEntry, HoldsNoReservation

\* An INSERT of a transaction that has none of the table's rows.
LEMMA InsertedBooking ==
    ASSUME TypeInv, NEW p \in Procs, HoldsNoBooking(p), HasFresh(bookings), NEW row, row.lock = p,
           bookings' = [bookings EXCEPT ![FreshId(bookings)] = row]
    PROVE  \E b \in BookingIds : OnlyBooking(p, b)' /\ bookings'[b] = row
  <1>1. bookings \in [BookingIds -> BookingRow]
    BY DEF TypeInv, TypeOK
  <1>2. FreshId(bookings) \in BookingIds
    BY <1>1, FreshIdIsFresh
  <1>. QED  BY <1>1, <1>2 DEF HoldsNoBooking, OnlyBooking

\* Whoever held no entry holds just the one it inserts.
LEMMA InsertedEntry ==
    ASSUME TypeInv, NEW p \in Procs, HoldsNoEntry(p), HasFresh(waitlist_entries), NEW row,
           row.lock = p, waitlist_entries' = [waitlist_entries EXCEPT ![FreshId(waitlist_entries)] = row]
    PROVE  \E e \in EntryIds : OnlyEntry(p, e)' /\ waitlist_entries'[e] = row
  <1>1. waitlist_entries \in [EntryIds -> EntryRow]
    BY DEF TypeInv, TypeOK
  <1>2. FreshId(waitlist_entries) \in EntryIds
    BY <1>1, FreshIdIsFresh
  <1>. QED  BY <1>1, <1>2 DEF HoldsNoEntry, OnlyEntry

\* A SELECT ... FOR UPDATE that has to wait remembers the row.
LEMMA WaitLocals ==
    ASSUME tx \in [Procs -> Locals], NEW p \in Procs, NEW b,
           tx' = [tx EXCEPT ![p].at_stmt = "waitBooking", ![p].bk = b]
    PROVE  /\ tx'[p].at_stmt = "waitBooking" /\ tx'[p].bk = b /\ tx'[p].op = tx[p].op
           /\ tx'[p].user = tx[p].user /\ tx'[p].slot = tx[p].slot /\ tx'[p].rv = tx[p].rv
  BY DEF Locals

\* GetActiveBySlotForUpdate of CreateBooking.
LEMMA CheckReservationTx ==
    ASSUME TxInv, NEW p \in Procs, CheckReservation(p) \/ WaitReservation(p)
    PROVE  TxOK(p)'
  <1>0. TypeInv /\ tx \in [Procs -> Locals]
    BY OwnTx
  <1>1. tx[p].op = "create" /\ HoldsNothing(p) /\ tx[p].user \in Users /\ tx[p].slot \in Slots
    BY OwnTx, UseCaseOf DEF CheckReservation, WaitReservation, At, TxOK, FirstStatements, CreateHolds
  <1>2. CASE Goto(p, "rollback")
    BY <1>0, <1>2, GotoLocals, RollbackOK DEF Stages
  <1>3. CASE /\ UNCHANGED <<bookings, waitlist_entries, slot_reservations>>
             /\ \/ Goto(p, "insertBooking")
                \/ \E r \in ReservationIds : tx' = [tx EXCEPT ![p].at_stmt = "waitReservation", ![p].rv = r]
    <2>1. /\ tx'[p].op = "create" /\ tx'[p].at_stmt \in {"insertBooking", "waitReservation"}
          /\ tx'[p].user = tx[p].user /\ tx'[p].slot = tx[p].slot
          /\ tx'[p].at_stmt = "waitReservation" => tx'[p].rv \in ReservationIds
      <3>1. CASE Goto(p, "insertBooking")
        BY <1>0, <1>1, <3>1, GotoLocals DEF Stages, SameLocals
      <3>2. CASE \E r \in ReservationIds : tx' = [tx EXCEPT ![p].at_stmt = "waitReservation", ![p].rv = r]
        BY <1>0, <1>1, <3>2 DEF Locals
      <3>. QED  BY <1>3, <3>1, <3>2
    <2>2. HoldsNothing(p)'
      BY <1>1, <1>3, SameHoldings DEF HoldsNothing
    <2>. QED  BY <1>1, <2>1, <2>2 DEF TxOK, StatementsOf, CreateHolds, HoldsNothing, WaitsForRow, At
  <1>. QED
    BY <1>2, <1>3 DEF CheckReservation, WaitReservation, ActiveReservations, ReservationsOf

\* The INSERT of CreateBooking and ConfirmReservation.
LEMMA InsertBookingTx ==
    ASSUME TxInv, NEW p \in Procs, InsertBooking(p)
    PROVE  TxOK(p)'
  <1>0. TypeInv /\ tx[p].op \in {"create", "confirm"} /\ HoldsNoBooking(p) /\ HoldsNoEntry(p)
    BY OwnTx, UseCaseOf DEF InsertBooking, At, TxOK, CreateHolds, ConfirmHolds
  <1>1. CASE Goto(p, "rollback")
    BY <1>0, <1>1, GotoLocals, RollbackOK DEF Stages
  <1>2. CASE ~Goto(p, "rollback")
    <2>. DEFINE row == [user |-> tx[p].user, slot |-> tx[p].slot,
                        status |-> "absent", pend |-> "active", lock |-> p]
    <2>1. HasFresh(bookings) /\ bookings' = [bookings EXCEPT ![FreshId(bookings)] = row]
      BY <1>2 DEF InsertBooking
    <2>2. /\ row.lock = p /\ Moves(row, "absent", "active")
          /\ row.user = tx[p].user /\ row.slot = tx[p].slot
      BY DEF Moves
    <2>. HIDE DEF row
    <2>3. PICK b \in BookingIds : OnlyBooking(p, b)' /\ bookings'[b] = row
      BY <1>0, <2>1, <2>2, InsertedBooking
    <2>4. UNCHANGED <<waitlist_entries, slot_reservations>>
      BY DEF InsertBooking
    <2>5. CASE tx[p].op = "create"
      <3>1. tx'[p].op = "create" /\ tx'[p].at_stmt = "commit"
        BY <1>0, <1>2, <2>5, GotoLocals DEF InsertBooking, Stages
      <3>2. CreateHolds(p)
        BY <2>5, OwnTx DEF TxOK
      <3>3. HoldsNoEntry(p)' /\ HoldsNoReservation(p)'
        BY <2>4, <3>2, SameHoldings DEF CreateHolds
      <3>4. bookings'[b].user \in Users /\ bookings'[b].slot \in Slots
        BY <2>2, <2>3, <3>2 DEF CreateHolds, InsertBooking, At
      <3>. QED  BY <2>2, <2>3, <3>1, <3>3, <3>4 DEF TxOK, StatementsOf, FirstStatements, CreateHolds, WaitsForRow, At
    <2>6. CASE tx[p].op = "confirm"
      <3>1. SameLocals(tx[p], tx'[p]) /\ tx'[p].at_stmt = "setConfirmed"
        BY <1>0, <1>2, <2>6, GotoLocals DEF InsertBooking, Stages
      <3>2. ConfirmHolds(p)
        BY <2>6, OwnTx DEF TxOK
      <3>3. HoldsNoEntry(p)'
        BY <1>0, <2>4, SameHoldings
      <3>4. /\ OnlyReservation(p, tx[p].rv)' /\ Moves(slot_reservations'[tx'[p].rv], "active", "active")
            /\ slot_reservations'[tx'[p].rv].user = tx'[p].user
            /\ slot_reservations'[tx'[p].rv].slot = tx'[p].slot
        BY <2>4, <3>1, <3>2 DEF ConfirmHolds, SameLocals, OnlyReservation, InsertBooking, At
      <3>. QED
        BY <2>2, <2>3, <2>6, <3>1, <3>3, <3>4
        DEF TxOK, StatementsOf, FirstStatements, ConfirmHolds, WaitsForRow, At, SameLocals
    <2>. QED  BY <1>0, <2>5, <2>6
  <1>. QED  BY <1>1, <1>2

-----------------------------------------------------------------------------
(* BEGIN. *)

\* A use case that starts holds nothing and disturbs nobody.
LEMMA BeginHoldsNothing ==
    ASSUME TxInv, NEW p \in Procs, NEW t, Begin(p, t), UNCHANGED <<bookings, slot_reservations>>
    PROVE  /\ tx'[p] = t /\ \A q \in Procs \ {p} : tx'[q] = tx[q]
           /\ HoldsNothing(p) /\ HoldsNoBooking(p)' /\ HoldsNoReservation(p)'
           /\ UNCHANGED waitlist_entries => LeavesOthers(p) /\ HoldsNoEntry(p)'
  <1>1. tx' = [tx EXCEPT ![p] = t] /\ tx \in [Procs -> Locals] /\ At(p, "idle")
    BY OwnTx DEF Begin
  <1>2. tx'[p] = t /\ \A q \in Procs \ {p} : tx'[q] = tx[q]
    BY <1>1
  <1>3. HoldsNothing(p)
    BY <1>1, OwnTx DEF TxOK, FirstStatements, At
  <1>. QED  BY <1>2, <1>3, SameHoldings DEF HoldsNothing, LeavesOthers

\* A use case begins without locks; LeaveWaitlist with its entry.
LEMMA StartTx ==
    ASSUME TxInv, NEW p \in Procs, Request(p) \/ StartExpire(p)
    PROVE  TxOK(p)' /\ LeavesOthers(p)
  <1>0. /\ bookings \in [BookingIds -> BookingRow]
        /\ waitlist_entries \in [EntryIds -> EntryRow]
    BY OwnTx
  <1>1. ASSUME NEW u \in Users, NEW s \in Slots, StartCreate(p, u, s)
        PROVE  TxOK(p)' /\ LeavesOthers(p)
    <2>. DEFINE t == [NoTx EXCEPT !.op = "create", !.at_stmt = "checkReservation",
                                  !.user = u, !.slot = s, !.at = now]
    <2>1. Begin(p, t) /\ UNCHANGED tables
      BY <1>1 DEF StartCreate
    <2>2. t.op = "create" /\ t.at_stmt = "checkReservation" /\ t.user = u /\ t.slot = s
      BY DEF NoTx
    <2>. HIDE DEF t
    <2>3. tx'[p] = t /\ HoldsNothing(p)' /\ LeavesOthers(p)
      BY <2>1, BeginHoldsNothing DEF tables, HoldsNothing
    <2>. QED  BY <2>2, <2>3 DEF TxOK, StatementsOf, CreateHolds, HoldsNothing, WaitsForRow, At
  <1>2. ASSUME NEW u \in Users, NEW s \in Slots, StartJoin(p, u, s)
        PROVE  TxOK(p)' /\ LeavesOthers(p)
    <2>. DEFINE t == [NoTx EXCEPT !.op = "join", !.at_stmt = "lockBooking",
                                  !.user = u, !.slot = s]
    <2>1. Begin(p, t) /\ UNCHANGED tables
      BY <1>2 DEF StartJoin
    <2>2. t.op = "join" /\ t.at_stmt = "lockBooking" /\ t.user = u /\ t.slot = s
      BY DEF NoTx
    <2>. HIDE DEF t
    <2>3. tx'[p] = t /\ HoldsNothing(p)' /\ LeavesOthers(p)
      BY <2>1, BeginHoldsNothing DEF tables, HoldsNothing
    <2>. QED  BY <2>2, <2>3 DEF TxOK, StatementsOf, FirstStatements, JoinHolds, HoldsNothing, WaitsForRow, At
  <1>3. ASSUME NEW u \in Users, NEW b \in BookingIds, StartCancel(p, u, b)
        PROVE  TxOK(p)' /\ LeavesOthers(p)
    <2>. DEFINE t == [NoTx EXCEPT !.op = "cancel", !.at_stmt = "updateBooking",
                                  !.slot = bookings[b].slot, !.bk = b,
                                  !.wasActive = bookings[b].status = "active"]
    <2>1. Begin(p, t) /\ UNCHANGED tables /\ bookings[b].status # "absent"
      BY <1>3 DEF StartCancel
    <2>2. /\ t.op = "cancel" /\ t.at_stmt = "updateBooking" /\ t.slot = bookings[b].slot
          /\ t.bk = b /\ t.due = {} /\ t.wasActive = (bookings[b].status = "active")
      BY DEF NoTx
    <2>. HIDE DEF t
    <2>3. tx'[p] = t /\ HoldsNothing(p)' /\ LeavesOthers(p) /\ UNCHANGED bookings
      BY <2>1, BeginHoldsNothing DEF tables, HoldsNothing
    <2>4. ~t.wasActive => bookings[b].status = "cancelled"
      BY <1>0, <2>1, <2>2 DEF BookingRow, BookingStatus
    <2>. QED  BY <2>1, <2>2, <2>3, <2>4 DEF TxOK, StatementsOf, CancelHolds, WaitsForRow, At
  <1>4. ASSUME NEW u \in Users, NEW e \in EntryIds, LeaveWaitlist(p, u, e)
        PROVE  TxOK(p)' /\ LeavesOthers(p)
    <2>. DEFINE t == [NoTx EXCEPT !.op = "leave", !.at_stmt = "commit"]
    <2>1. Begin(p, t) /\ UNCHANGED <<bookings, slot_reservations>>
      BY <1>4 DEF LeaveWaitlist
    <2>2. t.op = "leave" /\ t.at_stmt = "commit"
      BY DEF NoTx
    <2>. HIDE DEF t
    <2>3. /\ tx'[p] = t /\ \A q \in Procs \ {p} : tx'[q] = tx[q]
          /\ HoldsNoEntry(p) /\ HoldsNoBooking(p)' /\ HoldsNoReservation(p)'
      BY <2>1, BeginHoldsNothing DEF HoldsNothing
    <2>4. /\ waitlist_entries'[e].status = waitlist_entries[e].status
          /\ waitlist_entries'[e].pend = "cancelled" /\ waitlist_entries'[e].lock = p
          /\ \A f \in EntryIds \ {e} : waitlist_entries'[f] = waitlist_entries[f]
      BY <1>0, <1>4 DEF LeaveWaitlist, Written, EntryRow
    <2>5. OnlyEntry(p, e)'
      BY <2>3, <2>4 DEF OnlyEntry, HoldsNoEntry
    <2>6. waitlist_entries[e].status \in {"active", "notified"}
      BY <1>4 DEF LeaveWaitlist
    <2>7. TxOK(p)'
      BY <2>2, <2>3, <2>4, <2>5, <2>6 DEF TxOK, StatementsOf, FirstStatements, LeaveHolds, WaitsForRow, At
    <2>8. LeavesOthers(p)
      BY <1>4, <2>1, <2>3, <2>4 DEF LeavesOthers, LeaveWaitlist, LockFree
    <2>. QED  BY <2>7, <2>8
  <1>5. ASSUME NEW u \in Users, NEW r \in ReservationIds,
               StartConfirm(p, u, r) \/ StartCancelReservation(p, u, r)
        PROVE  TxOK(p)' /\ LeavesOthers(p)
    <2>1. PICK op \in {"confirm", "cancelRes"} : StartOnReservation(p, u, r, op)
      BY <1>5 DEF StartConfirm, StartCancelReservation
    <2>. DEFINE t == [NoTx EXCEPT !.op = op, !.at_stmt = "lockReservation", !.user = u,
                                  !.rv = r, !.slot = slot_reservations[r].slot, !.at = now]
    <2>2. Begin(p, t) /\ UNCHANGED tables /\ slot_reservations[r].status # "absent"
      BY <2>1 DEF StartOnReservation
    <2>3. /\ t.op = op /\ t.at_stmt = "lockReservation" /\ t.due = {}
          /\ t.rv = r /\ t.slot = slot_reservations[r].slot
      BY DEF NoTx
    <2>. HIDE DEF t
    <2>4. tx'[p] = t /\ HoldsNothing(p)' /\ LeavesOthers(p) /\ UNCHANGED slot_reservations
      BY <2>2, BeginHoldsNothing DEF tables, HoldsNothing
    <2>. QED
      BY <2>2, <2>3, <2>4
      DEF TxOK, StatementsOf, ConfirmHolds, CancelResHolds, HoldsNothing, WaitsForRow, At
  <1>6. ASSUME StartExpire(p)  PROVE TxOK(p)' /\ LeavesOthers(p)
    <2>. DEFINE t == [NoTx EXCEPT !.op = "expire", !.at_stmt = "expireBatch", !.at = now]
    <2>1. Begin(p, t) /\ UNCHANGED tables
      BY <1>6 DEF StartExpire
    <2>2. t.op = "expire" /\ t.at_stmt = "expireBatch"
      BY DEF NoTx
    <2>. HIDE DEF t
    <2>3. tx'[p] = t /\ HoldsNothing(p)' /\ LeavesOthers(p)
      BY <2>1, BeginHoldsNothing DEF tables, HoldsNothing
    <2>. QED  BY <2>2, <2>3 DEF TxOK, StatementsOf, ExpireHolds, HoldsNothing, WaitsForRow, At
  <1>. QED  BY <1>1, <1>2, <1>3, <1>4, <1>5, <1>6 DEF Request

\* A transaction that has claimed nobody has nothing to offer.
LEMMA NothingClaimed ==
    ASSUME NEW p, HoldsNoEntry(p)', \A r \in ReservationIds : ~Offers(p, r)',
           ~At(p, "insertReservation")'
    PROVE  ClaimsAreOffered(p)'
  BY DEF ClaimsAreOffered, HoldsNoEntry, OffersTo

\* SetCancelled of CancelBooking.
LEMMA UpdateBookingTx ==
    ASSUME TxInv, NEW p \in Procs, UpdateBooking(p)
    PROVE  TxOK(p)'
  <1>0. /\ TypeInv /\ tx[p].op = "cancel" /\ HoldsNothing(p) /\ CancelHolds(p)
        /\ bookings \in [BookingIds -> BookingRow]
    BY OwnTx, UseCaseOf DEF UpdateBooking, At, TxOK, FirstStatements
  <1>. DEFINE b == tx[p].bk
  <1>1. /\ b \in BookingIds /\ bookings[b].status # "absent" /\ tx[p].due = {}
        /\ tx[p].slot = bookings[b].slot
        /\ ~tx[p].wasActive => bookings[b].status = "cancelled"
    BY <1>0 DEF CancelHolds, UpdateBooking, At
  <1>2. /\ tx'[p].at_stmt \in {"claim", "commit"} /\ tx'[p].op = "cancel"
        /\ tx'[p].bk = b /\ tx'[p].wasActive = tx[p].wasActive /\ tx'[p].due = {}
        /\ tx'[p].at_stmt = "claim" => tx'[p].slot = tx[p].slot
    <2>1. Goto(p, IF tx[p].wasActive THEN "claim" ELSE "commit")
      BY DEF UpdateBooking
    <2>2. CASE Goto(p, "claim")
      BY <1>0, <1>1, <2>2, GotoLocals DEF Stages, SameLocals
    <2>3. CASE Goto(p, "commit")
      BY <1>0, <1>1, <2>3, GotoLocals DEF Stages
    <2>. QED  BY <2>1, <2>2, <2>3
  <1>3. HoldsNoEntry(p)' /\ HoldsNoReservation(p)'
    BY <1>0, SameHoldings DEF UpdateBooking, HoldsNothing
  <1>4. /\ bookings'[b].status # "absent" /\ bookings'[b].slot = bookings[b].slot
        /\ ~tx[p].wasActive => bookings'[b].status = "cancelled"
        /\ \A c \in BookingIds : bookings'[c].lock = p => c = b
        /\ IF bookings'[b].lock = p THEN Moves(bookings'[b], "active", "cancelled")
                                    ELSE bookings'[b].status = "cancelled"
    <2>1. CASE bookings[b].status = "active"
      <3>1. bookings' = Written(bookings, b, p, "cancelled")
        BY <2>1 DEF UpdateBooking
      <3>2. /\ bookings'[b].status = "active" /\ bookings'[b].pend = "cancelled"
            /\ bookings'[b].lock = p /\ bookings'[b].slot = bookings[b].slot
            /\ \A c \in BookingIds \ {b} : bookings'[c] = bookings[c]
        BY <1>0, <1>1, <2>1, <3>1 DEF Written, BookingRow
      <3>. QED  BY <1>0, <1>1, <2>1, <3>2 DEF Moves, HoldsNothing, HoldsNoBooking
    <2>2. CASE bookings[b].status # "active"
      <3>1. UNCHANGED bookings
        BY <2>2 DEF UpdateBooking
      <3>2. bookings[b].status = "cancelled"
        BY <1>0, <1>1, <2>2 DEF BookingRow, BookingStatus
      <3>. QED  BY <1>0, <1>1, <3>1, <3>2 DEF HoldsNothing, HoldsNoBooking
    <2>. QED  BY <2>1, <2>2
  <1>5. ClaimsAreOffered(p)'
    BY <1>2, <1>3, NothingClaimed DEF HoldsNoReservation, Offers, At
  <1>. QED
    BY <1>1, <1>2, <1>3, <1>4, <1>5
    DEF TxOK, StatementsOf, FirstStatements, CancelHolds, HoldsNoReservation, WaitsForRow, At

\* GetActiveBySlotForUpdate of JoinWaitlist and ConfirmReservation.
LEMMA LockBookingTx ==
    ASSUME TxInv, NEW p \in Procs, LockBooking(p) \/ WaitBooking(p)
    PROVE  TxOK(p)'
  <1>0. /\ TypeInv /\ tx[p].op \in {"join", "confirm"} /\ HoldsNoBooking(p) /\ HoldsNoEntry(p)
        /\ tx \in [Procs -> Locals] /\ tx[p] \in Locals /\ bookings \in [BookingIds -> BookingRow]
        /\ tx[p].op = "join" => JoinHolds(p) /\ HoldsNoReservation(p)
        /\ tx[p].op = "confirm" => ConfirmHolds(p)
        /\ ~At(p, "commit") /\ ~At(p, "lockReservation") /\ ~At(p, "setConfirmed")
    BY OwnTx, UseCaseOf DEF LockBooking, WaitBooking, At, TxOK, JoinHolds, ConfirmHolds, HoldsNothing
  <1>1. HoldsNoEntry(p)' /\ UNCHANGED slot_reservations /\ UNCHANGED waitlist_entries
    BY <1>0, SameHoldings DEF LockBooking, WaitBooking
  <1>2. ASSUME NEW b \in BookingIds, bookings[b].status = "active", LockFree(bookings, b, p)
        PROVE  Moves(bookings[b], "active", "active")
    BY <1>0, <1>2 DEF HoldsNoBooking, LockFree, Moves, TxInv, IndexInv, IndexesProtected,
       BookingIndex, IndexProtected
  <1>3. ASSUME NEW b \in ActiveBookings(tx[p].slot, p)
        PROVE  b \in BookingIds /\ bookings[b].slot = tx[p].slot /\ bookings[b].status = "active"
    BY <1>0 DEF ActiveBookings, BookingsOf, View, HoldsNoBooking
  <1>4. CASE Goto(p, "rollback")
    BY <1>0, <1>4, GotoLocals, RollbackOK DEF Stages
  <1>. DEFINE Waits == /\ tx'[p].bk \in BookingIds /\ bookings'[tx'[p].bk].status # "absent"
                      /\ bookings'[tx'[p].bk].slot = tx'[p].slot
  <1>5. CASE /\ tx[p].op = "confirm" /\ UNCHANGED bookings
             /\ \/ Goto(p, "insertBooking")
                \/ \E b \in ActiveBookings(tx[p].slot, p) :
                     tx' = [tx EXCEPT ![p].at_stmt = "waitBooking", ![p].bk = b]
    <2>1. /\ tx'[p].op = "confirm" /\ tx'[p].at_stmt \in {"insertBooking", "waitBooking"}
          /\ tx'[p].user = tx[p].user /\ tx'[p].slot = tx[p].slot /\ tx'[p].rv = tx[p].rv
          /\ tx'[p].at_stmt = "waitBooking" => Waits
      <3>1. CASE Goto(p, "insertBooking")
        BY <1>0, <1>5, <3>1, GotoLocals DEF Stages, SameLocals
      <3>2. CASE \E b \in ActiveBookings(tx[p].slot, p) :
                     tx' = [tx EXCEPT ![p].at_stmt = "waitBooking", ![p].bk = b]
        <4>1. PICK b \in ActiveBookings(tx[p].slot, p) :
                tx' = [tx EXCEPT ![p].at_stmt = "waitBooking", ![p].bk = b]
          BY <3>2
        <4>2. /\ tx'[p].at_stmt = "waitBooking" /\ tx'[p].bk = b /\ tx'[p].op = "confirm"
              /\ tx'[p].user = tx[p].user /\ tx'[p].slot = tx[p].slot /\ tx'[p].rv = tx[p].rv
          BY <1>0, <1>5, <4>1, WaitLocals
        <4>. QED  BY <1>5, <1>3, <4>2
      <3>. QED  BY <1>5, <3>1, <3>2
    <2>2. HoldsNoBooking(p)'
      BY <1>0, <1>5, SameHoldings
    <2>3. /\ OnlyReservation(p, tx[p].rv)' /\ Moves(slot_reservations'[tx'[p].rv], "active", "active")
          /\ slot_reservations'[tx'[p].rv].user = tx'[p].user
          /\ slot_reservations'[tx'[p].rv].slot = tx'[p].slot
      BY <1>0, <1>1, <1>5, <2>1 DEF ConfirmHolds, OnlyReservation
    <2>. QED
      BY <1>1, <2>1, <2>2, <2>3 DEF TxOK, StatementsOf, FirstStatements, ConfirmHolds, WaitsForRow, At
  <1>6. CASE /\ tx[p].op = "join" /\ UNCHANGED bookings
             /\ \E b \in ActiveBookings(tx[p].slot, p) :
                     tx' = [tx EXCEPT ![p].at_stmt = "waitBooking", ![p].bk = b]
    <2>1. /\ tx'[p].op = "join" /\ tx'[p].at_stmt = "waitBooking"
          /\ tx'[p].user = tx[p].user /\ tx'[p].slot = tx[p].slot /\ Waits
      <3>1. PICK b \in ActiveBookings(tx[p].slot, p) :
              tx' = [tx EXCEPT ![p].at_stmt = "waitBooking", ![p].bk = b]
        BY <1>6
      <3>2. /\ tx'[p].at_stmt = "waitBooking" /\ tx'[p].bk = b /\ tx'[p].op = "join"
            /\ tx'[p].user = tx[p].user /\ tx'[p].slot = tx[p].slot
        BY <1>0, <1>6, <3>1, WaitLocals
      <3>. QED  BY <1>6, <1>3, <3>2
    <2>2. HoldsNothing(p)'
      BY <1>0, <1>1, <1>6, SameHoldings DEF HoldsNothing
    <2>. QED
      BY <1>0, <1>6, <2>1, <2>2 DEF TxOK, StatementsOf, FirstStatements, JoinHolds, HoldsNothing,
          WaitsForRow, At
  <1>7. ASSUME NEW b \in BookingIds, tx[p].op = "join", Goto(p, "insertEntry"),
               bookings' = Locked(bookings, b, p), Moves(bookings[b], "active", "active"),
               bookings[b].slot = tx[p].slot, bookings[b].user # tx[p].user
        PROVE  TxOK(p)'
    <2>1. /\ SameRow(bookings'[b], bookings[b]) /\ bookings'[b].pend = bookings[b].pend
          /\ bookings'[b].lock = p /\ \A c \in BookingIds \ {b} : bookings'[c] = bookings[c]
      BY <1>0, <1>7 DEF Locked, BookingRow, SameRow
    <2>2. OnlyBooking(p, b)'
      BY <1>0, <2>1 DEF OnlyBooking, HoldsNoBooking
    <2>3. SameLocals(tx[p], tx'[p]) /\ tx'[p].at_stmt = "insertEntry"
      BY <1>0, <1>7, GotoLocals DEF Stages
    <2>4. HoldsNoReservation(p)'
      BY <1>0, <1>1, <1>7, SameHoldings
    <2>5. /\ Moves(bookings'[b], "active", "active")
          /\ bookings'[b].slot = tx'[p].slot /\ bookings'[b].user # tx'[p].user
      BY <1>7, <2>1, <2>3 DEF Moves, SameRow, SameLocals
    <2>6. tx'[p].user \in Users /\ tx'[p].slot \in Slots /\ tx'[p].op = "join"
      BY <1>0, <1>7, <2>3 DEF JoinHolds, SameLocals
    <2>. QED
      BY <1>1, <2>2, <2>3, <2>4, <2>5, <2>6 DEF TxOK, StatementsOf, FirstStatements, JoinHolds, WaitsForRow, At
  <1>8. CASE LockBooking(p)
    <2>1. CASE Goto(p, WithoutBooking(tx[p])) /\ UNCHANGED bookings
      BY <1>4, <1>5, <2>1 DEF WithoutBooking
    <2>2. ASSUME NEW b \in ActiveBookings(tx[p].slot, p), LockFree(bookings, b, p),
                 bookings' = Locked(bookings, b, p), Goto(p, WithBooking(tx[p], b))
          PROVE  TxOK(p)'
      BY <1>4, <1>7, <1>2, <1>3, <2>2 DEF WithBooking
    <2>3. CASE /\ \E b \in ActiveBookings(tx[p].slot, p) :
                     tx' = [tx EXCEPT ![p].at_stmt = "waitBooking", ![p].bk = b]
               /\ UNCHANGED bookings
      BY <1>0, <1>5, <1>6, <2>3
    <2>. QED  BY <1>8, <2>1, <2>2, <2>3 DEF LockBooking
  <1>9. CASE WaitBooking(p)
    <2>1. CASE bookings[tx[p].bk].status = "active"
      <3>1. tx[p].bk \in BookingIds /\ bookings[tx[p].bk].slot = tx[p].slot
        BY <1>9, OwnTx DEF TxOK, WaitsForRow, WaitBooking
      <3>. QED  BY <1>4, <1>7, <1>2, <1>9, <2>1, <3>1 DEF WaitBooking, WithBooking
    <2>2. CASE bookings[tx[p].bk].status # "active"
      BY <1>4, <1>5, <1>9, <2>2 DEF WaitBooking, WithoutBooking
    <2>. QED  BY <2>1, <2>2
  <1>. QED  BY <1>8, <1>9

\* The INSERT of JoinWaitlist.
LEMMA InsertEntryTx ==
    ASSUME TxInv, NEW p \in Procs, InsertEntry(p)
    PROVE  TxOK(p)'
  <1>0. /\ TypeInv /\ tx[p].op = "join" /\ JoinHolds(p) /\ HoldsNoEntry(p) /\ HoldsNoReservation(p)
        /\ tx[p].user \in Users /\ tx[p].slot \in Slots
    BY OwnTx, UseCaseOf DEF InsertEntry, At, TxOK, JoinHolds
  <1>1. CASE Goto(p, "rollback")
    BY <1>0, <1>1, GotoLocals, RollbackOK DEF Stages
  <1>2. CASE ~Goto(p, "rollback")
    <2>. DEFINE row(n) == [user |-> tx[p].user, slot |-> tx[p].slot, position |-> n,
                           status |-> "absent", pend |-> "active", lock |-> p]
    <2>1. PICK n \in NextPositions :
            /\ HasFresh(waitlist_entries)
            /\ waitlist_entries' = [waitlist_entries EXCEPT ![FreshId(waitlist_entries)] = row(n)]
      BY <1>2 DEF InsertEntry
    <2>2. /\ row(n).lock = p /\ Moves(row(n), "absent", "active")
          /\ row(n).user = tx[p].user /\ row(n).slot = tx[p].slot
      BY DEF Moves
    <2>. HIDE DEF row
    <2>3. PICK e \in EntryIds : OnlyEntry(p, e)' /\ waitlist_entries'[e] = row(n)
      BY <1>0, <2>1, <2>2, InsertedEntry
    <2>4. PICK b \in BookingIds :
            /\ OnlyBooking(p, b) /\ Moves(bookings[b], "active", "active")
            /\ bookings[b].slot = tx[p].slot /\ bookings[b].user # tx[p].user
      BY <1>0 DEF JoinHolds, InsertEntry
    <2>5. UNCHANGED <<bookings, slot_reservations>>
      BY DEF InsertEntry
    <2>6. tx'[p].op = "join" /\ tx'[p].at_stmt = "commit"
      BY <1>0, <1>2, GotoLocals DEF InsertEntry, Stages
    <2>7. HoldsNoReservation(p)' /\ OnlyBooking(p, b)'
      BY <1>0, <2>4, <2>5, SameHoldings DEF OnlyBooking
    <2>. QED
      BY <1>0, <2>2, <2>3, <2>4, <2>5, <2>6, <2>7
      DEF TxOK, StatementsOf, FirstStatements, JoinHolds, WaitsForRow, At
  <1>. QED  BY <1>1, <1>2

\* GetByIDForUpdate of ConfirmReservation and CancelReservation.
LEMMA LockReservationTx ==
    ASSUME TxInv, NEW p \in Procs, LockReservation(p)
    PROVE  TxOK(p)'
  <1>. PICK r \in ReservationIds : r = tx[p].rv
    BY OwnTx DEF LockReservation, TxOK, WaitsForRow
  <1>. DEFINE row == slot_reservations[r]
  <1>0. /\ TypeInv /\ tx[p].op \in {"confirm", "cancelRes"} /\ HoldsNothing(p)
        /\ slot_reservations \in [ReservationIds -> ReservationRow]
        /\ tx[p].op = "cancelRes" => tx[p].due = {}
    BY OwnTx, UseCaseOf DEF LockReservation, At, TxOK, FirstStatements, CancelResHolds
  <1>1. /\ row.slot = tx[p].slot /\ row.status # "absent"
        /\ LockFree(slot_reservations, r, p)
        /\ slot_reservations' = Locked(slot_reservations, r, p)
        /\ Goto(p, WithReservation(tx[p], row)) /\ UNCHANGED <<bookings, waitlist_entries>>
    BY OwnTx DEF LockReservation, TxOK, WaitsForRow
  <1>2. row.pend = row.status
    BY <1>0, <1>1
    DEF HoldsNothing, HoldsNoReservation, LockFree, TxInv, IndexInv, IndexesProtected,
        ReservationIndex, IndexProtected
  <1>3. /\ SameRow(slot_reservations'[r], row) /\ slot_reservations'[r].pend = row.pend
        /\ OnlyReservation(p, r)'
        /\ \A q \in ReservationIds \ {r} : slot_reservations'[q].lock # p
    <2>1. /\ SameRow(slot_reservations'[r], row) /\ slot_reservations'[r].pend = row.pend
          /\ slot_reservations'[r].lock = p
          /\ \A q \in ReservationIds \ {r} : slot_reservations'[q] = slot_reservations[q]
      BY <1>0, <1>1 DEF Locked, ReservationRow, SameRow
    <2>. QED  BY <1>0, <1>1, <2>1 DEF OnlyReservation, HoldsNothing, HoldsNoReservation
  <1>4. HoldsNoBooking(p)' /\ HoldsNoEntry(p)'
    BY <1>0, <1>1, SameHoldings DEF HoldsNothing
  <1>5. CASE Goto(p, "rollback")
    BY <1>0, <1>5, GotoLocals, RollbackOK DEF Stages
  <1>6. CASE /\ Goto(p, "lockBooking") /\ tx[p].op = "confirm"
             /\ row.user = tx[p].user /\ row.status = "active"
    <2>1. tx'[p].at_stmt = "lockBooking" /\ SameLocals(tx[p], tx'[p])
      BY <1>0, <1>6, GotoLocals DEF Stages
    <2>. QED
      BY <1>1, <1>2, <1>3, <1>4, <1>6, <2>1
      DEF TxOK, StatementsOf, FirstStatements, ConfirmHolds, WaitsForRow, At, SameLocals, SameRow,
          Moves
  <1>7. CASE Goto(p, "setCancelled") /\ tx[p].op = "cancelRes" /\ row.status = "active"
    <2>1. tx'[p].at_stmt = "setCancelled" /\ SameLocals(tx[p], tx'[p])
      BY <1>0, <1>7, GotoLocals DEF Stages
    <2>. QED
      BY <1>0, <1>1, <1>2, <1>3, <1>4, <1>7, <2>1
      DEF TxOK, StatementsOf, FirstStatements, CancelResHolds, WaitsForRow, At, SameLocals, SameRow,
          Moves
  <1>8. CASE Goto(p, "commit") /\ tx[p].op = "cancelRes"
    <2>1. tx'[p].at_stmt = "commit" /\ tx'[p].op = "cancelRes" /\ tx'[p].due = {}
      BY <1>0, <1>8, GotoLocals DEF Stages
    <2>2. \A q \in ReservationIds : slot_reservations'[q].lock = p =>
            slot_reservations'[q].pend = slot_reservations'[q].status
      BY <1>2, <1>3 DEF SameRow
    <2>. QED
      BY <1>4, <2>1, <2>2
      DEF TxOK, StatementsOf, FirstStatements, CancelResHolds, WaitsForRow, At
  <1>. QED  BY <1>0, <1>1, <1>5, <1>6, <1>7, <1>8 DEF WithReservation

\* SetConfirmed of ConfirmReservation.
LEMMA SetConfirmedTx ==
    ASSUME TxInv, NEW p \in Procs, SetConfirmed(p)
    PROVE  TxOK(p)'
  <1>. PICK r \in ReservationIds : r = tx[p].rv
    BY OwnTx DEF SetConfirmed, At, TypeInv, RefsOK
  <1>0. /\ TypeInv /\ tx[p].op = "confirm" /\ ConfirmHolds(p) /\ At(p, "setConfirmed")
        /\ slot_reservations \in [ReservationIds -> ReservationRow]
    BY OwnTx, UseCaseOf DEF SetConfirmed, At, TxOK
  <1>1. /\ HoldsNoEntry(p) /\ OnlyReservation(p, r) /\ Moves(slot_reservations[r], "active", "active")
        /\ slot_reservations[r].user = tx[p].user /\ slot_reservations[r].slot = tx[p].slot
    BY <1>0 DEF ConfirmHolds, At
  <1>2. PICK b \in BookingIds :
          /\ OnlyBooking(p, b) /\ Moves(bookings[b], "absent", "active")
          /\ bookings[b].user = tx[p].user /\ bookings[b].slot = tx[p].slot
    BY <1>0 DEF ConfirmHolds
  <1>3. tx'[p].at_stmt = "commit" /\ tx'[p].op = "confirm"
    BY <1>0, GotoLocals DEF SetConfirmed, Stages
  <1>4. /\ OnlyReservation(p, r)' /\ Moves(slot_reservations'[r], "active", "confirmed")
        /\ slot_reservations'[r].user = tx[p].user /\ slot_reservations'[r].slot = tx[p].slot
    <2>1. slot_reservations' = Written(slot_reservations, r, p, "confirmed") /\ r \in ReservationIds
      BY <1>1 DEF SetConfirmed, SetReservation, View, OnlyReservation, Moves
    <2>2. /\ SameRow(slot_reservations'[r], slot_reservations[r])
          /\ slot_reservations'[r].pend = "confirmed" /\ slot_reservations'[r].lock = p
          /\ \A q \in ReservationIds \ {r} : slot_reservations'[q] = slot_reservations[q]
      BY <1>0, <2>1 DEF Written, ReservationRow, SameRow
    <2>. QED  BY <1>1, <2>2 DEF OnlyReservation, Moves, SameRow
  <1>5. HoldsNoEntry(p)' /\ OnlyBooking(p, b)' /\ UNCHANGED bookings
    BY <1>1, <1>2, SameHoldings DEF SetConfirmed, OnlyBooking
  <1>6. r \in ReservationIds
    BY <1>1 DEF OnlyReservation
  <1>. QED
    BY <1>2, <1>3, <1>4, <1>5, <1>6
    DEF TxOK, StatementsOf, FirstStatements, ConfirmHolds, WaitsForRow, At

\* SetCancelled of CancelReservation.
LEMMA SetCancelledTx ==
    ASSUME TxInv, NEW p \in Procs, SetCancelled(p)
    PROVE  TxOK(p)'
  <1>. PICK r \in ReservationIds : r = tx[p].rv
    BY OwnTx DEF SetCancelled, At, TypeInv, RefsOK
  <1>0. /\ TypeInv /\ tx[p].op = "cancelRes" /\ CancelResHolds(p) /\ At(p, "setCancelled")
        /\ slot_reservations \in [ReservationIds -> ReservationRow]
    BY OwnTx, UseCaseOf DEF SetCancelled, At, TxOK
  <1>1. /\ HoldsNoBooking(p) /\ HoldsNoEntry(p) /\ OnlyReservation(p, r) /\ r \in ReservationIds
        /\ Moves(slot_reservations[r], "active", "active")
        /\ slot_reservations[r].slot = tx[p].slot /\ tx[p].due = {}
    BY <1>0 DEF CancelResHolds, OnlyReservation
  <1>2. /\ tx'[p].at_stmt = "claim" /\ tx'[p].op = "cancelRes" /\ tx'[p].due = {}
        /\ tx'[p].slot = tx[p].slot
    BY <1>0, <1>1, GotoLocals DEF SetCancelled, Stages, SameLocals
  <1>3. /\ OnlyReservation(p, r)' /\ Moves(slot_reservations'[r], "active", "cancelled")
        /\ slot_reservations'[r].slot = tx[p].slot
    <2>1. slot_reservations' = Written(slot_reservations, r, p, "cancelled")
      BY <1>1 DEF SetCancelled, SetReservation, View, OnlyReservation, Moves
    <2>2. /\ SameRow(slot_reservations'[r], slot_reservations[r])
          /\ slot_reservations'[r].pend = "cancelled" /\ slot_reservations'[r].lock = p
          /\ \A q \in ReservationIds \ {r} : slot_reservations'[q] = slot_reservations[q]
      BY <1>0, <1>1, <2>1 DEF Written, ReservationRow, SameRow
    <2>. QED  BY <1>1, <2>2 DEF OnlyReservation, Moves, SameRow
  <1>4. HoldsNoEntry(p)' /\ HoldsNoBooking(p)'
    BY <1>1, SameHoldings DEF SetCancelled
  <1>5. ClaimsAreOffered(p)'
    BY <1>2, <1>3, <1>4, NothingClaimed DEF OnlyReservation, Offers, Moves, At
  <1>. QED
    BY <1>1, <1>2, <1>3, <1>4, <1>5
    DEF TxOK, StatementsOf, FirstStatements, CancelResHolds, OnlyReservation, WaitsForRow, At

\* ExpireBatch of ExpireDue.
LEMMA ExpireBatchTx ==
    ASSUME TxInv, NEW p \in Procs, ExpireBatch(p)
    PROVE  TxOK(p)'
  <1>0. /\ TypeInv /\ tx[p].op = "expire" /\ HoldsNothing(p) /\ tx[p] \in Locals
        /\ slot_reservations \in [ReservationIds -> ReservationRow] /\ tx \in [Procs -> Locals]
    BY OwnTx, UseCaseOf DEF ExpireBatch, At, TxOK, FirstStatements
  <1>1. PICK batch \in Batches(p) :
          /\ slot_reservations' = [r \in ReservationIds |->
               IF r \in batch THEN [slot_reservations[r] EXCEPT !.pend = "expired", !.lock = p]
                              ELSE slot_reservations[r]]
          /\ LET t == [tx[p] EXCEPT !.due = batch]
             IN tx' = [tx EXCEPT ![p] = Continue(t, AfterClaim(t))]
    BY DEF ExpireBatch
  <1>2. \A r \in batch : r \in ReservationIds /\ slot_reservations[r].status = "active"
    BY DEF Batches, FirstOf, Due
  <1>3. /\ \A r \in batch : Moves(slot_reservations'[r], "active", "expired") /\ Ends(p, r)'
        /\ \A r \in ReservationIds : slot_reservations'[r].lock = p => r \in batch
    BY <1>0, <1>1, <1>2
    DEF ReservationRow, HoldsNothing, HoldsNoReservation, Moves, Ends
  <1>4. /\ tx'[p].op = "expire" /\ tx'[p].at_stmt \in {"claim", "commit"}
        /\ tx'[p].due \in SUBSET batch
    <2>. DEFINE t == [tx[p] EXCEPT !.due = batch]
    <2>1. t \in Locals /\ t.op = "expire" /\ t.due = batch
      BY <1>0, <1>2 DEF Locals
    <2>2. tx'[p] = Continue(t, AfterClaim(t))
      BY <1>0, <1>1
    <2>. HIDE DEF t
    <2>3. CASE AfterClaim(t) = "claim"
      BY <2>1, <2>2, <2>3, ContinueLocals DEF Stages, SameLocals
    <2>4. CASE AfterClaim(t) = "commit"
      BY <2>1, <2>2, <2>4, ContinueLocals DEF Stages
    <2>. QED  BY <2>3, <2>4 DEF AfterClaim
  <1>5. HoldsNoEntry(p)' /\ HoldsNoBooking(p)'
    BY <1>0, SameHoldings DEF ExpireBatch, HoldsNothing
  <1>6. ClaimsAreOffered(p)'
    BY <1>3, <1>4, <1>5, NothingClaimed DEF Offers, Moves, At
  <1>. QED
    BY <1>3, <1>4, <1>5, <1>6
    DEF TxOK, StatementsOf, FirstStatements, ExpireHolds, WaitsForRow, At

\* ClaimNextForNotify: the claimed entry was nobody's, and gets its reservation
\* in the next statement.
LEMMA ClaimedTx ==
    ASSUME TxInv, NEW p \in Procs, NEW s, NEW t \in Locals, t.slot = s, At(p, "claim"),
           ClaimsAreOffered(p), ClaimNextForNotify(p, s, t), UNCHANGED slot_reservations
    PROVE  /\ ClaimsAreOffered(p)'
           /\ tx'[p].at_stmt \in {"claim", "insertReservation", "commit"}
           /\ tx'[p].op = t.op /\ tx'[p].bk = t.bk /\ tx'[p].wasActive = t.wasActive
           /\ tx'[p].at_stmt # "commit" => tx'[p].slot = s
           /\ tx'[p].due \in SUBSET t.due
  <1>0. tx \in [Procs -> Locals] /\ waitlist_entries \in [EntryIds -> EntryRow] /\ p # None
    BY OwnTx
  <1>1. CASE /\ tx' = [tx EXCEPT ![p] = Continue(t, AfterClaim(t))]
             /\ UNCHANGED waitlist_entries
    <2>1. tx'[p] = Continue(t, AfterClaim(t))
      BY <1>0, <1>1
    <2>2. /\ tx'[p].at_stmt \in {"claim", "commit"}
          /\ tx'[p].op = t.op /\ tx'[p].bk = t.bk /\ tx'[p].wasActive = t.wasActive
          /\ tx'[p].at_stmt # "commit" => tx'[p].slot = s
          /\ tx'[p].due \in SUBSET t.due
      <3>1. CASE AfterClaim(t) = "claim"
        BY <2>1, <3>1, ContinueLocals DEF Stages, SameLocals
      <3>2. CASE AfterClaim(t) = "commit"
        BY <2>1, <3>2, ContinueLocals DEF Stages
      <3>. QED  BY <3>1, <3>2 DEF AfterClaim
    <2>3. ClaimsAreOffered(p)'
      BY <1>1, <2>2 DEF ClaimsAreOffered, Offers, OffersTo, At
    <2>. QED  BY <2>2, <2>3
  <1>2. ASSUME NEW e \in NextEntries(s, p),
               waitlist_entries' = Written(waitlist_entries, e, p, "notified"),
               tx' = [tx EXCEPT ![p] = [t EXCEPT !.at_stmt = "insertReservation", !.en = e]]
        PROVE  /\ ClaimsAreOffered(p)'
               /\ tx'[p].at_stmt = "insertReservation" /\ tx'[p].op = t.op /\ tx'[p].bk = t.bk
               /\ tx'[p].wasActive = t.wasActive /\ tx'[p].slot = s /\ tx'[p].due = t.due
    <2>1. tx'[p] = [t EXCEPT !.at_stmt = "insertReservation", !.en = e]
      BY <1>0, <1>2
    <2>2. /\ tx'[p].at_stmt = "insertReservation" /\ tx'[p].op = t.op /\ tx'[p].bk = t.bk
          /\ tx'[p].wasActive = t.wasActive /\ tx'[p].slot = s /\ tx'[p].due = t.due
          /\ tx'[p].en = e
      BY <2>1 DEF Locals
    <2>3. /\ e \in EntryIds /\ waitlist_entries[e].slot = s /\ waitlist_entries[e].status = "active"
          /\ waitlist_entries[e].lock \in {None, p}
          /\ waitlist_entries[e].lock = p => waitlist_entries[e].pend = "active"
      BY DEF NextEntries, Claimable, Waiting, LockFree, View
    <2>4. waitlist_entries[e].lock # p
      BY <2>3 DEF ClaimsAreOffered, Moves
    <2>5. /\ Moves(waitlist_entries'[e], "active", "notified") /\ waitlist_entries'[e].lock = p
          /\ waitlist_entries'[e].slot = s
          /\ \A f \in EntryIds \ {e} : waitlist_entries'[f] = waitlist_entries[f]
      BY <1>0, <1>2, <2>3 DEF Written, EntryRow, Moves
    <2>6. \A r \in ReservationIds :
            /\ Offers(p, r)' <=> Offers(p, r)
            /\ Offers(p, r) => slot_reservations[r].entry # e
            /\ \A f : OffersTo(p, r, f)' <=> OffersTo(p, r, f)
      BY <2>4 DEF Offers, OffersTo, ClaimsAreOffered
    <2>7. ClaimsAreOffered(p)'
      BY <2>2, <2>3, <2>5, <2>6 DEF ClaimsAreOffered, OffersTo, At
    <2>. QED  BY <2>2, <2>7
  <1>. QED  BY <1>1, <1>2 DEF ClaimNextForNotify

\* A claim adds one entry to what the transaction holds.
LEMMA ClaimTx ==
    ASSUME TxInv, NEW p \in Procs, Claim(p)
    PROVE  TxOK(p)'
  <1>0. /\ At(p, "claim") /\ tx[p].op \in {"cancel", "cancelRes"} /\ tx[p] \in Locals
        /\ tx[p].op = "cancel" => CancelHolds(p)
        /\ tx[p].op = "cancelRes" => CancelResHolds(p)
    BY OwnTx, UseCaseOf DEF Claim, At, TxOK
  <1>. DEFINE t == [tx[p] EXCEPT !.at = IF tx[p].op = "cancel" THEN now ELSE tx[p].at]
  <1>1. /\ t \in Locals /\ t.op = tx[p].op /\ t.slot = tx[p].slot /\ t.bk = tx[p].bk
        /\ t.wasActive = tx[p].wasActive /\ t.due = tx[p].due
    BY <1>0, OwnTx DEF Locals, TypeInv, TypeOK
  <1>2. ClaimNextForNotify(p, tx[p].slot, t) /\ UNCHANGED <<bookings, slot_reservations>>
    BY DEF Claim
  <1>. HIDE DEF t
  <1>3. ClaimsAreOffered(p) /\ tx[p].due = {}
    BY <1>0 DEF CancelHolds, CancelResHolds, At
  <1>4. /\ ClaimsAreOffered(p)' /\ tx'[p].at_stmt \in {"claim", "insertReservation", "commit"}
        /\ tx'[p].op = tx[p].op /\ tx'[p].bk = tx[p].bk /\ tx'[p].wasActive = tx[p].wasActive
        /\ tx'[p].at_stmt # "commit" => tx'[p].slot = tx[p].slot
        /\ tx'[p].due = {}
    <2>1. /\ ClaimsAreOffered(p)' /\ tx'[p].at_stmt \in {"claim", "insertReservation", "commit"}
          /\ tx'[p].op = t.op /\ tx'[p].bk = t.bk /\ tx'[p].wasActive = t.wasActive
          /\ tx'[p].at_stmt # "commit" => tx'[p].slot = tx[p].slot
          /\ tx'[p].due \in SUBSET t.due
      <3>1. /\ t \in Locals /\ t.slot = tx[p].slot /\ At(p, "claim") /\ ClaimsAreOffered(p)
            /\ ClaimNextForNotify(p, tx[p].slot, t) /\ UNCHANGED slot_reservations
        BY <1>0, <1>1, <1>2, <1>3
      <3>. QED  BY <3>1, ClaimedTx
    <2>. QED  BY <1>1, <1>3, <2>1
  <1>5. CASE tx[p].op = "cancel"
    <2>1. CancelHolds(p)'
      BY <1>0, <1>2, <1>4, <1>5, SameHoldings DEF CancelHolds, Offers, At
    <2>. QED  BY <1>4, <1>5, <2>1 DEF TxOK, StatementsOf, FirstStatements, WaitsForRow, At
  <1>6. CASE tx[p].op = "cancelRes"
    <2>1. PICK r \in ReservationIds :
            /\ slot_reservations[r].lock = p /\ Moves(slot_reservations[r], "active", "cancelled")
            /\ slot_reservations[r].slot = tx[p].slot
            /\ \A q \in ReservationIds \ {r} : slot_reservations[q].lock = p =>
                 Offers(p, q) /\ slot_reservations[q].slot = slot_reservations[r].slot
      BY <1>0, <1>6 DEF CancelResHolds, At
    <2>2. HoldsNoBooking(p)'
      BY <1>0, <1>2, <1>6, SameHoldings DEF CancelResHolds
    <2>3. CancelResHolds(p)'
      BY <1>2, <1>4, <2>1, <2>2 DEF CancelResHolds, Offers, At
    <2>. QED  BY <1>4, <1>6, <2>3 DEF TxOK, StatementsOf, FirstStatements, WaitsForRow, At
  <1>. QED  BY <1>0, <1>5, <1>6

\* So does one of a batch.
LEMMA ClaimForExpiredTx ==
    ASSUME TxInv, NEW p \in Procs, ClaimForExpired(p)
    PROVE  TxOK(p)'
  <1>0. /\ At(p, "claim") /\ tx[p].op = "expire" /\ ExpireHolds(p) /\ tx[p] \in Locals
        /\ slot_reservations \in [ReservationIds -> ReservationRow]
    BY OwnTx DEF ClaimForExpired, TxOK
  <1>1. PICK r \in tx[p].due :
          ClaimNextForNotify(p, slot_reservations[r].slot,
            [tx[p] EXCEPT !.slot = slot_reservations[r].slot, !.due = tx[p].due \ {r}])
    BY DEF ClaimForExpired
  <1>. DEFINE t == [tx[p] EXCEPT !.slot = slot_reservations[r].slot, !.due = tx[p].due \ {r}]
  <1>2. r \in ReservationIds
    BY <1>0 DEF Locals
  <1>3. /\ t \in Locals /\ t.op = "expire" /\ t.slot = slot_reservations[r].slot
        /\ t.due = tx[p].due \ {r}
    BY <1>0, <1>2 DEF Locals, ReservationRow
  <1>4. ClaimNextForNotify(p, slot_reservations[r].slot, t) /\ UNCHANGED <<bookings, slot_reservations>>
    BY <1>1 DEF ClaimForExpired
  <1>. HIDE DEF t
  <1>5. /\ HoldsNoBooking(p) /\ ClaimsAreOffered(p)
        /\ \A q \in ReservationIds : slot_reservations[q].lock = p =>
             \/ Moves(slot_reservations[q], "active", "expired")
             \/ /\ Offers(p, q)
                /\ \E o \in ReservationIds :
                     Ends(p, o) /\ slot_reservations[o].slot = slot_reservations[q].slot
        /\ \A q \in tx[p].due : Ends(p, q)
    BY <1>0 DEF ExpireHolds, At
  <1>6. /\ ClaimsAreOffered(p)' /\ tx'[p].at_stmt \in {"claim", "insertReservation", "commit"}
        /\ tx'[p].op = "expire"
        /\ tx'[p].at_stmt # "commit" => tx'[p].slot = slot_reservations[r].slot
        /\ tx'[p].due \in SUBSET tx[p].due
    BY <1>0, <1>3, <1>4, <1>5, ClaimedTx
  <1>7. /\ HoldsNoBooking(p)' /\ UNCHANGED slot_reservations
        /\ \A q \in ReservationIds : (Ends(p, q)' <=> Ends(p, q)) /\ (Offers(p, q)' <=> Offers(p, q))
    BY <1>4, <1>5, SameHoldings DEF Ends, Offers
  <1>8. ExpireHolds(p)'
    <2>1. \A q \in tx'[p].due : Ends(p, q)'
      BY <1>5, <1>6, <1>7 DEF Ends
    <2>2. Ends(p, r)' /\ slot_reservations'[r].slot = slot_reservations[r].slot
      BY <1>2, <1>5, <1>7
    <2>. QED  BY <1>2, <1>5, <1>6, <1>7, <2>1, <2>2 DEF ExpireHolds, At
  <1>. QED  BY <1>6, <1>8 DEF TxOK, StatementsOf, FirstStatements, WaitsForRow, At

\* The INSERT of the reservation for the entry that was claimed.
LEMMA InsertReservationTx ==
    ASSUME TxInv, NEW p \in Procs, InsertReservation(p)
    PROVE  TxOK(p)'
  <1>0. /\ TypeInv /\ At(p, "insertReservation") /\ tx[p].op \in {"cancel", "cancelRes", "expire"}
        /\ slot_reservations \in [ReservationIds -> ReservationRow] /\ p # None
        /\ tx[p].op = "cancel" => CancelHolds(p)
        /\ tx[p].op = "cancelRes" => CancelResHolds(p)
        /\ tx[p].op = "expire" => ExpireHolds(p)
    BY OwnTx, UseCaseOf DEF InsertReservation, At, TxOK
  <1>1. CASE Goto(p, "rollback")
    BY <1>0, <1>1, GotoLocals, RollbackOK DEF Stages
  <1>2. CASE ~Goto(p, "rollback")
    <2>. DEFINE row == [user |-> waitlist_entries[tx[p].en].user, slot |-> tx[p].slot,
                        entry |-> tx[p].en, expires_at |-> ExpiresAt(tx[p]),
                        status |-> "absent", pend |-> "active", lock |-> p]
    <2>1. /\ HasFresh(slot_reservations)
          /\ slot_reservations' = [slot_reservations EXCEPT ![FreshId(slot_reservations)] = row]
          /\ Goto(p, AfterClaim(tx[p]))
      BY <1>2 DEF InsertReservation
    <2>2. /\ row.lock = p /\ Moves(row, "absent", "active") /\ row.entry = tx[p].en
          /\ row.user = waitlist_entries[tx[p].en].user /\ row.slot = tx[p].slot
      BY DEF Moves
    <2>. HIDE DEF row
    <2>3. PICK f \in ReservationIds :
            /\ slot_reservations[f].lock = None /\ slot_reservations'[f] = row
            /\ \A r \in ReservationIds \ {f} : slot_reservations'[r] = slot_reservations[r]
      <3>1. /\ FreshId(slot_reservations) \in ReservationIds
            /\ IsFresh(slot_reservations, FreshId(slot_reservations))
        BY <1>0, <2>1, FreshIdIsFresh
      <3>. QED  BY <1>0, <2>1, <3>1 DEF IsFresh
    <2>4. UNCHANGED <<bookings, waitlist_entries>>
      BY DEF InsertReservation
    <2>5. /\ tx'[p].at_stmt = AfterClaim(tx[p]) /\ tx'[p].at_stmt \in {"claim", "commit"}
          /\ tx'[p].op = tx[p].op /\ tx'[p].due \in SUBSET tx[p].due
          /\ tx'[p].bk = tx[p].bk /\ tx'[p].wasActive = tx[p].wasActive
      <3>1. CASE AfterClaim(tx[p]) = "claim"
        BY <1>0, <2>1, <3>1, GotoLocals DEF Stages, SameLocals
      <3>2. CASE AfterClaim(tx[p]) = "commit"
        BY <1>0, <2>1, <3>2, GotoLocals DEF Stages
      <3>. QED  BY <3>1, <3>2 DEF AfterClaim
    <2>6. Offers(p, f)' /\ slot_reservations'[f].slot = tx[p].slot /\ ~Offers(p, f) /\ ~Ends(p, f)
      BY <1>0, <2>2, <2>3 DEF Offers, Ends
    <2>7. \A r \in ReservationIds \ {f} :
            /\ (Ends(p, r)' <=> Ends(p, r)) /\ (Offers(p, r)' <=> Offers(p, r))
            /\ slot_reservations'[r] = slot_reservations[r]
      BY <2>3 DEF Offers, Ends
    <2>8. ClaimsAreOffered(p)'
      <3>0. ClaimsAreOffered(p)
        BY <1>0 DEF CancelHolds, CancelResHolds, ExpireHolds, At
      <3>1. ASSUME NEW e \in EntryIds, waitlist_entries'[e].lock = p
            PROVE  /\ Moves(waitlist_entries'[e], "active", "notified")
                   /\ \E r \in ReservationIds : OffersTo(p, r, e)'
        BY <2>2, <2>3, <2>4, <2>6, <2>7, <3>0, <3>1 DEF ClaimsAreOffered, OffersTo
      <3>2. ASSUME NEW r \in ReservationIds, Offers(p, r)'
            PROVE  /\ slot_reservations'[r].entry \in EntryIds
                   /\ waitlist_entries'[slot_reservations'[r].entry].lock = p
                   /\ waitlist_entries'[slot_reservations'[r].entry].user = slot_reservations'[r].user
                   /\ waitlist_entries'[slot_reservations'[r].entry].slot = slot_reservations'[r].slot
        <4>1. CASE r = f
          BY <1>0, <2>2, <2>3, <2>4, <3>0, <4>1 DEF ClaimsAreOffered
        <4>2. CASE r # f
          BY <2>4, <2>7, <3>0, <3>2, <4>2 DEF ClaimsAreOffered
        <4>. QED  BY <4>1, <4>2
      <3>3. ASSUME NEW r \in ReservationIds, NEW q \in ReservationIds, Offers(p, r)', Offers(p, q)',
                   slot_reservations'[r].entry = slot_reservations'[q].entry
            PROVE  r = q
        <4>1. \A o \in ReservationIds \ {f} : Offers(p, o) => slot_reservations[o].entry # tx[p].en
          BY <1>0, <3>0 DEF ClaimsAreOffered, OffersTo
        <4>. QED  BY <2>2, <2>3, <2>7, <3>0, <3>3, <4>1 DEF ClaimsAreOffered
      <3>. QED  BY <2>5, <3>1, <3>2, <3>3 DEF ClaimsAreOffered, At
    <2>9. CASE tx[p].op = "cancel"
      <3>0. CancelHolds(p) /\ tx[p].due = {}
        BY <1>0, <2>9 DEF CancelHolds
      <3>1. tx'[p].at_stmt = "commit" /\ tx'[p].due = {}
        BY <2>5, <3>0 DEF AfterClaim
      <3>2. HoldsNoReservation(p) /\ tx[p].slot = bookings[tx[p].bk].slot
        BY <1>0, <3>0 DEF CancelHolds, At
      <3>3. \A r \in ReservationIds : slot_reservations'[r].lock = p => r = f
        BY <2>7, <3>2 DEF HoldsNoReservation
      <3>4. CancelHolds(p)'
        BY <1>0, <2>4, <2>5, <2>6, <2>8, <3>0, <3>1, <3>2, <3>3 DEF CancelHolds, At
      <3>. QED  BY <2>5, <2>9, <3>1, <3>4 DEF TxOK, StatementsOf, FirstStatements, WaitsForRow, At
    <2>10. CASE tx[p].op = "cancelRes"
      <3>0. CancelResHolds(p) /\ tx[p].due = {}
        BY <1>0, <2>10 DEF CancelResHolds
      <3>1. tx'[p].at_stmt = "commit" /\ tx'[p].due = {}
        BY <2>5, <3>0 DEF AfterClaim
      <3>2. PICK r \in ReservationIds :
              /\ slot_reservations[r].lock = p /\ Moves(slot_reservations[r], "active", "cancelled")
              /\ slot_reservations[r].slot = tx[p].slot
              /\ \A q \in ReservationIds \ {r} : slot_reservations[q].lock = p =>
                   Offers(p, q) /\ slot_reservations[q].slot = slot_reservations[r].slot
        BY <1>0, <3>0 DEF CancelResHolds, At
      <3>3. /\ slot_reservations'[r] = slot_reservations[r]
            /\ \A q \in ReservationIds \ {r} : slot_reservations'[q].lock = p =>
                 Offers(p, q)' /\ slot_reservations'[q].slot = slot_reservations'[r].slot
        BY <1>0, <2>3, <2>6, <2>7, <3>2
      <3>4. HoldsNoBooking(p)'
        BY <2>4, <3>0, SameHoldings DEF CancelResHolds
      <3>5. CancelResHolds(p)'
        BY <2>8, <3>1, <3>2, <3>3, <3>4 DEF CancelResHolds, At
      <3>. QED  BY <2>5, <2>10, <3>1, <3>5 DEF TxOK, StatementsOf, FirstStatements, WaitsForRow, At
    <2>11. CASE tx[p].op = "expire"
      <3>1. /\ HoldsNoBooking(p)
            /\ \A q \in ReservationIds : slot_reservations[q].lock = p =>
                 \/ Moves(slot_reservations[q], "active", "expired")
                 \/ /\ Offers(p, q)
                    /\ \E o \in ReservationIds :
                         Ends(p, o) /\ slot_reservations[o].slot = slot_reservations[q].slot
            /\ \A q \in tx[p].due : Ends(p, q)
            /\ \E q \in ReservationIds : Ends(p, q) /\ slot_reservations[q].slot = tx[p].slot
        BY <1>0, <2>11 DEF ExpireHolds, At
      <3>2. \A q \in ReservationIds : Ends(p, q) =>
              Ends(p, q)' /\ slot_reservations'[q] = slot_reservations[q]
        BY <2>6, <2>7
      <3>3. \A q \in ReservationIds : slot_reservations'[q].lock = p =>
              \/ Moves(slot_reservations'[q], "active", "expired")
              \/ /\ Offers(p, q)'
                 /\ \E o \in ReservationIds :
                      Ends(p, o)' /\ slot_reservations'[o].slot = slot_reservations'[q].slot
        <4>. SUFFICES ASSUME NEW q \in ReservationIds, slot_reservations'[q].lock = p
                      PROVE  \/ Moves(slot_reservations'[q], "active", "expired")
                             \/ /\ Offers(p, q)'
                                /\ \E o \in ReservationIds : /\ Ends(p, o)'
                                     /\ slot_reservations'[o].slot = slot_reservations'[q].slot
          OBVIOUS
        <4>1. CASE q = f
          BY <2>6, <3>1, <3>2, <4>1
        <4>2. CASE q # f
          BY <2>7, <3>1, <3>2, <4>2
        <4>. QED  BY <4>1, <4>2
      <3>4. \A q \in tx'[p].due : Ends(p, q)'
        <4>1. tx[p].due \in SUBSET ReservationIds
          BY OwnTx DEF Locals
        <4>. QED  BY <2>5, <3>1, <3>2, <4>1
      <3>5. HoldsNoBooking(p)'
        BY <2>4, <3>1, SameHoldings
      <3>6. ExpireHolds(p)'
        BY <2>5, <2>8, <3>3, <3>4, <3>5 DEF ExpireHolds, At
      <3>. QED  BY <2>5, <2>11, <3>6 DEF TxOK, StatementsOf, FirstStatements, WaitsForRow, At
    <2>. QED  BY <1>0, <2>9, <2>10, <2>11
  <1>. QED  BY <1>1, <1>2

-----------------------------------------------------------------------------
(* The end of a transaction. *)

\* What COMMIT and ROLLBACK make of a row.
CommittedRow(x, y, p) ==
    \/ x.lock # p /\ y = x
    \/ /\ x.lock = p /\ y.lock = None /\ y.status = x.pend /\ y.pend = x.pend
       /\ y.user = x.user /\ y.slot = x.slot
UndoneRow(x, y, p) ==
    \/ x.lock # p /\ y = x
    \/ /\ x.lock = p /\ y.lock = None /\ y.status = x.status /\ y.pend = x.status
       /\ x.status # "absent" => SameRow(y, x)

\* What COMMIT does to each row.
LEMMA CommitRows ==
    ASSUME TypeInv, NEW p \in Procs, Commit(p)
    PROVE  /\ tx'[p] = NoTx /\ \A q \in Procs \ {p} : tx'[q] = tx[q]
           /\ \A b \in BookingIds : CommittedRow(bookings[b], bookings'[b], p)
           /\ \A e \in EntryIds : CommittedRow(waitlist_entries[e], waitlist_entries'[e], p)
           /\ \A r \in ReservationIds :
                /\ CommittedRow(slot_reservations[r], slot_reservations'[r], p)
                /\ slot_reservations'[r].entry = slot_reservations[r].entry
  <1>0. /\ tx \in [Procs -> Locals]
        /\ bookings \in [BookingIds -> BookingRow]
        /\ waitlist_entries \in [EntryIds -> EntryRow]
        /\ slot_reservations \in [ReservationIds -> ReservationRow]
    BY DEF TypeInv, TypeOK
  <1>1. tx'[p] = NoTx /\ \A q \in Procs \ {p} : tx'[q] = tx[q]
    BY <1>0 DEF Commit
  <1>2. ASSUME NEW b \in BookingIds  PROVE CommittedRow(bookings[b], bookings'[b], p)
    BY <1>0 DEF Commit, CommittedTable, BookingRow, CommittedRow
  <1>3. ASSUME NEW e \in EntryIds  PROVE CommittedRow(waitlist_entries[e], waitlist_entries'[e], p)
    BY <1>0 DEF Commit, CommittedTable, EntryRow, CommittedRow
  <1>4. ASSUME NEW r \in ReservationIds
        PROVE  /\ CommittedRow(slot_reservations[r], slot_reservations'[r], p)
               /\ slot_reservations'[r].entry = slot_reservations[r].entry
    BY <1>0 DEF Commit, CommittedTable, ReservationRow, CommittedRow
  <1>. QED  BY <1>1, <1>2, <1>3, <1>4

\* What ROLLBACK does to each row.
LEMMA UndoRows ==
    ASSUME TypeInv, NEW p \in Procs, UndoAll(p)
    PROVE  /\ tx'[p] = NoTx /\ \A q \in Procs \ {p} : tx'[q] = tx[q]
           /\ \A b \in BookingIds : UndoneRow(bookings[b], bookings'[b], p)
           /\ \A e \in EntryIds : UndoneRow(waitlist_entries[e], waitlist_entries'[e], p)
           /\ \A r \in ReservationIds :
                /\ UndoneRow(slot_reservations[r], slot_reservations'[r], p)
                /\ slot_reservations[r].status # "absent" =>
                     slot_reservations'[r].entry = slot_reservations[r].entry
  <1>0. /\ tx \in [Procs -> Locals]
        /\ bookings \in [BookingIds -> BookingRow]
        /\ waitlist_entries \in [EntryIds -> EntryRow]
        /\ slot_reservations \in [ReservationIds -> ReservationRow]
    BY DEF TypeInv, TypeOK
  <1>1. tx'[p] = NoTx /\ \A q \in Procs \ {p} : tx'[q] = tx[q]
    BY <1>0 DEF UndoAll
  <1>2. ASSUME NEW b \in BookingIds  PROVE UndoneRow(bookings[b], bookings'[b], p)
    <2>1. NoBooking.status = "absent" /\ NoBooking.pend = "absent" /\ NoBooking.lock = None
      BY DEF NoBooking
    <2>. QED  BY <1>0, <2>1 DEF UndoAll, RolledBackTable, BookingRow, UndoneRow, SameRow
  <1>3. ASSUME NEW e \in EntryIds  PROVE UndoneRow(waitlist_entries[e], waitlist_entries'[e], p)
    <2>1. NoEntry.status = "absent" /\ NoEntry.pend = "absent" /\ NoEntry.lock = None
      BY DEF NoEntry
    <2>. QED  BY <1>0, <2>1 DEF UndoAll, RolledBackTable, EntryRow, UndoneRow, SameRow
  <1>4. ASSUME NEW r \in ReservationIds
        PROVE  /\ UndoneRow(slot_reservations[r], slot_reservations'[r], p)
               /\ slot_reservations[r].status # "absent" =>
                    slot_reservations'[r].entry = slot_reservations[r].entry
    <2>1. /\ NoReservation.status = "absent" /\ NoReservation.pend = "absent"
          /\ NoReservation.lock = None
      BY DEF NoReservation
    <2>. QED  BY <1>0, <2>1 DEF UndoAll, RolledBackTable, ReservationRow, UndoneRow, SameRow
  <1>. QED  BY <1>1, <1>2, <1>3, <1>4

\* COMMIT and ROLLBACK keep the rows in shape, leave p with nothing and the
\* others alone.
LEMMA CommitTx ==
    ASSUME TxInv, NEW p \in Procs, Commit(p)
    PROVE  TxOK(p)' /\ LeavesOthers(p) /\ RowsMove'
  <1>0. RowsMove /\ TypeInv /\ p # None
    BY OwnTx DEF TxInv
  <1>1. HoldsNothing(p)'
    BY <1>0, CommitRows
    DEF CommittedRow, HoldsNothing, HoldsNoBooking, HoldsNoEntry, HoldsNoReservation
  <1>2. TxOK(p)'
    BY <1>0, <1>1, CommitRows DEF TxOK, NoTx, StatementsOf, WaitsForRow, At
  <1>3. LeavesOthers(p)
    BY <1>0, CommitRows DEF CommittedRow, LeavesOthers, RowsMove, BookingMoves, ReservationMoves, Moves
  <1>4. RowsMove'
    BY <1>0, CommitRows DEF CommittedRow, RowsMove, BookingMoves, EntryMoves, ReservationMoves
  <1>. QED  BY <1>2, <1>3, <1>4

\* After it the goroutine holds nothing.
LEMMA UndoTx ==
    ASSUME TxInv, NEW p \in Procs, UndoAll(p)
    PROVE  TxOK(p)' /\ LeavesOthers(p) /\ RowsMove'
  <1>0. RowsMove /\ TypeInv /\ p # None
    BY OwnTx DEF TxInv
  <1>1. HoldsNothing(p)'
    BY <1>0, UndoRows
    DEF UndoneRow, HoldsNothing, HoldsNoBooking, HoldsNoEntry, HoldsNoReservation
  <1>2. TxOK(p)'
    BY <1>0, <1>1, UndoRows DEF TxOK, NoTx, StatementsOf, WaitsForRow, At
  <1>3. LeavesOthers(p)
    BY <1>0, UndoRows DEF UndoneRow, LeavesOthers, SameRow
  <1>4. RowsMove'
    BY <1>0, UndoRows DEF UndoneRow, RowsMove, BookingMoves, EntryMoves, ReservationMoves
  <1>. QED  BY <1>2, <1>3, <1>4

-----------------------------------------------------------------------------
(* How the statements change the rows. *)

\* A statement takes a booking from one status only to one that may follow.
LEMMA BookingsMove ==
    ASSUME TxInv, NEW p \in Procs, Statement(p), NEW b \in BookingIds
    PROVE  BookingMoves(bookings'[b])
  <1>0. bookings \in [BookingIds -> BookingRow] /\ BookingMoves(bookings[b])
    BY OwnTx DEF TxInv, RowsMove
  <1>1. CASE UNCHANGED bookings
    BY <1>0, <1>1
  <1>2. ASSUME NEW c, bookings' = Locked(bookings, c, p)  PROVE BookingMoves(bookings'[b])
    <2>1. bookings'[b].pend = bookings[b].pend /\ bookings'[b].status = bookings[b].status
      BY <1>0, <1>2 DEF Locked, BookingRow
    <2>. QED  BY <1>0, <2>1 DEF BookingMoves, Moves
  <1>3. CASE LockBooking(p) \/ WaitBooking(p)
    BY <1>1, <1>2, <1>3 DEF LockBooking, WaitBooking
  <1>4. CASE UpdateBooking(p) /\ ~UNCHANGED bookings
    <2>1. /\ bookings' = Written(bookings, tx[p].bk, p, "cancelled")
          /\ bookings[tx[p].bk].status = "active"
      BY <1>4 DEF UpdateBooking
    <2>2. CASE b = tx[p].bk
      BY <1>0, <2>1, <2>2 DEF Written, BookingRow, BookingMoves, Moves
    <2>3. CASE b # tx[p].bk
      BY <1>0, <2>1, <2>3 DEF Written
    <2>. QED  BY <2>2, <2>3
  <1>5. CASE InsertBooking(p) /\ ~UNCHANGED bookings
    <2>. DEFINE row == [user |-> tx[p].user, slot |-> tx[p].slot,
                        status |-> "absent", pend |-> "active", lock |-> p]
    <2>1. bookings' = [bookings EXCEPT ![FreshId(bookings)] = row]
      BY <1>5 DEF InsertBooking
    <2>2. BookingMoves(row)
      BY DEF BookingMoves, Moves
    <2>. HIDE DEF row
    <2>. QED  BY <1>0, <2>1, <2>2
  <1>. QED
    BY <1>1, <1>3, <1>4, <1>5
    DEF Statement, CheckReservation, WaitReservation, Claim, ClaimForExpired, InsertReservation,
        InsertEntry, LockReservation, SetConfirmed, SetCancelled, ExpireBatch

\* The same for an entry.
LEMMA EntriesMove ==
    ASSUME TxInv, NEW p \in Procs, Statement(p), NEW e \in EntryIds
    PROVE  EntryMoves(waitlist_entries'[e])
  <1>0. waitlist_entries \in [EntryIds -> EntryRow] /\ EntryMoves(waitlist_entries[e])
    BY OwnTx DEF TxInv, RowsMove
  <1>1. CASE UNCHANGED waitlist_entries
    BY <1>0, <1>1
  <1>2. ASSUME NEW s, NEW t, ClaimNextForNotify(p, s, t), ~UNCHANGED waitlist_entries
        PROVE  EntryMoves(waitlist_entries'[e])
    <2>1. PICK f \in NextEntries(s, p) :
            waitlist_entries' = Written(waitlist_entries, f, p, "notified")
      BY <1>2 DEF ClaimNextForNotify
    <2>2. waitlist_entries[f].status = "active"
      BY DEF NextEntries, Claimable, Waiting
    <2>3. CASE e = f
      BY <1>0, <2>1, <2>2, <2>3 DEF Written, EntryRow, EntryMoves, Moves
    <2>4. CASE e # f
      BY <1>0, <2>1, <2>4 DEF Written
    <2>. QED  BY <2>3, <2>4
  <1>3. CASE InsertEntry(p) /\ ~UNCHANGED waitlist_entries
    <2>. DEFINE row(n) == [user |-> tx[p].user, slot |-> tx[p].slot, position |-> n,
                           status |-> "absent", pend |-> "active", lock |-> p]
    <2>1. PICK n \in NextPositions :
            waitlist_entries' = [waitlist_entries EXCEPT ![FreshId(waitlist_entries)] = row(n)]
      BY <1>3 DEF InsertEntry
    <2>2. EntryMoves(row(n))
      BY DEF EntryMoves, Moves
    <2>. HIDE DEF row
    <2>. QED  BY <1>0, <2>1, <2>2
  <1>4. CASE Claim(p) \/ ClaimForExpired(p)
    BY <1>1, <1>2, <1>4 DEF Claim, ClaimForExpired
  <1>. QED
    BY <1>1, <1>3, <1>4
    DEF Statement, CheckReservation, WaitReservation, InsertBooking, UpdateBooking,
        InsertReservation, LockBooking, WaitBooking, LockReservation, SetConfirmed,
        SetCancelled, ExpireBatch

\* The same for a reservation.
LEMMA ReservationsMove ==
    ASSUME TxInv, NEW p \in Procs, Statement(p), NEW r \in ReservationIds
    PROVE  ReservationMoves(slot_reservations'[r])
  <1>0. /\ slot_reservations \in [ReservationIds -> ReservationRow]
        /\ ReservationMoves(slot_reservations[r])
    BY OwnTx DEF TxInv, RowsMove
  <1>1. CASE UNCHANGED slot_reservations
    BY <1>0, <1>1
  <1>2. ASSUME NEW q, slot_reservations' = Locked(slot_reservations, q, p)
        PROVE  ReservationMoves(slot_reservations'[r])
    <2>1. /\ slot_reservations'[r].pend = slot_reservations[r].pend
          /\ slot_reservations'[r].status = slot_reservations[r].status
      BY <1>0, <1>2 DEF Locked, ReservationRow
    <2>. QED  BY <1>0, <2>1 DEF ReservationMoves, Moves
  <1>3. CASE CheckReservation(p) \/ WaitReservation(p) \/ LockReservation(p)
    BY <1>1, <1>2, <1>3 DEF CheckReservation, WaitReservation, LockReservation
  <1>4. CASE (SetConfirmed(p) \/ SetCancelled(p)) /\ ~UNCHANGED slot_reservations
    <2>1. PICK st \in {"confirmed", "cancelled"} :
            slot_reservations' = Written(slot_reservations, tx[p].rv, p, st)
      BY <1>4 DEF SetConfirmed, SetCancelled, SetReservation
    <2>2. slot_reservations[tx[p].rv].status = "active"
      BY <1>4, OwnTx, UseCaseOf
      DEF SetConfirmed, SetCancelled, TxOK, ConfirmHolds, CancelResHolds, Moves, At
    <2>3. CASE r = tx[p].rv
      BY <1>0, <2>1, <2>2, <2>3 DEF Written, ReservationRow, ReservationMoves
    <2>4. CASE r # tx[p].rv
      BY <1>0, <2>1, <2>4 DEF Written
    <2>. QED  BY <2>3, <2>4
  <1>5. CASE InsertReservation(p) /\ ~UNCHANGED slot_reservations
    <2>. DEFINE row == [user |-> waitlist_entries[tx[p].en].user, slot |-> tx[p].slot,
                        entry |-> tx[p].en, expires_at |-> ExpiresAt(tx[p]),
                        status |-> "absent", pend |-> "active", lock |-> p]
    <2>1. slot_reservations' = [slot_reservations EXCEPT ![FreshId(slot_reservations)] = row]
      BY <1>5 DEF InsertReservation
    <2>2. ReservationMoves(row)
      BY DEF ReservationMoves, Moves
    <2>. HIDE DEF row
    <2>. QED  BY <1>0, <2>1, <2>2
  <1>6. CASE ExpireBatch(p)
    <2>1. PICK batch \in Batches(p) :
            slot_reservations' = [q \in ReservationIds |->
               IF q \in batch THEN [slot_reservations[q] EXCEPT !.pend = "expired", !.lock = p]
                              ELSE slot_reservations[q]]
      BY <1>6 DEF ExpireBatch
    <2>2. r \in batch => slot_reservations[r].status = "active"
      BY DEF Batches, FirstOf, Due
    <2>. QED  BY <1>0, <2>1, <2>2 DEF ReservationRow, ReservationMoves
  <1>. QED
    BY <1>1, <1>3, <1>4, <1>5, <1>6
    DEF Statement, InsertBooking, UpdateBooking, Claim, ClaimForExpired, LockBooking, WaitBooking,
        InsertEntry

-----------------------------------------------------------------------------
(* The invariant. *)

\* Every statement, for the transaction that executes it.
LEMMA StatementTx ==
    ASSUME TxInv, NEW p \in Procs, Statement(p)
    PROVE  TxOK(p)'
  BY CheckReservationTx, InsertBookingTx, UpdateBookingTx, ClaimTx, ClaimForExpiredTx,
     InsertReservationTx, LockBookingTx, InsertEntryTx, LockReservationTx, SetConfirmedTx,
     SetCancelledTx, ExpireBatchTx
  DEF Statement

\* A BEGIN changes no row but the one that LeaveWaitlist cancels.
LEMMA StartMoves ==
    ASSUME TxInv, NEW p \in Procs, Request(p) \/ StartExpire(p)
    PROVE  RowsMove'
  <1>0. waitlist_entries \in [EntryIds -> EntryRow] /\ RowsMove
    BY OwnTx DEF TxInv
  <1>1. CASE UNCHANGED <<bookings, waitlist_entries, slot_reservations>>
    BY <1>0, <1>1 DEF RowsMove
  <1>2. ASSUME NEW u \in Users, NEW e \in EntryIds, LeaveWaitlist(p, u, e)
        PROVE  RowsMove'
    <2>1. waitlist_entries[e].status \in {"active", "notified"}
          /\ waitlist_entries' = Written(waitlist_entries, e, p, "cancelled")
          /\ UNCHANGED <<bookings, slot_reservations>>
      BY <1>2 DEF LeaveWaitlist
    <2>2. EntryMoves(waitlist_entries'[e])
      BY <1>0, <2>1 DEF Written, EntryRow, EntryMoves
    <2>3. \A f \in EntryIds \ {e} : waitlist_entries'[f] = waitlist_entries[f]
      BY <1>0, <2>1 DEF Written
    <2>. QED  BY <1>0, <2>1, <2>2, <2>3 DEF RowsMove
  <1>. QED
    BY <1>1, <1>2
    DEF Request, StartCreate, StartJoin, StartCancel, StartConfirm, StartCancelReservation,
        StartOnReservation, StartExpire, tables

\* There are no rows at the start.
LEMMA InitTxInv == Init => TxInv
  <1>. SUFFICES ASSUME Init PROVE TxInv
    OBVIOUS
  <1>1. IndexInv
    BY InitIndexInv
  <1>2. RowsMove
    BY DEF Init, RowsMove, BookingMoves, EntryMoves, ReservationMoves, NoBooking, NoEntry,
           NoReservation
  <1>3. ASSUME NEW p \in Procs  PROVE TxOK(p)
    <2>1. tx[p].op = "none" /\ tx[p].at_stmt = "idle"
      BY DEF Init, NoTx
    <2>2. HoldsNothing(p)
      BY ConstantsAssumption
      DEF Init, NoBooking, NoEntry, NoReservation, HoldsNothing, HoldsNoBooking, HoldsNoEntry,
          HoldsNoReservation
    <2>. QED  BY <2>1, <2>2 DEF TxOK, StatementsOf, WaitsForRow, At
  <1>. QED  BY <1>1, <1>2, <1>3 DEF TxInv

\* What a step of p has to show.
LEMMA StepTxInv ==
    ASSUME TxInv, IndexInv', RowsMove', NEW p \in Procs, TxOK(p)', LeavesOthers(p)
    PROVE  TxInv'
  BY OthersKeepTx DEF TxInv, IndexInv

\* TxInv does not depend on the clock or on the history variables.
LEMMA SameTxInv ==
    ASSUME TxInv, IndexInv', UNCHANGED <<bookings, waitlist_entries, slot_reservations, tx>>
    PROVE  TxInv'
  <1>1. RowsMove'
    BY DEF TxInv, RowsMove
  <1>2. LeavesOthers(None) /\ None \notin Procs
    BY ConstantsAssumption DEF LeavesOthers
  <1>. QED  BY <1>1, <1>2, OthersKeepTx DEF TxInv, IndexInv

\* TxInv is inductive.
LEMMA NextTxInv == TxInv /\ [Next]_vars => TxInv'
  <1>. SUFFICES ASSUME TxInv, [Next]_vars PROVE TxInv'
    OBVIOUS
  <1>0. IndexInv'
    BY NextIndexInv DEF TxInv
  <1>1. ASSUME NEW p \in Procs, Request(p) \/ StartExpire(p)  PROVE TxInv'
    BY <1>0, <1>1, StartTx, StartMoves, StepTxInv
  <1>2. ASSUME NEW p \in Procs, Statement(p)  PROVE TxInv'
    <2>1. RowsMove'
      BY <1>2, BookingsMove, EntriesMove, ReservationsMove DEF RowsMove
    <2>2. LeavesOthers(p)
      BY <1>2, OwnTx, StatementTouchesRows, TouchesLeavesOthers
    <2>. QED  BY <1>0, <1>2, <2>1, <2>2, StatementTx, StepTxInv
  <1>3. ASSUME NEW p \in Procs, Commit(p)  PROVE TxInv'
    BY <1>0, <1>3, CommitTx, StepTxInv
  <1>4. ASSUME NEW p \in Procs, Rollback(p) \/ Abort(p)  PROVE TxInv'
    BY <1>0, <1>4, UndoTx, StepTxInv DEF Rollback, Abort
  <1>5. CASE Tick \/ UNCHANGED vars
    BY <1>0, <1>5, SameTxInv DEF Tick, tables, vars
  <1>. QED  BY <1>1, <1>2, <1>3, <1>4, <1>5 DEF Next, Procs

\* TxInv always holds.
LEMMA AlwaysTxInv == Spec => []TxInv
  BY InitTxInv, NextTxInv, PTL DEF Spec

-----------------------------------------------------------------------------
(* Deadlock.  A transaction that is blocked is blocked by one that is      *)
(* further on: reservations are locked first, then bookings, then entries, *)
(* then the index of reservations.                                         *)

LockOrder(p) ==
    CASE tx[p].at_stmt \in {"waitReservation", "lockReservation"} -> 0
      [] tx[p].at_stmt \in {"waitBooking", "updateBooking", "insertBooking"} -> 1
      [] tx[p].at_stmt = "insertEntry" -> 2
      [] tx[p].at_stmt = "insertReservation" /\ tx[p].op = "cancel" -> 3
      [] OTHER -> 4

\* Who may hold rows of which table, by the place in the order.
LEMMA HoldersOrder ==
    ASSUME TxInv, NEW q \in Procs
    PROVE  /\ LockOrder(q) \in 0..4
           /\ LockOrder(q) = 0 => HoldsNothing(q)
           /\ LockOrder(q) = 1 => HoldsNoBooking(q) /\ HoldsNoEntry(q)
           /\ LockOrder(q) = 2 => HoldsNoEntry(q)
           /\ LockOrder(q) \in 1..3 =>
                \A r \in ReservationIds : slot_reservations[r].lock = q =>
                    slot_reservations[r].pend = slot_reservations[r].status
  <1>0. TxOK(q) /\ tx[q].op \in Ops /\ tx[q].at_stmt \in StatementsOf(tx[q].op)
    BY OwnTx DEF TxOK
  <1>1. CASE tx[q].at_stmt \in {"waitReservation", "lockReservation"}
    <2>1. LockOrder(q) = 0
      BY <1>1 DEF LockOrder
    <2>. QED  BY <1>0, <1>1, <2>1 DEF TxOK, FirstStatements
  <1>2. CASE tx[q].at_stmt \in {"waitBooking", "updateBooking", "insertBooking"}
    <2>1. LockOrder(q) = 1
      BY <1>2 DEF LockOrder
    <2>2. /\ HoldsNoBooking(q) /\ HoldsNoEntry(q)
          /\ HoldsNoReservation(q) \/ tx[q].op = "confirm"
      <3>1. CASE tx[q].at_stmt = "updateBooking"
        BY <1>0, <3>1 DEF TxOK, FirstStatements, HoldsNothing
      <3>2. CASE tx[q].at_stmt \in {"waitBooking", "insertBooking"}
        BY <1>0, <3>2, UseCaseOf DEF TxOK, CreateHolds, JoinHolds, ConfirmHolds, HoldsNothing, At
      <3>. QED  BY <1>2, <3>1, <3>2
    <2>3. ASSUME NEW r \in ReservationIds, slot_reservations[r].lock = q
          PROVE  slot_reservations[r].pend = slot_reservations[r].status
      <3>1. tx[q].op = "confirm" /\ ConfirmHolds(q) /\ tx[q].at_stmt # "updateBooking"
        BY <1>0, <2>2, <2>3, UseCaseOf DEF TxOK, HoldsNoReservation
      <3>2. OnlyReservation(q, tx[q].rv) /\ Moves(slot_reservations[tx[q].rv], "active", "active")
        BY <1>2, <3>1 DEF ConfirmHolds, At
      <3>. QED  BY <2>3, <3>2 DEF OnlyReservation, Moves
    <2>. QED  BY <2>1, <2>2, <2>3
  <1>3. CASE tx[q].at_stmt = "insertEntry"
    <2>1. LockOrder(q) = 2
      BY <1>3 DEF LockOrder
    <2>. QED
      BY <1>0, <1>3, <2>1, UseCaseOf DEF TxOK, JoinHolds, HoldsNoReservation, At
  <1>4. CASE tx[q].at_stmt = "insertReservation" /\ tx[q].op = "cancel"
    <2>1. LockOrder(q) = 3
      BY <1>4 DEF LockOrder
    <2>. QED  BY <1>0, <1>4, <2>1 DEF TxOK, CancelHolds, HoldsNoReservation, At
  <1>5. CASE /\ tx[q].at_stmt \notin {"waitReservation", "lockReservation", "waitBooking",
                                      "updateBooking", "insertBooking", "insertEntry"}
             /\ ~(tx[q].at_stmt = "insertReservation" /\ tx[q].op = "cancel")
    <2>1. LockOrder(q) = 4
      BY <1>5 DEF LockOrder
    <2>. QED  BY <2>1
  <1>. QED  BY <1>1, <1>2, <1>3, <1>4, <1>5

\* CancelReservation and ExpireDue insert where they have ended a reservation of
\* their own, so nobody else can be about to insert one.
LEMMA SuccessorUnblocked ==
    ASSUME TxInv, NEW p \in Procs, At(p, "insertReservation"), tx[p].op # "cancel"
    PROVE  Awaited(slot_reservations, ReservationsOf(tx[p].slot), p, {"active"}) = {}
  <1>1. PICK o \in ReservationIds :
          /\ slot_reservations[o].lock = p /\ slot_reservations[o].status = "active"
          /\ slot_reservations[o].slot = tx[p].slot
    <2>0. TxOK(p) /\ tx[p].op \in {"cancelRes", "expire"}
      BY OwnTx, UseCaseOf DEF TxOK, At
    <2>1. CASE tx[p].op = "cancelRes"
      BY <2>0, <2>1 DEF TxOK, CancelResHolds, Moves, At
    <2>2. CASE tx[p].op = "expire"
      <3>1. PICK o \in ReservationIds : Ends(p, o) /\ slot_reservations[o].slot = tx[p].slot
        BY <2>0, <2>2 DEF TxOK, ExpireHolds, At
      <3>2. slot_reservations[o].status = "active"
        BY <2>0, <2>2, <3>1 DEF TxOK, ExpireHolds, Ends, Offers, Moves, At
      <3>. QED  BY <3>1, <3>2 DEF Ends
    <2>. QED  BY <2>0, <2>1, <2>2
  <1>2. ASSUME NEW r \in Awaited(slot_reservations, ReservationsOf(tx[p].slot), p, {"active"})
        PROVE  FALSE
    <2>1. /\ r \in ReservationIds /\ slot_reservations[r].slot = tx[p].slot
          /\ slot_reservations[r].lock # p
          /\ slot_reservations[r].status = "active" \/ slot_reservations[r].pend = "active"
      BY DEF Awaited, ReservationsOf, InProgress
    <2>2. ReservationKey[r] = ReservationKey[o] /\ r # o
      BY <1>1, <2>1 DEF ReservationKey
    <2>3. IndexProtected(ReservationIds, slot_reservations, ReservationKey, {"active"})
      BY DEF TxInv, IndexInv, IndexesProtected, ReservationIndex
    <2>. QED  BY <1>1, <2>1, <2>2, <2>3 DEF IndexProtected
  <1>. QED  BY <1>2

\* Whoever blocks p comes after p in the order.
LEMMA BlockersAreAhead ==
    ASSUME TxInv, NEW p \in Procs, NEW q \in Blockers(p)
    PROVE  q \in Procs => LockOrder(q) > LockOrder(p)
  <1>. SUFFICES ASSUME q \in Procs  PROVE LockOrder(q) > LockOrder(p)
    OBVIOUS
  <1>0. LockOrder(q) \in 0..4 /\ TxOK(p)
    BY HoldersOrder, OwnTx
  <1>1. CASE tx[p].at_stmt \in {"waitReservation", "lockReservation"}
    <2>1. tx[p].rv \in ReservationIds
      BY <1>0, <1>1 DEF TxOK, WaitsForRow, At
    <2>2. q = slot_reservations[tx[p].rv].lock
      BY <1>1 DEF Blockers
    <2>3. LockOrder(p) = 0 /\ ~HoldsNothing(q)
      BY <1>1, <2>1, <2>2 DEF LockOrder, HoldsNothing, HoldsNoReservation
    <2>. QED  BY <1>0, <2>3, HoldersOrder
  <1>2. CASE tx[p].at_stmt \in {"waitBooking", "updateBooking", "insertBooking"}
    <2>1. \E b \in BookingIds : q = bookings[b].lock
      <3>1. CASE tx[p].at_stmt = "insertBooking"
        BY <3>1 DEF Blockers, Awaited, BookingsOf
      <3>2. CASE tx[p].at_stmt \in {"waitBooking", "updateBooking"}
        <4>1. tx[p].bk \in BookingIds
          BY <1>0, <3>2, OwnTx, UseCaseOf DEF TxOK, WaitsForRow, CancelHolds, At
        <4>2. q = bookings[tx[p].bk].lock
          BY <3>2 DEF Blockers
        <4>. QED  BY <4>1, <4>2
      <3>. QED  BY <1>2, <3>1, <3>2
    <2>2. LockOrder(p) = 1 /\ ~HoldsNoBooking(q)
      BY <1>2, <2>1 DEF LockOrder, HoldsNoBooking
    <2>. QED  BY <1>0, <2>2, HoldersOrder DEF HoldsNothing
  <1>3. CASE tx[p].at_stmt = "insertEntry"
    <2>1. \E e \in EntryIds : q = waitlist_entries[e].lock
      BY <1>3 DEF Blockers, Awaited, EntriesOf
    <2>2. LockOrder(p) = 2 /\ ~HoldsNoEntry(q)
      BY <1>3, <2>1 DEF LockOrder, HoldsNoEntry
    <2>. QED  BY <1>0, <2>2, HoldersOrder DEF HoldsNothing
  <1>4. CASE tx[p].at_stmt = "insertReservation"
    <2>1. PICK r \in Awaited(slot_reservations, ReservationsOf(tx[p].slot), p, {"active"}) :
            q = slot_reservations[r].lock
      BY <1>4 DEF Blockers
    <2>2. LockOrder(p) = 3
      BY <1>4, <2>1, SuccessorUnblocked DEF LockOrder, At
    <2>3. /\ r \in ReservationIds /\ slot_reservations[r].pend # slot_reservations[r].status
          /\ ~HoldsNothing(q)
      BY <2>1 DEF Awaited, InProgress, ReservationsOf, HoldsNothing, HoldsNoReservation
    <2>. QED  BY <1>0, <2>1, <2>2, <2>3, HoldersOrder
  <1>5. tx[p].at_stmt \in {"waitReservation", "lockReservation", "waitBooking", "updateBooking",
                           "insertBooking", "insertEntry", "insertReservation"}
    BY DEF Blockers
  <1>. QED  BY <1>1, <1>2, <1>3, <1>4, <1>5

\* NoDeadlock: the transactions of CreateBooking, CancelBooking, JoinWaitlist,
\* LeaveWaitlist, ConfirmReservation, CancelReservation and ExpireDue never wait
\* for each other in a circle, however many of them run.
THEOREM NeverDeadlocked == Spec => []NoDeadlock
  <1>1. TxInv => NoDeadlock
    <2>. SUFFICES ASSUME TxInv, NEW set \in (SUBSET Procs) \ {{}},
                         ~\E p \in set : Blockers(p) \intersect set = {}
                  PROVE  FALSE
      BY Zenon DEF NoDeadlock
    <2>1. ASSUME NEW p \in set
          PROVE  \E q \in set : LockOrder(q) > LockOrder(p)
      BY BlockersAreAhead
    <2>2. \A p \in set : LockOrder(p) \in 0..4
      BY HoldersOrder
    <2>3. PICK p0 \in set : LockOrder(p0) >= 0
      BY <2>2
    <2>4. PICK p1 \in set : LockOrder(p1) >= 1
      BY <2>1, <2>2, <2>3
    <2>5. PICK p2 \in set : LockOrder(p2) >= 2
      BY <2>1, <2>2, <2>4
    <2>6. PICK p3 \in set : LockOrder(p3) >= 3
      BY <2>1, <2>2, <2>5
    <2>7. PICK p4 \in set : LockOrder(p4) >= 4
      BY <2>1, <2>2, <2>6
    <2>8. PICK p5 \in set : LockOrder(p5) > LockOrder(p4)
      BY <2>1
    <2>9. LockOrder(p4) \in 0..4 /\ LockOrder(p5) \in 0..4
      BY <2>2
    <2>. QED  BY <2>7, <2>8, <2>9
  <1>. QED  BY <1>1, AlwaysTxInv, PTL
=============================================================================
