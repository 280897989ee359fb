--------------------------- MODULE SlotLedgerProofs ---------------------------
(***************************************************************************)
(* SlotBooking implements SlotLedger: the committed rows change as if      *)
(* every use case were a single step.                                      *)
(*                                                                         *)
(* Statements and rollbacks leave the committed rows alone (they stutter). *)
(* COMMIT is a step of the ledger: TxInv says, use case by use case, which *)
(* rows the transaction holds and what it has written into them, and the   *)
(* unique indexes say that nobody else has got in between.                 *)
(***************************************************************************)
EXTENDS SlotTransactionProofs

\* The committed rows, column by column.
LEMMA CommittedFields ==
    /\ \A b \in BookingIds :
         /\ CommittedBookings[b].status = bookings[b].status
         /\ bookings[b].status # "absent" =>
              /\ CommittedBookings[b].user = bookings[b].user
              /\ CommittedBookings[b].slot = bookings[b].slot
    /\ \A e \in EntryIds :
         /\ CommittedEntries[e].status = waitlist_entries[e].status
         /\ waitlist_entries[e].status # "absent" =>
              /\ CommittedEntries[e].user = waitlist_entries[e].user
              /\ CommittedEntries[e].slot = waitlist_entries[e].slot
    /\ \A r \in ReservationIds :
         /\ CommittedReservations[r].status = slot_reservations[r].status
         /\ slot_reservations[r].status # "absent" =>
              /\ CommittedReservations[r].user = slot_reservations[r].user
              /\ CommittedReservations[r].slot = slot_reservations[r].slot
              /\ CommittedReservations[r].entry = slot_reservations[r].entry
  BY DEF CommittedBookings, CommittedEntries, CommittedReservations, Shown

-----------------------------------------------------------------------------
(* Steps that the ledger does not see. *)

\* The committed part of a row is the same.
SameShown(x, y) == y.status = x.status /\ (x.status # "absent" => SameRow(y, x))

\* A table whose committed columns stay is the same to the ledger.
LEMMA SameBookings ==
    ASSUME \A b \in BookingIds : SameShown(bookings[b], bookings'[b])
    PROVE  UNCHANGED CommittedBookings
  BY DEF SameShown, SameRow, CommittedBookings, Shown

\* The same for entries.
LEMMA SameEntries ==
    ASSUME \A e \in EntryIds : SameShown(waitlist_entries[e], waitlist_entries'[e])
    PROVE  UNCHANGED CommittedEntries
  BY DEF SameShown, SameRow, CommittedEntries, Shown

\* The same for reservations, which also refer to an entry.
LEMMA SameReservations ==
    ASSUME \A r \in ReservationIds :
             /\ SameShown(slot_reservations[r], slot_reservations'[r])
             /\ slot_reservations[r].status # "absent" =>
                  slot_reservations'[r].entry = slot_reservations[r].entry
    PROVE  UNCHANGED CommittedReservations
  BY DEF SameShown, SameRow, CommittedReservations, Shown

\* A statement writes pending statuses and new rows only.
LEMMA StatementStutters ==
    ASSUME TxInv, NEW p \in Procs, Statement(p)
    PROVE  UNCHANGED Ledger!vars
  <1>1. StatementTouches(p)
    BY OwnTx, StatementTouchesRows
  <1>2. UNCHANGED CommittedBookings
    BY <1>1, SameBookings DEF StatementTouches, BookingsTouched, Touched, SameShown, SameRow
  <1>3. UNCHANGED CommittedEntries
    BY <1>1, SameEntries DEF StatementTouches, EntriesTouched, Touched, SameShown, SameRow
  <1>4. UNCHANGED CommittedReservations
    BY <1>1, SameReservations DEF StatementTouches, ReservationsTouched, Touched, SameShown, SameRow
  <1>. QED  BY <1>2, <1>3, <1>4 DEF Ledger!vars

\* ROLLBACK takes away what was never committed.
LEMMA UndoStutters ==
    ASSUME TxInv, NEW p \in Procs, UndoAll(p)
    PROVE  UNCHANGED Ledger!vars
  <1>0. TypeInv
    BY OwnTx
  <1>1. UNCHANGED CommittedBookings
    BY <1>0, UndoRows, SameBookings DEF UndoneRow, SameShown, SameRow
  <1>2. UNCHANGED CommittedEntries
    BY <1>0, UndoRows, SameEntries DEF UndoneRow, SameShown, SameRow
  <1>3. UNCHANGED CommittedReservations
    BY <1>0, UndoRows, SameReservations DEF UndoneRow, SameShown, SameRow
  <1>. QED  BY <1>1, <1>2, <1>3 DEF Ledger!vars

\* A use case that begins has committed nothing.
LEMMA StartStutters ==
    ASSUME TxInv, NEW p \in Procs, Request(p) \/ StartExpire(p)
    PROVE  UNCHANGED Ledger!vars
  <1>0. waitlist_entries \in [EntryIds -> EntryRow]
    BY OwnTx
  <1>1. UNCHANGED <<bookings, slot_reservations>>
    BY DEF Request, StartExpire, StartCreate, StartJoin, StartCancel, LeaveWaitlist, StartConfirm,
           StartCancelReservation, StartOnReservation, tables
  <1>2. \A e \in EntryIds : SameShown(waitlist_entries[e], waitlist_entries'[e])
    <2>1. CASE UNCHANGED waitlist_entries
      BY <2>1 DEF SameShown, SameRow
    <2>2. ASSUME NEW u \in Users, NEW f \in EntryIds, LeaveWaitlist(p, u, f)
          PROVE  \A e \in EntryIds : SameShown(waitlist_entries[e], waitlist_entries'[e])
      BY <1>0, <2>2 DEF LeaveWaitlist, Written, EntryRow, SameShown, SameRow
    <2>. QED
      BY <2>1, <2>2
      DEF Request, StartExpire, StartCreate, StartJoin, StartCancel, StartConfirm,
          StartCancelReservation, StartOnReservation, tables
  <1>3. UNCHANGED CommittedEntries
    BY <1>2, SameEntries
  <1>. QED  BY <1>1, <1>3 DEF Ledger!vars, CommittedBookings, CommittedReservations

-----------------------------------------------------------------------------
(* COMMIT, use case by use case. *)

\* A table of which p holds no row is left alone by p's COMMIT.
LEMMA CommitStutters ==
    ASSUME TxInv, NEW p \in Procs, Commit(p)
    PROVE  /\ HoldsNoBooking(p) => UNCHANGED CommittedBookings
           /\ HoldsNoEntry(p) => UNCHANGED CommittedEntries
           /\ HoldsNoReservation(p) => UNCHANGED CommittedReservations
  <1>0. TypeInv
    BY OwnTx
  <1>1. ASSUME HoldsNoBooking(p)  PROVE UNCHANGED CommittedBookings
    BY <1>0, <1>1, CommitRows, SameBookings DEF CommittedRow, HoldsNoBooking, SameShown, SameRow
  <1>2. ASSUME HoldsNoEntry(p)  PROVE UNCHANGED CommittedEntries
    BY <1>0, <1>2, CommitRows, SameEntries DEF CommittedRow, HoldsNoEntry, SameShown, SameRow
  <1>3. ASSUME HoldsNoReservation(p)  PROVE UNCHANGED CommittedReservations
    BY <1>0, <1>3, CommitRows, SameReservations
    DEF CommittedRow, HoldsNoReservation, SameShown, SameRow
  <1>. QED  BY <1>1, <1>2, <1>3

\* A booking that p alone has inserted appears, in a slot that was not booked.
LEMMA BookingAppears ==
    ASSUME TxInv, NEW p \in Procs, Commit(p), NEW b \in BookingIds, OnlyBooking(p, b),
           Moves(bookings[b], "absent", "active"), NEW u, NEW s,
           u = bookings[b].user, s = bookings[b].slot
    PROVE  Ledger!InsertBooking(u, s)
  <1>0. TypeInv /\ bookings \in [BookingIds -> BookingRow] /\ p # None
    BY OwnTx
  <1>1. ~Ledger!Booked(s)
    <2>. SUFFICES ASSUME NEW c \in BookingIds, CommittedBookings[c].slot = s,
                         CommittedBookings[c].status = "active"
                  PROVE  FALSE
      BY DEF Ledger!Booked
    <2>1. bookings[c].status = "active" /\ bookings[c].slot = s
      BY CommittedFields
    <2>2. c # b /\ BookingKey[c] = BookingKey[b]
      BY <2>1 DEF Moves, BookingKey
    <2>3. IndexProtected(BookingIds, bookings, BookingKey, {"active"})
      BY DEF TxInv, IndexInv, IndexesProtected, BookingIndex
    <2>4. bookings[c].lock = bookings[b].lock
      BY <2>1, <2>2, <2>3 DEF IndexProtected, Moves
    <2>. QED  BY <2>2, <2>4 DEF OnlyBooking
  <1>2. CommittedBookings[b].status = "absent"
    BY CommittedFields DEF Moves
  <1>3. CommittedBookings' =
          [CommittedBookings EXCEPT ![b] = [user |-> u, slot |-> s, status |-> "active"]]
    <2>1. /\ bookings'[b].user = u /\ bookings'[b].slot = s /\ bookings'[b].status = "active"
          /\ \A c \in BookingIds \ {b} : bookings'[c] = bookings[c]
      BY <1>0, CommitRows DEF CommittedRow, OnlyBooking, Moves
    <2>. QED  BY <2>1 DEF CommittedBookings, Shown
  <1>. QED  BY <1>1, <1>2, <1>3 DEF Ledger!InsertBooking

\* The COMMIT of CreateBooking is the ledger's CreateBooking.
LEMMA CreateCommits ==
    ASSUME TxInv, NEW p \in Procs, Commit(p), tx[p].op = "create"
    PROVE  \E u \in Users, s \in Slots : Ledger!CreateBooking(u, s)
  <1>0. CreateHolds(p) /\ At(p, "commit")
    BY OwnTx DEF TxOK, Commit
  <1>1. PICK b \in BookingIds : OnlyBooking(p, b) /\ Moves(bookings[b], "absent", "active")
                                /\ bookings[b].user \in Users /\ bookings[b].slot \in Slots
    BY <1>0 DEF CreateHolds
  <1>2. PICK u \in Users, s \in Slots : u = bookings[b].user /\ s = bookings[b].slot
    BY <1>1
  <1>3. Ledger!InsertBooking(u, s)
    BY <1>1, <1>2, BookingAppears
  <1>4. UNCHANGED <<CommittedEntries, CommittedReservations>>
    BY <1>0, CommitStutters DEF CreateHolds
  <1>. QED  BY <1>3, <1>4 DEF Ledger!CreateBooking

\* That of ConfirmReservation: booking and terminal status at once.
LEMMA ConfirmCommits ==
    ASSUME TxInv, NEW p \in Procs, Commit(p), tx[p].op = "confirm"
    PROVE  \E r \in ReservationIds : Ledger!ConfirmReservation(r)
  <1>0. ConfirmHolds(p) /\ At(p, "commit") /\ TypeInv
    BY OwnTx DEF TxOK, Commit
  <1>1. PICK r \in ReservationIds, b \in BookingIds :
          /\ OnlyReservation(p, r) /\ Moves(slot_reservations[r], "active", "confirmed")
          /\ OnlyBooking(p, b) /\ Moves(bookings[b], "absent", "active")
          /\ bookings[b].user = slot_reservations[r].user
          /\ bookings[b].slot = slot_reservations[r].slot
    BY <1>0 DEF ConfirmHolds
  <1>2. /\ CommittedReservations[r].status = "active"
        /\ CommittedReservations[r].user = bookings[b].user
        /\ CommittedReservations[r].slot = bookings[b].slot
    BY <1>1, CommittedFields DEF Moves
  <1>3. Ledger!InsertBooking(CommittedReservations[r].user, CommittedReservations[r].slot)
    <2>1. PICK u, s : u = bookings[b].user /\ s = bookings[b].slot
      OBVIOUS
    <2>2. Ledger!InsertBooking(u, s)
      BY <1>1, <2>1, BookingAppears
    <2>. QED  BY <1>2, <2>1, <2>2
  <1>4. CommittedReservations' = [CommittedReservations EXCEPT ![r].status = "confirmed"]
    <2>1. /\ slot_reservations'[r].user = slot_reservations[r].user
          /\ slot_reservations'[r].slot = slot_reservations[r].slot
          /\ slot_reservations'[r].entry = slot_reservations[r].entry
          /\ slot_reservations'[r].status = "confirmed" /\ slot_reservations[r].status = "active"
          /\ \A q \in ReservationIds \ {r} : slot_reservations'[q] = slot_reservations[q]
      BY <1>0, <1>1, CommitRows DEF CommittedRow, OnlyReservation, Moves
    <2>. QED  BY <2>1 DEF CommittedReservations, Shown
  <1>5. UNCHANGED CommittedEntries
    BY <1>0, CommitStutters DEF ConfirmHolds
  <1>. QED  BY <1>2, <1>3, <1>4, <1>5 DEF Ledger!ConfirmReservation

\* That of JoinWaitlist: the booking it locked is still active.
LEMMA JoinCommits ==
    ASSUME TxInv, NEW p \in Procs, Commit(p), tx[p].op = "join"
    PROVE  \E u \in Users, s \in Slots : Ledger!JoinWaitlist(u, s)
  <1>0. JoinHolds(p) /\ At(p, "commit") /\ TypeInv
    BY OwnTx DEF TxOK, Commit
  <1>1. PICK b \in BookingIds, e \in EntryIds :
          /\ OnlyBooking(p, b) /\ Moves(bookings[b], "active", "active")
          /\ OnlyEntry(p, e) /\ Moves(waitlist_entries[e], "absent", "active")
          /\ waitlist_entries[e].user \in Users /\ waitlist_entries[e].slot \in Slots
          /\ bookings[b].slot = waitlist_entries[e].slot
          /\ bookings[b].user # waitlist_entries[e].user
    BY <1>0 DEF JoinHolds
  <1>2. PICK u \in Users, s \in Slots : u = waitlist_entries[e].user /\ s = waitlist_entries[e].slot
    BY <1>1
  <1>3. ~Ledger!InQueue(s, u)
    <2>. SUFFICES ASSUME NEW f \in EntryIds, CommittedEntries[f].slot = s,
                         CommittedEntries[f].user = u,
                         CommittedEntries[f].status \in {"active", "notified"}
                  PROVE  FALSE
      BY DEF Ledger!InQueue
    <2>1. /\ waitlist_entries[f].status \in {"active", "notified"}
          /\ waitlist_entries[f].slot = s /\ waitlist_entries[f].user = u
      BY CommittedFields
    <2>2. f # e /\ EntryKey[f] = EntryKey[e]
      BY <1>1, <1>2, <2>1 DEF Moves, EntryKey
    <2>3. IndexProtected(EntryIds, waitlist_entries, EntryKey, {"active", "notified"})
      BY DEF TxInv, IndexInv, IndexesProtected, EntryIndex
    <2>4. waitlist_entries[f].lock = waitlist_entries[e].lock
      BY <1>1, <2>1, <2>2, <2>3 DEF IndexProtected, Moves
    <2>. QED  BY <1>1, <2>2, <2>4 DEF OnlyEntry
  <1>4. /\ CommittedBookings[b].slot = s /\ CommittedBookings[b].status = "active"
        /\ CommittedBookings[b].user # u /\ CommittedEntries[e].status = "absent"
    BY <1>1, <1>2, CommittedFields DEF Moves
  <1>5. CommittedEntries' =
          [CommittedEntries EXCEPT ![e] = [user |-> u, slot |-> s, status |-> "active"]]
    <2>1. /\ waitlist_entries'[e].user = u /\ waitlist_entries'[e].slot = s
          /\ waitlist_entries'[e].status = "active"
          /\ \A f \in EntryIds \ {e} : waitlist_entries'[f] = waitlist_entries[f]
      BY <1>0, <1>1, <1>2, CommitRows DEF CommittedRow, OnlyEntry, Moves
    <2>. QED  BY <2>1 DEF CommittedEntries, Shown
  <1>6. UNCHANGED CommittedReservations
    BY <1>0, CommitStutters DEF JoinHolds
  <1>7. UNCHANGED CommittedBookings
    BY <1>0, <1>1, CommitRows, SameBookings DEF CommittedRow, OnlyBooking, Moves, SameShown, SameRow
  <1>. QED  BY <1>3, <1>4, <1>5, <1>6, <1>7 DEF Ledger!JoinWaitlist

\* That of LeaveWaitlist.
LEMMA LeaveCommits ==
    ASSUME TxInv, NEW p \in Procs, Commit(p), tx[p].op = "leave"
    PROVE  \E e \in EntryIds : Ledger!LeaveWaitlist(e)
  <1>0. LeaveHolds(p) /\ TypeInv
    BY OwnTx DEF TxOK
  <1>1. PICK e \in EntryIds : /\ OnlyEntry(p, e) /\ waitlist_entries[e].pend = "cancelled"
                              /\ waitlist_entries[e].status \in {"active", "notified"}
    BY <1>0 DEF LeaveHolds
  <1>2. CommittedEntries[e].status \in {"active", "notified"}
    BY <1>1, CommittedFields
  <1>3. CommittedEntries' = [CommittedEntries EXCEPT ![e].status = "cancelled"]
    <2>1. /\ waitlist_entries'[e].user = waitlist_entries[e].user
          /\ waitlist_entries'[e].slot = waitlist_entries[e].slot
          /\ waitlist_entries'[e].status = "cancelled" /\ waitlist_entries[e].status # "absent"
          /\ \A f \in EntryIds \ {e} : waitlist_entries'[f] = waitlist_entries[f]
      BY <1>0, <1>1, CommitRows DEF CommittedRow, OnlyEntry
    <2>. QED  BY <2>1 DEF CommittedEntries, Shown
  <1>4. UNCHANGED <<CommittedBookings, CommittedReservations>>
    BY <1>0, CommitStutters DEF LeaveHolds
  <1>. QED  BY <1>2, <1>3, <1>4 DEF Ledger!LeaveWaitlist

\* COMMIT of a transaction that has ended the reservations in ended and claimed
\* waiters of slots: each claim is a waiter of another slot, the slot had no
\* other reservation, and waiter and reservation appear together.
LEMMA LedgerOffers ==
    ASSUME TxInv, NEW p \in Procs, Commit(p), ClaimsAreOffered(p),
           NEW ended \in SUBSET ReservationIds, NEW st, NEW slots,
           \A r \in ended : slot_reservations[r].lock = p
                            /\ Moves(slot_reservations[r], "active", st),
           \A r \in ReservationIds \ ended : slot_reservations[r].lock = p =>
             Offers(p, r) /\ slot_reservations[r].slot \in slots
    PROVE  Ledger!EndAndOffer(ended, st, slots)
  <1>. DEFINE claims == {e \in EntryIds : waitlist_entries[e].lock = p}
              offer == [e \in claims |-> CHOOSE r \in ReservationIds : OffersTo(p, r, e)]
  <1>0. TypeInv /\ At(p, "commit")
    BY OwnTx DEF Commit
  <1>1. \A e \in claims :
          /\ e \in EntryIds /\ Moves(waitlist_entries[e], "active", "notified")
          /\ offer[e] \in ReservationIds /\ OffersTo(p, offer[e], e)
    BY <1>0 DEF ClaimsAreOffered, At
  <1>2. ASSUME NEW e \in claims
        PROVE  /\ slot_reservations[offer[e]].user = waitlist_entries[e].user
               /\ slot_reservations[offer[e]].slot = waitlist_entries[e].slot
               /\ offer[e] \notin ended /\ waitlist_entries[e].slot \in slots
    <2>. HIDE DEF claims, offer
    <2>1. e \in EntryIds /\ offer[e] \in ReservationIds /\ OffersTo(p, offer[e], e)
      BY <1>1
    <2>2. PICK r \in ReservationIds : r = offer[e] /\ OffersTo(p, r, e)
      BY <2>1
    <2>3. r \notin ended
      BY <2>2 DEF OffersTo, Offers, Moves
    <2>4. /\ slot_reservations[r].user = waitlist_entries[e].user
          /\ slot_reservations[r].slot = waitlist_entries[e].slot
      BY <2>2 DEF OffersTo, ClaimsAreOffered
    <2>5. slot_reservations[r].slot \in slots
      BY <2>2, <2>3 DEF OffersTo, Offers
    <2>. QED  BY <2>2, <2>3, <2>4, <2>5
  <1>3. \A r \in ReservationIds : Offers(p, r) =>
          /\ slot_reservations[r].entry \in claims
          /\ offer[slot_reservations[r].entry] = r
    <2>. SUFFICES ASSUME NEW r \in ReservationIds, Offers(p, r)
                  PROVE  /\ slot_reservations[r].entry \in claims
                         /\ offer[slot_reservations[r].entry] = r
      OBVIOUS
    <2>1. PICK e \in claims : e = slot_reservations[r].entry
      BY DEF ClaimsAreOffered
    <2>. HIDE DEF claims, offer
    <2>2. offer[e] \in ReservationIds /\ OffersTo(p, offer[e], e)
      BY <1>1
    <2>3. PICK q \in ReservationIds : q = offer[e] /\ OffersTo(p, q, e)
      BY <2>2
    <2>4. q = r
      BY <2>1, <2>3 DEF OffersTo, ClaimsAreOffered
    <2>. QED  BY <2>1, <2>3, <2>4
  <1>. HIDE DEF claims, offer
  <1>4. IndexProtected(ReservationIds, slot_reservations, ReservationKey, {"active"})
    BY DEF TxInv, IndexInv, IndexesProtected, ReservationIndex
  <1>5. \A e, f \in claims : waitlist_entries[e].slot = waitlist_entries[f].slot => e = f
    <2>. SUFFICES ASSUME NEW e \in claims, NEW f \in claims,
                         waitlist_entries[e].slot = waitlist_entries[f].slot
                  PROVE  e = f
      OBVIOUS
    <2>1. PICK r \in ReservationIds : r = offer[e] /\ OffersTo(p, r, e)
      BY <1>1
    <2>2. PICK q \in ReservationIds : q = offer[f] /\ OffersTo(p, q, f)
      BY <1>1
    <2>3. ReservationKey[r] = ReservationKey[q]
      BY <1>2, <2>1, <2>2 DEF ReservationKey
    <2>4. slot_reservations[r].pend = "active" /\ slot_reservations[q].pend = "active"
      BY <2>1, <2>2 DEF OffersTo, Offers, Moves
    <2>5. r = q
      BY <1>4, <2>3, <2>4 DEF IndexProtected
    <2>. QED  BY <2>1, <2>2, <2>5 DEF OffersTo
  <1>6. \A e \in claims : ~Ledger!Reserved(waitlist_entries[e].slot, ended)
    <2>. SUFFICES ASSUME NEW e \in claims, NEW q \in ReservationIds \ ended,
                         CommittedReservations[q].slot = waitlist_entries[e].slot,
                         CommittedReservations[q].status = "active"
                  PROVE  FALSE
      BY DEF Ledger!Reserved
    <2>1. PICK r \in ReservationIds : r = offer[e] /\ OffersTo(p, r, e)
      BY <1>1
    <2>2. slot_reservations[q].status = "active"
          /\ slot_reservations[q].slot = waitlist_entries[e].slot
      BY CommittedFields
    <2>3. ReservationKey[r] = ReservationKey[q] /\ r # q
      BY <1>2, <2>1, <2>2 DEF ReservationKey, OffersTo, Offers, Moves
    <2>4. slot_reservations[r].pend = "active" /\ slot_reservations[r].lock = p
      BY <2>1 DEF OffersTo, Offers, Moves
    <2>5. slot_reservations[q].lock = p
      BY <1>4, <2>2, <2>3, <2>4 DEF IndexProtected
    <2>. QED  BY <2>2, <2>5 DEF Offers, Moves
  <1>7. \A e \in claims : /\ CommittedEntries[e].user = waitlist_entries[e].user
                          /\ CommittedEntries[e].slot = waitlist_entries[e].slot
                          /\ CommittedEntries[e].status = "active"
    BY <1>1, CommittedFields DEF Moves
  <1>8. CommittedEntries' = Ledger!Notified(claims)
    <2>1. \A e \in EntryIds \ claims : waitlist_entries'[e] = waitlist_entries[e]
      BY <1>0, CommitRows DEF CommittedRow, claims
    <2>2. \A e \in claims :
            /\ waitlist_entries'[e].status = "notified" /\ waitlist_entries[e].status = "active"
            /\ waitlist_entries'[e].user = waitlist_entries[e].user
            /\ waitlist_entries'[e].slot = waitlist_entries[e].slot
      BY <1>0, <1>1, CommitRows DEF CommittedRow, claims, Moves
    <2>. QED  BY <2>1, <2>2 DEF CommittedEntries, Shown, Ledger!Notified
  <1>9. \A e \in claims : CommittedReservations[offer[e]].status = "absent"
    BY <1>1, CommittedFields DEF OffersTo, Offers, Moves
  <1>10. \A e, f \in claims : offer[e] = offer[f] => e = f
    BY <1>1 DEF OffersTo
  <1>. DEFINE ends == [r \in ReservationIds |->
                         IF r \in ended THEN [CommittedReservations[r] EXCEPT !.status = st]
                         ELSE CommittedReservations[r]]
  <1>11. CommittedReservations' = Ledger!Offered(ends, claims, offer)
    <2>1. ASSUME NEW r \in ReservationIds
          PROVE  CommittedReservations'[r] = Ledger!Offered(ends, claims, offer)[r]
      <3>0. /\ CommittedRow(slot_reservations[r], slot_reservations'[r], p)
            /\ slot_reservations'[r].entry = slot_reservations[r].entry
        BY <1>0, CommitRows
      <3>1. CASE Offers(p, r)
        <4>1. PICK e \in claims : e = slot_reservations[r].entry /\ offer[e] = r
          BY <1>3, <3>1
        <4>2. (CHOOSE f \in claims : offer[f] = r) = e
          BY <1>10, <4>1
        <4>3. Ledger!Offered(ends, claims, offer)[r] =
                [user |-> CommittedEntries[e].user, slot |-> CommittedEntries[e].slot,
                 entry |-> e, status |-> "active"]
          BY <4>1, <4>2 DEF Ledger!Offered
        <4>4. /\ slot_reservations'[r].status = "active" /\ slot_reservations'[r].entry = e
              /\ slot_reservations'[r].user = CommittedEntries[e].user
              /\ slot_reservations'[r].slot = CommittedEntries[e].slot
          BY <1>2, <1>7, <3>0, <3>1, <4>1 DEF CommittedRow, Offers, Moves
        <4>. QED  BY <4>3, <4>4 DEF CommittedReservations, Shown
      <3>2. ASSUME ~Offers(p, r)
            PROVE  Ledger!Offered(ends, claims, offer)[r] = ends[r]
        BY <1>1, <3>2 DEF Ledger!Offered, OffersTo
      <3>3. CASE r \in ended
        <4>1. ~Offers(p, r)
          BY <3>3 DEF Offers, Moves
        <4>2. /\ slot_reservations'[r].status = st /\ slot_reservations[r].status = "active"
              /\ slot_reservations'[r].user = slot_reservations[r].user
              /\ slot_reservations'[r].slot = slot_reservations[r].slot
          BY <3>0, <3>3 DEF CommittedRow, Moves
        <4>3. st # "absent"
          BY <3>3 DEF Moves, TxInv, RowsMove, ReservationMoves
        <4>. QED  BY <3>0, <3>2, <3>3, <4>1, <4>2, <4>3 DEF CommittedReservations, Shown
      <3>4. CASE r \notin ended /\ ~Offers(p, r)
        <4>1. slot_reservations'[r] = slot_reservations[r]
          BY <3>0, <3>4 DEF CommittedRow
        <4>. QED  BY <3>2, <3>4, <4>1 DEF CommittedReservations
      <3>. QED  BY <3>1, <3>3, <3>4
    <2>. QED  BY <2>1 DEF CommittedReservations, Ledger!Offered
  <1>12. /\ claims \in SUBSET {e \in EntryIds : CommittedEntries[e].slot \in slots
                                                /\ CommittedEntries[e].status = "active"}
         /\ \A e, f \in claims : CommittedEntries[e].slot = CommittedEntries[f].slot => e = f
         /\ \A e \in claims : ~Ledger!Reserved(CommittedEntries[e].slot, ended)
    BY <1>1, <1>2, <1>5, <1>6, <1>7
  <1>13. offer \in [claims -> {r \in ReservationIds : CommittedReservations[r].status = "absent"}]
    <2>1. \A e \in claims :
            offer[e] \in {r \in ReservationIds : CommittedReservations[r].status = "absent"}
      BY <1>1, <1>9
    <2>. QED  BY <2>1 DEF offer
  <1>. QED  BY <1>8, <1>10, <1>11, <1>12, <1>13 DEF Ledger!EndAndOffer

\* That of CancelBooking, with or without somebody from the queue.
LEMMA CancelCommits ==
    ASSUME TxInv, NEW p \in Procs, Commit(p), tx[p].op = "cancel"
    PROVE  \E b \in BookingIds : Ledger!CancelBooking(b)
  <1>0. CancelHolds(p) /\ At(p, "commit") /\ ~At(p, "updateBooking") /\ TypeInv
    BY OwnTx DEF TxOK, Commit, At
  <1>1. PICK b \in BookingIds : b = tx[p].bk
    BY <1>0 DEF CancelHolds
  <1>2. /\ bookings[b].status # "absent"
        /\ \A c \in BookingIds : bookings[c].lock = p => c = b
        /\ IF bookings[b].lock = p THEN Moves(bookings[b], "active", "cancelled")
                                   ELSE bookings[b].status = "cancelled"
        /\ \A r \in ReservationIds : slot_reservations[r].lock = p =>
             Offers(p, r) /\ slot_reservations[r].slot = bookings[b].slot
        /\ ClaimsAreOffered(p)
    BY <1>0, <1>1 DEF CancelHolds
  <1>3. CommittedBookings[b].status # "absent" /\ CommittedBookings[b].slot = bookings[b].slot
    BY <1>2, CommittedFields
  <1>4. CommittedBookings' = [CommittedBookings EXCEPT ![b].status = "cancelled"]
    <2>1. \A c \in BookingIds : CommittedRow(bookings[c], bookings'[c], p)
      BY <1>0, CommitRows
    <2>2. /\ bookings'[b].user = bookings[b].user /\ bookings'[b].slot = bookings[b].slot
          /\ bookings'[b].status = "cancelled"
      BY <1>2, <2>1 DEF CommittedRow, Moves
    <2>3. \A c \in BookingIds \ {b} : bookings'[c] = bookings[c]
      BY <1>2, <2>1 DEF CommittedRow
    <2>. QED  BY <1>2, <2>2, <2>3 DEF CommittedBookings, Shown
  <1>5. Ledger!EndAndOffer({}, "cancelled", {CommittedBookings[b].slot})
    BY <1>2, <1>3, LedgerOffers
  <1>. QED  BY <1>3, <1>4, <1>5 DEF Ledger!CancelBooking

\* A reservation that had ended before stays as it is: nothing happens.
LEMMA CancelResCommits ==
    ASSUME TxInv, NEW p \in Procs, Commit(p), tx[p].op = "cancelRes"
    PROVE  \/ \E r \in ReservationIds : Ledger!CancelReservation(r)
           \/ UNCHANGED Ledger!vars
  <1>0. CancelResHolds(p) /\ At(p, "commit") /\ TypeInv
    BY OwnTx DEF TxOK, Commit
  <1>1. UNCHANGED CommittedBookings
    BY <1>0, CommitStutters DEF CancelResHolds
  <1>2. ASSUME HoldsNoEntry(p),
               \A r \in ReservationIds : slot_reservations[r].lock = p =>
                 slot_reservations[r].pend = slot_reservations[r].status
        PROVE  UNCHANGED Ledger!vars
    <2>1. UNCHANGED CommittedEntries
      BY <1>2, CommitStutters
    <2>2. UNCHANGED CommittedReservations
      BY <1>0, <1>2, CommitRows, SameReservations DEF CommittedRow, SameShown, SameRow
    <2>. QED  BY <1>1, <2>1, <2>2 DEF Ledger!vars
  <1>3. ASSUME NEW r \in ReservationIds,
               slot_reservations[r].lock = p, Moves(slot_reservations[r], "active", "cancelled"),
               \A q \in ReservationIds \ {r} : slot_reservations[q].lock = p =>
                 Offers(p, q) /\ slot_reservations[q].slot = slot_reservations[r].slot,
               ClaimsAreOffered(p)
        PROVE  Ledger!CancelReservation(r)
    <2>1. /\ CommittedReservations[r].status = "active"
          /\ CommittedReservations[r].slot = slot_reservations[r].slot
      BY <1>3, CommittedFields DEF Moves
    <2>2. Ledger!EndAndOffer({r}, "cancelled", {CommittedReservations[r].slot})
      BY <1>3, <2>1, LedgerOffers
    <2>. QED  BY <1>1, <2>1, <2>2 DEF Ledger!CancelReservation
  <1>. QED  BY <1>0, <1>2, <1>3 DEF CancelResHolds, At

\* That of ExpireDue: every slot of the batch is offered at most once.
LEMMA ExpireCommits ==
    ASSUME TxInv, NEW p \in Procs, Commit(p), tx[p].op = "expire"
    PROVE  \E batch \in SUBSET ReservationIds : Ledger!ExpireDue(batch)
  <1>. DEFINE batch == {r \in ReservationIds : Ends(p, r)}
  <1>0. ExpireHolds(p) /\ At(p, "commit") /\ ~At(p, "expireBatch") /\ TypeInv
    BY OwnTx DEF TxOK, Commit, At
  <1>1. \A r \in batch : slot_reservations[r].lock = p
                         /\ Moves(slot_reservations[r], "active", "expired")
    BY <1>0 DEF ExpireHolds, Ends, Offers, Moves
  <1>2. \A r \in batch : /\ CommittedReservations[r].status = "active"
                         /\ CommittedReservations[r].slot = slot_reservations[r].slot
    BY <1>1, CommittedFields DEF Moves
  <1>3. \A r \in ReservationIds \ batch : slot_reservations[r].lock = p =>
          /\ Offers(p, r)
          /\ slot_reservations[r].slot \in {CommittedReservations[q].slot : q \in batch}
    <2>. SUFFICES ASSUME NEW r \in ReservationIds, r \notin batch, slot_reservations[r].lock = p
                  PROVE  /\ Offers(p, r)
                         /\ slot_reservations[r].slot \in
                              {CommittedReservations[q].slot : q \in batch}
      OBVIOUS
    <2>1. PICK q \in ReservationIds :
            /\ Offers(p, r) /\ Ends(p, q)
            /\ slot_reservations[q].slot = slot_reservations[r].slot
      BY <1>0 DEF ExpireHolds, Ends, Moves
    <2>. QED  BY <1>2, <2>1
  <1>4. ClaimsAreOffered(p) /\ batch \in SUBSET ReservationIds
    BY <1>0 DEF ExpireHolds
  <1>. HIDE DEF batch
  <1>5. Ledger!EndAndOffer(batch, "expired", {CommittedReservations[r].slot : r \in batch})
    BY <1>1, <1>3, <1>4, LedgerOffers
  <1>6. UNCHANGED CommittedBookings
    BY <1>0, CommitStutters DEF ExpireHolds
  <1>. QED  BY <1>2, <1>4, <1>5, <1>6 DEF Ledger!ExpireDue

\* Every COMMIT is a step of the ledger.
LEMMA CommitLedger ==
    ASSUME TxInv, NEW p \in Procs, Commit(p)
    PROVE  Ledger!Next \/ UNCHANGED Ledger!vars
  <1>1. tx[p].op \in {"create", "cancel", "join", "leave", "confirm", "cancelRes", "expire"}
    <2>1. tx[p].op \in Ops /\ tx[p].at_stmt \in StatementsOf(tx[p].op) /\ tx[p].at_stmt = "commit"
      BY OwnTx DEF TxOK, Commit, At
    <2>2. tx[p].op # "none"
      BY <2>1 DEF StatementsOf
    <2>. QED  BY <2>1, <2>2 DEF Ops
  <1>. QED
    BY <1>1, CreateCommits, CancelCommits, JoinCommits, LeaveCommits, ConfirmCommits,
       CancelResCommits, ExpireCommits
    DEF Ledger!Next

-----------------------------------------------------------------------------
(* The refinement. *)

\* Empty tables are an empty ledger.
LEMMA InitLedger == Init => Ledger!Init
  BY DEF Init, Ledger!Init, CommittedBookings, CommittedEntries, CommittedReservations, Shown,
         NoBooking, NoEntry, NoReservation, Ledger!NoBooking, Ledger!NoEntry, Ledger!NoReservation

\* Every step is one of the ledger or a stutter.
LEMMA NextLedger == TxInv /\ [Next]_vars => [Ledger!Next]_(Ledger!vars)
  <1>. SUFFICES ASSUME TxInv, [Next]_vars  PROVE Ledger!Next \/ UNCHANGED Ledger!vars
    OBVIOUS
  <1>1. ASSUME NEW p \in Procs, Request(p) \/ StartExpire(p)  PROVE UNCHANGED Ledger!vars
    BY <1>1, StartStutters
  <1>2. ASSUME NEW p \in Procs, Statement(p)  PROVE UNCHANGED Ledger!vars
    BY <1>2, StatementStutters
  <1>3. ASSUME NEW p \in Procs, Commit(p)  PROVE Ledger!Next \/ UNCHANGED Ledger!vars
    BY <1>3, CommitLedger
  <1>4. ASSUME NEW p \in Procs, Rollback(p) \/ Abort(p)  PROVE UNCHANGED Ledger!vars
    BY <1>4, UndoStutters DEF Rollback, Abort
  <1>5. CASE Tick \/ UNCHANGED vars
    BY <1>5
    DEF Tick, tables, vars, Ledger!vars, CommittedBookings, CommittedEntries, CommittedReservations,
        Shown
  <1>. QED  BY <1>1, <1>2, <1>3, <1>4, <1>5 DEF Next, Procs

\* SlotBooking implements SlotLedger: seen through the committed rows, each use
\* case (CreateBooking, CancelBooking, JoinWaitlist, LeaveWaitlist,
\* ConfirmReservation, CancelReservation, ExpireDue) is one step or nothing,
\* whatever the interleaving of its SQL statements with those of the others and
\* wherever a transaction is lost.
THEOREM LedgerImplemented == Spec => ImplementsLedger
  <1>1. Init => Ledger!Init
    BY InitLedger
  <1>2. TxInv /\ [Next]_vars => [Ledger!Next]_(Ledger!vars)
    BY NextLedger
  <1>. QED  BY <1>1, <1>2, AlwaysTxInv, PTL DEF Spec, ImplementsLedger, Ledger!Spec

-----------------------------------------------------------------------------
(* What follows from the ledger. *)

LedgerBooking == [user : Users \union {None}, slot : Slots \union {None}, status : BookingStatus]
LedgerEntry == [user : Users \union {None}, slot : Slots \union {None}, status : EntryStatus]
LedgerReservation == [user : Users \union {None}, slot : Slots \union {None},
                      entry : EntryIds \union {None}, status : ReservationStatus]

\* The types of the committed rows.
LEMMA LedgerTypes ==
    ASSUME TypeInv
    PROVE  /\ CommittedBookings \in [BookingIds -> LedgerBooking]
           /\ CommittedEntries \in [EntryIds -> LedgerEntry]
           /\ CommittedReservations \in [ReservationIds -> LedgerReservation]
  <1>0. /\ bookings \in [BookingIds -> BookingRow]
        /\ waitlist_entries \in [EntryIds -> EntryRow]
        /\ slot_reservations \in [ReservationIds -> ReservationRow]
    BY DEF TypeInv, TypeOK
  <1>1. CommittedBookings \in [BookingIds -> LedgerBooking]
    BY <1>0 DEF CommittedBookings, LedgerBooking, BookingRow, Shown
  <1>2. CommittedEntries \in [EntryIds -> LedgerEntry]
    BY <1>0 DEF CommittedEntries, LedgerEntry, EntryRow, Shown
  <1>3. CommittedReservations \in [ReservationIds -> LedgerReservation]
    BY <1>0 DEF CommittedReservations, LedgerReservation, ReservationRow, Shown
  <1>. QED  BY <1>1, <1>2, <1>3

\* CommittedFields after a step.
LEMMA CommittedFieldsNext ==
    /\ \A b \in BookingIds :
         /\ CommittedBookings'[b].status = bookings'[b].status
         /\ bookings'[b].status # "absent" =>
              /\ CommittedBookings'[b].user = bookings'[b].user
              /\ CommittedBookings'[b].slot = bookings'[b].slot
    /\ \A e \in EntryIds :
         /\ CommittedEntries'[e].status = waitlist_entries'[e].status
         /\ waitlist_entries'[e].status # "absent" =>
              /\ CommittedEntries'[e].user = waitlist_entries'[e].user
              /\ CommittedEntries'[e].slot = waitlist_entries'[e].slot
    /\ \A r \in ReservationIds :
         /\ CommittedReservations'[r].status = slot_reservations'[r].status
         /\ slot_reservations'[r].status # "absent" =>
              /\ CommittedReservations'[r].user = slot_reservations'[r].user
              /\ CommittedReservations'[r].slot = slot_reservations'[r].slot
              /\ CommittedReservations'[r].entry = slot_reservations'[r].entry
  BY DEF CommittedBookings, CommittedEntries, CommittedReservations, Shown

\* Some waiters are notified, each gets a new reservation, and some reservations
\* end: what EndAndOffer does, row by row.
Transfers(ended, st, claims, offer) ==
    /\ \A e \in claims :
         /\ CommittedEntries[e].status = "active"
         /\ CommittedEntries'[e] = [CommittedEntries[e] EXCEPT !.status = "notified"]
         /\ offer[e] \in ReservationIds /\ CommittedReservations[offer[e]].status = "absent"
         /\ CommittedReservations'[offer[e]] =
              [user |-> CommittedEntries[e].user, slot |-> CommittedEntries[e].slot, entry |-> e,
               status |-> "active"]
    /\ \A e \in EntryIds \ claims : CommittedEntries'[e] = CommittedEntries[e]
    /\ \A r \in ended :
         CommittedReservations'[r] = [CommittedReservations[r] EXCEPT !.status = st]
    /\ \A r \in ReservationIds : \/ r \in ended
                                 \/ \E e \in claims : r = offer[e]
                                 \/ CommittedReservations'[r] = CommittedReservations[r]

\* EndAndOffer, with the claimed entries and their offers named.
LEMMA EndAndOfferTransfers ==
    ASSUME NEW ended \in SUBSET ReservationIds, NEW st, NEW slots,
           \A r \in ended : CommittedReservations[r].status = "active",
           Ledger!EndAndOffer(ended, st, slots)
    PROVE  \E claims \in SUBSET EntryIds : \E offer : Transfers(ended, st, claims, offer)
  <1>1. PICK claims \in SUBSET {e \in EntryIds : CommittedEntries[e].slot \in slots
                                                 /\ CommittedEntries[e].status = "active"} :
          /\ CommittedEntries' = Ledger!Notified(claims)
          /\ \E offer \in [claims -> {r \in ReservationIds :
                                        CommittedReservations[r].status = "absent"}] :
               /\ \A e, f \in claims : offer[e] = offer[f] => e = f
               /\ CommittedReservations' =
                    Ledger!Offered([r \in ReservationIds |->
                       IF r \in ended THEN [CommittedReservations[r] EXCEPT !.status = st]
                       ELSE CommittedReservations[r]], claims, offer)
    BY DEF Ledger!EndAndOffer
  <1>. DEFINE ends == [r \in ReservationIds |->
                         IF r \in ended THEN [CommittedReservations[r] EXCEPT !.status = st]
                         ELSE CommittedReservations[r]]
  <1>2. PICK offer \in [claims -> {r \in ReservationIds :
                                     CommittedReservations[r].status = "absent"}] :
          /\ \A e, f \in claims : offer[e] = offer[f] => e = f
          /\ CommittedReservations' = Ledger!Offered(ends, claims, offer)
    BY <1>1
  <1>3. \A e \in EntryIds :
          CommittedEntries'[e] = IF e \in claims THEN [CommittedEntries[e] EXCEPT !.status = "notified"]
                                 ELSE CommittedEntries[e]
    BY <1>1 DEF Ledger!Notified
  <1>4. ASSUME NEW e \in claims
        PROVE  /\ offer[e] \in ReservationIds /\ CommittedReservations[offer[e]].status = "absent"
               /\ CommittedReservations'[offer[e]] =
                    [user |-> CommittedEntries[e].user, slot |-> CommittedEntries[e].slot,
                     entry |-> e, status |-> "active"]
    <2>1. offer[e] \in ReservationIds /\ CommittedReservations[offer[e]].status = "absent"
      BY <1>2
    <2>2. (CHOOSE f \in claims : offer[f] = offer[e]) = e
      BY <1>2
    <2>3. Ledger!Offered(ends, claims, offer)[offer[e]] =
            [user |-> CommittedEntries[e].user, slot |-> CommittedEntries[e].slot,
             entry |-> e, status |-> "active"]
      BY <2>1, <2>2 DEF Ledger!Offered
    <2>. QED  BY <1>2, <2>1, <2>3
  <1>5. ASSUME NEW r \in ReservationIds, \A e \in claims : r # offer[e]
        PROVE  CommittedReservations'[r] = ends[r]
    BY <1>2, <1>5 DEF Ledger!Offered
  <1>6. \A r \in ended : CommittedReservations'[r] = [CommittedReservations[r] EXCEPT !.status = st]
    BY <1>4, <1>5
  <1>7. \A r \in ReservationIds : \/ r \in ended
                                  \/ \E e \in claims : r = offer[e]
                                  \/ CommittedReservations'[r] = CommittedReservations[r]
    BY <1>5
  <1>8. claims \in SUBSET EntryIds
    OBVIOUS
  <1>9. Transfers(ended, st, claims, offer)
    BY <1>3, <1>4, <1>6, <1>7 DEF Transfers
  <1>. QED  BY <1>8, <1>9

\* The three use cases that end something and call a queue.
Transfer(ended, st, claims, offer) ==
    /\ \A r \in ended : CommittedReservations[r].status = "active"
    /\ Transfers(ended, st, claims, offer)
    /\ \/ UNCHANGED CommittedBookings
       \/ \E b \in BookingIds :
            CommittedBookings' = [CommittedBookings EXCEPT ![b].status = "cancelled"]

\* The three use cases that call the queue are transfers.
LEMMA CancelsTransfer ==
    ASSUME \/ \E batch \in SUBSET ReservationIds : Ledger!ExpireDue(batch)
           \/ \E b \in BookingIds : Ledger!CancelBooking(b)
           \/ \E r \in ReservationIds : Ledger!CancelReservation(r)
    PROVE  \E ended \in SUBSET ReservationIds, st \in {"cancelled", "expired"},
              claims \in SUBSET EntryIds : \E offer : Transfer(ended, st, claims, offer)
  <1>1. ASSUME NEW batch \in SUBSET ReservationIds, Ledger!ExpireDue(batch)
        PROVE  \E claims \in SUBSET EntryIds : \E offer : Transfer(batch, "expired", claims, offer)
    <2>1. /\ \A r \in batch : CommittedReservations[r].status = "active"
          /\ UNCHANGED CommittedBookings
      BY <1>1 DEF Ledger!ExpireDue
    <2>2. PICK slots : Ledger!EndAndOffer(batch, "expired", slots)
      BY <1>1 DEF Ledger!ExpireDue
    <2>3. PICK claims \in SUBSET EntryIds : \E offer : Transfers(batch, "expired", claims, offer)
      BY <2>1, <2>2, EndAndOfferTransfers
    <2>. QED  BY <2>1, <2>3 DEF Transfer
  <1>2. ASSUME NEW b \in BookingIds, Ledger!CancelBooking(b)
        PROVE  \E claims \in SUBSET EntryIds : \E offer : Transfer({}, "cancelled", claims, offer)
    <2>1. CommittedBookings' = [CommittedBookings EXCEPT ![b].status = "cancelled"]
      BY <1>2 DEF Ledger!CancelBooking
    <2>2. PICK slots : Ledger!EndAndOffer({}, "cancelled", slots)
      BY <1>2 DEF Ledger!CancelBooking
    <2>3. PICK claims \in SUBSET EntryIds : \E offer : Transfers({}, "cancelled", claims, offer)
      BY <2>2, EndAndOfferTransfers
    <2>. QED  BY <2>1, <2>3 DEF Transfer
  <1>3. ASSUME NEW r \in ReservationIds, Ledger!CancelReservation(r)
        PROVE  \E claims \in SUBSET EntryIds : \E offer : Transfer({r}, "cancelled", claims, offer)
    <2>1. CommittedReservations[r].status = "active" /\ UNCHANGED CommittedBookings
      BY <1>3 DEF Ledger!CancelReservation
    <2>2. PICK slots : Ledger!EndAndOffer({r}, "cancelled", slots)
      BY <1>3 DEF Ledger!CancelReservation
    <2>3. PICK claims \in SUBSET EntryIds : \E offer : Transfers({r}, "cancelled", claims, offer)
      BY <2>1, <2>2, EndAndOfferTransfers
    <2>. QED  BY <2>1, <2>3 DEF Transfer
  <1>. QED  BY <1>1, <1>2, <1>3

\* What such a step does to one reservation.
LEMMA TransferOf ==
    ASSUME NEW ended, NEW st, NEW claims, NEW offer, Transfer(ended, st, claims, offer),
           NEW r \in ReservationIds
    PROVE  \/ /\ r \in ended /\ CommittedReservations[r].status = "active"
              /\ CommittedReservations'[r] = [CommittedReservations[r] EXCEPT !.status = st]
           \/ /\ CommittedReservations[r].status = "absent"
              /\ CommittedReservations'[r].status = "active"
              /\ \E e \in claims :
                   /\ r = offer[e]
                   /\ CommittedReservations'[r] =
                        [user |-> CommittedEntries[e].user, slot |-> CommittedEntries[e].slot,
                         entry |-> e, status |-> "active"]
           \/ CommittedReservations'[r] = CommittedReservations[r]
  <1>1. CASE r \in ended
    BY <1>1 DEF Transfer, Transfers
  <1>2. ASSUME NEW e \in claims, r = offer[e]
        PROVE  /\ CommittedReservations[r].status = "absent"
               /\ CommittedReservations'[r].status = "active"
               /\ CommittedReservations'[r] =
                    [user |-> CommittedEntries[e].user, slot |-> CommittedEntries[e].slot,
                     entry |-> e, status |-> "active"]
    <2>1. /\ CommittedReservations[offer[e]].status = "absent"
          /\ CommittedReservations'[offer[e]] =
               [user |-> CommittedEntries[e].user, slot |-> CommittedEntries[e].slot,
                entry |-> e, status |-> "active"]
      BY DEF Transfer, Transfers
    <2>. QED  BY <1>2, <2>1
  <1>. QED  BY <1>1, <1>2 DEF Transfer, Transfers

\* The status changes of a step.
StatusSteps ==
    /\ \A b \in BookingIds : \/ CommittedBookings'[b] = CommittedBookings[b]
                             \/ CommittedBookings[b].status = "absent"
                             \/ CommittedBookings'[b].status = "cancelled"
    /\ \A e \in EntryIds : \/ CommittedEntries'[e] = CommittedEntries[e]
                           \/ CommittedEntries[e].status \in {"absent", "active"}
                           \/ /\ CommittedEntries[e].status = "notified"
                              /\ CommittedEntries'[e].status = "cancelled"
    /\ \A r \in ReservationIds : \/ CommittedReservations'[r] = CommittedReservations[r]
                                 \/ CommittedReservations[r].status \in {"absent", "active"}

\* No action of the ledger leaves a terminal status.
LEMMA LedgerStatusSteps ==
    ASSUME TypeInv, [Ledger!Next]_(Ledger!vars)
    PROVE  StatusSteps
  <1>. USE LedgerTypes DEF LedgerBooking, LedgerEntry, LedgerReservation
  <1>1. CASE UNCHANGED Ledger!vars
    BY <1>1 DEF Ledger!vars, StatusSteps
  <1>2. ASSUME NEW u, NEW s, Ledger!CreateBooking(u, s)  PROVE StatusSteps
    BY <1>2 DEF Ledger!CreateBooking, Ledger!InsertBooking, StatusSteps
  <1>3. ASSUME NEW u, NEW s, Ledger!JoinWaitlist(u, s)  PROVE StatusSteps
    BY <1>3 DEF Ledger!JoinWaitlist, StatusSteps
  <1>4. ASSUME NEW e \in EntryIds, Ledger!LeaveWaitlist(e)  PROVE StatusSteps
    BY <1>4 DEF Ledger!LeaveWaitlist, StatusSteps
  <1>5. ASSUME NEW r \in ReservationIds, Ledger!ConfirmReservation(r)  PROVE StatusSteps
    BY <1>5 DEF Ledger!ConfirmReservation, Ledger!InsertBooking, StatusSteps
  <1>6. ASSUME NEW ended \in SUBSET ReservationIds, NEW st \in {"cancelled", "expired"},
               NEW claims \in SUBSET EntryIds, NEW offer, Transfer(ended, st, claims, offer)
        PROVE  StatusSteps
    <2>1. \A b \in BookingIds : \/ CommittedBookings'[b] = CommittedBookings[b]
                                \/ CommittedBookings'[b].status = "cancelled"
      BY <1>6 DEF Transfer
    <2>2. \A e \in EntryIds : \/ CommittedEntries'[e] = CommittedEntries[e]
                              \/ CommittedEntries[e].status = "active"
      BY <1>6 DEF Transfer, Transfers
    <2>3. ASSUME NEW r \in ReservationIds
          PROVE  \/ CommittedReservations'[r] = CommittedReservations[r]
                 \/ CommittedReservations[r].status \in {"absent", "active"}
      BY <1>6, TransferOf
    <2>. QED  BY <2>1, <2>2, <2>3 DEF StatusSteps
  <1>. QED  BY <1>1, <1>2, <1>3, <1>4, <1>5, <1>6, CancelsTransfer DEF Ledger!Next

\* A confirmed, expired or cancelled row never changes its status again, and a
\* notified waiter can only leave: confirmReservation, cancelReservation and
\* ExpireDue that race for a reservation exclude each other, and a booking that
\* was cancelled twice stays cancelled.
THEOREM TerminalIsFinal == Spec => TerminalStatusesFinal
  <1>. DEFINE Final ==
         /\ \A b \in BookingIds :
              bookings[b].status = "cancelled" => bookings'[b].status = "cancelled"
         /\ \A r \in ReservationIds :
              slot_reservations[r].status \in {"confirmed", "expired", "cancelled"} =>
                  slot_reservations'[r].status = slot_reservations[r].status
         /\ \A e \in EntryIds :
              /\ waitlist_entries[e].status = "cancelled" =>
                     waitlist_entries'[e].status = "cancelled"
              /\ waitlist_entries[e].status = "notified" =>
                     waitlist_entries'[e].status \in {"notified", "cancelled"}
  <1>1. TxInv /\ [Next]_vars => [Final]_vars
    <2>. SUFFICES ASSUME TxInv, [Next]_vars  PROVE Final
      OBVIOUS
    <2>1. StatusSteps
      BY NextLedger, LedgerStatusSteps DEF TxInv, IndexInv
    <2>. QED  BY <2>1, CommittedFields, CommittedFieldsNext DEF StatusSteps
  <1>. QED  BY <1>1, AlwaysTxInv, PTL DEF Spec, TerminalStatusesFinal

\* A step that confirms a reservation is a step of ConfirmReservation.
LEMMA OnlyConfirmConfirms ==
    ASSUME TypeInv, [Ledger!Next]_(Ledger!vars), NEW r \in ReservationIds,
           CommittedReservations[r].status # "confirmed",
           CommittedReservations'[r].status = "confirmed"
    PROVE  Ledger!ConfirmReservation(r)
  <1>1. CASE UNCHANGED CommittedReservations
    BY <1>1
  <1>2. ASSUME NEW q \in ReservationIds, Ledger!ConfirmReservation(q)
        PROVE  q = r
    BY <1>2, LedgerTypes DEF Ledger!ConfirmReservation, LedgerReservation
  <1>3. ASSUME NEW ended \in SUBSET ReservationIds, NEW st \in {"cancelled", "expired"},
               NEW claims \in SUBSET EntryIds, NEW offer, Transfer(ended, st, claims, offer)
        PROVE  FALSE
    <2>1. \/ CommittedReservations'[r] = [CommittedReservations[r] EXCEPT !.status = st]
          \/ CommittedReservations'[r].status = "active"
          \/ CommittedReservations'[r] = CommittedReservations[r]
      BY <1>3, TransferOf
    <2>. QED  BY <2>1, LedgerTypes DEF LedgerReservation
  <1>. QED
    BY <1>1, <1>2, <1>3, CancelsTransfer
    DEF Ledger!Next, Ledger!vars, Ledger!CreateBooking, Ledger!JoinWaitlist, Ledger!LeaveWaitlist

\* A reservation is confirmed in the very step in which its user's booking of the
\* slot appears, and never when the slot has a booking already: setConfirmed and
\* the INSERT of ConfirmReservation stand or fall together.
THEOREM ConfirmedWithBooking == Spec => ConfirmIsAtomic
  <1>. DEFINE Atomic ==
         \A r \in ReservationIds :
           slot_reservations[r].status # "confirmed" /\ slot_reservations'[r].status = "confirmed"
           => /\ ~Booked(slot_reservations[r].slot)
              /\ \E b \in BookingIds :
                   /\ bookings[b].status = "absent"
                   /\ bookings'[b].status = "active"
                   /\ bookings'[b].user = slot_reservations[r].user
                   /\ bookings'[b].slot = slot_reservations[r].slot
  <1>1. TxInv /\ [Next]_vars => [Atomic]_vars
    <2>. SUFFICES ASSUME TxInv, [Next]_vars, NEW r \in ReservationIds,
                         slot_reservations[r].status # "confirmed",
                         slot_reservations'[r].status = "confirmed"
                  PROVE  /\ ~Booked(slot_reservations[r].slot)
                         /\ \E b \in BookingIds :
                              /\ bookings[b].status = "absent"
                              /\ bookings'[b].status = "active"
                              /\ bookings'[b].user = slot_reservations[r].user
                              /\ bookings'[b].slot = slot_reservations[r].slot
      OBVIOUS
    <2>0. TypeInv
      BY DEF TxInv, IndexInv
    <2>1. Ledger!ConfirmReservation(r)
      BY <2>0, NextLedger, CommittedFields, CommittedFieldsNext, OnlyConfirmConfirms
    <2>2. PICK u, s : u = slot_reservations[r].user /\ s = slot_reservations[r].slot
      OBVIOUS
    <2>3. Ledger!InsertBooking(u, s)
      BY <2>1, <2>2, CommittedFields DEF Ledger!ConfirmReservation
    <2>4. PICK b \in BookingIds :
            /\ CommittedBookings[b].status = "absent"
            /\ CommittedBookings' =
                 [CommittedBookings EXCEPT ![b] = [user |-> u, slot |-> s, status |-> "active"]]
      BY <2>3 DEF Ledger!InsertBooking
    <2>5. CommittedBookings'[b] = [user |-> u, slot |-> s, status |-> "active"]
      BY <2>0, <2>4, LedgerTypes
    <2>6. /\ bookings[b].status = "absent" /\ bookings'[b].status = "active"
          /\ bookings'[b].user = u /\ bookings'[b].slot = s
      BY <2>4, <2>5, CommittedFields, CommittedFieldsNext
    <2>7. ~Booked(s)
      BY <2>3, CommittedFields DEF Ledger!InsertBooking, Ledger!Booked, Booked, BookingsOf
    <2>. QED  BY <2>2, <2>6, <2>7
  <1>. QED  BY <1>1, AlwaysTxInv, PTL DEF Spec, ConfirmIsAtomic

-----------------------------------------------------------------------------
(* A waiter and the reservation that it has got. *)

Made(r, e) == CommittedReservations[r].status # "absent" /\ CommittedReservations[r].entry = e

ClaimedOnce ==
    /\ \A e \in EntryIds, r \in ReservationIds : Made(r, e) =>
         /\ CommittedEntries[e].status \notin {"absent", "active"}
         /\ CommittedReservations[r].user = CommittedEntries[e].user
         /\ CommittedReservations[r].slot = CommittedEntries[e].slot
    /\ \A e \in EntryIds, r, q \in ReservationIds : Made(r, e) /\ Made(q, e) => r = q
    /\ \A e \in EntryIds : CommittedEntries[e].status = "notified" =>
         \E r \in ReservationIds : Made(r, e)

\* A step that makes no reservation and notifies nobody.
LEMMA NothingMade ==
    ASSUME ClaimedOnce,
           \A r \in ReservationIds :
             /\ CommittedReservations'[r].status = "absent" <=> CommittedReservations[r].status = "absent"
             /\ CommittedReservations[r].status # "absent" =>
                  /\ CommittedReservations'[r].user = CommittedReservations[r].user
                  /\ CommittedReservations'[r].slot = CommittedReservations[r].slot
                  /\ CommittedReservations'[r].entry = CommittedReservations[r].entry,
           \A e \in EntryIds :
             \/ CommittedEntries[e].status = "absent" /\ CommittedEntries'[e].status = "active"
             \/ CommittedEntries'[e] = CommittedEntries[e]
             \/ /\ CommittedEntries'[e].status = "cancelled"
                /\ CommittedEntries'[e].user = CommittedEntries[e].user
                /\ CommittedEntries'[e].slot = CommittedEntries[e].slot
    PROVE  ClaimedOnce'
  <1>1. \A e \in EntryIds, r \in ReservationIds : Made(r, e)' <=> Made(r, e)
    BY DEF Made
  <1>2. ASSUME NEW e \in EntryIds, NEW r \in ReservationIds, Made(r, e)'
        PROVE  /\ CommittedEntries'[e].status \notin {"absent", "active"}
               /\ CommittedReservations'[r].user = CommittedEntries'[e].user
               /\ CommittedReservations'[r].slot = CommittedEntries'[e].slot
    <2>1. Made(r, e)
      BY <1>1, <1>2
    <2>2. /\ CommittedEntries[e].status \notin {"absent", "active"}
          /\ CommittedReservations[r].user = CommittedEntries[e].user
          /\ CommittedReservations[r].slot = CommittedEntries[e].slot
          /\ CommittedReservations[r].status # "absent"
      BY <2>1 DEF ClaimedOnce, Made
    <2>. QED  BY <2>2
  <1>3. \A e \in EntryIds, r, q \in ReservationIds : Made(r, e)' /\ Made(q, e)' => r = q
    BY <1>1 DEF ClaimedOnce
  <1>4. ASSUME NEW e \in EntryIds, CommittedEntries'[e].status = "notified"
        PROVE  \E r \in ReservationIds : Made(r, e)'
    BY <1>1, <1>4 DEF ClaimedOnce
  <1>. QED  BY <1>2, <1>3, <1>4 DEF ClaimedOnce

\* A transfer gives each entry it claims one new reservation, and no other entry any.
LEMMA TransferClaimsOnce ==
    ASSUME TypeInv, ClaimedOnce, NEW ended, NEW st \in {"cancelled", "expired"},
           NEW claims \in SUBSET EntryIds, NEW offer, Transfer(ended, st, claims, offer)
    PROVE  ClaimedOnce'
  <1>1. ASSUME NEW e \in claims
        PROVE  /\ CommittedEntries[e].status = "active" /\ CommittedEntries'[e].status = "notified"
               /\ CommittedEntries'[e].user = CommittedEntries[e].user
               /\ CommittedEntries'[e].slot = CommittedEntries[e].slot
               /\ offer[e] \in ReservationIds /\ Made(offer[e], e)'
               /\ CommittedReservations'[offer[e]].user = CommittedEntries[e].user
               /\ CommittedReservations'[offer[e]].slot = CommittedEntries[e].slot
    <2>1. /\ CommittedEntries[e].status = "active"
          /\ CommittedEntries'[e] = [CommittedEntries[e] EXCEPT !.status = "notified"]
          /\ offer[e] \in ReservationIds
          /\ CommittedReservations'[offer[e]] =
               [user |-> CommittedEntries[e].user, slot |-> CommittedEntries[e].slot, entry |-> e,
                status |-> "active"]
      BY DEF Transfer, Transfers
    <2>2. Made(offer[e], e)'
      BY <2>1 DEF Made
    <2>. QED  BY <2>1, <2>2, LedgerTypes DEF LedgerEntry
  <1>2. \A e \in EntryIds \ claims : CommittedEntries'[e] = CommittedEntries[e]
    BY DEF Transfer, Transfers
  <1>3. ASSUME NEW r \in ReservationIds
        PROVE  \/ \E e \in claims :
                    /\ r = offer[e] /\ CommittedReservations'[r].entry = e
                    /\ CommittedReservations'[r].user = CommittedEntries[e].user
                    /\ CommittedReservations'[r].slot = CommittedEntries[e].slot
                    /\ CommittedReservations[r].status = "absent"
               \/ /\ CommittedReservations'[r].user = CommittedReservations[r].user
                  /\ CommittedReservations'[r].slot = CommittedReservations[r].slot
                  /\ CommittedReservations'[r].entry = CommittedReservations[r].entry
                  /\ CommittedReservations'[r].status # "absent" <=>
                       CommittedReservations[r].status # "absent"
    <2>1. CASE /\ CommittedReservations[r].status = "active"
               /\ CommittedReservations'[r] = [CommittedReservations[r] EXCEPT !.status = st]
      BY <2>1, LedgerTypes DEF LedgerReservation
    <2>2. CASE CommittedReservations'[r] = CommittedReservations[r]
      BY <2>2
    <2>3. \/ /\ CommittedReservations[r].status = "active"
             /\ CommittedReservations'[r] = [CommittedReservations[r] EXCEPT !.status = st]
          \/ /\ CommittedReservations[r].status = "absent"
             /\ \E e \in claims :
                  /\ r = offer[e]
                  /\ CommittedReservations'[r] =
                       [user |-> CommittedEntries[e].user, slot |-> CommittedEntries[e].slot,
                        entry |-> e, status |-> "active"]
          \/ CommittedReservations'[r] = CommittedReservations[r]
      BY TransferOf
    <2>4. ASSUME CommittedReservations[r].status = "absent",
                 \E e \in claims :
                  /\ r = offer[e]
                  /\ CommittedReservations'[r] =
                       [user |-> CommittedEntries[e].user, slot |-> CommittedEntries[e].slot,
                        entry |-> e, status |-> "active"]
          PROVE  \E e \in claims :
                   /\ r = offer[e] /\ CommittedReservations'[r].entry = e
                   /\ CommittedReservations'[r].user = CommittedEntries[e].user
                   /\ CommittedReservations'[r].slot = CommittedEntries[e].slot
                   /\ CommittedReservations[r].status = "absent"
      <3>1. PICK e \in claims :
              /\ r = offer[e]
              /\ CommittedReservations'[r] =
                   [user |-> CommittedEntries[e].user, slot |-> CommittedEntries[e].slot,
                    entry |-> e, status |-> "active"]
        BY <2>4
      <3>. QED  BY <2>4, <3>1
    <2>. QED  BY <2>1, <2>2, <2>3, <2>4
  <1>4. ASSUME NEW e \in EntryIds, NEW r \in ReservationIds, Made(r, e)'
        PROVE  \/ e \in claims /\ r = offer[e]
               \/ e \notin claims /\ Made(r, e)
    <2>1. CASE \E f \in claims : r = offer[f] /\ CommittedReservations'[r].entry = f
      BY <1>4, <2>1 DEF Made
    <2>2. CASE /\ CommittedReservations'[r].entry = CommittedReservations[r].entry
               /\ CommittedReservations'[r].status # "absent" <=> CommittedReservations[r].status # "absent"
      <3>1. Made(r, e)
        BY <1>4, <2>2 DEF Made
      <3>. QED  BY <1>1, <3>1 DEF ClaimedOnce
    <2>. QED  BY <1>3, <2>1, <2>2
  <1>5. ASSUME NEW e \in EntryIds, NEW r \in ReservationIds, Made(r, e)'
        PROVE  /\ CommittedEntries'[e].status \notin {"absent", "active"}
               /\ CommittedReservations'[r].user = CommittedEntries'[e].user
               /\ CommittedReservations'[r].slot = CommittedEntries'[e].slot
    <2>1. CASE e \in claims /\ r = offer[e]
      BY <1>1, <2>1
    <2>2. CASE e \notin claims /\ Made(r, e)
      <3>1. /\ CommittedEntries[e].status \notin {"absent", "active"}
            /\ CommittedReservations[r].user = CommittedEntries[e].user
            /\ CommittedReservations[r].slot = CommittedEntries[e].slot
            /\ CommittedReservations[r].status # "absent"
        BY <2>2 DEF ClaimedOnce, Made
      <3>2. /\ CommittedReservations'[r].user = CommittedReservations[r].user
            /\ CommittedReservations'[r].slot = CommittedReservations[r].slot
        BY <1>3, <3>1
      <3>. QED  BY <1>2, <2>2, <3>1, <3>2
    <2>. QED  BY <1>4, <1>5, <2>1, <2>2
  <1>6. \A e \in EntryIds, r, q \in ReservationIds : Made(r, e)' /\ Made(q, e)' => r = q
    BY <1>4 DEF ClaimedOnce
  <1>7. ASSUME NEW e \in EntryIds, CommittedEntries'[e].status = "notified"
        PROVE  \E r \in ReservationIds : Made(r, e)'
    <2>1. CASE e \in claims
      BY <1>1, <2>1
    <2>2. CASE e \notin claims
      <3>1. PICK r \in ReservationIds : Made(r, e)
        BY <1>2, <1>7, <2>2 DEF ClaimedOnce
      <3>2. CommittedReservations[r].status # "absent"
        BY <3>1 DEF Made
      <3>3. Made(r, e)'
        BY <1>3, <3>1, <3>2 DEF Made
      <3>. QED  BY <3>3
    <2>. QED  BY <2>1, <2>2
  <1>. QED  BY <1>5, <1>6, <1>7 DEF ClaimedOnce

\* ClaimedOnce is kept by every step of the ledger.
LEMMA NextClaimedOnce ==
    ASSUME TypeInv, ClaimedOnce, [Ledger!Next]_(Ledger!vars)
    PROVE  ClaimedOnce'
  <1>1. CASE UNCHANGED Ledger!vars
    BY <1>1, NothingMade DEF Ledger!vars
  <1>2. ASSUME NEW u, NEW s, Ledger!CreateBooking(u, s)  PROVE ClaimedOnce'
    BY <1>2, NothingMade DEF Ledger!CreateBooking
  <1>3. ASSUME NEW u, NEW s, Ledger!JoinWaitlist(u, s)  PROVE ClaimedOnce'
    <2>1. UNCHANGED CommittedReservations
      BY <1>3 DEF Ledger!JoinWaitlist
    <2>2. \A e \in EntryIds :
            \/ CommittedEntries[e].status = "absent" /\ CommittedEntries'[e].status = "active"
            \/ CommittedEntries'[e] = CommittedEntries[e]
      BY <1>3, LedgerTypes DEF Ledger!JoinWaitlist
    <2>. QED  BY <2>1, <2>2, NothingMade
  <1>4. ASSUME NEW f \in EntryIds, Ledger!LeaveWaitlist(f)  PROVE ClaimedOnce'
    <2>1. UNCHANGED CommittedReservations
      BY <1>4 DEF Ledger!LeaveWaitlist
    <2>2. \A e \in EntryIds :
            \/ CommittedEntries'[e] = CommittedEntries[e]
            \/ /\ CommittedEntries'[e].status = "cancelled"
               /\ CommittedEntries'[e].user = CommittedEntries[e].user
               /\ CommittedEntries'[e].slot = CommittedEntries[e].slot
      BY <1>4, LedgerTypes DEF Ledger!LeaveWaitlist, LedgerEntry
    <2>. QED  BY <2>1, <2>2, NothingMade
  <1>5. ASSUME NEW q \in ReservationIds, Ledger!ConfirmReservation(q)  PROVE ClaimedOnce'
    <2>1. UNCHANGED CommittedEntries
      BY <1>5 DEF Ledger!ConfirmReservation
    <2>2. \A r \in ReservationIds :
             /\ CommittedReservations'[r].status = "absent" <=> CommittedReservations[r].status = "absent"
             /\ CommittedReservations'[r].user = CommittedReservations[r].user
             /\ CommittedReservations'[r].slot = CommittedReservations[r].slot
             /\ CommittedReservations'[r].entry = CommittedReservations[r].entry
      BY <1>5, LedgerTypes DEF Ledger!ConfirmReservation, LedgerReservation
    <2>. QED  BY <2>1, <2>2, NothingMade
  <1>6. ASSUME NEW ended \in SUBSET ReservationIds, NEW st \in {"cancelled", "expired"},
               NEW claims \in SUBSET EntryIds, NEW offer, Transfer(ended, st, claims, offer)
        PROVE  ClaimedOnce'
    BY <1>6, TransferClaimsOnce
  <1>. QED  BY <1>1, <1>2, <1>3, <1>4, <1>5, <1>6, CancelsTransfer DEF Ledger!Next

\* A waiter that was notified has exactly one reservation, made for its user and
\* its slot, and nobody has one while still waiting: the UPDATE of
\* ClaimNextForNotify and the INSERT of the reservation commit together, and SKIP
\* LOCKED never lets two transactions claim the same entry.
THEOREM ClaimedExactlyOnce == Spec => []EntryClaimedOnce
  <1>1. Init => ClaimedOnce
    <2>. SUFFICES ASSUME Init  PROVE ClaimedOnce
      OBVIOUS
    <2>1. /\ \A r \in ReservationIds : CommittedReservations[r].status = "absent"
          /\ \A e \in EntryIds : CommittedEntries[e].status = "absent"
      BY CommittedFields DEF Init, NoReservation, NoEntry
    <2>. QED  BY <2>1 DEF ClaimedOnce, Made
  <1>2. TxInv /\ ClaimedOnce /\ [Next]_vars => ClaimedOnce'
    BY NextLedger, NextClaimedOnce DEF TxInv, IndexInv
  <1>3. ClaimedOnce => EntryClaimedOnce
    <2>. SUFFICES ASSUME ClaimedOnce, NEW e \in EntryIds
                  PROVE  LET offers == {r \in ReservationIds : /\ slot_reservations[r].status # "absent"
                                                               /\ slot_reservations[r].entry = e}
                         IN /\ waitlist_entries[e].status \in {"absent", "active"} => offers = {}
                            /\ waitlist_entries[e].status = "notified" => \E r \in offers : offers = {r}
                            /\ \A r, q \in offers : r = q
                            /\ \A r \in offers :
                                 /\ slot_reservations[r].user = waitlist_entries[e].user
                                 /\ slot_reservations[r].slot = waitlist_entries[e].slot
      BY DEF EntryClaimedOnce
    <2>. DEFINE offers == {r \in ReservationIds : /\ slot_reservations[r].status # "absent"
                                                  /\ slot_reservations[r].entry = e}
    <2>1. \A r \in ReservationIds : r \in offers <=> Made(r, e)
      BY CommittedFields DEF Made
    <2>2. ASSUME NEW r \in offers
          PROVE  /\ waitlist_entries[e].status \notin {"absent", "active"}
                 /\ slot_reservations[r].user = waitlist_entries[e].user
                 /\ slot_reservations[r].slot = waitlist_entries[e].slot
      <3>1. /\ CommittedEntries[e].status \notin {"absent", "active"}
            /\ CommittedReservations[r].user = CommittedEntries[e].user
            /\ CommittedReservations[r].slot = CommittedEntries[e].slot
        BY <2>1 DEF ClaimedOnce
      <3>. QED  BY <3>1, CommittedFields
    <2>3. \A r, q \in offers : r = q
      BY <2>1 DEF ClaimedOnce
    <2>4. waitlist_entries[e].status = "notified" => \E r \in offers : offers = {r}
      <3>. SUFFICES ASSUME waitlist_entries[e].status = "notified"
                    PROVE  \E r \in offers : offers = {r}
        OBVIOUS
      <3>1. CommittedEntries[e].status = "notified"
        BY CommittedFields
      <3>2. PICK r \in ReservationIds : Made(r, e)
        BY <3>1 DEF ClaimedOnce
      <3>3. r \in offers
        BY <2>1, <3>2
      <3>. HIDE DEF offers
      <3>. QED  BY <2>3, <3>3
    <2>. QED  BY <2>2, <2>3, <2>4
  <1>. QED  BY <1>1, <1>2, <1>3, AlwaysTxInv, PTL DEF Spec
=============================================================================
