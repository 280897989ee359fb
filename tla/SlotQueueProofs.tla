--------------------------- MODULE SlotQueueProofs ---------------------------
(***************************************************************************)
(* The queue of a slot is never forgotten: whoever waits has an active     *)
(* booking or reservation of the slot to wait for, unless a claim skipped  *)
(* the entry because its row was locked.                                   *)
(*                                                                         *)
(* The booking or reservation that supports a queue may be about to end.   *)
(* Then the transaction that ends it still holds it, and either calls the  *)
(* queue, has made the next reservation, or is rolled back (Supports).     *)
(*                                                                         *)
(* The second part is about one goroutine that does everything in turn.    *)
(* It proves what does not hold with several of them: no slot is booked    *)
(* and reserved, no waiter is passed over, and use cases do what the lists *)
(* have shown.                                                             *)
(***************************************************************************)
EXTENDS SlotTransactionProofs, SlotLists

\* p is going to call the queue of slot s, or has just made a reservation for it.
Serves(p, s) ==
    \/ /\ tx[p].at_stmt \in {"claim", "insertReservation"}
       /\ \/ tx[p].op # "expire" /\ tx[p].slot = s
          \/ At(p, "insertReservation") /\ tx[p].slot = s
          \/ \E r \in tx[p].due : slot_reservations[r].slot = s
    \/ \E r \in ReservationIds : Offers(p, r) /\ slot_reservations[r].slot = s

\* The row keeps a queue of its slot waiting for good reason.
Supports(row, s) ==
    /\ row.slot = s /\ row.status = "active"
    /\ row.pend \in {"active", "confirmed"} \/ Serves(row.lock, s) \/ At(row.lock, "rollback")

Supported(s) ==
    \/ \E b \in BookingIds : Supports(bookings[b], s)
    \/ \E r \in ReservationIds : Supports(slot_reservations[r], s)

WaitersServed ==
    \A e \in EntryIds : waitlist_entries[e].status = "active" /\ e \notin passedOver =>
        Supported(waitlist_entries[e].slot)

QueueInv == TxInv /\ WaitersServed

-----------------------------------------------------------------------------
(* The others. *)

\* What q is going to do for a queue, it still is after a step of p.
LEMMA OthersServe ==
    ASSUME TxInv, NEW p, LeavesOthers(p), NEW q \in Procs \ {p}, NEW s, Serves(q, s)
    PROVE  Serves(q, s)'
  <1>1. tx'[q] = tx[q]
    BY OthersRows
  <1>2. CASE \E r \in ReservationIds : Offers(q, r) /\ slot_reservations[r].slot = s
    BY <1>2, OthersRows DEF Serves, Offers
  <1>3. CASE /\ tx[q].at_stmt \in {"claim", "insertReservation"}
             /\ \/ tx[q].op # "expire" /\ tx[q].slot = s
                \/ At(q, "insertReservation") /\ tx[q].slot = s
    BY <1>1, <1>3 DEF Serves, At
  <1>4. ASSUME tx[q].at_stmt \in {"claim", "insertReservation"},
               NEW r \in tx[q].due, slot_reservations[r].slot = s
        PROVE  Serves(q, s)'
    <2>1. r \in ReservationIds
      BY OwnTx DEF Locals
    <2>2. slot_reservations[r].lock = q
      BY <1>4, OwnTx, UseCaseOf DEF TxOK, CancelHolds, CancelResHolds, ExpireHolds, Ends, At
    <2>3. slot_reservations'[r] = slot_reservations[r]
      BY <2>1, <2>2, OthersRows
    <2>. QED  BY <1>1, <1>4, <2>3 DEF Serves
  <1>. QED  BY <1>2, <1>3, <1>4 DEF Serves

\* A row that p neither holds nor changes goes on supporting the queue.
LEMMA OthersSupport ==
    ASSUME TxInv, NEW p, LeavesOthers(p), NEW s
    PROVE  /\ \A b \in BookingIds :
                bookings[b].lock # p /\ bookings'[b] = bookings[b] /\ Supports(bookings[b], s)
                => Supports(bookings[b], s)'
           /\ \A r \in ReservationIds :
                /\ slot_reservations[r].lock # p /\ slot_reservations'[r] = slot_reservations[r]
                /\ Supports(slot_reservations[r], s)
                => Supports(slot_reservations[r], s)'
  <1>1. ASSUME NEW b \in BookingIds, bookings[b].lock # p, bookings'[b] = bookings[b],
               Supports(bookings[b], s)
        PROVE  Supports(bookings[b], s)'
    <2>1. CASE bookings[b].lock = None
      <3>1. bookings[b].pend = bookings[b].status
        BY <2>1 DEF TxInv, IndexInv, IndexesProtected, BookingIndex, IndexProtected
      <3>. QED  BY <1>1, <3>1 DEF Supports
    <2>2. CASE bookings[b].lock # None
      <3>1. bookings[b].lock \in Procs \ {p}
        BY <1>1, <2>2 DEF TxInv, IndexInv, TypeInv, TypeOK, BookingRow
      <3>2. Serves(bookings[b].lock, s) => Serves(bookings[b].lock, s)'
        <4>1. PICK q \in Procs \ {p} : q = bookings[b].lock
          BY <3>1
        <4>. QED  BY <1>1, <4>1, OthersServe
      <3>3. At(bookings[b].lock, "rollback") => At(bookings[b].lock, "rollback")'
        BY <1>1, <3>1, OthersRows DEF At
      <3>. QED  BY <1>1, <3>2, <3>3 DEF Supports
    <2>. QED  BY <2>1, <2>2
  <1>2. ASSUME NEW r \in ReservationIds, slot_reservations[r].lock # p,
               slot_reservations'[r] = slot_reservations[r], Supports(slot_reservations[r], s)
        PROVE  Supports(slot_reservations[r], s)'
    <2>1. CASE slot_reservations[r].lock = None
      <3>1. slot_reservations[r].pend = slot_reservations[r].status
        BY <2>1 DEF TxInv, IndexInv, IndexesProtected, ReservationIndex, IndexProtected
      <3>. QED  BY <1>2, <3>1 DEF Supports
    <2>2. CASE slot_reservations[r].lock # None
      <3>1. slot_reservations[r].lock \in Procs \ {p}
        BY <1>2, <2>2 DEF TxInv, IndexInv, TypeInv, TypeOK, ReservationRow
      <3>2. Serves(slot_reservations[r].lock, s) => Serves(slot_reservations[r].lock, s)'
        <4>1. PICK q \in Procs \ {p} : q = slot_reservations[r].lock
          BY <3>1
        <4>. QED  BY <1>2, <4>1, OthersServe
      <3>3. At(slot_reservations[r].lock, "rollback") => At(slot_reservations[r].lock, "rollback")'
        BY <1>2, <3>1, OthersRows DEF At
      <3>. QED  BY <1>2, <3>2, <3>3 DEF Supports
    <2>. QED  BY <2>1, <2>2
  <1>. QED  BY <1>1, <1>2

-----------------------------------------------------------------------------
(* The transaction that serves a queue. *)

\* Only the statements of a claim, and what follows them, serve a queue.
LEMMA OnlyClaimsServe ==
    ASSUME TxInv, NEW p \in Procs, NEW s, Serves(p, s)
    PROVE  tx[p].at_stmt \in {"claim", "insertReservation", "commit", "rollback"}
  <1>. SUFFICES ASSUME tx[p].at_stmt \notin {"claim", "insertReservation", "commit", "rollback"}
                PROVE  FALSE
    OBVIOUS
  <1>0. TxOK(p) /\ tx[p].op \in Ops /\ tx[p].at_stmt \in StatementsOf(tx[p].op)
    BY OwnTx DEF TxOK
  <1>1. PICK r \in ReservationIds : slot_reservations[r].lock = p /\ slot_reservations[r].status = "absent"
    BY DEF Serves, Offers, Moves
  <1>2. tx[p].at_stmt \notin FirstStatements
    BY <1>0, <1>1 DEF TxOK, HoldsNothing, HoldsNoReservation
  <1>3. tx[p].at_stmt \in {"insertBooking", "lockBooking", "waitBooking", "insertEntry",
                           "setConfirmed", "setCancelled"}
    BY <1>0, <1>2 DEF FirstStatements, StatementsOf, Ops
  <1>4. tx[p].op \in {"create", "join", "confirm", "cancelRes"}
    BY <1>0, <1>3, UseCaseOf
  <1>5. CASE tx[p].op \in {"create", "join"}
    BY <1>0, <1>1, <1>5 DEF TxOK, CreateHolds, JoinHolds, HoldsNoReservation
  <1>6. CASE tx[p].op = "confirm"
    BY <1>0, <1>1, <1>3, <1>6 DEF TxOK, ConfirmHolds, OnlyReservation, Moves, At
  <1>7. CASE tx[p].op = "cancelRes"
    <2>1. tx[p].at_stmt = "setCancelled"
      BY <1>0, <1>3, <1>7, UseCaseOf
    <2>. QED  BY <1>0, <1>1, <1>7, <2>1 DEF TxOK, CancelResHolds, OnlyReservation, Moves, At
  <1>. QED  BY <1>4, <1>5, <1>6, <1>7

\* A statement that ends an active booking is followed by a claim for its slot.
LEMMA BookingStays ==
    ASSUME TxInv, NEW p \in Procs, Statement(p), NEW b \in BookingIds,
           bookings[b].status = "active", NEW s, s = bookings[b].slot
    PROVE  bookings'[b].pend = bookings[b].pend \/ Serves(p, s)'
  <1>0. bookings \in [BookingIds -> BookingRow] /\ tx \in [Procs -> Locals] /\ TypeInv
    BY OwnTx
  <1>1. CASE UNCHANGED bookings
    BY <1>1
  <1>2. ASSUME NEW c, bookings' = Locked(bookings, c, p)  PROVE bookings'[b].pend = bookings[b].pend
    BY <1>0, <1>2 DEF Locked, BookingRow
  <1>3. CASE LockBooking(p) \/ WaitBooking(p)
    BY <1>1, <1>2, <1>3 DEF LockBooking, WaitBooking
  <1>4. CASE InsertBooking(p) /\ ~UNCHANGED bookings
    <2>1. FreshId(bookings) # b
      BY <1>0, <1>4, FreshIdIsFresh DEF InsertBooking, IsFresh
    <2>. QED  BY <1>0, <1>4, <2>1 DEF InsertBooking
  <1>5. CASE UpdateBooking(p) /\ ~UNCHANGED bookings
    <2>1. bookings' = Written(bookings, tx[p].bk, p, "cancelled")
      BY <1>5 DEF UpdateBooking
    <2>2. CASE b # tx[p].bk
      BY <1>0, <2>1, <2>2 DEF Written
    <2>3. CASE b = tx[p].bk
      <3>1. tx[p].wasActive /\ tx[p].slot = s /\ tx[p].op = "cancel"
        BY <1>5, <2>3, OwnTx, UseCaseOf DEF UpdateBooking, TxOK, CancelHolds, At
      <3>2. Goto(p, "claim")
        BY <1>5, <3>1 DEF UpdateBooking
      <3>3. tx'[p].at_stmt = "claim" /\ SameLocals(tx[p], tx'[p])
        BY <1>0, <3>2, GotoLocals DEF Stages
      <3>. QED  BY <3>1, <3>3 DEF Serves, SameLocals
    <2>. QED  BY <2>2, <2>3
  <1>. QED
    BY <1>1, <1>3, <1>4, <1>5
    DEF Statement, CheckReservation, WaitReservation, Claim, ClaimForExpired, InsertReservation,
        InsertEntry, LockReservation, SetConfirmed, SetCancelled, ExpireBatch

\* So is a statement that cancels or expires a reservation.
LEMMA ReservationStays ==
    ASSUME TxInv, NEW p \in Procs, Statement(p), NEW r \in ReservationIds,
           slot_reservations[r].status = "active", NEW s, s = slot_reservations[r].slot
    PROVE  \/ slot_reservations'[r].pend \in {slot_reservations[r].pend, "confirmed"}
           \/ Serves(p, s)'
  <1>0. /\ slot_reservations \in [ReservationIds -> ReservationRow]
        /\ tx \in [Procs -> Locals] /\ tx[p] \in Locals /\ TypeInv
    BY OwnTx
  <1>1. CASE UNCHANGED slot_reservations
    BY <1>1
  <1>2. ASSUME NEW q, slot_reservations' = Locked(slot_reservations, q, p)
        PROVE  slot_reservations'[r].pend = slot_reservations[r].pend
    BY <1>0, <1>2 DEF Locked, ReservationRow
  <1>3. CASE CheckReservation(p) \/ WaitReservation(p) \/ LockReservation(p)
    BY <1>1, <1>2, <1>3 DEF CheckReservation, WaitReservation, LockReservation
  <1>4. CASE InsertReservation(p) /\ ~UNCHANGED slot_reservations
    <2>1. FreshId(slot_reservations) # r
      BY <1>0, <1>4, FreshIdIsFresh DEF InsertReservation, IsFresh
    <2>. QED  BY <1>0, <1>4, <2>1 DEF InsertReservation
  <1>5. ASSUME NEW st, slot_reservations' = Written(slot_reservations, tx[p].rv, p, st)
        PROVE  /\ r # tx[p].rv => slot_reservations'[r].pend = slot_reservations[r].pend
               /\ r = tx[p].rv => slot_reservations'[r].pend = st
    BY <1>0, <1>5 DEF Written, ReservationRow
  <1>6. CASE SetConfirmed(p)
    BY <1>1, <1>5, <1>6 DEF SetConfirmed, SetReservation
  <1>7. CASE SetCancelled(p)
    <2>1. CASE r = tx[p].rv
      <3>1. tx[p].slot = s /\ tx[p].op = "cancelRes"
        BY <1>7, <2>1, OwnTx, UseCaseOf DEF SetCancelled, TxOK, CancelResHolds, At
      <3>2. tx'[p].at_stmt = "claim" /\ SameLocals(tx[p], tx'[p])
        BY <1>0, <1>7, GotoLocals DEF SetCancelled, Stages
      <3>. QED  BY <3>1, <3>2 DEF Serves, SameLocals
    <2>. QED  BY <1>1, <1>5, <1>7, <2>1 DEF SetCancelled, SetReservation
  <1>8. CASE ExpireBatch(p)
    <2>1. PICK batch \in Batches(p) :
            /\ slot_reservations' = [q \in ReservationIds |->
                 IF q \in batch THEN [slot_reservations[q] EXCEPT !.pend = "expired", !.lock = p]
                                ELSE slot_reservations[q]]
            /\ LET t == [tx[p] EXCEPT !.due = batch]
               IN tx' = [tx EXCEPT ![p] = Continue(t, AfterClaim(t))]
      BY <1>8 DEF ExpireBatch
    <2>2. CASE r \notin batch
      BY <2>1, <2>2
    <2>3. CASE r \in batch
      <3>. DEFINE t == [tx[p] EXCEPT !.due = batch]
      <3>1. t \in Locals /\ t.due = batch
        BY <1>0 DEF Locals, Batches, FirstOf, Due
      <3>2. tx'[p] = Continue(t, AfterClaim(t))
        BY <1>0, <2>1
      <3>. HIDE DEF t
      <3>3. AfterClaim(t) = "claim"
        BY <2>3, <3>1 DEF AfterClaim
      <3>4. tx'[p].at_stmt = "claim" /\ tx'[p].due = batch
        BY <3>1, <3>2, <3>3, ContinueLocals DEF Stages, SameLocals
      <3>5. slot_reservations'[r].slot = s
        BY <1>0, <2>1, <2>3 DEF ReservationRow
      <3>. QED  BY <2>3, <3>4, <3>5 DEF Serves
    <2>. QED  BY <2>2, <2>3
  <1>. QED
    BY <1>1, <1>3, <1>4, <1>6, <1>7, <1>8
    DEF Statement, InsertBooking, UpdateBooking, Claim, ClaimForExpired, LockBooking, WaitBooking,
        InsertEntry

\* A claim for slot s serves the queue of s, unless it finds only entries that
\* others have locked; and it leaves the other expired slots to be handled.
LEMMA ClaimNextServes ==
    ASSUME TxInv, NEW p \in Procs, NEW s0, NEW t \in Locals, t.slot = s0, At(p, "claim"),
           ClaimsAreOffered(p), ClaimNextForNotify(p, s0, t), UNCHANGED slot_reservations
    PROVE  /\ \A e \in EntryIds :
                /\ waitlist_entries[e].status = "active" /\ waitlist_entries[e].slot = s0
                /\ e \notin passedOver'
                => Serves(p, s0)'
           /\ \A r \in t.due : \A s : slot_reservations[r].slot = s => Serves(p, s)'
  <1>0. tx \in [Procs -> Locals] /\ waitlist_entries \in [EntryIds -> EntryRow]
    BY OwnTx
  <1>1. CASE \E e \in NextEntries(s0, p) :
               tx' = [tx EXCEPT ![p] = [t EXCEPT !.at_stmt = "insertReservation", !.en = e]]
    <2>1. tx'[p].at_stmt = "insertReservation" /\ tx'[p].slot = s0 /\ tx'[p].due = t.due
      BY <1>0, <1>1 DEF Locals
    <2>. QED  BY <2>1 DEF Serves, At
  <1>2. CASE /\ Claimable(s0, p) = {}
             /\ tx' = [tx EXCEPT ![p] = Continue(t, AfterClaim(t))]
             /\ passedOver' = passedOver \union SkipLocked(s0, p)
    <2>1. tx'[p] = Continue(t, AfterClaim(t))
      BY <1>0, <1>2
    <2>2. ASSUME NEW e \in EntryIds, waitlist_entries[e].status = "active",
                 waitlist_entries[e].slot = s0, e \notin passedOver'
          PROVE  Serves(p, s0)'
      <3>1. waitlist_entries[e].lock = p
        BY <1>2, <2>2 DEF Claimable, SkipLocked, Waiting, LockFree, View
      <3>2. PICK r \in ReservationIds : OffersTo(p, r, e)
        BY <3>1 DEF ClaimsAreOffered, At
      <3>3. slot_reservations[r].slot = s0 /\ Offers(p, r)
        BY <2>2, <3>2 DEF ClaimsAreOffered, OffersTo
      <3>. QED  BY <3>3 DEF Serves, Offers
    <2>3. ASSUME NEW r \in t.due, NEW s, slot_reservations[r].slot = s
          PROVE  Serves(p, s)'
      <3>1. AfterClaim(t) = "claim"
        BY <2>3 DEF AfterClaim
      <3>2. tx'[p].at_stmt = "claim" /\ tx'[p].due = t.due
        BY <2>1, <3>1, ContinueLocals DEF Stages, SameLocals
      <3>. QED  BY <2>3, <3>2 DEF Serves
    <2>. QED  BY <2>2, <2>3
  <1>. QED  BY <1>1, <1>2 DEF ClaimNextForNotify

\* A transaction that serves the queue of s goes on doing so with its next
\* statement, or it is rolled back, or it has passed over whoever waits.
LEMMA ServesOn ==
    ASSUME TxInv, NEW p \in Procs, Statement(p), NEW s, Serves(p, s), NEW e \in EntryIds,
           waitlist_entries[e].status = "active", waitlist_entries[e].slot = s,
           e \notin passedOver'
    PROVE  Serves(p, s)' \/ At(p, "rollback")'
  <1>0. /\ TxOK(p) /\ tx[p].op \in Ops /\ tx[p].at_stmt \in StatementsOf(tx[p].op)
        /\ tx[p] \in Locals /\ tx \in [Procs -> Locals] /\ TypeInv
        /\ slot_reservations \in [ReservationIds -> ReservationRow] /\ p # None
    BY OwnTx DEF TxOK
  <1>1. tx[p].at_stmt \in {"claim", "insertReservation"}
    BY OnlyClaimsServe
    DEF Statement, CheckReservation, WaitReservation, InsertBooking, UpdateBooking, Claim,
        ClaimForExpired, InsertReservation, LockBooking, WaitBooking, InsertEntry,
        LockReservation, SetConfirmed, SetCancelled, ExpireBatch, At
  <1>2. ASSUME UNCHANGED slot_reservations, NEW r \in ReservationIds, Offers(p, r),
               slot_reservations[r].slot = s
        PROVE  Serves(p, s)'
    BY <1>2 DEF Serves, Offers
  <1>3. CASE Claim(p)
    <2>. DEFINE t == [tx[p] EXCEPT !.at = IF tx[p].op = "cancel" THEN now ELSE tx[p].at]
    <2>1. t \in Locals /\ t.slot = tx[p].slot
      BY <1>0 DEF Locals, TypeInv, TypeOK
    <2>2. ClaimNextForNotify(p, tx[p].slot, t) /\ UNCHANGED slot_reservations
      BY <1>3 DEF Claim
    <2>. HIDE DEF t
    <2>3. /\ At(p, "claim") /\ tx[p].op \in {"cancel", "cancelRes"}
          /\ tx[p].due = {} /\ ClaimsAreOffered(p)
      BY <1>0, <1>3, UseCaseOf DEF Claim, TxOK, CancelHolds, CancelResHolds, At
    <2>4. CASE tx[p].slot = s
      <3>1. t.slot = s /\ ClaimNextForNotify(p, s, t)
        BY <2>1, <2>2, <2>4
      <3>. QED  BY <2>1, <2>2, <2>3, <3>1, ClaimNextServes
    <2>. QED  BY <1>2, <2>2, <2>3, <2>4 DEF Serves, At
  <1>4. CASE ClaimForExpired(p)
    <2>1. PICK r \in tx[p].due :
            ClaimNextForNotify(p, slot_reservations[r].slot,
              [tx[p] EXCEPT !.slot = slot_reservations[r].slot, !.due = tx[p].due \ {r}])
      BY <1>4 DEF ClaimForExpired
    <2>. DEFINE t == [tx[p] EXCEPT !.slot = slot_reservations[r].slot, !.due = tx[p].due \ {r}]
    <2>2. t \in Locals /\ t.slot = slot_reservations[r].slot /\ t.due = tx[p].due \ {r}
      BY <1>0 DEF Locals, ReservationRow
    <2>3. /\ ClaimNextForNotify(p, slot_reservations[r].slot, t) /\ UNCHANGED slot_reservations
          /\ At(p, "claim") /\ tx[p].op = "expire"
      BY <1>4, <2>1 DEF ClaimForExpired
    <2>. HIDE DEF t
    <2>4. ClaimsAreOffered(p)
      BY <1>0, <2>3 DEF TxOK, ExpireHolds, At
    <2>5. /\ slot_reservations[r].slot = s => Serves(p, s)'
          /\ \A q \in tx[p].due \ {r} : slot_reservations[q].slot = s => Serves(p, s)'
      <3>1. PICK s0 : s0 = slot_reservations[r].slot
        OBVIOUS
      <3>2. t.slot = s0 /\ ClaimNextForNotify(p, s0, t)
        BY <2>2, <2>3, <3>1
      <3>3. /\ s0 = s => Serves(p, s0)'
            /\ \A q \in t.due : slot_reservations[q].slot = s => Serves(p, s)'
        BY <2>2, <2>3, <2>4, <3>2, ClaimNextServes
      <3>. QED  BY <2>2, <3>1, <3>3
    <2>. QED  BY <1>2, <2>3, <2>5 DEF Serves, At
  <1>5. CASE InsertReservation(p)
    <2>1. CASE Goto(p, "rollback")
      BY <1>0, <2>1, GotoLocals DEF Stages, At
    <2>2. CASE ~Goto(p, "rollback")
      <3>. DEFINE row == [user |-> waitlist_entries[tx[p].en].user, slot |-> tx[p].slot,
                          entry |-> tx[p].en, expires_at |-> ExpiresAt(tx[p]),
                          status |-> "absent", pend |-> "active", lock |-> p]
      <3>1. /\ HasFresh(slot_reservations) /\ Goto(p, AfterClaim(tx[p]))
            /\ slot_reservations' = [slot_reservations EXCEPT ![FreshId(slot_reservations)] = row]
        BY <1>5, <2>2 DEF InsertReservation
      <3>2. row.lock = p /\ Moves(row, "absent", "active") /\ row.slot = tx[p].slot
        BY DEF Moves
      <3>. HIDE DEF row
      <3>3. PICK f \in ReservationIds :
              /\ slot_reservations[f].lock = None /\ slot_reservations'[f] = row
              /\ \A r \in ReservationIds \ {f} : slot_reservations'[r] = slot_reservations[r]
        <4>1. /\ FreshId(slot_reservations) \in ReservationIds
              /\ IsFresh(slot_reservations, FreshId(slot_reservations))
          BY <1>0, <3>1, FreshIdIsFresh
        <4>. QED  BY <1>0, <3>1, <4>1 DEF IsFresh
      <3>4. CASE tx[p].slot = s
        BY <3>2, <3>3, <3>4 DEF Serves, Offers
      <3>5. ASSUME NEW r \in ReservationIds, Offers(p, r), slot_reservations[r].slot = s
            PROVE  Serves(p, s)'
        BY <1>0, <3>3, <3>5 DEF Serves, Offers
      <3>6. ASSUME NEW r \in tx[p].due, slot_reservations[r].slot = s
            PROVE  Serves(p, s)'
        <4>1. AfterClaim(tx[p]) = "claim" /\ r \in ReservationIds
          BY <1>0, <3>6 DEF AfterClaim, Locals
        <4>2. tx'[p].at_stmt = "claim" /\ tx'[p].due = tx[p].due
          BY <1>0, <3>1, <4>1, GotoLocals DEF Stages, SameLocals
        <4>3. slot_reservations[r].lock = p
          BY <1>0, <1>5, <3>6, UseCaseOf
          DEF InsertReservation, TxOK, CancelHolds, CancelResHolds, ExpireHolds, Ends, At
        <4>4. slot_reservations'[r].slot = s
          BY <1>0, <3>3, <3>6, <4>1, <4>3
        <4>. QED  BY <4>2, <4>4 DEF Serves
      <3>. QED  BY <3>4, <3>5, <3>6 DEF Serves
    <2>. QED  BY <2>1, <2>2
  <1>. QED
    BY <1>1, <1>3, <1>4, <1>5
    DEF Statement, CheckReservation, WaitReservation, InsertBooking, UpdateBooking, LockBooking,
        WaitBooking, InsertEntry, LockReservation, SetConfirmed, SetCancelled, ExpireBatch, At

-----------------------------------------------------------------------------
(* The steps. *)

\* passedOver only grows.
LEMMA PassedOverGrows ==
    ASSUME NEW p, Statement(p)  PROVE passedOver \subseteq passedOver'
  BY DEF Statement, CheckReservation, WaitReservation, InsertBooking, UpdateBooking, Claim,
         ClaimForExpired, ClaimNextForNotify, InsertReservation, LockBooking, WaitBooking,
         InsertEntry, LockReservation, SetConfirmed, SetCancelled, ExpireBatch, history

\* The inductive step: a statement leaves every waiter with a reason to wait.
LEMMA StatementServes ==
    ASSUME QueueInv, NEW p \in Procs, Statement(p)
    PROVE  WaitersServed'
  <1>. SUFFICES ASSUME NEW e \in EntryIds, waitlist_entries'[e].status = "active",
                       e \notin passedOver', NEW s, s = waitlist_entries'[e].slot
                PROVE  Supported(s)'
    BY DEF WaitersServed
  <1>0. TxInv /\ StatementTouches(p) /\ LeavesOthers(p) /\ p # None
    BY OwnTx, StatementTouchesRows, TouchesLeavesOthers DEF QueueInv
  <1>1. waitlist_entries[e].status = "active" /\ waitlist_entries[e].slot = s /\ e \notin passedOver
    BY <1>0, PassedOverGrows DEF StatementTouches, EntriesTouched, Touched, SameRow
  <1>2. Supported(s)
    BY <1>1 DEF QueueInv, WaitersServed
  <1>3. ~At(p, "rollback")
    BY DEF Statement, CheckReservation, WaitReservation, InsertBooking, UpdateBooking, Claim,
           ClaimForExpired, InsertReservation, LockBooking, WaitBooking, InsertEntry,
           LockReservation, SetConfirmed, SetCancelled, ExpireBatch, At
  <1>4. Serves(p, s) => Serves(p, s)' \/ At(p, "rollback")'
    BY <1>0, <1>1, ServesOn
  <1>5. ASSUME NEW b \in BookingIds, Supports(bookings[b], s)  PROVE Supported(s)'
    <2>1. bookings[b].slot = s /\ bookings[b].status = "active"
      BY <1>5 DEF Supports
    <2>2. CASE bookings[b].lock \notin {None, p}
      <3>1. bookings'[b] = bookings[b]
        BY <1>0, <2>2 DEF LeavesOthers
      <3>. QED  BY <1>0, <1>5, <2>2, <3>1, OthersSupport DEF Supported
    <2>3. CASE bookings[b].lock \in {None, p}
      <3>1. /\ bookings'[b].slot = s /\ bookings'[b].status = "active"
            /\ bookings'[b] = bookings[b] \/ bookings'[b].lock = p
        BY <1>0, <2>1 DEF StatementTouches, BookingsTouched, Touched, SameRow
      <3>2. bookings'[b].pend = bookings[b].pend \/ Serves(p, s)'
        BY <1>0, <2>1, BookingStays
      <3>3. CASE bookings[b].pend = "active"
        BY <3>1, <3>2, <3>3 DEF Supports, Supported
      <3>4. CASE bookings[b].pend # "active"
        <4>1. bookings[b].lock = p
          BY <1>0, <2>1, <2>3, <3>4
          DEF TxInv, IndexInv, IndexesProtected, BookingIndex, IndexProtected
        <4>2. Serves(p, s)
          BY <1>0, <1>3, <1>5, <2>1, <3>4, <4>1 DEF Supports, TxInv, RowsMove, BookingMoves, Moves
        <4>3. bookings'[b].lock = p
          BY <3>1, <4>1
        <4>. QED  BY <1>4, <3>1, <4>2, <4>3 DEF Supports, Supported
      <3>. QED  BY <3>3, <3>4
    <2>. QED  BY <2>2, <2>3
  <1>6. ASSUME NEW r \in ReservationIds, Supports(slot_reservations[r], s)  PROVE Supported(s)'
    <2>1. slot_reservations[r].slot = s /\ slot_reservations[r].status = "active"
      BY <1>6 DEF Supports
    <2>2. CASE slot_reservations[r].lock \notin {None, p}
      <3>1. slot_reservations'[r] = slot_reservations[r]
        BY <1>0, <2>2 DEF LeavesOthers
      <3>. QED  BY <1>0, <1>6, <2>2, <3>1, OthersSupport DEF Supported
    <2>3. CASE slot_reservations[r].lock \in {None, p}
      <3>1. /\ slot_reservations'[r].slot = s /\ slot_reservations'[r].status = "active"
            /\ slot_reservations'[r] = slot_reservations[r] \/ slot_reservations'[r].lock = p
        BY <1>0, <2>1 DEF StatementTouches, ReservationsTouched, Touched, SameRow
      <3>2. slot_reservations'[r].pend \in {slot_reservations[r].pend, "confirmed"} \/ Serves(p, s)'
        BY <1>0, <2>1, ReservationStays
      <3>3. CASE slot_reservations[r].pend \in {"active", "confirmed"}
        BY <3>1, <3>2, <3>3 DEF Supports, Supported
      <3>4. CASE slot_reservations[r].pend \notin {"active", "confirmed"}
        <4>1. slot_reservations[r].lock = p
          BY <1>0, <2>1, <2>3, <3>4
          DEF TxInv, IndexInv, IndexesProtected, ReservationIndex, IndexProtected
        <4>2. Serves(p, s)
          BY <1>3, <1>6, <3>4, <4>1 DEF Supports
        <4>3. slot_reservations'[r].lock = p
          BY <3>1, <4>1
        <4>. QED  BY <1>4, <3>1, <4>2, <4>3 DEF Supports, Supported
      <3>. QED  BY <3>3, <3>4
    <2>. QED  BY <2>2, <2>3
  <1>. QED  BY <1>2, <1>5, <1>6 DEF Supported

\* COMMIT: a booking or a reservation that ends leaves a new one behind, or the
\* transaction would still have to call the queue.
LEMMA CommitServes ==
    ASSUME QueueInv, NEW p \in Procs, Commit(p)
    PROVE  WaitersServed'
  <1>. SUFFICES ASSUME NEW e \in EntryIds, waitlist_entries'[e].status = "active",
                       e \notin passedOver', NEW s, s = waitlist_entries'[e].slot
                PROVE  Supported(s)'
    BY DEF WaitersServed
  <1>0. /\ TxInv /\ TypeInv /\ LeavesOthers(p) /\ p # None /\ UNCHANGED passedOver
        /\ At(p, "commit") /\ TxOK(p) /\ tx[p].op \in Ops /\ tx[p].at_stmt \in StatementsOf(tx[p].op)
    BY OwnTx, CommitTx DEF QueueInv, Commit, TxOK
  <1>1. ASSUME NEW b \in BookingIds, bookings[b].lock = p, bookings[b].pend = "active",
               bookings[b].slot = s
        PROVE  Supported(s)'
    BY <1>0, <1>1, CommitRows DEF CommittedRow, Supports, Supported
  <1>2. ASSUME NEW r \in ReservationIds, slot_reservations[r].lock = p,
               slot_reservations[r].pend = "active", slot_reservations[r].slot = s
        PROVE  Supported(s)'
    BY <1>0, <1>2, CommitRows DEF CommittedRow, Supports, Supported
  <1>3. CASE waitlist_entries[e].lock = p
    <2>1. waitlist_entries[e].pend = "active" /\ waitlist_entries[e].slot = s
      BY <1>0, <1>3, CommitRows DEF CommittedRow
    <2>2. tx[p].op = "join"
      <3>1. CASE tx[p].op \in {"create", "confirm"}
        BY <1>0, <1>3, <3>1 DEF TxOK, CreateHolds, ConfirmHolds, HoldsNoEntry
      <3>2. CASE tx[p].op = "leave"
        BY <1>0, <1>3, <2>1, <3>2 DEF TxOK, LeaveHolds, OnlyEntry
      <3>3. CASE tx[p].op \in {"cancel", "expire"}
        BY <1>0, <1>3, <2>1, <3>3 DEF TxOK, CancelHolds, ExpireHolds, ClaimsAreOffered, Moves, At
      <3>4. CASE tx[p].op = "cancelRes"
        BY <1>0, <1>3, <2>1, <3>4 DEF TxOK, CancelResHolds, HoldsNoEntry, ClaimsAreOffered, Moves, At
      <3>. QED  BY <1>0, <3>1, <3>2, <3>3, <3>4, UseCaseOf DEF Ops, At
    <2>3. PICK b \in BookingIds : /\ OnlyBooking(p, b) /\ Moves(bookings[b], "active", "active")
                                  /\ bookings[b].slot = s
      BY <1>0, <1>3, <2>1, <2>2 DEF TxOK, JoinHolds, OnlyEntry
    <2>. QED  BY <1>1, <2>3 DEF OnlyBooking, Moves
  <1>4. CASE waitlist_entries[e].lock # p
    <2>1. Supported(s)
      BY <1>0, <1>4, CommitRows DEF CommittedRow, QueueInv, WaitersServed
    <2>2. CASE Serves(p, s)
      <3>1. PICK r \in ReservationIds : Offers(p, r) /\ slot_reservations[r].slot = s
        BY <1>0, <2>2 DEF Serves, At
      <3>. QED  BY <1>2, <3>1 DEF Offers, Moves
    <2>3. ASSUME NEW b \in BookingIds, Supports(bookings[b], s)  PROVE Supported(s)'
      <3>1. CASE bookings[b].lock # p
        <4>1. bookings'[b] = bookings[b]
          BY <1>0, <3>1, CommitRows DEF CommittedRow
        <4>. QED  BY <1>0, <2>3, <3>1, <4>1, OthersSupport DEF Supported
      <3>2. CASE bookings[b].lock = p
        <4>1. bookings[b].pend = "active" \/ Serves(p, s)
          BY <1>0, <2>3, <3>2 DEF Supports, At, TxInv, RowsMove, BookingMoves, Moves
        <4>. QED  BY <1>1, <2>2, <2>3, <3>2, <4>1 DEF Supports
      <3>. QED  BY <3>1, <3>2
    <2>4. ASSUME NEW r \in ReservationIds, Supports(slot_reservations[r], s)  PROVE Supported(s)'
      <3>1. CASE slot_reservations[r].lock # p
        <4>1. slot_reservations'[r] = slot_reservations[r]
          BY <1>0, <3>1, CommitRows DEF CommittedRow
        <4>. QED  BY <1>0, <2>4, <3>1, <4>1, OthersSupport DEF Supported
      <3>2. CASE slot_reservations[r].lock = p
        <4>1. \/ slot_reservations[r].pend = "active" \/ Serves(p, s)
              \/ slot_reservations[r].pend = "confirmed"
          BY <1>0, <2>4, <3>2 DEF Supports, At
        <4>2. ASSUME slot_reservations[r].pend = "confirmed"  PROVE Supported(s)'
          <5>1. tx[p].op = "confirm"
            <6>1. CASE tx[p].op \in {"create", "join", "leave"}
              BY <1>0, <3>2, <6>1
              DEF TxOK, CreateHolds, JoinHolds, LeaveHolds, HoldsNoReservation
            <6>2. slot_reservations[r].status = "active"
              BY <2>4 DEF Supports
            <6>3. CASE tx[p].op = "cancel"
              BY <1>0, <3>2, <4>2, <6>3 DEF TxOK, CancelHolds, Offers, Moves, At
            <6>4. CASE tx[p].op = "cancelRes"
              BY <1>0, <3>2, <4>2, <6>2, <6>4 DEF TxOK, CancelResHolds, Offers, Moves, At
            <6>5. CASE tx[p].op = "expire"
              BY <1>0, <3>2, <4>2, <6>5 DEF TxOK, ExpireHolds, Offers, Moves, At
            <6>. QED  BY <1>0, <6>1, <6>3, <6>4, <6>5, UseCaseOf DEF Ops, At
          <5>2. PICK b \in BookingIds : /\ OnlyBooking(p, b) /\ Moves(bookings[b], "absent", "active")
                                        /\ bookings[b].slot = slot_reservations[r].slot
            BY <1>0, <3>2, <5>1 DEF TxOK, ConfirmHolds, OnlyReservation
          <5>. QED  BY <1>1, <2>4, <5>2 DEF OnlyBooking, Moves, Supports
        <4>. QED  BY <1>2, <2>2, <2>4, <3>2, <4>1, <4>2 DEF Supports
      <3>. QED  BY <3>1, <3>2
    <2>. QED  BY <2>1, <2>3, <2>4 DEF Supported
  <1>. QED  BY <1>3, <1>4

\* ROLLBACK: what was about to end is as it was.
LEMMA UndoServes ==
    ASSUME QueueInv, NEW p \in Procs, UndoAll(p)
    PROVE  WaitersServed'
  <1>. SUFFICES ASSUME NEW e \in EntryIds, waitlist_entries'[e].status = "active",
                       e \notin passedOver', NEW s, s = waitlist_entries'[e].slot
                PROVE  Supported(s)'
    BY DEF WaitersServed
  <1>0. TxInv /\ TypeInv /\ LeavesOthers(p) /\ UNCHANGED passedOver
    BY OwnTx, UndoTx DEF QueueInv, UndoAll, history
  <1>1. Supported(s)
    BY <1>0, UndoRows DEF UndoneRow, SameRow, QueueInv, WaitersServed
  <1>2. ASSUME NEW b \in BookingIds, Supports(bookings[b], s)  PROVE Supported(s)'
    <2>1. CASE bookings[b].lock # p
      <3>1. bookings'[b] = bookings[b]
        BY <1>0, <2>1, UndoRows DEF UndoneRow
      <3>. QED  BY <1>0, <1>2, <2>1, <3>1, OthersSupport DEF Supported
    <2>2. CASE bookings[b].lock = p
      BY <1>0, <1>2, <2>2, UndoRows DEF UndoneRow, SameRow, Supports, Supported
    <2>. QED  BY <2>1, <2>2
  <1>3. ASSUME NEW r \in ReservationIds, Supports(slot_reservations[r], s)  PROVE Supported(s)'
    <2>1. CASE slot_reservations[r].lock # p
      <3>1. slot_reservations'[r] = slot_reservations[r]
        BY <1>0, <2>1, UndoRows DEF UndoneRow
      <3>. QED  BY <1>0, <1>3, <2>1, <3>1, OthersSupport DEF Supported
    <2>2. CASE slot_reservations[r].lock = p
      BY <1>0, <1>3, <2>2, UndoRows DEF UndoneRow, SameRow, Supports, Supported
    <2>. QED  BY <2>1, <2>2
  <1>. QED  BY <1>1, <1>2, <1>3 DEF Supported

\* Steps that change no booking, no reservation and no status.
LEMMA QuietServes ==
    ASSUME QueueInv, NEW p, LeavesOthers(p), UNCHANGED <<bookings, slot_reservations, passedOver>>,
           HoldsNoBooking(p), HoldsNoReservation(p),
           \A e \in EntryIds : SameRow(waitlist_entries'[e], waitlist_entries[e])
    PROVE  WaitersServed'
  <1>. SUFFICES ASSUME NEW e \in EntryIds, waitlist_entries'[e].status = "active",
                       e \notin passedOver', NEW s, s = waitlist_entries'[e].slot
                PROVE  Supported(s)'
    BY DEF WaitersServed
  <1>1. Supported(s)
    BY DEF QueueInv, WaitersServed, SameRow
  <1>. QED
    BY <1>1, OthersSupport DEF QueueInv, Supported, HoldsNoBooking, HoldsNoReservation

\* A new use case finds every waiter served and changes no row but its own.
LEMMA StartServes ==
    ASSUME QueueInv, NEW p \in Procs, Request(p) \/ StartExpire(p)
    PROVE  WaitersServed'
  <1>0. TxInv /\ waitlist_entries \in [EntryIds -> EntryRow] /\ LeavesOthers(p)
    BY OwnTx, StartTx DEF QueueInv
  <1>1. UNCHANGED <<bookings, slot_reservations, passedOver>> /\ At(p, "idle")
    BY DEF Request, StartExpire, StartCreate, StartJoin, StartCancel, LeaveWaitlist, StartConfirm,
           StartCancelReservation, StartOnReservation, Begin, tables, history
  <1>2. HoldsNoBooking(p) /\ HoldsNoReservation(p)
    BY <1>0, <1>1, OwnTx DEF TxOK, FirstStatements, HoldsNothing, At
  <1>3. \A e \in EntryIds : SameRow(waitlist_entries'[e], waitlist_entries[e])
    <2>1. CASE UNCHANGED waitlist_entries
      BY <2>1 DEF SameRow
    <2>2. ASSUME NEW u \in Users, NEW f \in EntryIds, LeaveWaitlist(p, u, f)
          PROVE  \A e \in EntryIds : SameRow(waitlist_entries'[e], waitlist_entries[e])
      BY <1>0, <2>2 DEF LeaveWaitlist, Written, EntryRow, SameRow
    <2>. QED
      BY <2>1, <2>2
      DEF Request, StartExpire, StartCreate, StartJoin, StartCancel, StartConfirm,
          StartCancelReservation, StartOnReservation, tables
  <1>. QED  BY <1>0, <1>1, <1>2, <1>3, QuietServes

\* QueueInv is inductive.
LEMMA NextQueueInv == QueueInv /\ [Next]_vars => QueueInv'
  <1>. SUFFICES ASSUME QueueInv, [Next]_vars  PROVE WaitersServed'
    BY NextTxInv DEF QueueInv
  <1>1. ASSUME NEW p \in Procs, Rollback(p) \/ Abort(p)  PROVE WaitersServed'
    BY <1>1, UndoServes DEF Rollback, Abort
  <1>2. CASE Tick \/ UNCHANGED vars
    <2>1. /\ UNCHANGED <<bookings, slot_reservations, waitlist_entries, tx, passedOver>>
          /\ None \notin Procs
      BY <1>2, ConstantsAssumption DEF Tick, vars, tables, history
    <2>2. WaitersServed' <=> WaitersServed
      BY <2>1 DEF WaitersServed, Supported, Supports, Serves, Offers, At
    <2>. QED  BY <2>2 DEF QueueInv
  <1>. QED  BY <1>1, <1>2, StartServes, StatementServes, CommitServes DEF Next, Procs

\* QueueInv always holds.
LEMMA AlwaysQueueInv == Spec => []QueueInv
  <1>1. Init => QueueInv
    BY InitTxInv DEF Init, NoEntry, QueueInv, WaitersServed
  <1>. QED  BY <1>1, NextQueueInv, PTL DEF Spec

\* NoStrandedWaiter: with any number of concurrent cancellations, confirmations
\* and expirations, whoever waits has an active booking or reservation to wait
\* for, or was passed over by a claim that found the entry locked.
THEOREM QueueNeverForgotten == Spec => []NoStrandedWaiter
  <1>1. QueueInv => NoStrandedWaiter
    BY DEF QueueInv, WaitersServed, Supported, Supports, NoStrandedWaiter, Booked, Reserved,
           BookingsOf, ReservationsOf
  <1>. QED  BY <1>1, AlwaysQueueInv, PTL

-----------------------------------------------------------------------------
(* One goroutine.  What slot_serial checks needs nobody else at work: then *)
(* no row lock is in the way, nothing is passed over, and what a use case  *)
(* has read is still so when it acts on it (SerialLocals).                 *)

OneGoroutine == \A p, q \in Procs : p = q

\* What a use case has found out about the tables.
SerialLocals(p) ==
    /\ tx[p].at_stmt \notin {"waitReservation", "waitBooking"}
    /\ tx[p].op = "cancel" =>
         /\ tx[p].wasActive => bookings[tx[p].bk].status = "active"
         /\ tx[p].at_stmt \in {"claim", "insertReservation"} => tx[p].wasActive
    /\ tx[p].op = "create" /\ At(p, "insertBooking") =>
         /\ ~IsPast(tx[p].slot, tx[p].at)
         /\ \A r \in ReservationsOf(tx[p].slot) : slot_reservations[r].status # "active"
    /\ tx[p].op = "confirm" /\ tx[p].at_stmt \in {"lockBooking", "insertBooking", "setConfirmed"} =>
         slot_reservations[tx[p].rv].expires_at > tx[p].at
    /\ tx[p].op = "confirm" /\ tx[p].at_stmt \in {"insertBooking", "setConfirmed"} =>
         ~IsPast(tx[p].slot, tx[p].at)
    /\ tx[p].op = "expire" => \A r \in tx[p].due, e \in EntryIds :
         waitlist_entries[e].lock = p => waitlist_entries[e].slot # slot_reservations[r].slot
    /\ tx[p].op # "expire" /\ At(p, "claim") => HoldsNoEntry(p)

\* No slot is booked and reserved, except inside of a confirmation.
NeverBoth ==
    \A b \in BookingIds, r \in ReservationIds : bookings[b].slot = slot_reservations[r].slot =>
        /\ ~(bookings[b].status = "active" /\ slot_reservations[r].status = "active")
        /\ bookings[b].pend = "active" /\ slot_reservations[r].pend = "active" =>
             \E p \in Procs : At(p, "setConfirmed") /\ r = tx[p].rv

\* Whoever is claimed is the first of those who wait.
InOrder ==
    \A e, f \in EntryIds :
        /\ waitlist_entries[e].status = "active" /\ waitlist_entries[e].pend = "notified"
        /\ waitlist_entries[f].status = "active"
        /\ waitlist_entries[f].slot = waitlist_entries[e].slot
        => waitlist_entries[e].position <= waitlist_entries[f].position

\* A slot is announced by the COMMIT that makes its booking cancelled.
ReleasedAtEnd ==
    \A b \in BookingIds : /\ slotReleased[b] <= 1
                          /\ bookings[b].status # "cancelled" => slotReleased[b] = 0

SerialInv ==
    /\ QueueInv /\ passedOver = {}
    /\ NeverBoth /\ InOrder /\ ReleasedAtEnd
    /\ \A p \in Procs : SerialLocals(p)

\* Every lock is the goroutine's own, and a row without one has nothing pending.
LEMMA OnlyOwnLocks ==
    ASSUME OneGoroutine, TxInv, NEW p \in Procs
    PROVE  /\ \A q \in Procs : q = p
           /\ \A b \in BookingIds :
                /\ LockFree(bookings, b, p)
                /\ bookings[b].lock # p => bookings[b].pend = bookings[b].status
           /\ \A e \in EntryIds :
                /\ LockFree(waitlist_entries, e, p)
                /\ waitlist_entries[e].lock # p =>
                     waitlist_entries[e].pend = waitlist_entries[e].status
           /\ \A r \in ReservationIds :
                /\ LockFree(slot_reservations, r, p)
                /\ slot_reservations[r].lock # p =>
                     slot_reservations[r].pend = slot_reservations[r].status
  <1>1. \A q \in Procs : q = p
    BY DEF OneGoroutine
  <1>2. ASSUME NEW b \in BookingIds
        PROVE  /\ LockFree(bookings, b, p)
               /\ bookings[b].lock # p => bookings[b].pend = bookings[b].status
    <2>1. bookings[b].lock \in Procs \union {None}
      BY OwnTx DEF BookingRow
    <2>. QED  BY <1>1, <2>1 DEF LockFree, TxInv, IndexInv, IndexesProtected, BookingIndex, IndexProtected
  <1>3. ASSUME NEW e \in EntryIds
        PROVE  /\ LockFree(waitlist_entries, e, p)
               /\ waitlist_entries[e].lock # p =>
                     waitlist_entries[e].pend = waitlist_entries[e].status
    <2>1. waitlist_entries[e].lock \in Procs \union {None}
      BY OwnTx DEF EntryRow
    <2>. QED  BY <1>1, <2>1 DEF LockFree, TxInv, IndexInv, IndexesProtected, EntryIndex, IndexProtected
  <1>4. ASSUME NEW r \in ReservationIds
        PROVE  /\ LockFree(slot_reservations, r, p)
               /\ slot_reservations[r].lock # p =>
                     slot_reservations[r].pend = slot_reservations[r].status
    <2>1. slot_reservations[r].lock \in Procs \union {None}
      BY OwnTx DEF ReservationRow
    <2>. QED  BY <1>1, <2>1 DEF LockFree, TxInv, IndexInv, IndexesProtected, ReservationIndex,
                                IndexProtected
  <1>. QED  BY <1>1, <1>2, <1>3, <1>4

\* Goto keeps the clock that the use case has sampled.
LEMMA GotoKeepsClock ==
    ASSUME TypeInv, NEW p \in Procs, NEW stage \in Stages \ {"rollback", "commit"}, Goto(p, stage)
    PROVE  tx'[p].at = tx[p].at
  BY DEF Goto, Continue, TypeInv, TypeOK, Locals

\* A use case that is about to end has found out nothing but what CancelBooking
\* has read.
LEMMA EndingLocals ==
    ASSUME TxInv, NEW p \in Procs, SerialLocals(p), Statement(p),
           tx'[p].at_stmt \in {"commit", "rollback"},
           tx'[p].op = tx[p].op \/ tx'[p].op = "none",
           tx'[p].op = "cancel" => tx'[p].bk = tx[p].bk /\ tx'[p].wasActive = tx[p].wasActive,
           tx'[p].op = "expire" => tx'[p].due = {}
    PROVE  SerialLocals(p)'
  <1>1. ASSUME tx'[p].op = "cancel"  PROVE tx[p].bk \in BookingIds
    BY <1>1, OwnTx DEF TxOK, CancelHolds
  <1>2. \A b \in BookingIds : bookings'[b].status = bookings[b].status
    BY OwnTx, StatementTouchesRows DEF StatementTouches, BookingsTouched, Touched
  <1>. QED  BY <1>1, <1>2 DEF SerialLocals, At

\* A use case that is about to end has nothing left to find out.
LEMMA GotoEnding ==
    ASSUME TxInv, NEW p \in Procs, SerialLocals(p), Statement(p),
           Goto(p, "commit") \/ Goto(p, "rollback")
    PROVE  SerialLocals(p)'
  <1>1. TypeInv
    BY OwnTx
  <1>2. CASE Goto(p, "commit")
    BY <1>1, <1>2, GotoLocals, EndingLocals DEF Stages
  <1>3. CASE Goto(p, "rollback")
    BY <1>1, <1>3, GotoLocals, EndingLocals DEF Stages
  <1>. QED  BY <1>2, <1>3

\* CheckReservation has seen that the slot has not begun and is not reserved.
LEMMA CheckReservationLocals ==
    ASSUME OneGoroutine, TxInv, NEW p \in Procs, SerialLocals(p), CheckReservation(p)
    PROVE  SerialLocals(p)'
  <1>1. TypeInv /\ tx[p].op = "create" /\ HoldsNoReservation(p)
    BY OwnTx, UseCaseOf DEF CheckReservation, At, TxOK, CreateHolds
  <1>2. CASE Goto(p, "rollback")
    BY <1>2, GotoEnding DEF Statement
  <1>3. CASE /\ ActiveReservations(tx[p].slot, p) = {} /\ ~IsPast(tx[p].slot, tx[p].at)
             /\ Goto(p, "insertBooking") /\ UNCHANGED slot_reservations
    <2>1. SameLocals(tx[p], tx'[p]) /\ tx'[p].at_stmt = "insertBooking" /\ tx'[p].at = tx[p].at
      BY <1>1, <1>3, GotoLocals, GotoKeepsClock DEF Stages
    <2>2. \A r \in ReservationsOf(tx[p].slot) : slot_reservations[r].status # "active"
      BY <1>1, <1>3 DEF ActiveReservations, View, HoldsNoReservation, ReservationsOf
    <2>. QED  BY <1>1, <1>3, <2>1, <2>2 DEF SerialLocals, SameLocals, At, ReservationsOf
  <1>. QED
    BY <1>2, <1>3, OnlyOwnLocks DEF CheckReservation, ActiveReservations, ReservationsOf

\* Statement by statement: SerialLocals is kept.
LEMMA InsertBookingLocals ==
    ASSUME TxInv, NEW p \in Procs, SerialLocals(p), InsertBooking(p)
    PROVE  SerialLocals(p)'
  <1>1. TypeInv /\ tx[p].op \in {"create", "confirm"} /\ UNCHANGED slot_reservations
    BY OwnTx, UseCaseOf DEF InsertBooking, At, TxOK
  <1>2. CASE Goto(p, "commit") \/ Goto(p, "rollback")
    BY <1>2, GotoEnding DEF Statement
  <1>3. CASE tx[p].op = "confirm" /\ Goto(p, "setConfirmed")
    <2>1. SameLocals(tx[p], tx'[p]) /\ tx'[p].at_stmt = "setConfirmed" /\ tx'[p].at = tx[p].at
      BY <1>1, <1>3, GotoLocals, GotoKeepsClock DEF Stages
    <2>. QED  BY <1>1, <1>3, <2>1 DEF SerialLocals, SameLocals, At, InsertBooking
  <1>. QED  BY <1>2, <1>3 DEF InsertBooking

\* Until COMMIT the booking is shown as active, and the queue is called only if it was.
LEMMA UpdateBookingLocals ==
    ASSUME TxInv, NEW p \in Procs, SerialLocals(p), UpdateBooking(p)
    PROVE  SerialLocals(p)'
  <1>1. /\ TypeInv /\ tx[p].op = "cancel" /\ tx[p].bk \in BookingIds
        /\ bookings \in [BookingIds -> BookingRow]
    BY OwnTx, UseCaseOf DEF UpdateBooking, At, TxOK, CancelHolds
  <1>2. CASE Goto(p, "commit")
    BY <1>2, GotoEnding DEF Statement
  <1>3. CASE tx[p].wasActive /\ Goto(p, "claim")
    <2>1. SameLocals(tx[p], tx'[p]) /\ tx'[p].at_stmt = "claim"
      BY <1>1, <1>3, GotoLocals DEF Stages
    <2>2. bookings'[tx[p].bk].status = bookings[tx[p].bk].status
      BY <1>1 DEF UpdateBooking, Written, BookingRow
    <2>3. HoldsNoEntry(p)'
      BY SameHoldings, OwnTx DEF UpdateBooking, TxOK, FirstStatements, HoldsNothing, At
    <2>. QED  BY <1>1, <1>3, <2>1, <2>2, <2>3 DEF SerialLocals, SameLocals, At
  <1>. QED  BY <1>2, <1>3 DEF UpdateBooking

\* A booking can be locked at once, and no reservation changes.
LEMMA LockBookingLocals ==
    ASSUME OneGoroutine, TxInv, NEW p \in Procs, SerialLocals(p), LockBooking(p)
    PROVE  SerialLocals(p)'
  <1>1. /\ TypeInv /\ tx[p].op \in {"join", "confirm"} /\ UNCHANGED slot_reservations
        /\ At(p, "lockBooking")
    BY OwnTx, UseCaseOf DEF LockBooking, At, TxOK
  <1>2. CASE Goto(p, "rollback")
    BY <1>2, GotoEnding DEF Statement
  <1>3. CASE tx[p].op = "join" /\ Goto(p, "insertEntry")
    <2>1. SameLocals(tx[p], tx'[p]) /\ tx'[p].at_stmt = "insertEntry"
      BY <1>1, <1>3, GotoLocals DEF Stages
    <2>. QED  BY <1>3, <2>1 DEF SerialLocals, SameLocals, At
  <1>4. CASE tx[p].op = "confirm" /\ ~IsPast(tx[p].slot, tx[p].at) /\ Goto(p, "insertBooking")
    <2>1. SameLocals(tx[p], tx'[p]) /\ tx'[p].at_stmt = "insertBooking" /\ tx'[p].at = tx[p].at
      BY <1>1, <1>4, GotoLocals, GotoKeepsClock DEF Stages
    <2>2. slot_reservations[tx[p].rv].expires_at > tx[p].at
      BY <1>1, <1>4 DEF SerialLocals, At
    <2>. QED  BY <1>1, <1>4, <2>1, <2>2 DEF SerialLocals, SameLocals, At, IsPast
  <1>5. \A b \in ActiveBookings(tx[p].slot, p) : LockFree(bookings, b, p)
    BY OnlyOwnLocks DEF ActiveBookings, BookingsOf
  <1>. QED
    BY <1>1, <1>2, <1>3, <1>4, <1>5 DEF LockBooking, WithBooking, WithoutBooking

\* ConfirmReservation has seen that the reservation has not expired.
LEMMA LockReservationLocals ==
    ASSUME TxInv, NEW p \in Procs, SerialLocals(p), LockReservation(p)
    PROVE  SerialLocals(p)'
  <1>1. /\ TypeInv /\ tx[p].op \in {"confirm", "cancelRes"} /\ tx[p].rv \in ReservationIds
        /\ slot_reservations \in [ReservationIds -> ReservationRow]
    BY OwnTx, UseCaseOf DEF LockReservation, At, TxOK, WaitsForRow
  <1>. DEFINE row == slot_reservations[tx[p].rv]
  <1>2. CASE Goto(p, "commit") \/ Goto(p, "rollback")
    BY <1>2, GotoEnding DEF Statement
  <1>3. CASE tx[p].op = "cancelRes" /\ Goto(p, "setCancelled")
    <2>1. SameLocals(tx[p], tx'[p]) /\ tx'[p].at_stmt = "setCancelled"
      BY <1>1, <1>3, GotoLocals DEF Stages
    <2>. QED  BY <1>3, <2>1 DEF SerialLocals, SameLocals, At
  <1>4. CASE tx[p].op = "confirm" /\ row.expires_at > tx[p].at /\ Goto(p, "lockBooking")
    <2>1. SameLocals(tx[p], tx'[p]) /\ tx'[p].at_stmt = "lockBooking" /\ tx'[p].at = tx[p].at
      BY <1>1, <1>4, GotoLocals, GotoKeepsClock DEF Stages
    <2>2. slot_reservations'[tx[p].rv].expires_at = row.expires_at
      BY <1>1 DEF LockReservation, Locked, ReservationRow
    <2>. QED  BY <1>4, <2>1, <2>2 DEF SerialLocals, SameLocals, At
  <1>. QED
    BY <1>1, <1>2, <1>3, <1>4 DEF LockReservation, WithReservation

\* The reservation was locked, so its status is still active.
LEMMA SetReservationLocals ==
    ASSUME TxInv, NEW p \in Procs, SerialLocals(p), SetConfirmed(p) \/ SetCancelled(p)
    PROVE  SerialLocals(p)'
  <1>1. CASE Goto(p, "commit")
    BY <1>1, GotoEnding DEF Statement
  <1>2. CASE SetCancelled(p)
    <2>1. TypeInv /\ tx[p].op = "cancelRes" /\ Goto(p, "claim")
      BY <1>2, OwnTx, UseCaseOf DEF SetCancelled, At, TxOK
    <2>2. SameLocals(tx[p], tx'[p]) /\ tx'[p].at_stmt = "claim"
      BY <2>1, GotoLocals DEF Stages
    <2>3. HoldsNoEntry(p)'
      BY <1>2, <2>1, SameHoldings, OwnTx DEF SetCancelled, TxOK, CancelResHolds
    <2>. QED  BY <2>1, <2>2, <2>3 DEF SerialLocals, SameLocals, At
  <1>. QED  BY <1>1, <1>2 DEF SetConfirmed

\* ExpireDue takes its batch before it has claimed anybody.
LEMMA ExpireBatchLocals ==
    ASSUME TxInv, NEW p \in Procs, SerialLocals(p), ExpireBatch(p)
    PROVE  SerialLocals(p)'
  <1>1. /\ TypeInv /\ tx[p].op = "expire" /\ HoldsNoEntry(p) /\ tx[p] \in Locals
        /\ tx \in [Procs -> Locals] /\ UNCHANGED waitlist_entries
    BY OwnTx, UseCaseOf DEF ExpireBatch, At, TxOK, FirstStatements, HoldsNothing
  <1>2. PICK batch \in Batches(p) :
          LET t == [tx[p] EXCEPT !.due = batch]
          IN  tx' = [tx EXCEPT ![p] = Continue(t, AfterClaim(t))]
    BY DEF ExpireBatch
  <1>. DEFINE t == [tx[p] EXCEPT !.due = batch]
  <1>3. t \in Locals /\ t.op = "expire"
    BY <1>1 DEF Locals, Batches, FirstOf, Due
  <1>4. tx'[p] = Continue(t, AfterClaim(t)) /\ AfterClaim(t) \in {"claim", "commit"}
    BY <1>1, <1>2 DEF AfterClaim
  <1>. HIDE DEF t
  <1>5. tx'[p].op = "expire" /\ tx'[p].at_stmt \in {"claim", "commit"}
    BY <1>3, <1>4, ContinueLocals DEF Stages, SameLocals
  <1>. QED  BY <1>1, <1>5 DEF SerialLocals, At, HoldsNoEntry

\* JoinWaitlist ends with its INSERT.
LEMMA InsertEntryLocals ==
    ASSUME TxInv, NEW p \in Procs, SerialLocals(p), InsertEntry(p)
    PROVE  SerialLocals(p)'
  BY GotoEnding DEF InsertEntry, Statement

\* The reservations that ExpireDue has ended are those of different slots.
LEMMA DueSlotsDiffer ==
    ASSUME TxInv, NEW p \in Procs, tx[p].op = "expire", ~At(p, "expireBatch"),
           NEW r \in tx[p].due, NEW q \in tx[p].due, r # q
    PROVE  slot_reservations[r].slot # slot_reservations[q].slot
  <1>1. r \in ReservationIds /\ q \in ReservationIds
    BY OwnTx DEF Locals
  <1>2. slot_reservations[r].status = "active" /\ slot_reservations[q].status = "active"
    BY <1>1, OwnTx DEF TxOK, ExpireHolds, Ends, Offers, Moves
  <1>. QED  BY <1>1, <1>2 DEF TxInv, IndexInv, IndexesProtected, ReservationIndex, IndexProtected,
                              ReservationKey

\* A claim for one slot.
LEMMA ClaimLocals ==
    ASSUME TxInv, NEW p \in Procs, SerialLocals(p), Claim(p)
    PROVE  SerialLocals(p)'
  <1>1. /\ At(p, "claim") /\ tx[p].op \in {"cancel", "cancelRes"} /\ tx[p] \in Locals
        /\ ClaimsAreOffered(p) /\ now \in Nat /\ tx[p].due = {} /\ tx \in [Procs -> Locals]
    BY OwnTx, UseCaseOf DEF Claim, TxOK, At, CancelHolds, CancelResHolds, TypeInv, TypeOK
  <1>. DEFINE t == [tx[p] EXCEPT !.at = IF tx[p].op = "cancel" THEN now ELSE tx[p].at]
  <1>2. /\ t \in Locals /\ t.op = tx[p].op /\ t.slot = tx[p].slot /\ t.bk = tx[p].bk
        /\ t.wasActive = tx[p].wasActive /\ t.due = {}
    BY <1>1 DEF Locals
  <1>3. ClaimNextForNotify(p, tx[p].slot, t) /\ UNCHANGED <<bookings, slot_reservations>>
    BY DEF Claim
  <1>. HIDE DEF t
  <1>4. /\ tx'[p].at_stmt \in {"claim", "insertReservation", "commit"} /\ tx'[p].op = tx[p].op
        /\ tx'[p].bk = tx[p].bk /\ tx'[p].wasActive = tx[p].wasActive
    BY <1>1, <1>2, <1>3, ClaimedTx
  <1>5. tx'[p].at_stmt # "claim"
    <2>1. CASE tx' = [tx EXCEPT ![p] = Continue(t, AfterClaim(t))]
      <3>1. tx'[p] = Continue(t, "commit")
        BY <1>1, <1>2, <2>1 DEF AfterClaim
      <3>. QED  BY <1>2, <3>1, ContinueLocals DEF Stages
    <2>2. CASE \E e : tx' = [tx EXCEPT ![p] = [t EXCEPT !.at_stmt = "insertReservation", !.en = e]]
      BY <1>1, <1>2, <2>2 DEF Locals
    <2>. QED  BY <1>3, <2>1, <2>2 DEF ClaimNextForNotify
  <1>. QED  BY <1>1, <1>3, <1>4, <1>5 DEF SerialLocals, At

\* A claim for one slot of a batch: no two reservations of a batch have one slot.
LEMMA ClaimForExpiredLocals ==
    ASSUME TxInv, NEW p \in Procs, SerialLocals(p), ClaimForExpired(p)
    PROVE  SerialLocals(p)'
  <1>0. /\ At(p, "claim") /\ tx[p].op = "expire" /\ ExpireHolds(p) /\ tx[p] \in Locals
        /\ slot_reservations \in [ReservationIds -> ReservationRow]
        /\ waitlist_entries \in [EntryIds -> EntryRow] /\ ClaimsAreOffered(p)
    BY OwnTx DEF ClaimForExpired, TxOK, ExpireHolds, At
  <1>1. PICK r \in tx[p].due :
          ClaimNextForNotify(p, slot_reservations[r].slot,
            [tx[p] EXCEPT !.slot = slot_reservations[r].slot, !.due = tx[p].due \ {r}])
    BY DEF ClaimForExpired
  <1>. DEFINE s == slot_reservations[r].slot
              t == [tx[p] EXCEPT !.slot = s, !.due = tx[p].due \ {r}]
  <1>2. r \in ReservationIds
    BY <1>0 DEF Locals
  <1>3. t \in Locals /\ t.op = "expire" /\ t.slot = s /\ t.due = tx[p].due \ {r}
    BY <1>0, <1>2 DEF Locals, ReservationRow
  <1>4. ClaimNextForNotify(p, s, t) /\ UNCHANGED slot_reservations
    BY <1>1 DEF ClaimForExpired
  <1>. HIDE DEF t
  <1>5. /\ tx'[p].at_stmt \in {"claim", "insertReservation", "commit"} /\ tx'[p].op = "expire"
        /\ tx'[p].due \in SUBSET (tx[p].due \ {r})
    BY <1>0, <1>3, <1>4, ClaimedTx
  <1>6. ASSUME NEW e \in EntryIds, waitlist_entries'[e].lock = p
        PROVE  waitlist_entries'[e].slot = s
               \/ (waitlist_entries[e].lock = p /\ waitlist_entries'[e].slot = waitlist_entries[e].slot)
    <2>1. CASE UNCHANGED waitlist_entries
      BY <1>6, <2>1
    <2>2. ASSUME NEW f \in NextEntries(s, p),
                 waitlist_entries' = Written(waitlist_entries, f, p, "notified")
          PROVE  waitlist_entries'[e].slot = s
                 \/ (waitlist_entries[e].lock = p /\ waitlist_entries'[e].slot = waitlist_entries[e].slot)
      <3>1. f \in EntryIds /\ waitlist_entries[f].slot = s
        BY DEF NextEntries, Claimable, Waiting
      <3>. QED  BY <1>0, <1>6, <2>2, <3>1 DEF Written, EntryRow
    <2>. QED  BY <1>4, <2>1, <2>2 DEF ClaimNextForNotify
  <1>7. \A q \in tx[p].due \ {r} : slot_reservations[q].slot # s
    BY <1>0, DueSlotsDiffer DEF At
  <1>8. \A q \in tx'[p].due, e \in EntryIds :
          waitlist_entries'[e].lock = p => waitlist_entries'[e].slot # slot_reservations'[q].slot
    BY <1>0, <1>4, <1>5, <1>6, <1>7 DEF SerialLocals
  <1>. QED  BY <1>5, <1>8 DEF SerialLocals, At

\* The offer, after which a batch goes on with its other slots.
LEMMA InsertReservationLocals ==
    ASSUME TxInv, NEW p \in Procs, SerialLocals(p), InsertReservation(p)
    PROVE  SerialLocals(p)'
  <1>1. /\ TypeInv /\ tx[p].op \in {"cancel", "cancelRes", "expire"}
        /\ At(p, "insertReservation") /\ UNCHANGED <<bookings, waitlist_entries>>
        /\ tx[p] \in Locals
        /\ tx[p].due # {} => tx[p].op = "expire"
    BY OwnTx, UseCaseOf DEF InsertReservation, At, TxOK, CancelHolds, CancelResHolds
  <1>2. CASE Goto(p, "commit") \/ Goto(p, "rollback")
    BY <1>2, GotoEnding DEF Statement
  <1>3. CASE tx[p].due # {} /\ Goto(p, "claim")
    <2>1. SameLocals(tx[p], tx'[p]) /\ tx'[p].at_stmt = "claim"
      BY <1>1, <1>3, GotoLocals DEF Stages
    <2>2. ASSUME NEW r \in tx[p].due, tx[p].op = "expire"
          PROVE  slot_reservations'[r].slot = slot_reservations[r].slot
      <3>1. r \in ReservationIds /\ slot_reservations[r].status # "absent"
        BY <1>1, <2>2, OwnTx DEF Locals, TxOK, ExpireHolds, Ends, At
      <3>. QED  BY <3>1, OwnTx, StatementTouchesRows
                DEF Statement, StatementTouches, ReservationsTouched, Touched, SameRow
    <2>. QED  BY <1>1, <1>3, <2>1, <2>2 DEF SerialLocals, SameLocals, At
  <1>. QED  BY <1>2, <1>3 DEF InsertReservation, AfterClaim

\* No statement waits, and each one keeps SerialLocals.
LEMMA StatementLocals ==
    ASSUME OneGoroutine, TxInv, NEW p \in Procs, SerialLocals(p), Statement(p)
    PROVE  SerialLocals(p)'
  <1>1. ~WaitReservation(p) /\ ~WaitBooking(p)
    BY DEF SerialLocals, WaitReservation, WaitBooking, At
  <1>. QED
    BY <1>1, CheckReservationLocals, InsertBookingLocals, UpdateBookingLocals, ClaimLocals,
       ClaimForExpiredLocals, InsertReservationLocals, LockBookingLocals, InsertEntryLocals,
       LockReservationLocals, SetReservationLocals, ExpireBatchLocals
    DEF Statement

-----------------------------------------------------------------------------
(* Booked or reserved, never both. *)

\* CancelBooking, CancelReservation and ExpireDue offer a slot that nobody has.
LEMMA OfferedSlotIsFree ==
    ASSUME OneGoroutine, SerialInv, NEW p \in Procs, At(p, "insertReservation"),
           NEW b \in BookingIds, bookings[b].slot = tx[p].slot
    PROVE  bookings[b].pend # "active"
  <1>. SUFFICES ASSUME bookings[b].pend = "active"  PROVE FALSE
    OBVIOUS
  <1>0. TxInv /\ SerialLocals(p) /\ TxOK(p)
    BY OwnTx DEF SerialInv, QueueInv
  <1>1. tx[p].op \in {"cancel", "cancelRes", "expire"}
    BY <1>0, OwnTx, UseCaseOf DEF At, TxOK
  <1>2. CASE tx[p].op = "cancel"
    <2>. DEFINE c == tx[p].bk
    <2>1. CancelHolds(p) /\ ~At(p, "updateBooking") /\ ~At(p, "commit")
      BY <1>0, <1>2 DEF TxOK, At
    <2>2. /\ c \in BookingIds /\ bookings[c].slot = tx[p].slot
          /\ \A d \in BookingIds : bookings[d].lock = p => d = c
          /\ IF bookings[c].lock = p THEN Moves(bookings[c], "active", "cancelled")
                                     ELSE bookings[c].status = "cancelled"
      BY <2>1 DEF CancelHolds
    <2>3. CASE bookings[c].lock = p
      <3>1. bookings[c].status = "active" /\ bookings[c].pend = "cancelled"
        BY <2>2, <2>3 DEF Moves
      <3>2. b # c
        BY <3>1
      <3>3. bookings[c].lock = bookings[b].lock
        BY <1>0, <2>2, <3>1, <3>2 DEF TxInv, IndexInv, IndexesProtected, BookingIndex, IndexProtected,
                                      BookingKey
      <3>. QED  BY <2>2, <2>3, <3>2, <3>3
    <2>4. CASE bookings[c].lock # p
      BY <1>0, <1>2, <2>2, <2>4 DEF SerialLocals, At
    <2>. QED  BY <2>3, <2>4
  <1>3. CASE tx[p].op \in {"cancelRes", "expire"}
    <2>1. HoldsNoBooking(p)
      BY <1>0, <1>3 DEF TxOK, CancelResHolds, ExpireHolds
    <2>2. bookings[b].status = "active"
      BY <1>0, <2>1, OnlyOwnLocks DEF HoldsNoBooking
    <2>3. PICK r \in ReservationIds :
            slot_reservations[r].status = "active" /\ slot_reservations[r].slot = tx[p].slot
      BY <1>0, <1>3 DEF TxOK, CancelResHolds, ExpireHolds, Ends, Offers, Moves, At
    <2>. QED  BY <2>2, <2>3 DEF SerialInv, NeverBoth
  <1>. QED  BY <1>1, <1>2, <1>3

\* A statement makes a booking pending only in InsertBooking.
LEMMA BookingsPend ==
    ASSUME TxInv, NEW p \in Procs, Statement(p), NEW b \in BookingIds, bookings'[b].pend = "active"
    PROVE  \/ bookings[b].pend = "active" /\ bookings'[b].slot = bookings[b].slot
           \/ InsertBooking(p) /\ bookings'[b].slot = tx[p].slot /\ ~Goto(p, "rollback")
  <1>0. bookings \in [BookingIds -> BookingRow]
    BY OwnTx
  <1>1. CASE UNCHANGED bookings
    BY <1>1
  <1>2. CASE InsertBooking(p)
    <2>1. CASE UNCHANGED bookings
      BY <2>1
    <2>2. CASE ~UNCHANGED bookings
      <3>1. /\ ~Taken(bookings, BookingsOf(tx[p].slot), p, {"active"})
            /\ bookings' = [bookings EXCEPT ![FreshId(bookings)] =
                            [user |-> tx[p].user, slot |-> tx[p].slot,
                             status |-> "absent", pend |-> "active", lock |-> p]]
            /\ Goto(p, IF tx[p].op = "confirm" THEN "setConfirmed" ELSE "commit")
        BY <1>2, <2>2 DEF InsertBooking
      <3>2. tx'[p].at_stmt \in {"setConfirmed", "commit"} /\ (Goto(p, "rollback") => tx'[p].at_stmt = "rollback")
        BY <3>1, OwnTx, GotoLocals DEF Stages
      <3>. QED  BY <1>0, <1>2, <3>1, <3>2
    <2>. QED  BY <2>1, <2>2
  <1>3. CASE UpdateBooking(p)
    BY <1>0, <1>3, OwnTx DEF UpdateBooking, Written, BookingRow
  <1>4. CASE LockBooking(p) \/ WaitBooking(p)
    <2>1. \/ UNCHANGED bookings
          \/ \E c : bookings' = Locked(bookings, c, p)
      BY <1>4 DEF LockBooking, WaitBooking
    <2>. QED  BY <1>0, <2>1 DEF Locked, BookingRow
  <1>. QED
    BY <1>1, <1>2, <1>3, <1>4
    DEF Statement, CheckReservation, WaitReservation, Claim, ClaimForExpired, InsertReservation,
        InsertEntry, LockReservation, SetConfirmed, SetCancelled, ExpireBatch

\* And a reservation only in InsertReservation.
LEMMA ReservationsPend ==
    ASSUME TxInv, NEW p \in Procs, Statement(p), NEW r \in ReservationIds,
           slot_reservations'[r].pend = "active"
    PROVE  \/ /\ slot_reservations[r].pend = "active"
              /\ slot_reservations'[r].slot = slot_reservations[r].slot
           \/ InsertReservation(p) /\ slot_reservations'[r].slot = tx[p].slot
  <1>0. slot_reservations \in [ReservationIds -> ReservationRow]
    BY OwnTx
  <1>1. CASE UNCHANGED slot_reservations
    BY <1>1
  <1>2. CASE InsertReservation(p)
    <2>1. CASE UNCHANGED slot_reservations
      BY <2>1
    <2>2. CASE ~UNCHANGED slot_reservations
      <3>1. slot_reservations' = [slot_reservations EXCEPT ![FreshId(slot_reservations)] =
               [user |-> waitlist_entries[tx[p].en].user, slot |-> tx[p].slot,
                entry |-> tx[p].en, expires_at |-> ExpiresAt(tx[p]),
                status |-> "absent", pend |-> "active", lock |-> p]]
        BY <1>2, <2>2 DEF InsertReservation
      <3>. QED  BY <1>0, <1>2, <3>1
    <2>. QED  BY <2>1, <2>2
  <1>3. CASE CheckReservation(p) \/ WaitReservation(p) \/ LockReservation(p)
    <2>1. \/ UNCHANGED slot_reservations
          \/ \E q : slot_reservations' = Locked(slot_reservations, q, p)
      BY <1>3 DEF CheckReservation, WaitReservation, LockReservation
    <2>. QED  BY <1>0, <2>1 DEF Locked, ReservationRow
  <1>4. CASE SetConfirmed(p) \/ SetCancelled(p)
    <2>1. \/ UNCHANGED slot_reservations
          \/ \E st \in {"confirmed", "cancelled"} :
               slot_reservations' = Written(slot_reservations, tx[p].rv, p, st)
      BY <1>4 DEF SetConfirmed, SetCancelled, SetReservation
    <2>. QED  BY <1>0, <2>1 DEF Written, ReservationRow
  <1>5. CASE ExpireBatch(p)
    <2>1. PICK batch \in Batches(p) :
            slot_reservations' = [q \in ReservationIds |->
                 IF q \in batch
                 THEN [slot_reservations[q] EXCEPT !.pend = "expired", !.lock = p]
                 ELSE slot_reservations[q]]
      BY <1>5 DEF ExpireBatch
    <2>2. \/ slot_reservations'[r] = slot_reservations[r]
          \/ slot_reservations'[r] = [slot_reservations[r] EXCEPT !.pend = "expired", !.lock = p]
      BY <2>1
    <2>. QED  BY <1>0, <2>2 DEF ReservationRow
  <1>. QED
    BY <1>1, <1>2, <1>3, <1>4, <1>5
    DEF Statement, InsertBooking, UpdateBooking, Claim, ClaimForExpired, LockBooking, WaitBooking,
        InsertEntry

\* SetConfirmed ends the reservation that was booked.
LEMMA SetConfirmedEnds ==
    ASSUME TxInv, NEW p \in Procs, Statement(p), At(p, "setConfirmed")
    PROVE  slot_reservations'[tx[p].rv].pend = "confirmed"
  <1>1. /\ slot_reservations \in [ReservationIds -> ReservationRow]
        /\ tx[p].op = "confirm" /\ TxOK(p)
    BY OwnTx, UseCaseOf DEF At, TxOK
  <1>2. OnlyReservation(p, tx[p].rv) /\ Moves(slot_reservations[tx[p].rv], "active", "active")
    BY <1>1 DEF TxOK, ConfirmHolds, At
  <1>3. View(slot_reservations, tx[p].rv, p) = "active" /\ tx[p].rv \in ReservationIds
    BY <1>2 DEF OnlyReservation, Moves, View
  <1>4. SetConfirmed(p)
    BY DEF Statement, At, CheckReservation, WaitReservation, InsertBooking, UpdateBooking, Claim,
           ClaimForExpired, InsertReservation, LockBooking, WaitBooking, InsertEntry,
           LockReservation, SetCancelled, ExpireBatch
  <1>. QED  BY <1>1, <1>3, <1>4 DEF SetConfirmed, SetReservation, Written, ReservationRow

\* A statement makes a slot both booked and reserved only inside of a confirmation.
LEMMA StatementNeverBoth ==
    ASSUME OneGoroutine, SerialInv, NEW p \in Procs, Statement(p)
    PROVE  NeverBoth'
  <1>0. TxInv /\ SerialLocals(p) /\ TxOK(p) /\ TypeInv
    BY OwnTx DEF SerialInv, QueueInv
  <1>. SUFFICES ASSUME NEW b \in BookingIds, NEW r \in ReservationIds,
                       bookings'[b].slot = slot_reservations'[r].slot
                PROVE  /\ ~(bookings'[b].status = "active" /\ slot_reservations'[r].status = "active")
                       /\ bookings'[b].pend = "active" /\ slot_reservations'[r].pend = "active" =>
                            At(p, "setConfirmed")' /\ r = tx'[p].rv
    BY DEF NeverBoth
  <1>1. ~(bookings'[b].status = "active" /\ slot_reservations'[r].status = "active")
    <2>1. /\ Touched(bookings[b], bookings'[b], p)
          /\ Touched(slot_reservations[r], slot_reservations'[r], p)
      BY <1>0, OwnTx, StatementTouchesRows DEF StatementTouches, BookingsTouched, ReservationsTouched
    <2>. QED  BY <2>1 DEF Touched, SameRow, SerialInv, NeverBoth
  <1>2. ASSUME bookings'[b].pend = "active", slot_reservations'[r].pend = "active"
        PROVE  At(p, "setConfirmed")' /\ r = tx'[p].rv
    <2>1. CASE /\ bookings[b].pend = "active" /\ bookings'[b].slot = bookings[b].slot
               /\ slot_reservations[r].pend = "active"
               /\ slot_reservations'[r].slot = slot_reservations[r].slot
      <3>1. PICK q \in Procs : At(q, "setConfirmed") /\ r = tx[q].rv
        BY <2>1 DEF SerialInv, NeverBoth
      <3>2. q = p
        BY DEF OneGoroutine
      <3>. QED  BY <1>0, <1>2, <3>1, <3>2, SetConfirmedEnds
    <2>2. CASE /\ InsertBooking(p) /\ bookings'[b].slot = tx[p].slot /\ ~Goto(p, "rollback")
               /\ slot_reservations[r].pend = "active"
               /\ slot_reservations'[r].slot = slot_reservations[r].slot
      <3>1. tx[p].op \in {"create", "confirm"} /\ At(p, "insertBooking")
        BY <1>0, <2>2, OwnTx, UseCaseOf DEF InsertBooking, At, TxOK
      <3>2. CASE tx[p].op = "create"
        <4>1. slot_reservations[r].pend = slot_reservations[r].status
          BY <1>0, <3>2, OnlyOwnLocks DEF TxOK, CreateHolds, HoldsNoReservation
        <4>. QED  BY <1>0, <2>2, <3>1, <3>2, <4>1 DEF SerialLocals, ReservationsOf
      <3>3. CASE tx[p].op = "confirm"
        <4>1. /\ tx[p].rv \in ReservationIds /\ slot_reservations[tx[p].rv].pend = "active"
              /\ slot_reservations[tx[p].rv].slot = tx[p].slot
          BY <1>0, <3>1, <3>3 DEF TxOK, ConfirmHolds, OnlyReservation, Moves, At
        <4>2. r = tx[p].rv
          BY <1>0, <2>2, <4>1 DEF TxInv, IndexInv, IndexesProtected, ReservationIndex, IndexProtected,
                                  ReservationKey
        <4>3. Goto(p, "setConfirmed")
          BY <2>2, <3>3 DEF InsertBooking
        <4>4. SameLocals(tx[p], tx'[p]) /\ tx'[p].at_stmt = "setConfirmed"
          BY <1>0, <4>3, GotoLocals DEF Stages
        <4>. QED  BY <4>2, <4>4 DEF SameLocals, At
      <3>. QED  BY <3>1, <3>2, <3>3
    <2>3. CASE /\ InsertReservation(p) /\ slot_reservations'[r].slot = tx[p].slot
      <3>1. At(p, "insertReservation") /\ UNCHANGED bookings
        BY <2>3 DEF InsertReservation
      <3>. QED  BY <1>2, <2>3, <3>1, OfferedSlotIsFree
    <2>. QED  BY <1>0, <1>2, <2>1, <2>2, <2>3, BookingsPend, ReservationsPend
  <1>. QED  BY <1>1, <1>2

-----------------------------------------------------------------------------
(* First come, first notified. *)

\* Nothing is locked by others, so the row that a claim takes is the first of its slot.
LEMMA ClaimsInOrder ==
    ASSUME OneGoroutine, TxInv, InOrder, NEW p \in Procs, NEW s, NEW t,
           ClaimNextForNotify(p, s, t),
           \A e \in EntryIds : waitlist_entries[e].lock = p => waitlist_entries[e].slot # s
    PROVE  InOrder'
  <1>0. waitlist_entries \in [EntryIds -> EntryRow]
    BY OwnTx
  <1>1. CASE UNCHANGED waitlist_entries
    BY <1>1 DEF InOrder
  <1>2. ASSUME NEW g \in NextEntries(s, p),
               waitlist_entries' = Written(waitlist_entries, g, p, "notified")
        PROVE  InOrder'
    <2>1. g \in EntryIds /\ waitlist_entries[g].slot = s
      BY DEF NextEntries, Claimable, Waiting
    <2>2. \A e \in EntryIds : /\ waitlist_entries'[e].status = waitlist_entries[e].status
                              /\ waitlist_entries'[e].slot = waitlist_entries[e].slot
                              /\ waitlist_entries'[e].position = waitlist_entries[e].position
                              /\ e # g => waitlist_entries'[e].pend = waitlist_entries[e].pend
      BY <1>0, <1>2, <2>1 DEF Written, EntryRow
    <2>3. ASSUME NEW f \in EntryIds, waitlist_entries[f].status = "active",
                 waitlist_entries[f].slot = s
          PROVE  waitlist_entries[g].position <= waitlist_entries[f].position
      <3>1. LockFree(waitlist_entries, f, p) /\ View(waitlist_entries, f, p) = "active"
        BY <2>3, OnlyOwnLocks DEF View
      <3>2. f \in Claimable(s, p)
        BY <2>3, <3>1 DEF Claimable, Waiting
      <3>. QED  BY <3>2 DEF NextEntries
    <2>4. ASSUME NEW e \in EntryIds, NEW f \in EntryIds,
                 waitlist_entries'[e].status = "active", waitlist_entries'[e].pend = "notified",
                 waitlist_entries'[f].status = "active",
                 waitlist_entries'[f].slot = waitlist_entries'[e].slot
          PROVE  waitlist_entries'[e].position <= waitlist_entries'[f].position
      <3>1. CASE e = g
        BY <2>1, <2>2, <2>3, <2>4, <3>1
      <3>2. CASE e # g
        BY <2>2, <2>4, <3>2 DEF InOrder
      <3>. QED  BY <3>1, <3>2
    <2>. QED  BY <2>4 DEF InOrder
  <1>. QED  BY <1>1, <1>2 DEF ClaimNextForNotify

\* Only claims notify; all other statements leave the entries that wait as they are.
LEMMA StatementInOrder ==
    ASSUME OneGoroutine, SerialInv, NEW p \in Procs, Statement(p)
    PROVE  InOrder'
  <1>0. /\ TxInv /\ SerialLocals(p) /\ TxOK(p) /\ InOrder
        /\ waitlist_entries \in [EntryIds -> EntryRow]
    BY OwnTx DEF SerialInv, QueueInv
  <1>1. CASE UNCHANGED waitlist_entries
    BY <1>0, <1>1 DEF InOrder
  <1>2. CASE Claim(p)
    <2>1. HoldsNoEntry(p)
      BY <1>0, <1>2 DEF SerialLocals, Claim
    <2>2. PICK t : ClaimNextForNotify(p, tx[p].slot, t)
      BY <1>2 DEF Claim
    <2>. QED  BY <1>0, <2>1, <2>2, ClaimsInOrder DEF HoldsNoEntry
  <1>3. CASE ClaimForExpired(p)
    <2>1. PICK r \in tx[p].due :
            ClaimNextForNotify(p, slot_reservations[r].slot,
              [tx[p] EXCEPT !.slot = slot_reservations[r].slot, !.due = tx[p].due \ {r}])
      BY <1>3 DEF ClaimForExpired
    <2>2. \A e \in EntryIds :
            waitlist_entries[e].lock = p => waitlist_entries[e].slot # slot_reservations[r].slot
      BY <1>0, <1>3 DEF SerialLocals, ClaimForExpired
    <2>. QED  BY <1>0, <2>1, <2>2, ClaimsInOrder
  <1>4. CASE InsertEntry(p) /\ ~UNCHANGED waitlist_entries
    <2>1. PICK n \in NextPositions :
            waitlist_entries' = [waitlist_entries EXCEPT ![FreshId(waitlist_entries)] =
                 [user |-> tx[p].user, slot |-> tx[p].slot, position |-> n,
                  status |-> "absent", pend |-> "active", lock |-> p]]
      BY <1>4 DEF InsertEntry
    <2>2. \A e \in EntryIds : \/ waitlist_entries'[e] = waitlist_entries[e]
                              \/ waitlist_entries'[e].status = "absent"
      BY <1>0, <2>1
    <2>. QED  BY <1>0, <2>2 DEF InOrder
  <1>. QED
    BY <1>1, <1>2, <1>3, <1>4
    DEF Statement, CheckReservation, WaitReservation, InsertBooking, UpdateBooking,
        InsertReservation, LockBooking, WaitBooking, LockReservation, SetConfirmed, SetCancelled,
        ExpireBatch

\* Nothing is skipped, because no row is locked by anybody else.
LEMMA NothingPassedOver ==
    ASSUME OneGoroutine, TxInv, NEW p \in Procs, Statement(p), passedOver = {}
    PROVE  passedOver' = {}
  <1>1. \A s : SkipLocked(s, p) = {}
    BY OnlyOwnLocks DEF SkipLocked, Waiting
  <1>. QED
    BY <1>1
    DEF Statement, CheckReservation, WaitReservation, InsertBooking, UpdateBooking, Claim,
        ClaimForExpired, ClaimNextForNotify, InsertReservation, LockBooking, WaitBooking,
        InsertEntry, LockReservation, SetConfirmed, SetCancelled, ExpireBatch, history

-----------------------------------------------------------------------------
(* All steps. *)

\* The inductive step of SerialInv: a statement, COMMIT, ROLLBACK, then any step.
LEMMA StatementSerial ==
    ASSUME OneGoroutine, SerialInv, NEW p \in Procs, Statement(p), QueueInv'
    PROVE  SerialInv'
  <1>0. TxInv /\ SerialLocals(p)
    BY DEF SerialInv, QueueInv
  <1>1. \A q \in Procs : SerialLocals(q)'
    BY <1>0, StatementLocals DEF OneGoroutine
  <1>2. ReleasedAtEnd'
    <2>1. UNCHANGED slotReleased
      BY DEF Statement, CheckReservation, WaitReservation, InsertBooking, UpdateBooking, Claim,
        ClaimForExpired, InsertReservation, LockBooking, WaitBooking,
        InsertEntry, LockReservation, SetConfirmed, SetCancelled, ExpireBatch, history
    <2>2. \A b \in BookingIds : bookings'[b].status = bookings[b].status
      BY <1>0, OwnTx, StatementTouchesRows DEF StatementTouches, BookingsTouched, Touched
    <2>. QED  BY <2>1, <2>2 DEF SerialInv, ReleasedAtEnd
  <1>3. passedOver' = {}
    BY <1>0, NothingPassedOver DEF SerialInv
  <1>. QED  BY <1>1, <1>2, <1>3, StatementNeverBoth, StatementInOrder DEF SerialInv

\* Between two use cases nothing is pending.
LEMMA IdleSerial ==
    ASSUME OneGoroutine, TxInv', NEW p \in Procs, tx'[p] = NoTx
    PROVE  /\ \A q \in Procs : SerialLocals(q)'
           /\ InOrder'
           /\ \A b \in BookingIds : bookings'[b].pend = bookings'[b].status
           /\ \A r \in ReservationIds : slot_reservations'[r].pend = slot_reservations'[r].status
  <1>1. \A q \in Procs : SerialLocals(q)'
    BY DEF OneGoroutine, SerialLocals, NoTx, At
  <1>2. HoldsNothing(p)'
    BY DEF TxInv, TxOK, FirstStatements, NoTx
  <1>3. /\ \A b \in BookingIds : bookings'[b].lock = None
        /\ \A e \in EntryIds : waitlist_entries'[e].lock = None
        /\ \A r \in ReservationIds : slot_reservations'[r].lock = None
    <2>1. /\ bookings' \in [BookingIds -> BookingRow]
          /\ waitlist_entries' \in [EntryIds -> EntryRow]
          /\ slot_reservations' \in [ReservationIds -> ReservationRow]
      BY DEF TxInv, IndexInv, TypeInv, TypeOK
    <2>2. \A b \in BookingIds : bookings'[b].lock \in Procs \union {None}
      BY <2>1 DEF BookingRow
    <2>3. \A e \in EntryIds : waitlist_entries'[e].lock \in Procs \union {None}
      BY <2>1 DEF EntryRow
    <2>4. \A r \in ReservationIds : slot_reservations'[r].lock \in Procs \union {None}
      BY <2>1 DEF ReservationRow
    <2>. QED  BY <1>2, <2>2, <2>3, <2>4 DEF OneGoroutine, HoldsNothing, HoldsNoBooking, HoldsNoEntry,
                                         HoldsNoReservation
  <1>4. /\ \A b \in BookingIds : bookings'[b].pend = bookings'[b].status
        /\ \A e \in EntryIds : waitlist_entries'[e].pend = waitlist_entries'[e].status
        /\ \A r \in ReservationIds : slot_reservations'[r].pend = slot_reservations'[r].status
    BY <1>3 DEF TxInv, IndexInv, IndexesProtected, BookingIndex, ReservationIndex, EntryIndex,
                IndexProtected
  <1>5. InOrder'
    BY <1>4 DEF InOrder
  <1>. QED  BY <1>1, <1>4, <1>5

\* COMMIT.
LEMMA CommitSerial ==
    ASSUME OneGoroutine, SerialInv, NEW p \in Procs, Commit(p), QueueInv'
    PROVE  SerialInv'
  <1>0. TxInv /\ TypeInv /\ SerialLocals(p) /\ TxOK(p) /\ TxInv'
    BY OwnTx DEF SerialInv, QueueInv
  <1>1. /\ tx'[p] = NoTx
        /\ \A b \in BookingIds : CommittedRow(bookings[b], bookings'[b], p)
        /\ \A r \in ReservationIds : CommittedRow(slot_reservations[r], slot_reservations'[r], p)
    BY <1>0, CommitRows
  <1>2. /\ \A q \in Procs : SerialLocals(q)'
        /\ InOrder'
        /\ \A b \in BookingIds : bookings'[b].pend = bookings'[b].status
        /\ \A r \in ReservationIds : slot_reservations'[r].pend = slot_reservations'[r].status
    BY <1>0, <1>1, IdleSerial
  <1>3. NeverBoth'
    <2>1. ASSUME NEW b \in BookingIds, NEW r \in ReservationIds,
                 bookings'[b].slot = slot_reservations'[r].slot,
                 bookings'[b].pend = "active", slot_reservations'[r].pend = "active"
          PROVE  FALSE
      <3>1. /\ bookings[b].slot = slot_reservations[r].slot
            /\ bookings[b].pend = "active" /\ slot_reservations[r].pend = "active"
        BY <1>1, <2>1 DEF CommittedRow
      <3>2. PICK q \in Procs : At(q, "setConfirmed")
        BY <3>1 DEF SerialInv, NeverBoth
      <3>. QED  BY <3>2 DEF OneGoroutine, Commit, At
    <2>. QED  BY <1>2, <2>1 DEF NeverBoth
  <1>4. ReleasedAtEnd'
    <2>. SUFFICES ASSUME NEW b \in BookingIds
                  PROVE  /\ slotReleased'[b] <= 1
                         /\ bookings'[b].status # "cancelled" => slotReleased'[b] = 0
      BY DEF ReleasedAtEnd
    <2>1. /\ slotReleased \in [BookingIds -> Nat] /\ slotReleased[b] <= 1
          /\ bookings[b].status # "cancelled" => slotReleased[b] = 0
      BY <1>0 DEF TypeInv, TypeOK, SerialInv, ReleasedAtEnd
    <2>2. bookings[b].status = "cancelled" => bookings'[b].status = "cancelled"
      BY <1>0, <1>1 DEF CommittedRow, TxInv, RowsMove, BookingMoves, Moves
    <2>3. CASE tx[p].op = "cancel" /\ tx[p].wasActive /\ tx[p].bk = b
      <3>1. bookings[b].status = "active"
        BY <1>0, <2>3 DEF SerialLocals
      <3>2. bookings[b].lock = p /\ bookings[b].pend = "cancelled"
        BY <1>0, <2>3, <3>1 DEF TxOK, CancelHolds, Moves, Commit, At
      <3>3. bookings'[b].status = "cancelled"
        BY <1>1, <3>2 DEF CommittedRow
      <3>4. slotReleased'[b] = slotReleased[b] + 1
        BY <2>1, <2>3 DEF Commit
      <3>. QED  BY <2>1, <3>1, <3>3, <3>4
    <2>4. CASE ~(tx[p].op = "cancel" /\ tx[p].wasActive /\ tx[p].bk = b)
      <3>1. slotReleased'[b] = slotReleased[b]
        BY <2>1, <2>4 DEF Commit
      <3>. QED  BY <2>1, <2>2, <3>1
    <2>. QED  BY <2>3, <2>4
  <1>5. passedOver' = {}
    BY DEF Commit, SerialInv
  <1>. QED  BY <1>2, <1>3, <1>4, <1>5 DEF SerialInv

\* ROLLBACK, or a lost transaction.
LEMMA UndoSerial ==
    ASSUME OneGoroutine, SerialInv, NEW p \in Procs, UndoAll(p), QueueInv'
    PROVE  SerialInv'
  <1>0. TypeInv /\ TxInv'
    BY OwnTx DEF SerialInv, QueueInv
  <1>1. /\ tx'[p] = NoTx
        /\ \A b \in BookingIds : UndoneRow(bookings[b], bookings'[b], p)
        /\ \A r \in ReservationIds : UndoneRow(slot_reservations[r], slot_reservations'[r], p)
    BY <1>0, UndoRows
  <1>2. /\ \A q \in Procs : SerialLocals(q)'
        /\ InOrder'
        /\ \A b \in BookingIds : bookings'[b].pend = bookings'[b].status
        /\ \A r \in ReservationIds : slot_reservations'[r].pend = slot_reservations'[r].status
    BY <1>0, <1>1, IdleSerial
  <1>3. /\ \A b \in BookingIds : /\ bookings'[b].status = bookings[b].status
                                 /\ bookings[b].status # "absent" =>
                                      bookings'[b].slot = bookings[b].slot
        /\ \A r \in ReservationIds : /\ slot_reservations'[r].status = slot_reservations[r].status
                                     /\ slot_reservations[r].status # "absent" =>
                                      slot_reservations'[r].slot = slot_reservations[r].slot
    BY <1>1 DEF UndoneRow, SameRow
  <1>4. NeverBoth'
    BY <1>2, <1>3 DEF SerialInv, NeverBoth
  <1>5. ReleasedAtEnd' /\ passedOver' = {}
    BY <1>3 DEF UndoAll, history, SerialInv, ReleasedAtEnd
  <1>. QED  BY <1>2, <1>4, <1>5 DEF SerialInv

\* BEGIN changes an entry only in LeaveWaitlist, which is one statement.
LEMMA StartEntries ==
    ASSUME TxInv, NEW p \in Procs, Request(p) \/ StartExpire(p)
    PROVE  \A e \in EntryIds :
             /\ waitlist_entries'[e].status = waitlist_entries[e].status
             /\ waitlist_entries'[e].slot = waitlist_entries[e].slot
             /\ waitlist_entries'[e].position = waitlist_entries[e].position
             /\ waitlist_entries'[e].pend \in {waitlist_entries[e].pend, "cancelled"}
  <1>0. waitlist_entries \in [EntryIds -> EntryRow]
    BY OwnTx
  <1>1. CASE UNCHANGED waitlist_entries
    BY <1>1
  <1>2. ASSUME NEW f, waitlist_entries' = Written(waitlist_entries, f, p, "cancelled"),
               NEW e \in EntryIds
        PROVE  /\ waitlist_entries'[e].status = waitlist_entries[e].status
               /\ waitlist_entries'[e].slot = waitlist_entries[e].slot
               /\ waitlist_entries'[e].position = waitlist_entries[e].position
               /\ waitlist_entries'[e].pend \in {waitlist_entries[e].pend, "cancelled"}
    <2>1. CASE e = f
      BY <1>0, <1>2, <2>1 DEF Written, EntryRow
    <2>2. CASE e # f
      BY <1>0, <1>2, <2>2 DEF Written, EntryRow
    <2>. QED  BY <2>1, <2>2
  <1>3. \/ UNCHANGED waitlist_entries
        \/ \E f : waitlist_entries' = Written(waitlist_entries, f, p, "cancelled")
    BY DEF Request, StartCreate, StartJoin, StartCancel, LeaveWaitlist, StartConfirm,
           StartCancelReservation, StartOnReservation, StartExpire, tables
  <1>. QED  BY <1>1, <1>2, <1>3

\* A use case that begins finds the tables as the last one has left them.
LEMMA StartSerial ==
    ASSUME OneGoroutine, SerialInv, NEW p \in Procs, Request(p) \/ StartExpire(p), QueueInv'
    PROVE  SerialInv'
  <1>0. /\ TxInv /\ TxInv' /\ tx \in [Procs -> Locals]
        /\ waitlist_entries \in [EntryIds -> EntryRow]
    BY OwnTx DEF SerialInv, QueueInv
  <1>1. UNCHANGED <<bookings, slot_reservations, slotReleased, passedOver>> /\ At(p, "idle")
    BY DEF Request, StartCreate, StartJoin, StartCancel, LeaveWaitlist, StartConfirm,
           StartCancelReservation, StartOnReservation, StartExpire, Begin, tables, history
  <1>2. NeverBoth'
    <2>1. ~\E q \in Procs : At(q, "setConfirmed")
      BY <1>1 DEF OneGoroutine, At
    <2>. QED  BY <1>1, <2>1 DEF SerialInv, NeverBoth
  <1>3. InOrder'
    <2>1. \A e \in EntryIds : /\ waitlist_entries'[e].status = waitlist_entries[e].status
                              /\ waitlist_entries'[e].slot = waitlist_entries[e].slot
                              /\ waitlist_entries'[e].position = waitlist_entries[e].position
                              /\ waitlist_entries'[e].pend \in {waitlist_entries[e].pend, "cancelled"}
      BY <1>0, StartEntries
    <2>. QED  BY <2>1 DEF SerialInv, InOrder
  <1>4. SerialLocals(p)'
    <2>1. ASSUME NEW t, Begin(p, t), t.at_stmt \in {"checkReservation", "lockBooking",
                   "lockReservation", "expireBatch", "commit", "updateBooking"},
                 t.op = "cancel" => (t.wasActive => bookings[t.bk].status = "active"),
                 t.op = "confirm" => t.at_stmt = "lockReservation",
                 t.due = {}
          PROVE  SerialLocals(p)'
      <3>1. tx'[p] = t
        BY <1>0, <2>1 DEF Begin
      <3>. QED  BY <1>1, <2>1, <3>1 DEF SerialLocals, At
    <2>2. ASSUME NEW u, NEW s, StartCreate(p, u, s) \/ StartJoin(p, u, s)
          PROVE  SerialLocals(p)'
      BY <2>1, <2>2 DEF StartCreate, StartJoin, NoTx
    <2>3. ASSUME NEW u, NEW b, StartCancel(p, u, b)
          PROVE  SerialLocals(p)'
      BY <2>1, <2>3 DEF StartCancel, NoTx
    <2>4. ASSUME NEW u, NEW e, LeaveWaitlist(p, u, e)
          PROVE  SerialLocals(p)'
      BY <2>1, <2>4 DEF LeaveWaitlist, NoTx
    <2>5. ASSUME NEW u, NEW r, StartConfirm(p, u, r) \/ StartCancelReservation(p, u, r)
          PROVE  SerialLocals(p)'
      BY <2>1, <2>5 DEF StartConfirm, StartCancelReservation, StartOnReservation, NoTx
    <2>6. CASE StartExpire(p)
      BY <2>1, <2>6 DEF StartExpire, NoTx
    <2>. QED  BY <2>2, <2>3, <2>4, <2>5, <2>6 DEF Request
  <1>5. \A q \in Procs : SerialLocals(q)'
    BY <1>4 DEF OneGoroutine
  <1>6. ReleasedAtEnd' /\ passedOver' = {}
    BY <1>1 DEF SerialInv, ReleasedAtEnd
  <1>. QED  BY <1>2, <1>3, <1>5, <1>6 DEF SerialInv

\* SerialInv is inductive.
LEMMA NextSerialInv ==
    ASSUME OneGoroutine  PROVE SerialInv /\ [Next]_vars => SerialInv'
  <1>. SUFFICES ASSUME SerialInv, [Next]_vars  PROVE SerialInv'
    OBVIOUS
  <1>0. QueueInv'
    BY NextQueueInv DEF SerialInv
  <1>1. CASE Tick \/ UNCHANGED vars
    <2>1. UNCHANGED <<bookings, waitlist_entries, slot_reservations, tx, slotReleased, passedOver>>
      BY <1>1 DEF Tick, vars, tables, history
    <2>. QED
      BY <1>0, <2>1 DEF SerialInv, NeverBoth, InOrder, ReleasedAtEnd, SerialLocals, At,
                        ReservationsOf, HoldsNoEntry
  <1>2. ASSUME NEW p \in Procs, Statement(p) \/ Commit(p) \/ Rollback(p) \/ Abort(p)
        PROVE  SerialInv'
    BY <1>0, <1>2, StatementSerial, CommitSerial, UndoSerial DEF Rollback, Abort
  <1>3. ASSUME NEW p \in Procs, Request(p) \/ StartExpire(p)
        PROVE  SerialInv'
    BY <1>0, <1>3, StartSerial
  <1>. QED  BY <1>1, <1>2, <1>3 DEF Next, Procs

\* SerialInv always holds.
LEMMA AlwaysSerialInv ==
    ASSUME OneGoroutine  PROVE Spec => []SerialInv
  <1>1. Init => SerialInv
    <2>. SUFFICES ASSUME Init PROVE SerialInv
      OBVIOUS
    <2>1. QueueInv
      BY InitTxInv DEF Init, NoEntry, QueueInv, WaitersServed
    <2>2. \A p \in Procs : SerialLocals(p)
      BY DEF Init, SerialLocals, NoTx, At
    <2>. QED  BY <2>1, <2>2 DEF Init, SerialInv, NeverBoth, InOrder, ReleasedAtEnd, NoBooking, NoEntry,
                                NoReservation
  <1>2. SerialInv /\ [Next]_vars => SerialInv'
    BY NextSerialInv
  <1>. QED  BY <1>1, <1>2, PTL DEF Spec

-----------------------------------------------------------------------------
\* ReservedExcludesBooked: with one goroutine at work, CreateBooking, the claims and
\* ConfirmReservation never leave a slot both booked and reserved.  The violation
\* that two of them produce is due to the interleaving alone.
THEOREM SeriallyExclusive ==
    ASSUME OneGoroutine  PROVE Spec => []ReservedExcludesBooked
  <1>1. SerialInv => ReservedExcludesBooked
    BY DEF SerialInv, NeverBoth, ReservedExcludesBooked, Booked, Reserved, BookingsOf, ReservationsOf
  <1>2. Spec => []SerialInv
    BY AlwaysSerialInv
  <1>. QED  BY <1>1, <1>2, PTL

\* ReleasedOnce: with one goroutine at work, however often a booking is cancelled,
\* CancelBooking announces its slot or calls the queue once, because wasActive is
\* still true when SetCancelled is executed.
THEOREM SeriallyReleasedOnce ==
    ASSUME OneGoroutine  PROVE Spec => []ReleasedOnce
  <1>1. SerialInv => ReleasedOnce
    BY DEF SerialInv, ReleasedAtEnd, ReleasedOnce
  <1>2. Spec => []SerialInv
    BY AlwaysSerialInv
  <1>. QED  BY <1>1, <1>2, PTL

\* EveryWaiterHasTurn: with one goroutine at work, SKIP LOCKED skips nobody, so the
\* queue of a slot is called whenever its booking or reservation ends, and whoever
\* waits has one to wait for.
THEOREM SeriallyServed ==
    ASSUME OneGoroutine  PROVE Spec => []EveryWaiterHasTurn
  <1>1. SerialInv => EveryWaiterHasTurn
    BY DEF SerialInv, QueueInv, WaitersServed, Supported, Supports, EveryWaiterHasTurn, Booked,
           Reserved, BookingsOf, ReservationsOf
  <1>2. Spec => []SerialInv
    BY AlwaysSerialInv
  <1>. QED  BY <1>1, <1>2, PTL

\* FirstComeFirstNotified: with one goroutine at work, ClaimNextForNotify takes the
\* lowest position of all that wait for the slot, also when ExpireDue claims for a
\* whole batch of reservations in one transaction.
THEOREM SeriallyInOrder ==
    ASSUME OneGoroutine  PROVE Spec => FirstComeFirstNotified
  <1>1. ASSUME SerialInv, [Next]_vars, NEW e \in EntryIds, NEW f \in EntryIds,
               waitlist_entries[e].status = "active", waitlist_entries'[e].status = "notified",
               waitlist_entries[f].status = "active",
               waitlist_entries[f].slot = waitlist_entries[e].slot
        PROVE  waitlist_entries[e].position <= waitlist_entries[f].position
    <2>0. TxInv /\ waitlist_entries \in [EntryIds -> EntryRow]
      BY <1>1 DEF SerialInv, QueueInv, TxInv, IndexInv, TypeInv, TypeOK
    <2>1. ASSUME NEW p \in Procs, Commit(p)
          PROVE  waitlist_entries[e].pend = "notified"
      <3>1. CommittedRow(waitlist_entries[e], waitlist_entries'[e], p)
        BY <2>0, <2>1, OwnTx, CommitRows
      <3>. QED  BY <1>1, <3>1 DEF CommittedRow
    <2>2. ASSUME NEW p \in Procs, Statement(p)  PROVE FALSE
      <3>1. Touched(waitlist_entries[e], waitlist_entries'[e], p)
        BY <2>0, <2>2, OwnTx, StatementTouchesRows DEF StatementTouches, EntriesTouched
      <3>. QED  BY <1>1, <3>1 DEF Touched
    <2>3. ASSUME NEW p \in Procs, Rollback(p) \/ Abort(p)  PROVE FALSE
      <3>1. UndoneRow(waitlist_entries[e], waitlist_entries'[e], p)
        BY <2>0, <2>3, OwnTx, UndoRows DEF Rollback, Abort
      <3>. QED  BY <1>1, <3>1 DEF UndoneRow
    <2>4. ASSUME NEW p \in Procs, Request(p) \/ StartExpire(p)  PROVE FALSE
      <3>2. waitlist_entries'[e].status = waitlist_entries[e].status
        BY <2>0, <2>4, StartEntries
      <3>. QED  BY <1>1, <3>2
    <2>5. CASE Tick \/ UNCHANGED vars
      BY <1>1, <2>5 DEF Tick, vars, tables
    <2>. QED  BY <1>1, <2>1, <2>2, <2>3, <2>4, <2>5 DEF Next, Procs, SerialInv, InOrder
  <1>2. SerialInv /\ [Next]_vars =>
          [\A e, f \in EntryIds :
             /\ waitlist_entries[e].status = "active" /\ waitlist_entries'[e].status = "notified"
             /\ waitlist_entries[f].status = "active"
             /\ waitlist_entries[f].slot = waitlist_entries[e].slot
             => waitlist_entries[e].position <= waitlist_entries[f].position]_vars
    BY <1>1
  <1>3. Spec => []SerialInv
    BY AlwaysSerialInv
  <1>. QED  BY <1>2, <1>3, PTL DEF Spec, FirstComeFirstNotified

-----------------------------------------------------------------------------
(* The lists. *)

\* The two lists agree about the slots that are free and have not begun.
LEMMA ListedAsFree ==
    ASSUME NEW s \in Slots, NEW at \in Nat
    PROVE  /\ ListAllByRoomAndDate(s, at) = "available" <=>
                ~Booked(s) /\ ~Reserved(s) /\ ~IsPast(s, at)
           /\ ListAllByRoomAndDate(s, at) = "past" <=> IsPast(s, at)
           /\ s \in ListAvailableByRoomAndDate <=> ~Booked(s) /\ ~Reserved(s)
  BY DEF ListAllByRoomAndDate, ListAvailableByRoomAndDate, IsPast

\* CreateBooking goes to its COMMIT or ROLLBACK according to what the tables say
\* then, and to the clock it has read.
LEMMA CreateEnds ==
    ASSUME OneGoroutine, SerialInv, NEW p \in Procs, Statement(p), tx[p].op = "create",
           NEW s, s = tx[p].slot, NEW past, past = IsPast(s, tx[p].at)
    PROVE  /\ tx'[p].at_stmt = "commit" => ~Booked(s) /\ ~Reserved(s) /\ ~past
           /\ tx'[p].at_stmt = "rollback" => Booked(s) \/ Reserved(s) \/ past
  <1>0. TxInv /\ SerialLocals(p) /\ TxOK(p) /\ TypeInv /\ HoldsNoReservation(p)
    BY OwnTx DEF SerialInv, QueueInv, TxOK, CreateHolds
  <1>1. tx[p].at_stmt \in {"checkReservation", "insertBooking", "commit"}
    BY <1>0 DEF TxOK, StatementsOf, SerialLocals
  <1>2. CASE At(p, "checkReservation")
    <2>1. CheckReservation(p)
      BY <1>2 DEF Statement, At, CheckReservation, WaitReservation, InsertBooking, UpdateBooking, Claim,
           ClaimForExpired, InsertReservation, LockBooking, WaitBooking, InsertEntry,
           LockReservation, SetConfirmed, SetCancelled, ExpireBatch
    <2>2. \A r \in ActiveReservations(s, p) : LockFree(slot_reservations, r, p) /\ Reserved(s)
      BY <1>0, OnlyOwnLocks DEF ActiveReservations, ReservationsOf, View, HoldsNoReservation, Reserved
    <2>3. Goto(p, "insertBooking") \/ (Goto(p, "rollback") /\ (Reserved(s) \/ past))
      BY <2>1, <2>2 DEF CheckReservation
    <2>4. \/ tx'[p].at_stmt = "insertBooking"
          \/ tx'[p].at_stmt = "rollback" /\ (Reserved(s) \/ past)
      BY <1>0, <2>3, GotoLocals DEF Stages
    <2>. QED  BY <2>4
  <1>3. CASE At(p, "insertBooking")
    <2>1. InsertBooking(p)
      BY <1>3 DEF Statement, At, CheckReservation, WaitReservation, InsertBooking, UpdateBooking, Claim,
           ClaimForExpired, InsertReservation, LockBooking, WaitBooking, InsertEntry,
           LockReservation, SetConfirmed, SetCancelled, ExpireBatch
    <2>2. HoldsNoBooking(p) /\ ~Reserved(s) /\ ~past
      BY <1>0, <1>3 DEF TxOK, CreateHolds, SerialLocals, Reserved
    <2>3. Taken(bookings, BookingsOf(s), p, {"active"}) <=> Booked(s)
      BY <2>2 DEF Taken, Booked, View, HoldsNoBooking, BookingsOf
    <2>4. (Goto(p, "rollback") /\ Booked(s)) \/ (Goto(p, "commit") /\ ~Booked(s))
      BY <2>1, <2>3 DEF InsertBooking
    <2>5. \/ tx'[p].at_stmt = "rollback" /\ Booked(s)
          \/ tx'[p].at_stmt = "commit" /\ ~Booked(s)
      BY <1>0, <2>4, GotoLocals DEF Stages
    <2>. QED  BY <2>2, <2>5
  <1>4. CASE At(p, "commit")
    BY <1>4 DEF Statement, At, CheckReservation, WaitReservation, InsertBooking, UpdateBooking, Claim,
           ClaimForExpired, InsertReservation, LockBooking, WaitBooking, InsertEntry,
           LockReservation, SetConfirmed, SetCancelled, ExpireBatch
  <1>. QED  BY <1>1, <1>2, <1>3, <1>4 DEF At

\* What a step of a use case that is under way can be.
LEMMA UnderWayStep ==
    ASSUME OneGoroutine, SerialInv, [Next]_vars, NEW p \in Procs, tx[p].op # "none",
           ~At(p, "commit"), tx'[p].at_stmt \in {"commit", "rollback"}
    PROVE  Statement(p)
  <1>0. TxInv /\ TypeInv /\ TxOK(p) /\ tx[p].op \in Ops
    BY OwnTx DEF SerialInv, QueueInv
  <1>1. ~At(p, "idle") /\ ~At(p, "rollback")
    BY <1>0, UseCaseOf DEF At, TxOK
  <1>2. \A q \in Procs : q = p
    BY DEF OneGoroutine
  <1>3. ~(Rollback(p) \/ Abort(p))
    BY <1>0, UndoRows DEF Rollback, Abort, NoTx
  <1>4. ~Commit(p)
    BY DEF Commit
  <1>5. ~Request(p) /\ ~StartExpire(p)
    BY <1>1 DEF Request, StartCreate, StartJoin, StartCancel, LeaveWaitlist, StartConfirm,
             StartCancelReservation, StartOnReservation, StartExpire, Begin
  <1>6. ~(Tick \/ UNCHANGED vars)
    BY <1>1 DEF Tick, vars, At
  <1>. QED  BY <1>2, <1>3, <1>4, <1>5, <1>6 DEF Next, Procs

\* AvailableCanBeBooked: with one goroutine at work, CreateBooking succeeds for
\* exactly the slots that the list of the day shows as free at the clock the request
\* has read, and whoever is refused a slot of the list of free ones is refused it
\* because it has begun.
THEOREM SeriallyAvailable ==
    ASSUME OneGoroutine  PROVE Spec => AvailableCanBeBooked
  <1>1. ASSUME SerialInv, [Next]_vars, NEW p \in Procs, tx[p].op = "create", ~At(p, "commit")
        PROVE  LET shown == ListAllByRoomAndDate(tx[p].slot, tx[p].at)
                   listed == tx[p].slot \in ListAvailableByRoomAndDate
               IN /\ tx'[p].at_stmt = "commit" => shown = "available" /\ listed
                  /\ tx'[p].at_stmt = "rollback" =>
                       /\ shown # "available"
                       /\ listed => shown = "past"
    <2>1. tx[p].slot \in Slots /\ tx[p].at \in Nat
      BY <1>1, OwnTx DEF SerialInv, QueueInv, TxOK, CreateHolds, Locals
    <2>2. tx'[p].at_stmt \in {"commit", "rollback"} => Statement(p)
      BY <1>1, UnderWayStep
    <2>. DEFINE past == IsPast(tx[p].slot, tx[p].at)
    <2>3. /\ tx'[p].at_stmt = "commit" =>
               ~Booked(tx[p].slot) /\ ~Reserved(tx[p].slot) /\ ~past
          /\ tx'[p].at_stmt = "rollback" =>
               Booked(tx[p].slot) \/ Reserved(tx[p].slot) \/ past
      BY <1>1, <2>2, CreateEnds
    <2>. QED  BY <2>1, <2>3, ListedAsFree
  <1>2. SerialInv /\ [Next]_vars =>
          [\A p \in Procs : tx[p].op = "create" /\ ~At(p, "commit") =>
             LET shown == ListAllByRoomAndDate(tx[p].slot, tx[p].at)
                 listed == tx[p].slot \in ListAvailableByRoomAndDate
             IN /\ tx'[p].at_stmt = "commit" => shown = "available" /\ listed
                /\ tx'[p].at_stmt = "rollback" =>
                     /\ shown # "available"
                     /\ listed => shown = "past"]_vars
    BY <1>1
  <1>3. Spec => []SerialInv
    BY AlwaysSerialInv
  <1>. QED  BY <1>2, <1>3, PTL DEF Spec, AvailableCanBeBooked

\* So does ConfirmReservation, and the clock it has read decides like the list.
LEMMA ConfirmEnds ==
    ASSUME OneGoroutine, SerialInv, NEW p \in Procs, Statement(p), tx[p].op = "confirm"
    PROVE  /\ tx'[p].at_stmt = "commit" =>
                /\ tx[p].rv \in ListActiveByUser(tx[p].user, tx[p].at)
                /\ ~IsPast(tx[p].slot, tx[p].at)
           /\ tx'[p].at_stmt = "rollback" =>
                \/ tx[p].rv \notin ListActiveByUser(tx[p].user, tx[p].at)
                \/ IsPast(tx[p].slot, tx[p].at)
  <1>0. TxInv /\ SerialLocals(p) /\ TxOK(p) /\ TypeInv /\ ConfirmHolds(p)
    BY OwnTx DEF SerialInv, QueueInv, TxOK
  <1>1. tx[p].at_stmt \in {"lockReservation", "lockBooking", "insertBooking", "setConfirmed", "commit"}
    BY <1>0 DEF TxOK, StatementsOf, SerialLocals
  <1>. DEFINE r == tx[p].rv
  <1>2. CASE At(p, "lockReservation")
    <2>1. LockReservation(p)
      BY <1>2 DEF Statement, At, CheckReservation, WaitReservation, InsertBooking, UpdateBooking, Claim,
           ClaimForExpired, InsertReservation, LockBooking, WaitBooking, InsertEntry,
           LockReservation, SetConfirmed, SetCancelled, ExpireBatch
    <2>2. \/ Goto(p, "lockBooking")
          \/ Goto(p, "rollback") /\ r \notin ListActiveByUser(tx[p].user, tx[p].at)
      BY <2>1 DEF LockReservation, WithReservation, ListActiveByUser
    <2>3. \/ tx'[p].at_stmt = "lockBooking"
          \/ tx'[p].at_stmt = "rollback" /\ r \notin ListActiveByUser(tx[p].user, tx[p].at)
      BY <1>0, <2>2, GotoLocals DEF Stages
    <2>. QED  BY <2>3
  <1>3. ASSUME ~At(p, "lockReservation"), ~At(p, "commit")
        PROVE  /\ r \in ReservationIds /\ slot_reservations[r].status = "active"
               /\ slot_reservations[r].user = tx[p].user /\ slot_reservations[r].slot = tx[p].slot
    BY <1>0, <1>3 DEF ConfirmHolds, OnlyReservation, Moves
  <1>4. ASSUME ~At(p, "lockReservation"), ~At(p, "commit"), NEW b \in BookingIds,
               bookings[b].slot = tx[p].slot
        PROVE  bookings[b].status # "active"
    BY <1>3, <1>4 DEF SerialInv, NeverBoth
  <1>5. CASE At(p, "lockBooking")
    <2>1. LockBooking(p) /\ HoldsNoBooking(p)
      BY <1>0, <1>5 DEF ConfirmHolds, Statement, At, CheckReservation, WaitReservation, InsertBooking,
           UpdateBooking, Claim,
           ClaimForExpired, InsertReservation, LockBooking, WaitBooking, InsertEntry,
           LockReservation, SetConfirmed, SetCancelled, ExpireBatch
    <2>2. ActiveBookings(tx[p].slot, p) = {}
      BY <1>4, <1>5, <2>1 DEF ActiveBookings, BookingsOf, View, HoldsNoBooking, At
    <2>3. \/ Goto(p, "insertBooking")
          \/ Goto(p, "rollback") /\ IsPast(tx[p].slot, tx[p].at)
      BY <2>1, <2>2 DEF LockBooking, WithoutBooking
    <2>4. \/ tx'[p].at_stmt = "insertBooking"
          \/ tx'[p].at_stmt = "rollback" /\ IsPast(tx[p].slot, tx[p].at)
      BY <1>0, <2>3, GotoLocals DEF Stages
    <2>. QED  BY <2>4
  <1>6. CASE At(p, "insertBooking")
    <2>1. InsertBooking(p) /\ HoldsNoBooking(p)
      BY <1>0, <1>6 DEF ConfirmHolds, Statement, At, CheckReservation, WaitReservation, InsertBooking,
           UpdateBooking, Claim,
           ClaimForExpired, InsertReservation, LockBooking, WaitBooking, InsertEntry,
           LockReservation, SetConfirmed, SetCancelled, ExpireBatch
    <2>2. ~Taken(bookings, BookingsOf(tx[p].slot), p, {"active"})
      BY <1>4, <1>6, <2>1 DEF Taken, BookingsOf, View, HoldsNoBooking, At
    <2>3. Goto(p, "setConfirmed")
      BY <2>1, <2>2 DEF InsertBooking
    <2>. QED  BY <1>0, <2>3, GotoLocals DEF Stages
  <1>7. CASE At(p, "setConfirmed")
    <2>1. SetConfirmed(p)
      BY <1>7 DEF Statement, At, CheckReservation, WaitReservation, InsertBooking, UpdateBooking, Claim,
           ClaimForExpired, InsertReservation, LockBooking, WaitBooking, InsertEntry,
           LockReservation, SetConfirmed, SetCancelled, ExpireBatch
    <2>2. tx'[p].at_stmt = "commit"
      BY <1>0, <2>1, GotoLocals DEF Stages, SetConfirmed
    <2>3. slot_reservations[r].expires_at > tx[p].at /\ ~IsPast(tx[p].slot, tx[p].at)
      BY <1>0, <1>7 DEF SerialLocals, At
    <2>. QED  BY <1>3, <1>7, <2>2, <2>3 DEF ListActiveByUser, At
  <1>8. CASE At(p, "commit")
    BY <1>8 DEF Statement, At, CheckReservation, WaitReservation, InsertBooking, UpdateBooking, Claim,
           ClaimForExpired, InsertReservation, LockBooking, WaitBooking, InsertEntry,
           LockReservation, SetConfirmed, SetCancelled, ExpireBatch
  <1>. QED  BY <1>1, <1>2, <1>5, <1>6, <1>7, <1>8 DEF At

\* ListedCanBeConfirmed: with one goroutine at work, ConfirmReservation succeeds for
\* exactly the reservations that ListActiveByUser shows, but for those of slots that
\* have begun.
THEOREM SeriallyConfirmed ==
    ASSUME OneGoroutine  PROVE Spec => ListedCanBeConfirmed
  <1>1. ASSUME SerialInv, [Next]_vars, NEW p \in Procs, tx[p].op = "confirm", ~At(p, "commit")
        PROVE  LET shown == tx[p].rv \in ListActiveByUser(tx[p].user, tx[p].at)
                   begun == IsPast(tx[p].slot, tx[p].at)
               IN /\ tx'[p].at_stmt = "commit" => shown /\ ~begun
                  /\ tx'[p].at_stmt = "rollback" => ~shown \/ begun
    <2>1. tx'[p].at_stmt \in {"commit", "rollback"} => Statement(p)
      BY <1>1, UnderWayStep
    <2>. QED  BY <1>1, <2>1, ConfirmEnds
  <1>2. SerialInv /\ [Next]_vars =>
          [\A p \in Procs : tx[p].op = "confirm" /\ ~At(p, "commit") =>
             LET shown == tx[p].rv \in ListActiveByUser(tx[p].user, tx[p].at)
                 begun == IsPast(tx[p].slot, tx[p].at)
             IN /\ tx'[p].at_stmt = "commit" => shown /\ ~begun
                /\ tx'[p].at_stmt = "rollback" => ~shown \/ begun]_vars
    BY <1>1
  <1>3. Spec => []SerialInv
    BY AlwaysSerialInv
  <1>. QED  BY <1>2, <1>3, PTL DEF Spec, ListedCanBeConfirmed

=============================================================================
