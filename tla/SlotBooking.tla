----------------------------- MODULE SlotBooking -----------------------------
(***************************************************************************)
(* The life of a slot: bookings, the waitlist and the temporary            *)
(* reservations, as the use cases CreateBooking, CancelBooking,            *)
(* JoinWaitlist, LeaveWaitlist, ConfirmReservation, CancelReservation and  *)
(* the background ExpireDue drive them against PostgreSQL.                 *)
(*                                                                         *)
(* Grain.  One action is one SQL statement of a transaction (reads of the  *)
(* immutable table slots are folded into the next statement), followed by  *)
(* COMMIT or ROLLBACK.  The service opens its transactions with pool.Begin *)
(* and so runs READ COMMITTED: a statement sees what is committed when it  *)
(* starts plus the transaction's own writes, and row locks are held to the *)
(* end of the transaction.                                                 *)
(*                                                                         *)
(* A row keeps its committed status, the status its lock holder has        *)
(* written (pend) and the holder (lock).  A row some transaction has       *)
(* inserted and not committed is "absent" to everybody else.               *)
(***************************************************************************)
EXTENDS Integers, FiniteSets

CONSTANTS
    Users,           \* users of role "user" (the other role is refused at once)
    Slots,           \* rows of the table slots: immutable for these use cases
    Handlers,        \* goroutines that serve HTTP requests
    Workers,         \* goroutines that run the expiration ticker
    BookingIds, EntryIds, ReservationIds,   \* bounds on the rows ever inserted
    SlotStart,       \* slots.start_time
    TTL,             \* RESERVATION_TTL_SECONDS
    BatchLimit,      \* RESERVATION_EXPIRE_BATCH
    MaxClock,        \* bound on the clock
    MaxPosition,     \* bound on waitlist_entries.position
    None

Procs == Handlers \union Workers

ASSUME ConstantsAssumption ==
    /\ SlotStart \in [Slots -> Nat]
    /\ TTL \in Nat \ {0} /\ BatchLimit \in Nat \ {0} /\ MaxClock \in Nat
    /\ MaxPosition \in Nat
    /\ None \notin Users \union Slots \union Procs
    /\ None \notin BookingIds \union EntryIds \union ReservationIds

VARIABLES
    bookings,            \* table bookings
    waitlist_entries,    \* table waitlist_entries
    slot_reservations,   \* table slot_reservations
    tx,                  \* per goroutine: the use case it runs and its locals
    now,                 \* wall clock, as s.now() reads it
    slotReleased,        \* per booking: commits of CancelBooking with slotReleased
    passedOver           \* entries a fruitless claim skipped because they were locked

tables == <<bookings, waitlist_entries, slot_reservations>>
history == <<slotReleased, passedOver>>
vars == <<bookings, waitlist_entries, slot_reservations, tx, now, slotReleased, passedOver>>

-----------------------------------------------------------------------------
(* Rows and their types. *)

BookingStatus == {"absent", "active", "cancelled"}
EntryStatus == {"absent", "active", "notified", "cancelled"}
ReservationStatus == {"absent", "active", "confirmed", "expired", "cancelled"}

BookingRow == [user : Users \union {None}, slot : Slots \union {None},
               status : BookingStatus, pend : BookingStatus, lock : Procs \union {None}]
EntryRow == [user : Users \union {None}, slot : Slots \union {None}, position : Nat,
             status : EntryStatus, pend : EntryStatus, lock : Procs \union {None}]
ReservationRow == [user : Users \union {None}, slot : Slots \union {None},
                   entry : EntryIds \union {None}, expires_at : Nat,
                   status : ReservationStatus, pend : ReservationStatus,
                   lock : Procs \union {None}]

NoBooking == [user |-> None, slot |-> None,
              status |-> "absent", pend |-> "absent", lock |-> None]
NoEntry == [user |-> None, slot |-> None, position |-> 0,
            status |-> "absent", pend |-> "absent", lock |-> None]
NoReservation == [user |-> None, slot |-> None, entry |-> None, expires_at |-> 0,
                  status |-> "absent", pend |-> "absent", lock |-> None]

Ops == {"none", "create", "cancel", "join", "leave", "confirm", "cancelRes", "expire"}

\* The statement a goroutine is about to execute.
Stages == {"idle", "checkReservation", "waitReservation", "insertBooking", "updateBooking",
           "claim", "insertReservation", "lockBooking", "waitBooking", "insertEntry",
           "lockReservation", "setConfirmed", "setCancelled", "expireBatch",
           "commit", "rollback"}

\* user, slot, bk (booking), en (entry), rv (reservation): the arguments and
\* the rows read; at: the clock as the use case sampled it; wasActive as in
\* CancelBooking; due: reservations expired by ExpireDue, not handled yet.
Locals == [op : Ops, at_stmt : Stages, user : Users \union {None}, slot : Slots \union {None},
           bk : BookingIds \union {None}, en : EntryIds \union {None},
           rv : ReservationIds \union {None}, at : Nat, wasActive : BOOLEAN,
           due : SUBSET ReservationIds]

NoTx == [op |-> "none", at_stmt |-> "idle", user |-> None, slot |-> None, bk |-> None,
         en |-> None, rv |-> None, at |-> 0, wasActive |-> FALSE, due |-> {}]

-----------------------------------------------------------------------------
(* PostgreSQL: visibility, row locks and partial unique indexes. *)

\* The status of row r as a statement of p sees it.
View(table, r, p) == IF table[r].lock = p THEN table[r].pend ELSE table[r].status

\* Row r is being inserted or updated by a transaction other than p's.
InProgress(table, r, p) ==
    /\ table[r].lock \notin {None, p}
    /\ table[r].pend # table[r].status

\* Rows with the inserted key on which the uniqueness check of p has to wait:
\* another transaction is creating, or taking away, a status in the index.
Awaited(table, rows, p, indexed) ==
    {r \in rows : /\ InProgress(table, r, p)
                  /\ table[r].status \in indexed \/ table[r].pend \in indexed}

\* Fault: the unique index is missing.
TakenFault(table, rows, p, indexed) == FALSE

\* Some row with the inserted key is in the index.
Taken(table, rows, p, indexed) == \E r \in rows : View(table, r, p) \in indexed

LockFree(table, r, p) == table[r].lock \in {None, p}

Locked(table, r, p) == [table EXCEPT ![r].lock = p]

Written(table, r, p, status) == [table EXCEPT ![r].pend = status, ![r].lock = p]

IsFresh(table, r) ==
    table[r].status = "absent" /\ table[r].pend = "absent" /\ table[r].lock = None
HasFresh(table) == \E r \in DOMAIN table : IsFresh(table, r)
FreshId(table) == CHOOSE r \in DOMAIN table : IsFresh(table, r)

CommittedTable(table, p) ==
    [r \in DOMAIN table |->
        IF table[r].lock = p
        THEN [table[r] EXCEPT !.status = table[r].pend, !.lock = None]
        ELSE table[r]]

RolledBackTable(table, p, blank) ==
    [r \in DOMAIN table |->
        IF table[r].lock # p THEN table[r]
        ELSE IF table[r].status = "absent" THEN blank
        ELSE [table[r] EXCEPT !.pend = table[r].status, !.lock = None]]

\* The keys of uq_bookings_active_slot, uq_slot_reservations_active_slot and
\* uq_waitlist_slot_user_active_or_notified.
BookingsOf(s) == {b \in BookingIds : bookings[b].slot = s}
ReservationsOf(s) == {r \in ReservationIds : slot_reservations[r].slot = s}
EntriesOf(s, u) ==
    {e \in EntryIds : waitlist_entries[e].slot = s /\ waitlist_entries[e].user = u}

ActiveBookings(s, p) == {b \in BookingsOf(s) : View(bookings, b, p) = "active"}
ActiveReservations(s, p) == {r \in ReservationsOf(s) : View(slot_reservations, r, p) = "active"}

At(p, stage) == tx[p].at_stmt = stage

\* The locals with which t goes on: a use case that is about to end keeps only
\* what decides the events it publishes.
Continue(t, stage) ==
    CASE stage = "rollback" -> [NoTx EXCEPT !.at_stmt = "rollback"]
      [] stage = "commit" -> [NoTx EXCEPT !.at_stmt = "commit", !.op = t.op, !.bk = t.bk,
                                          !.wasActive = t.wasActive]
      [] OTHER -> [t EXCEPT !.at_stmt = stage]

Goto(p, stage) == tx' = [tx EXCEPT ![p] = Continue(tx[p], stage)]

\* BEGIN: the locals a use case starts with.
Begin(p, locals) == At(p, "idle") /\ tx' = [tx EXCEPT ![p] = locals]

\* Fault: a slot that starts right now counts as past.
IsPastFault(s, time) == SlotStart[s] <= time

IsPast(s, time) == SlotStart[s] < time

-----------------------------------------------------------------------------
(* CreateBooking: the clock, then the slot's start is compared with it,    *)
(* GetActiveBySlotForUpdate on reservations and the INSERT.  The booking   *)
(* check of ConfirmReservation ends in that INSERT too.  Whoever finds     *)
(* nothing locks nothing.                                                  *)

StartCreate(p, u, s) ==
    /\ Begin(p, [NoTx EXCEPT !.op = "create", !.at_stmt = "checkReservation",
                             !.user = u, !.slot = s, !.at = now])
    /\ UNCHANGED <<tables, now, history>>

\* Fault: the reservation check is left out.
CheckReservationFault(p) ==
    /\ At(p, "checkReservation")
    /\ Goto(p, IF IsPast(tx[p].slot, tx[p].at) THEN "rollback" ELSE "insertBooking")
    /\ UNCHANGED <<tables, now, history>>

CheckReservation(p) ==
    /\ At(p, "checkReservation")
    /\ \/ /\ IsPast(tx[p].slot, tx[p].at)
          /\ Goto(p, "rollback")                                  \* INVALID_REQUEST
          /\ UNCHANGED slot_reservations
       \/ /\ ~IsPast(tx[p].slot, tx[p].at)
          /\ LET found == ActiveReservations(tx[p].slot, p) IN
             \/ /\ found = {}
                /\ Goto(p, "insertBooking")
                /\ UNCHANGED slot_reservations
             \/ \E r \in found :
                  /\ LockFree(slot_reservations, r, p)
                  /\ slot_reservations' = Locked(slot_reservations, r, p)
                  /\ Goto(p, "rollback")                          \* SLOT_RESERVED
             \/ \E r \in found :
                  /\ ~LockFree(slot_reservations, r, p)
                  /\ tx' = [tx EXCEPT ![p].at_stmt = "waitReservation", ![p].rv = r]
                  /\ UNCHANGED slot_reservations
    /\ UNCHANGED <<bookings, waitlist_entries, now, history>>

\* The lock is released: FOR UPDATE re-evaluates that one row and does not
\* look for rows committed since the statement began.
WaitReservation(p) ==
    /\ At(p, "waitReservation")
    /\ LockFree(slot_reservations, tx[p].rv, p)
    /\ IF slot_reservations[tx[p].rv].status = "active"
       THEN /\ slot_reservations' = Locked(slot_reservations, tx[p].rv, p)
            /\ Goto(p, "rollback")
       ELSE /\ Goto(p, "insertBooking")
            /\ UNCHANGED slot_reservations
    /\ UNCHANGED <<bookings, waitlist_entries, now, history>>

\* Fault: RowsAffected is not looked at.
InsertBookingFault(p) ==
    /\ At(p, "insertBooking")
    /\ Awaited(bookings, BookingsOf(tx[p].slot), p, {"active"}) = {}
    /\ HasFresh(bookings) \/ Taken(bookings, BookingsOf(tx[p].slot), p, {"active"})
    /\ bookings' = IF Taken(bookings, BookingsOf(tx[p].slot), p, {"active"}) THEN bookings
                   ELSE [bookings EXCEPT ![FreshId(bookings)] =
                           [user |-> tx[p].user, slot |-> tx[p].slot,
                            status |-> "absent", pend |-> "active", lock |-> p]]
    /\ Goto(p, IF tx[p].op = "confirm" THEN "setConfirmed" ELSE "commit")
    /\ UNCHANGED <<waitlist_entries, slot_reservations, now, history>>

\* INSERT ... ON CONFLICT (slot_id) WHERE (status = 'active') DO NOTHING
InsertBooking(p) ==
    /\ At(p, "insertBooking")
    /\ Awaited(bookings, BookingsOf(tx[p].slot), p, {"active"}) = {}
    /\ \/ /\ Taken(bookings, BookingsOf(tx[p].slot), p, {"active"})
          /\ Goto(p, "rollback")                                  \* SLOT_ALREADY_BOOKED
          /\ UNCHANGED bookings
       \/ /\ ~Taken(bookings, BookingsOf(tx[p].slot), p, {"active"})
          /\ HasFresh(bookings)
          /\ bookings' = [bookings EXCEPT ![FreshId(bookings)] =
                            [user |-> tx[p].user, slot |-> tx[p].slot,
                             status |-> "absent", pend |-> "active", lock |-> p]]
          /\ Goto(p, IF tx[p].op = "confirm" THEN "setConfirmed" ELSE "commit")
    /\ UNCHANGED <<waitlist_entries, slot_reservations, now, history>>

-----------------------------------------------------------------------------
(* CancelBooking: GetByID without a lock, SetCancelled, then the next      *)
(* waiter is claimed when GetByID had read an active booking.              *)

\* Fault: wasActive is not computed.
StartCancelFault(p, u, b) ==
    /\ bookings[b].status # "absent"
    /\ bookings[b].user = u
    /\ Begin(p, [NoTx EXCEPT !.op = "cancel", !.at_stmt = "updateBooking",
                             !.slot = bookings[b].slot, !.bk = b, !.wasActive = TRUE])
    /\ UNCHANGED <<tables, now, history>>

StartCancel(p, u, b) ==
    /\ bookings[b].status # "absent"
    /\ bookings[b].user = u                                       \* else FORBIDDEN
    /\ Begin(p, [NoTx EXCEPT !.op = "cancel", !.at_stmt = "updateBooking",
                             !.slot = bookings[b].slot, !.bk = b,
                             !.wasActive = bookings[b].status = "active"])
    /\ UNCHANGED <<tables, now, history>>

\* SetCancelled: a booking that is no longer active is only read back.
UpdateBooking(p) ==
    /\ At(p, "updateBooking")
    /\ \/ /\ bookings[tx[p].bk].status = "active"
          /\ LockFree(bookings, tx[p].bk, p)
          /\ bookings' = Written(bookings, tx[p].bk, p, "cancelled")
       \/ /\ bookings[tx[p].bk].status # "active"
          /\ UNCHANGED bookings
    /\ Goto(p, IF tx[p].wasActive THEN "claim" ELSE "commit")
    /\ UNCHANGED <<waitlist_entries, slot_reservations, now, history>>

-----------------------------------------------------------------------------
(* ClaimNextForNotify and the reservation for the claimed entry: the tail  *)
(* of CancelBooking, CancelReservation and of each item of ExpireDue.      *)

Waiting(s) == {e \in EntryIds : waitlist_entries[e].slot = s
                                /\ waitlist_entries[e].status = "active"}

\* Fault: the claim does not ask for status = 'active'.
ClaimableFault(s, p) == {e \in EntryIds : /\ waitlist_entries[e].slot = s
                                          /\ waitlist_entries[e].status # "absent"
                                          /\ LockFree(waitlist_entries, e, p)}

\* FOR UPDATE SKIP LOCKED
Claimable(s, p) == {e \in Waiting(s) : LockFree(waitlist_entries, e, p)
                                       /\ View(waitlist_entries, e, p) = "active"}
SkipLocked(s, p) == {e \in Waiting(s) : ~LockFree(waitlist_entries, e, p)}

\* Fault: no ORDER BY.
NextEntriesFault(s, p) == Claimable(s, p)

\* ORDER BY position LIMIT 1
NextEntries(s, p) ==
    {e \in Claimable(s, p) : \A f \in Claimable(s, p) :
        waitlist_entries[e].position <= waitlist_entries[f].position}

\* Fault: only the first expired reservation is handled.
AfterClaimFault(t) == "commit"

\* ExpireDue goes on with the next expired reservation.
AfterClaim(t) == IF t.due # {} THEN "claim" ELSE "commit"

ClaimNextForNotify(p, s, t) ==
    \/ /\ Claimable(s, p) = {}
       /\ tx' = [tx EXCEPT ![p] = Continue(t, AfterClaim(t))]
       /\ passedOver' = passedOver \union SkipLocked(s, p)
       /\ UNCHANGED waitlist_entries
    \/ \E e \in NextEntries(s, p) :
         /\ waitlist_entries' = Written(waitlist_entries, e, p, "notified")
         /\ tx' = [tx EXCEPT ![p] = [t EXCEPT !.at_stmt = "insertReservation", !.en = e]]
         /\ UNCHANGED passedOver

\* CancelBooking reads the clock again (reservationNow).
Claim(p) ==
    /\ At(p, "claim")
    /\ tx[p].op # "expire"
    /\ ClaimNextForNotify(p, tx[p].slot,
         [tx[p] EXCEPT !.at = IF tx[p].op = "cancel" THEN now ELSE tx[p].at])
    /\ UNCHANGED <<bookings, slot_reservations, now, slotReleased>>

ClaimForExpired(p) ==
    /\ At(p, "claim")
    /\ tx[p].op = "expire"
    /\ \E r \in tx[p].due :
         ClaimNextForNotify(p, slot_reservations[r].slot,
           [tx[p] EXCEPT !.slot = slot_reservations[r].slot, !.due = tx[p].due \ {r}])
    /\ UNCHANGED <<bookings, slot_reservations, now, slotReleased>>

\* Fault: the TTL is taken away instead of added.
ExpiresAtFault(t) == t.at - TTL

ExpiresAt(t) == t.at + TTL

\* A duplicate makes every caller fail with INTERNAL_ERROR.
InsertReservation(p) ==
    /\ At(p, "insertReservation")
    /\ Awaited(slot_reservations, ReservationsOf(tx[p].slot), p, {"active"}) = {}
    /\ \/ /\ Taken(slot_reservations, ReservationsOf(tx[p].slot), p, {"active"})
          /\ Goto(p, "rollback")
          /\ UNCHANGED slot_reservations
       \/ /\ ~Taken(slot_reservations, ReservationsOf(tx[p].slot), p, {"active"})
          /\ HasFresh(slot_reservations)
          /\ slot_reservations' = [slot_reservations EXCEPT ![FreshId(slot_reservations)] =
               [user |-> waitlist_entries[tx[p].en].user, slot |-> tx[p].slot,
                entry |-> tx[p].en, expires_at |-> ExpiresAt(tx[p]),
                status |-> "absent", pend |-> "active", lock |-> p]]
          /\ Goto(p, AfterClaim(tx[p]))
    /\ UNCHANGED <<bookings, waitlist_entries, now, history>>

-----------------------------------------------------------------------------
(* The waitlist. *)

StartJoin(p, u, s) ==
    /\ ~IsPast(s, now)
    /\ Begin(p, [NoTx EXCEPT !.op = "join", !.at_stmt = "lockBooking", !.user = u, !.slot = s])
    /\ UNCHANGED <<tables, now, history>>

\* GetActiveBySlotForUpdate on bookings, for JoinWaitlist (which needs another
\* user's booking) and for ConfirmReservation (which needs none).
WithBooking(t, b) ==
    IF t.op = "join" /\ bookings[b].user # t.user THEN "insertEntry" ELSE "rollback"
\* Fault: ConfirmReservation does not ask whether the slot has begun.
WithoutBookingFault(t) == IF t.op = "confirm" THEN "insertBooking" ELSE "rollback"

WithoutBooking(t) ==
    IF t.op = "confirm" /\ ~IsPast(t.slot, t.at) THEN "insertBooking" ELSE "rollback"

\* Fault: the SELECT has no FOR UPDATE.
LockBookingFault(p) ==
    /\ At(p, "lockBooking")
    /\ LET found == ActiveBookings(tx[p].slot, p) IN
       \/ found = {} /\ Goto(p, WithoutBooking(tx[p]))
       \/ \E b \in found : Goto(p, WithBooking(tx[p], b))
    /\ UNCHANGED <<tables, now, history>>

LockBooking(p) ==
    /\ At(p, "lockBooking")
    /\ LET found == ActiveBookings(tx[p].slot, p) IN
       \/ /\ found = {}
          /\ Goto(p, WithoutBooking(tx[p]))
          /\ UNCHANGED bookings
       \/ \E b \in found :
            /\ LockFree(bookings, b, p)
            /\ bookings' = Locked(bookings, b, p)
            /\ Goto(p, WithBooking(tx[p], b))
       \/ \E b \in found :
            /\ ~LockFree(bookings, b, p)
            /\ tx' = [tx EXCEPT ![p].at_stmt = "waitBooking", ![p].bk = b]
            /\ UNCHANGED bookings
    /\ UNCHANGED <<waitlist_entries, slot_reservations, now, history>>

WaitBooking(p) ==
    /\ At(p, "waitBooking")
    /\ LockFree(bookings, tx[p].bk, p)
    /\ IF bookings[tx[p].bk].status = "active"
       THEN /\ bookings' = Locked(bookings, tx[p].bk, p)
            /\ Goto(p, WithBooking(tx[p], tx[p].bk))
       ELSE /\ Goto(p, WithoutBooking(tx[p]))
            /\ UNCHANGED bookings
    /\ UNCHANGED <<waitlist_entries, slot_reservations, now, history>>

\* nextval of waitlist_entries.position.  A value drawn by an INSERT that is
\* rolled back may be drawn again here, which keeps the order of the rows.
NextPositions ==
    {n \in 1..MaxPosition :
        /\ \A e \in EntryIds : waitlist_entries[e].position < n
        /\ n = 1 \/ \E e \in EntryIds : waitlist_entries[e].position = n - 1}

InsertEntry(p) ==
    LET rows == EntriesOf(tx[p].slot, tx[p].user)
        indexed == {"active", "notified"}
    IN
    /\ At(p, "insertEntry")
    /\ Awaited(waitlist_entries, rows, p, indexed) = {}
    /\ \/ /\ Taken(waitlist_entries, rows, p, indexed)
          /\ Goto(p, "rollback")                            \* WAITLIST_ALREADY_JOINED
          /\ UNCHANGED waitlist_entries
       \/ /\ ~Taken(waitlist_entries, rows, p, indexed)
          /\ HasFresh(waitlist_entries)
          /\ \E n \in NextPositions :
               waitlist_entries' = [waitlist_entries EXCEPT ![FreshId(waitlist_entries)] =
                 [user |-> tx[p].user, slot |-> tx[p].slot, position |-> n,
                  status |-> "absent", pend |-> "active", lock |-> p]]
          /\ Goto(p, "commit")
    /\ UNCHANGED <<bookings, slot_reservations, now, history>>

\* LeaveWaitlist is one UPDATE; an entry of another user or already cancelled
\* is left as it is.
LeaveWaitlist(p, u, e) ==
    /\ waitlist_entries[e].user = u
    /\ waitlist_entries[e].status \in {"active", "notified"}
    /\ LockFree(waitlist_entries, e, p)
    /\ waitlist_entries' = Written(waitlist_entries, e, p, "cancelled")
    /\ Begin(p, [NoTx EXCEPT !.op = "leave", !.at_stmt = "commit"])
    /\ UNCHANGED <<bookings, slot_reservations, now, history>>

-----------------------------------------------------------------------------
(* ConfirmReservation and CancelReservation: both sample the clock before  *)
(* the transaction and then wait for the row lock of the reservation.      *)

StartOnReservation(p, u, r, op) ==
    /\ slot_reservations[r].status # "absent"
    /\ Begin(p, [NoTx EXCEPT !.op = op, !.at_stmt = "lockReservation", !.user = u,
                             !.rv = r, !.slot = slot_reservations[r].slot, !.at = now])
    /\ UNCHANGED <<tables, now, history>>

StartConfirm(p, u, r) == StartOnReservation(p, u, r, "confirm")
StartCancelReservation(p, u, r) == StartOnReservation(p, u, r, "cancelRes")

\* What the use case does with the row it has locked.
WithReservation(t, row) ==
    CASE row.user # t.user -> "rollback"                          \* FORBIDDEN
      [] row.user = t.user /\ t.op = "confirm" ->
           IF row.status = "active" /\ row.expires_at > t.at THEN "lockBooking" ELSE "rollback"
      [] row.user = t.user /\ t.op # "confirm" ->
           IF row.status = "active" THEN "setCancelled" ELSE "commit"

\* Fault: the reservation is confirmed before the booking is looked at.
LockReservationFault(p) ==
    LET row == slot_reservations[tx[p].rv]
        stage == WithReservation(tx[p], row)
    IN
    /\ At(p, "lockReservation")
    /\ LockFree(slot_reservations, tx[p].rv, p)
    /\ slot_reservations' = IF stage = "lockBooking"
                            THEN Written(slot_reservations, tx[p].rv, p, "confirmed")
                            ELSE Locked(slot_reservations, tx[p].rv, p)
    /\ Goto(p, stage)
    /\ UNCHANGED <<bookings, waitlist_entries, now, history>>

LockReservation(p) ==
    /\ At(p, "lockReservation")
    /\ LockFree(slot_reservations, tx[p].rv, p)
    /\ slot_reservations' = Locked(slot_reservations, tx[p].rv, p)
    /\ Goto(p, WithReservation(tx[p], slot_reservations[tx[p].rv]))
    /\ UNCHANGED <<bookings, waitlist_entries, now, history>>

\* UPDATE ... WHERE status = 'active'
SetReservation(p, status) ==
    slot_reservations' = IF View(slot_reservations, tx[p].rv, p) = "active"
                         THEN Written(slot_reservations, tx[p].rv, p, status)
                         ELSE slot_reservations

SetConfirmed(p) ==
    /\ At(p, "setConfirmed")
    /\ SetReservation(p, "confirmed")
    /\ Goto(p, "commit")
    /\ UNCHANGED <<bookings, waitlist_entries, now, history>>

\* Fault: nobody is called from the queue.
SetCancelledFault(p) ==
    /\ At(p, "setCancelled")
    /\ SetReservation(p, "cancelled")
    /\ Goto(p, "commit")
    /\ UNCHANGED <<bookings, waitlist_entries, now, history>>

SetCancelled(p) ==
    /\ At(p, "setCancelled")
    /\ SetReservation(p, "cancelled")
    /\ Goto(p, "claim")
    /\ UNCHANGED <<bookings, waitlist_entries, now, history>>

-----------------------------------------------------------------------------
(* ExpireDue, run by the ticker. *)

StartExpire(p) ==
    /\ Begin(p, [NoTx EXCEPT !.op = "expire", !.at_stmt = "expireBatch", !.at = now])
    /\ UNCHANGED <<tables, now, history>>

\* Fault: ExpireBatch does not ask for status = 'active'.
DueFault(p) == {r \in ReservationIds : /\ slot_reservations[r].status # "absent"
                                       /\ slot_reservations[r].expires_at <= tx[p].at
                                       /\ LockFree(slot_reservations, r, p)}

Due(p) == {r \in ReservationIds : /\ slot_reservations[r].status = "active"
                                  /\ slot_reservations[r].expires_at <= tx[p].at
                                  /\ LockFree(slot_reservations, r, p)}

\* ORDER BY expires_at LIMIT BatchLimit
FirstOf(rows) ==
    {batch \in SUBSET rows :
        /\ Cardinality(batch) = IF Cardinality(rows) <= BatchLimit
                                THEN Cardinality(rows) ELSE BatchLimit
        /\ \A r \in batch, q \in rows \ batch :
             slot_reservations[r].expires_at <= slot_reservations[q].expires_at}

\* Fault: the limit is applied before status = 'active' is asked for.
BatchesFault(p) == {batch \intersect Due(p) : batch \in FirstOf(DueFault(p))}

Batches(p) == FirstOf(Due(p))

ExpireBatch(p) ==
    /\ At(p, "expireBatch")
    /\ \E batch \in Batches(p) :
         /\ slot_reservations' =
              [r \in ReservationIds |->
                 IF r \in batch
                 THEN [slot_reservations[r] EXCEPT !.pend = "expired", !.lock = p]
                 ELSE slot_reservations[r]]
         /\ LET t == [tx[p] EXCEPT !.due = batch]
            IN tx' = [tx EXCEPT ![p] = Continue(t, AfterClaim(t))]
    /\ UNCHANGED <<bookings, waitlist_entries, now, history>>

-----------------------------------------------------------------------------
(* The end of a transaction. *)

Commit(p) ==
    /\ At(p, "commit")
    /\ bookings' = CommittedTable(bookings, p)
    /\ waitlist_entries' = CommittedTable(waitlist_entries, p)
    /\ slot_reservations' = CommittedTable(slot_reservations, p)
    /\ slotReleased' = IF tx[p].op = "cancel" /\ tx[p].wasActive
                       THEN [slotReleased EXCEPT ![tx[p].bk] = slotReleased[tx[p].bk] + 1]
                       ELSE slotReleased
    /\ tx' = [tx EXCEPT ![p] = NoTx]
    /\ UNCHANGED <<now, passedOver>>

\* Fault: reservations are written outside of the transaction.
UndoAllFault(p) ==
    /\ bookings' = RolledBackTable(bookings, p, NoBooking)
    /\ waitlist_entries' = RolledBackTable(waitlist_entries, p, NoEntry)
    /\ slot_reservations' = CommittedTable(slot_reservations, p)
    /\ tx' = [tx EXCEPT ![p] = NoTx]
    /\ UNCHANGED <<now, history>>

UndoAll(p) ==
    /\ bookings' = RolledBackTable(bookings, p, NoBooking)
    /\ waitlist_entries' = RolledBackTable(waitlist_entries, p, NoEntry)
    /\ slot_reservations' = RolledBackTable(slot_reservations, p, NoReservation)
    /\ tx' = [tx EXCEPT ![p] = NoTx]
    /\ UNCHANGED <<now, history>>

\* The use case returned an error.
Rollback(p) == At(p, "rollback") /\ UndoAll(p)

\* The request context is cancelled, the connection or the process is lost, or
\* COMMIT itself fails: PostgreSQL drops the transaction wherever it was.
Abort(p) == ~At(p, "idle") /\ ~At(p, "rollback") /\ UndoAll(p)

Tick ==
    /\ now < MaxClock
    /\ now' = now + 1
    /\ UNCHANGED <<tables, tx, history>>

-----------------------------------------------------------------------------
Init ==
    /\ bookings = [b \in BookingIds |-> NoBooking]
    /\ waitlist_entries = [e \in EntryIds |-> NoEntry]
    /\ slot_reservations = [r \in ReservationIds |-> NoReservation]
    /\ tx = [p \in Procs |-> NoTx]
    /\ now = 0
    /\ slotReleased = [b \in BookingIds |-> 0]
    /\ passedOver = {}

\* A request reaches a free handler.
Request(p) ==
    \E u \in Users :
        \/ \E s \in Slots : StartCreate(p, u, s) \/ StartJoin(p, u, s)
        \/ \E b \in BookingIds : StartCancel(p, u, b)
        \/ \E e \in EntryIds : LeaveWaitlist(p, u, e)
        \/ \E r \in ReservationIds : StartConfirm(p, u, r) \/ StartCancelReservation(p, u, r)

\* The next SQL statement of a use case.
Statement(p) ==
    \/ CheckReservation(p) \/ WaitReservation(p) \/ InsertBooking(p)
    \/ UpdateBooking(p) \/ Claim(p) \/ ClaimForExpired(p) \/ InsertReservation(p)
    \/ LockBooking(p) \/ WaitBooking(p) \/ InsertEntry(p)
    \/ LockReservation(p) \/ SetConfirmed(p) \/ SetCancelled(p) \/ ExpireBatch(p)

Next ==
    \/ \E p \in Handlers : Request(p)
    \/ \E p \in Workers : StartExpire(p)
    \/ \E p \in Procs : Statement(p) \/ Commit(p) \/ Rollback(p) \/ Abort(p)
    \/ Tick

Spec == Init /\ [][Next]_vars

-----------------------------------------------------------------------------
(* Safety. *)

\* Every table row and every goroutine's locals have the types the schema and
\* the Go structs give them.
TypeOK ==
    /\ bookings \in [BookingIds -> BookingRow]
    /\ waitlist_entries \in [EntryIds -> EntryRow]
    /\ slot_reservations \in [ReservationIds -> ReservationRow]
    /\ tx \in [Procs -> Locals]
    /\ now \in Nat
    /\ slotReleased \in [BookingIds -> Nat]
    /\ passedOver \in SUBSET EntryIds

Booked(s) == \E b \in BookingsOf(s) : bookings[b].status = "active"
Reserved(s) == \E r \in ReservationsOf(s) : slot_reservations[r].status = "active"

\* A slot never has two active bookings, whatever CreateBooking, CancelBooking
\* and ConfirmReservation do to it at the same time.
OneActiveBookingPerSlot ==
    \A s \in Slots : \A b, c \in BookingsOf(s) :
        bookings[b].status = "active" /\ bookings[c].status = "active" => b = c

\* A slot never has two active reservations: the claims of CancelBooking,
\* CancelReservation and ExpireDue that run at the same time do not both stand.
OneActiveReservationPerSlot ==
    \A s \in Slots : \A r, q \in ReservationsOf(s) :
        slot_reservations[r].status = "active" /\ slot_reservations[q].status = "active"
        => r = q

\* Every waiter that was notified has got exactly one reservation, for the same
\* user and slot, and nobody got one while still waiting: the claim and the
\* reservation commit together and no two transactions claim the same entry.
EntryClaimedOnce ==
    \A e \in EntryIds :
        LET offers == {r \in ReservationIds : /\ slot_reservations[r].status # "absent"
                                              /\ slot_reservations[r].entry = e}
        IN /\ waitlist_entries[e].status \in {"absent", "active"} => offers = {}
           /\ waitlist_entries[e].status = "notified" => \E r \in offers : offers = {r}
           /\ \A r, q \in offers : r = q
           /\ \A r \in offers : /\ slot_reservations[r].user = waitlist_entries[e].user
                                /\ slot_reservations[r].slot = waitlist_entries[e].slot

\* Somebody who waits has something to wait for, an active booking or an active
\* reservation whose end will call the queue again, unless a claim skipped the
\* entry because another transaction held its row lock (SKIP LOCKED).
NoStrandedWaiter ==
    \A e \in EntryIds : waitlist_entries[e].status = "active" =>
        \/ Booked(waitlist_entries[e].slot)
        \/ Reserved(waitlist_entries[e].slot)
        \/ e \in passedOver

\* The transactions p cannot go on without: holders of the row lock it waits
\* for, or of an index entry its INSERT has to see decided.
Blockers(p) ==
    LET t == tx[p] IN
    CASE t.at_stmt \in {"waitReservation", "lockReservation"} ->
           {slot_reservations[t.rv].lock} \ {None, p}
      [] t.at_stmt = "waitBooking" -> {bookings[t.bk].lock} \ {None, p}
      [] t.at_stmt = "updateBooking" /\ bookings[t.bk].status = "active" ->
           {bookings[t.bk].lock} \ {None, p}
      [] t.at_stmt = "insertBooking" ->
           {bookings[b].lock : b \in Awaited(bookings, BookingsOf(t.slot), p, {"active"})}
      [] t.at_stmt = "insertReservation" ->
           {slot_reservations[r].lock :
              r \in Awaited(slot_reservations, ReservationsOf(t.slot), p, {"active"})}
      [] t.at_stmt = "insertEntry" ->
           {waitlist_entries[e].lock :
              e \in Awaited(waitlist_entries, EntriesOf(t.slot, t.user), p,
                            {"active", "notified"})}
      [] OTHER -> {}

\* The use cases take their locks in orders that never close a cycle: no set of
\* transactions is such that each of them waits for another one of the set.
NoDeadlock ==
    \A set \in (SUBSET Procs) \ {{}} : \E p \in set : Blockers(p) \intersect set = {}

\* Why the partial unique indexes keep their promise in spite of concurrent
\* transactions: of two rows with the same key, never both are in the index,
\* never both are about to be, and when one is leaving the index while the other
\* one enters it, the same transaction holds both.
IndexProtected(ids, table, key, indexed) ==
    /\ \A r \in ids : table[r].lock = None => table[r].pend = table[r].status
    /\ \A r, q \in ids : r # q /\ key[r] = key[q] =>
         /\ ~(table[r].status \in indexed /\ table[q].status \in indexed)
         /\ ~(table[r].pend \in indexed /\ table[q].pend \in indexed)
         /\ table[r].status \in indexed /\ table[q].pend \in indexed =>
              table[r].lock = table[q].lock /\ table[r].lock # None

BookingKey == [b \in BookingIds |-> bookings[b].slot]
ReservationKey == [r \in ReservationIds |-> slot_reservations[r].slot]
EntryKey == [e \in EntryIds |-> <<waitlist_entries[e].slot, waitlist_entries[e].user>>]

BookingIndex == IndexProtected(BookingIds, bookings, BookingKey, {"active"})
ReservationIndex == IndexProtected(ReservationIds, slot_reservations, ReservationKey, {"active"})
EntryIndex == IndexProtected(EntryIds, waitlist_entries, EntryKey, {"active", "notified"})

\* The three partial unique indexes of the schema, at every statement of every
\* interleaving and not only between transactions.
IndexesProtected == BookingIndex /\ ReservationIndex /\ EntryIndex

(* What a step may not do. *)

\* Terminal statuses are final.  In particular a confirmation, a cancellation
\* and an expiration of the same reservation exclude each other.
TerminalStatusesFinal ==
    [][/\ \A b \in BookingIds :
            bookings[b].status = "cancelled" => bookings'[b].status = "cancelled"
       /\ \A r \in ReservationIds :
            slot_reservations[r].status \in {"confirmed", "expired", "cancelled"} =>
                slot_reservations'[r].status = slot_reservations[r].status
       /\ \A e \in EntryIds :
            /\ waitlist_entries[e].status = "cancelled" =>
                   waitlist_entries'[e].status = "cancelled"
            /\ waitlist_entries[e].status = "notified" =>
                   waitlist_entries'[e].status \in {"notified", "cancelled"}]_vars

\* A reservation is confirmed in the very step in which its user's booking of
\* the slot becomes visible, and only if the slot was not booked before.
ConfirmIsAtomic ==
    [][\A r \in ReservationIds :
         slot_reservations[r].status # "confirmed" /\ slot_reservations'[r].status = "confirmed"
         => /\ ~Booked(slot_reservations[r].slot)
            /\ \E b \in BookingIds :
                 /\ bookings[b].status = "absent"
                 /\ bookings'[b].status = "active"
                 /\ bookings'[b].user = slot_reservations[r].user
                 /\ bookings'[b].slot = slot_reservations[r].slot]_vars

(* What holds when the use cases run one after the other (Handlers = Workers
   = one goroutine) and the README says without that condition. *)

\* A reserved slot is not free for everybody: nobody has it booked while a
\* reservation of it is active.
ReservedExcludesBooked == \A s \in Slots : ~(Booked(s) /\ Reserved(s))

\* Cancelling a booking releases its slot once (slot_released, or the claim of
\* the next waiter): the second CancelBooking only reads the booking back.
ReleasedOnce == \A b \in BookingIds : slotReleased[b] <= 1

\* No waiter is forgotten: the queue moves on when a booking is cancelled or a
\* reservation is cancelled or expires, so whoever still waits (and is not just
\* leaving) has a booking or a reservation of the slot to wait for.
EveryWaiterHasTurn ==
    \A e \in EntryIds : waitlist_entries[e].status = "active" /\ waitlist_entries[e].lock = None =>
        Booked(waitlist_entries[e].slot) \/ Reserved(waitlist_entries[e].slot)

\* Whoever is notified had the lowest position among those waiting.
FirstComeFirstNotified ==
    [][\A e, f \in EntryIds :
         /\ waitlist_entries[e].status = "active" /\ waitlist_entries'[e].status = "notified"
         /\ waitlist_entries[f].status = "active"
         /\ waitlist_entries[f].slot = waitlist_entries[e].slot
         => waitlist_entries[e].position <= waitlist_entries[f].position]_vars

-----------------------------------------------------------------------------
(* Refinement.  A row that is not committed is not there for SlotLedger,   *)
(* whatever its transaction has written into it.                           *)

Shown(row, column) == IF row.status = "absent" THEN None ELSE column

CommittedBookings ==
    [b \in BookingIds |->
        [user |-> Shown(bookings[b], bookings[b].user),
         slot |-> Shown(bookings[b], bookings[b].slot),
         status |-> bookings[b].status]]
CommittedEntries ==
    [e \in EntryIds |->
        [user |-> Shown(waitlist_entries[e], waitlist_entries[e].user),
         slot |-> Shown(waitlist_entries[e], waitlist_entries[e].slot),
         status |-> waitlist_entries[e].status]]
CommittedReservations ==
    [r \in ReservationIds |->
        [user |-> Shown(slot_reservations[r], slot_reservations[r].user),
         slot |-> Shown(slot_reservations[r], slot_reservations[r].slot),
         entry |-> Shown(slot_reservations[r], slot_reservations[r].entry),
         status |-> slot_reservations[r].status]]

Ledger == INSTANCE SlotLedger WITH
    bookings <- CommittedBookings,
    entries <- CommittedEntries,
    reservations <- CommittedReservations

\* Whatever the statements of concurrent transactions do, the committed rows
\* change as if every use case were a single step: SlotBooking implements
\* SlotLedger.
ImplementsLedger == Ledger!Spec

\* The same of a system that is not started empty: whatever is committed, by a use
\* case or by the worker, is one step of SlotLedger.
CommitsAreLedgerSteps == [][Ledger!Next]_(Ledger!vars)

-----------------------------------------------------------------------------
(* Liveness. *)

\* main.go starts the ticker once and it never stops.  A connection may break in
\* any statement, but no statement of the worker fails each time it is tried:
\* that is the strong fairness.  Handlers promise nothing.
WorkerFairness ==
    \A p \in Workers : /\ WF_vars(StartExpire(p))
                       /\ SF_vars(ExpireBatch(p))
                       /\ SF_vars(ClaimForExpired(p))
                       /\ SF_vars(InsertReservation(p))
                       /\ SF_vars(Commit(p))
                       /\ WF_vars(Rollback(p))

FairSpec == Spec /\ WorkerFairness

Overdue(r) == slot_reservations[r].status = "active" /\ slot_reservations[r].expires_at <= now

HandlersIdle == \A p \in Handlers : At(p, "idle")

\* Once the handlers are quiet, the background worker gets rid of all overdue
\* reservations, although each of its runs takes at most BatchLimit of them, may be
\* lost at any statement, and may offer a slot to the next waiter, whose reservation
\* will be overdue in turn.
OverdueExpires ==
    <>[]HandlersIdle => []<>(\A r \in ReservationIds : ~Overdue(r))
=============================================================================
