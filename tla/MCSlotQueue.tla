----------------------------- MODULE MCSlotQueue -----------------------------
(***************************************************************************)
(* SlotBooking from the moment two slots of different times are reserved.  *)
(* u3 had booked s1, u1 and u2 queued for it, and u3 has cancelled; u1 had *)
(* booked s2, u3 queued for it, and u1 has cancelled after s2 had begun.   *)
(* Both reservations are due at the same time.  From here on a booking can *)
(* still be created or a reservation confirmed, the clock can pass the end *)
(* of the reservations and of the one that u2 may get.                     *)
(***************************************************************************)
EXTENDS MCSlotBooking

CONSTANTS u1, u2, u3

StartBeforeAndNow == s1 :> 1 @@ s2 :> 0

\* A committed row that nobody has locked, and rows not used yet.
Row(columns, s) == columns @@ [status |-> s, pend |-> s, lock |-> None]
Table(rows, ids, blank) == rows @@ [id \in ids |-> blank]

TwoReserved ==
    LET clock == 1
        Booking(u, s) == Row([user |-> u, slot |-> s], "cancelled")
        Entry(u, s, n, status) == Row([user |-> u, slot |-> s, position |-> n], status)
        Reservation(u, s, e) ==
            Row([user |-> u, slot |-> s, entry |-> e, expires_at |-> clock + TTL], "active")
    IN
    /\ bookings = Table(1 :> Booking(u3, s1) @@ 2 :> Booking(u1, s2), BookingIds, NoBooking)
    /\ waitlist_entries =
         Table(1 :> Entry(u1, s1, 1, "notified") @@ 2 :> Entry(u2, s1, 2, "active")
               @@ 3 :> Entry(u3, s2, 3, "notified"), EntryIds, NoEntry)
    /\ slot_reservations =
         Table(1 :> Reservation(u1, s1, 1) @@ 2 :> Reservation(u3, s2, 3),
               ReservationIds, NoReservation)
    /\ tx = [p \in Procs |-> NoTx]
    /\ now = clock
    /\ slotReleased = Table(1 :> 1 @@ 2 :> 1, BookingIds, 0)
    /\ passedOver = {}

\* The state above is one that SlotBooking reaches, and so is all that follows.
FairSpecFromTwoReserved == TwoReserved /\ [][Next]_vars /\ WorkerFairness
=============================================================================
