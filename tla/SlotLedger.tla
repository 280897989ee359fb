------------------------------ MODULE SlotLedger ------------------------------
(***************************************************************************)
(* What the use cases promise about bookings, the waitlist and the         *)
(* reservations when only committed rows are looked at: every use case is  *)
(* one step, or it does not happen.  Statements, locks, the clock and lost *)
(* transactions are SlotBooking's, which implements this specification     *)
(* (SlotBooking!ImplementsLedger).                                         *)
(*                                                                         *)
(* Two things that a reader may expect are not promised, because the code  *)
(* does not keep them under concurrency: that a queue is called whenever a *)
(* slot is given back, and that a reserved slot is not booked.             *)
(***************************************************************************)
EXTENDS FiniteSets

CONSTANTS Users, Slots, BookingIds, EntryIds, ReservationIds, None

VARIABLES bookings, entries, reservations

vars == <<bookings, entries, reservations>>

NoBooking == [user |-> None, slot |-> None, status |-> "absent"]
NoEntry == [user |-> None, slot |-> None, status |-> "absent"]
NoReservation == [user |-> None, slot |-> None, entry |-> None, status |-> "absent"]

Booked(s) == \E b \in BookingIds : bookings[b].slot = s /\ bookings[b].status = "active"
Reserved(s, except) ==
    \E r \in ReservationIds \ except :
        reservations[r].slot = s /\ reservations[r].status = "active"
InQueue(s, u) ==
    \E e \in EntryIds : /\ entries[e].slot = s /\ entries[e].user = u
                        /\ entries[e].status \in {"active", "notified"}

-----------------------------------------------------------------------------
(* A waiter is notified and its reservation made in one step.  The claims  *)
(* of a step are for different slots, each of which had no reservation     *)
(* but those the same step ends.                                           *)

Notified(claims) ==
    [e \in EntryIds |-> IF e \in claims THEN [entries[e] EXCEPT !.status = "notified"]
                        ELSE entries[e]]

\* offer maps each claim to the identifier of its new reservation.
Offered(table, claims, offer) ==
    [r \in ReservationIds |->
        IF \E e \in claims : offer[e] = r
        THEN LET e == CHOOSE e \in claims : offer[e] = r
             IN [user |-> entries[e].user, slot |-> entries[e].slot, entry |-> e,
                 status |-> "active"]
        ELSE table[r]]

\* The reservations in ended become status; the queue of each slot in slots is
\* called, which may find nobody.
EndAndOffer(ended, status, slots) ==
    \E claims \in SUBSET {e \in EntryIds : entries[e].slot \in slots
                                           /\ entries[e].status = "active"} :
        /\ \A e, f \in claims : entries[e].slot = entries[f].slot => e = f
        /\ \A e \in claims : ~Reserved(entries[e].slot, ended)
        /\ entries' = Notified(claims)
        /\ \E offer \in [claims -> {r \in ReservationIds : reservations[r].status = "absent"}] :
             /\ \A e, f \in claims : offer[e] = offer[f] => e = f
             /\ reservations' =
                  Offered([r \in ReservationIds |->
                             IF r \in ended THEN [reservations[r] EXCEPT !.status = status]
                             ELSE reservations[r]], claims, offer)

-----------------------------------------------------------------------------
(* The use cases. *)

InsertBooking(u, s) ==
    /\ ~Booked(s)
    /\ \E b \in BookingIds :
         /\ bookings[b].status = "absent"
         /\ bookings' = [bookings EXCEPT ![b] = [user |-> u, slot |-> s, status |-> "active"]]

CreateBooking(u, s) == InsertBooking(u, s) /\ UNCHANGED <<entries, reservations>>

\* A booking that was cancelled by somebody else in the meantime stays cancelled,
\* and its slot's queue may be called once more.
CancelBooking(b) ==
    /\ bookings[b].status # "absent"
    /\ bookings' = [bookings EXCEPT ![b].status = "cancelled"]
    /\ EndAndOffer({}, "cancelled", {bookings[b].slot})

JoinWaitlist(u, s) ==
    /\ ~InQueue(s, u)
    /\ \E b \in BookingIds : /\ bookings[b].slot = s /\ bookings[b].status = "active"
                             /\ bookings[b].user # u
    /\ \E e \in EntryIds :
         /\ entries[e].status = "absent"
         /\ entries' = [entries EXCEPT ![e] = [user |-> u, slot |-> s, status |-> "active"]]
    /\ UNCHANGED <<bookings, reservations>>

LeaveWaitlist(e) ==
    /\ entries[e].status \in {"active", "notified"}
    /\ entries' = [entries EXCEPT ![e].status = "cancelled"]
    /\ UNCHANGED <<bookings, reservations>>

ConfirmReservation(r) ==
    /\ reservations[r].status = "active"
    /\ reservations' = [reservations EXCEPT ![r].status = "confirmed"]
    /\ InsertBooking(reservations[r].user, reservations[r].slot)
    /\ UNCHANGED entries

CancelReservation(r) ==
    /\ reservations[r].status = "active"
    /\ EndAndOffer({r}, "cancelled", {reservations[r].slot})
    /\ UNCHANGED bookings

ExpireDue(batch) ==
    /\ \A r \in batch : reservations[r].status = "active"
    /\ EndAndOffer(batch, "expired", {reservations[r].slot : r \in batch})
    /\ UNCHANGED bookings

-----------------------------------------------------------------------------
Init ==
    /\ bookings = [b \in BookingIds |-> NoBooking]
    /\ entries = [e \in EntryIds |-> NoEntry]
    /\ reservations = [r \in ReservationIds |-> NoReservation]

Next ==
    \/ \E batch \in SUBSET ReservationIds : ExpireDue(batch)
    \/ \E u \in Users, s \in Slots : CreateBooking(u, s) \/ JoinWaitlist(u, s)
    \/ \E b \in BookingIds : CancelBooking(b)
    \/ \E e \in EntryIds : LeaveWaitlist(e)
    \/ \E r \in ReservationIds : ConfirmReservation(r) \/ CancelReservation(r)

Spec == Init /\ [][Next]_vars
=============================================================================
