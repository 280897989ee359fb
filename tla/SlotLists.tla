------------------------------ MODULE SlotLists ------------------------------
(***************************************************************************)
(* What users are shown of the tables of SlotBooking: the slots of a room  *)
(* with their status, the free ones, and a user's reservations.  Each is   *)
(* one SELECT, that is, a function of the committed rows and of the clock  *)
(* the request has read.                                                   *)
(***************************************************************************)
EXTENDS SlotBooking

\* The first WHEN that applies.
ListAllByRoomAndDate(s, at) ==
    CASE SlotStart[s] < at -> "past"
      [] Booked(s) /\ ~(SlotStart[s] < at) -> "booked"
      [] Reserved(s) /\ ~Booked(s) /\ ~(SlotStart[s] < at) -> "reserved"
      [] OTHER -> "available"

\* The clock plays no part: slots that have begun are listed as well.
ListAvailableByRoomAndDate == {s \in Slots : ~Booked(s) /\ ~Reserved(s)}

ListActiveByUser(u, at) ==
    {r \in ReservationIds : /\ slot_reservations[r].user = u
                            /\ slot_reservations[r].status = "active"
                            /\ slot_reservations[r].expires_at > at}

-----------------------------------------------------------------------------
(* What a list promises to a user who acts on it, when nobody else does    *)
(* (one goroutine).  A use case is refused or goes to its COMMIT in a step *)
(* before which the lists still show what they showed when it began.       *)

\* CreateBooking succeeds for exactly the slots that the list of a day shows as
\* free at the moment of the request, up to the very moment a slot starts, and
\* whoever is refused is refused a slot that is not on the list of free slots
\* either, unless it has begun: that list does not look at the clock.
AvailableCanBeBooked ==
    [][\A p \in Procs : tx[p].op = "create" /\ ~At(p, "commit") =>
         LET shown == ListAllByRoomAndDate(tx[p].slot, tx[p].at)
             listed == tx[p].slot \in ListAvailableByRoomAndDate
         IN /\ tx'[p].at_stmt = "commit" => shown = "available" /\ listed
            /\ tx'[p].at_stmt = "rollback" =>
                 /\ shown # "available"
                 /\ listed => shown = "past"]_vars

\* ConfirmReservation succeeds for the reservations a user is shown as active,
\* and for no others; except that a reservation of a slot that has begun, which
\* the queue still hands out, is shown and cannot be confirmed.
ListedCanBeConfirmed ==
    [][\A p \in Procs : tx[p].op = "confirm" /\ ~At(p, "commit") =>
         LET shown == tx[p].rv \in ListActiveByUser(tx[p].user, tx[p].at)
             begun == IsPast(tx[p].slot, tx[p].at)
         IN /\ tx'[p].at_stmt = "commit" => shown /\ ~begun
            /\ tx'[p].at_stmt = "rollback" => ~shown \/ begun]_vars
=============================================================================
