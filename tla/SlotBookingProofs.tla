-------------------------- MODULE SlotBookingProofs --------------------------
(***************************************************************************)
(* Proofs about SlotBooking for any number of users, slots, handlers,      *)
(* workers and rows.                                                       *)
(*                                                                         *)
(* Type correctness.  TypeOK is not inductive on its own: a statement that *)
(* uses the entry or the reservation in its locals must find one there,    *)
(* which RefsOK adds.                                                      *)
(*                                                                         *)
(* The partial unique indexes keep their promise: IndexesProtected is an   *)
(* invariant, and with it a slot has at most one active booking and at     *)
(* most one active reservation, and a user at most one live waitlist entry *)
(* of a slot.                                                              *)
(***************************************************************************)
EXTENDS SlotBooking, TLAPS

-----------------------------------------------------------------------------
(* Types. *)

\* The locals a use case goes on with have the type of locals.
LEMMA ContinueTyped ==
    ASSUME NEW t \in Locals, NEW stage \in Stages
    PROVE  Continue(t, stage) \in Locals
  <1>1. CASE stage = "rollback"
    BY <1>1 DEF Continue, Locals, NoTx, Ops, Stages
  <1>2. CASE stage = "commit"
    BY <1>2 DEF Continue, Locals, NoTx, Ops, Stages
  <1>3. CASE stage \notin {"rollback", "commit"}
    BY <1>3 DEF Continue, Locals
  <1>. QED  BY <1>1, <1>2, <1>3

\* An idle goroutine has the type of locals.
LEMMA NoTxTyped == NoTx \in Locals
  BY DEF NoTx, Locals, Ops, Stages

\* The locals point at a row when a statement uses them, and ConfirmReservation
\* goes through its own statements only.
RefsOK ==
    \A p \in Procs :
        /\ tx[p].at_stmt = "insertReservation" => tx[p].en \in EntryIds
        /\ tx[p].at_stmt \in {"lockReservation", "setConfirmed", "setCancelled"} =>
             tx[p].rv \in ReservationIds
        /\ tx[p].op = "confirm" =>
             \/ tx[p].at_stmt = "commit"
             \/ /\ tx[p].at_stmt \in {"lockReservation", "lockBooking", "waitBooking",
                                      "insertBooking", "setConfirmed"}
                /\ tx[p].rv \in ReservationIds

TypeInv == TypeOK /\ RefsOK

\* Going on to the next statement keeps the type of tx.
LEMMA GotoTyped ==
    ASSUME tx \in [Procs -> Locals], NEW p \in Procs, NEW stage \in Stages, Goto(p, stage)
    PROVE  tx' \in [Procs -> Locals]
  BY ContinueTyped DEF Goto

\* FreshId is the identifier of a row that does not exist yet (uuid.New).
LEMMA FreshIdIsFresh ==
    ASSUME NEW table, HasFresh(table)
    PROVE  FreshId(table) \in DOMAIN table /\ IsFresh(table, FreshId(table))
  BY DEF HasFresh, FreshId

\* What a transaction does to a table keeps the type of its rows.
LEMMA BookingsTyped ==
    ASSUME bookings \in [BookingIds -> BookingRow], NEW p \in Procs
    PROVE  /\ NoBooking \in BookingRow
           /\ \A b : Locked(bookings, b, p) \in [BookingIds -> BookingRow]
           /\ \A b : \A st \in BookingStatus :
                Written(bookings, b, p, st) \in [BookingIds -> BookingRow]
           /\ CommittedTable(bookings, p) \in [BookingIds -> BookingRow]
           /\ RolledBackTable(bookings, p, NoBooking) \in [BookingIds -> BookingRow]
  <1>1. NoBooking \in BookingRow
    BY ConstantsAssumption DEF NoBooking, BookingRow, BookingStatus
  <1>2. \A b : Locked(bookings, b, p) \in [BookingIds -> BookingRow]
    BY DEF Locked, BookingRow
  <1>3. \A b : \A st \in BookingStatus : Written(bookings, b, p, st) \in [BookingIds -> BookingRow]
    BY DEF Written, BookingRow
  <1>4. CommittedTable(bookings, p) \in [BookingIds -> BookingRow]
    BY DEF CommittedTable, BookingRow
  <1>5. RolledBackTable(bookings, p, NoBooking) \in [BookingIds -> BookingRow]
    BY <1>1 DEF RolledBackTable, BookingRow
  <1>. QED  BY <1>1, <1>2, <1>3, <1>4, <1>5

\* The same for waitlist_entries.
LEMMA EntriesTyped ==
    ASSUME waitlist_entries \in [EntryIds -> EntryRow], NEW p \in Procs
    PROVE  /\ NoEntry \in EntryRow
           /\ \A e : \A st \in EntryStatus :
                Written(waitlist_entries, e, p, st) \in [EntryIds -> EntryRow]
           /\ CommittedTable(waitlist_entries, p) \in [EntryIds -> EntryRow]
           /\ RolledBackTable(waitlist_entries, p, NoEntry) \in [EntryIds -> EntryRow]
  <1>1. NoEntry \in EntryRow
    BY ConstantsAssumption DEF NoEntry, EntryRow, EntryStatus
  <1>2. \A e : \A st \in EntryStatus : Written(waitlist_entries, e, p, st) \in [EntryIds -> EntryRow]
    BY DEF Written, EntryRow
  <1>3. CommittedTable(waitlist_entries, p) \in [EntryIds -> EntryRow]
    BY DEF CommittedTable, EntryRow
  <1>4. RolledBackTable(waitlist_entries, p, NoEntry) \in [EntryIds -> EntryRow]
    BY <1>1 DEF RolledBackTable, EntryRow
  <1>. QED  BY <1>1, <1>2, <1>3, <1>4

\* The same for slot_reservations.
LEMMA ReservationsTyped ==
    ASSUME slot_reservations \in [ReservationIds -> ReservationRow], NEW p \in Procs
    PROVE  /\ NoReservation \in ReservationRow
           /\ \A r : Locked(slot_reservations, r, p) \in [ReservationIds -> ReservationRow]
           /\ \A r : \A st \in ReservationStatus :
                Written(slot_reservations, r, p, st) \in [ReservationIds -> ReservationRow]
           /\ CommittedTable(slot_reservations, p) \in [ReservationIds -> ReservationRow]
           /\ RolledBackTable(slot_reservations, p, NoReservation)
                \in [ReservationIds -> ReservationRow]
  <1>1. NoReservation \in ReservationRow
    BY ConstantsAssumption DEF NoReservation, ReservationRow, ReservationStatus
  <1>2. \A r : Locked(slot_reservations, r, p) \in [ReservationIds -> ReservationRow]
    BY DEF Locked, ReservationRow
  <1>3. \A r : \A st \in ReservationStatus :
          Written(slot_reservations, r, p, st) \in [ReservationIds -> ReservationRow]
    <2>. SUFFICES ASSUME NEW r, NEW st \in ReservationStatus
                  PROVE  Written(slot_reservations, r, p, st) \in [ReservationIds -> ReservationRow]
      OBVIOUS
    <2>1. CASE r \in ReservationIds
      <3>1. [slot_reservations[r] EXCEPT !.pend = st, !.lock = p] \in ReservationRow
        BY <2>1 DEF ReservationRow
      <3>. QED  BY <2>1, <3>1 DEF Written
    <2>2. CASE r \notin ReservationIds
      BY <2>2 DEF Written
    <2>. QED  BY <2>1, <2>2
  <1>4. CommittedTable(slot_reservations, p) \in [ReservationIds -> ReservationRow]
    BY DEF CommittedTable, ReservationRow
  <1>5. RolledBackTable(slot_reservations, p, NoReservation) \in [ReservationIds -> ReservationRow]
    BY <1>1 DEF RolledBackTable, ReservationRow
  <1>. QED  BY <1>1, <1>2, <1>3, <1>4, <1>5

\* The empty tables and idle goroutines of the start satisfy TypeInv.
LEMMA InitTypeInv == Init => TypeInv
  <1>. SUFFICES ASSUME Init PROVE TypeInv
    OBVIOUS
  <1>1. bookings \in [BookingIds -> BookingRow]
    BY ConstantsAssumption DEF Init, NoBooking, BookingRow, BookingStatus
  <1>2. waitlist_entries \in [EntryIds -> EntryRow]
    BY ConstantsAssumption DEF Init, NoEntry, EntryRow, EntryStatus
  <1>3. slot_reservations \in [ReservationIds -> ReservationRow]
    BY ConstantsAssumption DEF Init, NoReservation, ReservationRow, ReservationStatus
  <1>4. tx \in [Procs -> Locals]
    BY NoTxTyped DEF Init
  <1>5. now \in Nat /\ slotReleased \in [BookingIds -> Nat] /\ passedOver \in SUBSET EntryIds
    BY DEF Init
  <1>6. RefsOK
    BY DEF Init, RefsOK, NoTx
  <1>. QED  BY <1>1, <1>2, <1>3, <1>4, <1>5, <1>6 DEF TypeInv, TypeOK

\* A use case that begins with well-typed locals keeps TypeInv.
LEMMA BeginTyped ==
    ASSUME TypeInv, NEW p \in Procs, NEW t \in Locals, Begin(p, t),
           t.at_stmt = "lockReservation" => t.rv \in ReservationIds,
           t.at_stmt \notin {"insertReservation", "setConfirmed", "setCancelled"},
           t.op = "confirm" => t.at_stmt = "lockReservation"
    PROVE  tx' \in [Procs -> Locals] /\ RefsOK'
  <1>1. tx' = [tx EXCEPT ![p] = t] /\ tx \in [Procs -> Locals]
    BY DEF Begin, TypeInv, TypeOK
  <1>2. \A q \in Procs : q # p => tx'[q] = tx[q]
    BY <1>1
  <1>3. tx'[p] = t
    BY <1>1
  <1>. QED  BY <1>1, <1>2, <1>3 DEF TypeInv, RefsOK

\* Going on to a statement whose locals point at rows keeps RefsOK.
LEMMA GotoKeepsRefs ==
    ASSUME TypeInv, NEW p \in Procs, NEW stage \in Stages, Goto(p, stage),
           stage # "insertReservation",
           stage \in {"lockReservation", "setConfirmed", "setCancelled"} =>
             tx[p].rv \in ReservationIds,
           tx[p].op = "confirm" =>
             /\ stage \in {"lockBooking", "waitBooking", "insertBooking", "setConfirmed",
                           "commit", "rollback"}
             /\ tx[p].rv \in ReservationIds
    PROVE  tx' \in [Procs -> Locals] /\ RefsOK'
  <1>1. tx \in [Procs -> Locals] /\ tx' = [tx EXCEPT ![p] = Continue(tx[p], stage)]
    BY DEF Goto, TypeInv, TypeOK
  <1>2. tx' \in [Procs -> Locals]
    BY <1>1, GotoTyped
  <1>3. \A q \in Procs : q # p => tx'[q] = tx[q]
    BY <1>1
  <1>4. CASE stage \in {"rollback", "commit"}
    <2>1. tx'[p].at_stmt = stage /\ (stage = "rollback" => tx'[p].op = "none")
      BY <1>1, <1>4 DEF Continue, NoTx
    <2>. QED  BY <1>2, <1>3, <1>4, <2>1 DEF TypeInv, RefsOK
  <1>5. CASE stage \notin {"rollback", "commit"}
    <2>1. tx'[p] = [tx[p] EXCEPT !.at_stmt = stage]
      BY <1>1, <1>5 DEF Continue
    <2>2. /\ tx'[p].at_stmt = stage /\ tx'[p].op = tx[p].op /\ tx'[p].rv = tx[p].rv
          /\ tx'[p].en = tx[p].en
      BY <1>1, <2>1 DEF Locals
    <2>. QED  BY <1>2, <1>3, <1>5, <2>2 DEF TypeInv, RefsOK
  <1>. QED  BY <1>4, <1>5

\* COMMIT, ROLLBACK and a lost transaction keep TypeInv.
LEMMA EndTyped ==
    ASSUME TypeInv, NEW p \in Procs, tx' = [tx EXCEPT ![p] = NoTx]
    PROVE  tx' \in [Procs -> Locals] /\ RefsOK'
  <1>1. tx \in [Procs -> Locals]
    BY DEF TypeInv, TypeOK
  <1>2. tx'[p] = NoTx /\ \A q \in Procs : q # p => tx'[q] = tx[q]
    BY <1>1
  <1>3. tx' \in [Procs -> Locals]
    BY <1>1, NoTxTyped
  <1>. QED  BY <1>2, <1>3 DEF TypeInv, RefsOK, NoTx

\* Every step keeps the types.  An action disturbs tx and at most one table,
\* the ends of transactions all three.
LEMMA RequestTyped ==
    ASSUME TypeInv, NEW p \in Procs, Request(p)
    PROVE  TypeInv'
  <1>. USE DEF TypeInv
  <1>0. /\ bookings \in [BookingIds -> BookingRow]
        /\ slot_reservations \in [ReservationIds -> ReservationRow]
        /\ waitlist_entries \in [EntryIds -> EntryRow]
        /\ now \in Nat
    BY DEF TypeOK
  <1>1. ASSUME NEW u \in Users, NEW s \in Slots, StartCreate(p, u, s)  PROVE TypeInv'
    <2>. DEFINE t == [NoTx EXCEPT !.op = "create", !.at_stmt = "checkReservation",
                                  !.user = u, !.slot = s, !.at = now]
    <2>1. t \in Locals /\ t.at_stmt = "checkReservation" /\ t.op = "create"
      BY <1>0 DEF NoTx, Locals, Ops, Stages
    <2>2. Begin(p, t)
      BY <1>1 DEF StartCreate
    <2>3. tx' \in [Procs -> Locals] /\ RefsOK'
      BY <2>1, <2>2, BeginTyped
    <2>. QED  BY <1>1, <2>3 DEF StartCreate, TypeOK, tables, history
  <1>2. ASSUME NEW u \in Users, NEW s \in Slots, StartJoin(p, u, s)  PROVE TypeInv'
    <2>. DEFINE t == [NoTx EXCEPT !.op = "join", !.at_stmt = "lockBooking", !.user = u, !.slot = s]
    <2>1. t \in Locals /\ t.at_stmt = "lockBooking" /\ t.op = "join"
      BY DEF NoTx, Locals, Ops, Stages
    <2>2. Begin(p, t)
      BY <1>2 DEF StartJoin
    <2>3. tx' \in [Procs -> Locals] /\ RefsOK'
      BY <2>1, <2>2, BeginTyped
    <2>. QED  BY <1>2, <2>3 DEF StartJoin, TypeOK, tables, history
  <1>3. ASSUME NEW u \in Users, NEW b \in BookingIds, StartCancel(p, u, b)  PROVE TypeInv'
    <2>. DEFINE t == [NoTx EXCEPT !.op = "cancel", !.at_stmt = "updateBooking",
                                  !.slot = bookings[b].slot, !.bk = b,
                                  !.wasActive = bookings[b].status = "active"]
    <2>0. bookings[b].slot \in Slots \union {None}
      BY <1>0 DEF BookingRow
    <2>1. t \in Locals /\ t.at_stmt = "updateBooking" /\ t.op = "cancel"
      BY <2>0 DEF NoTx, Locals, Ops, Stages
    <2>2. Begin(p, t)
      BY <1>3 DEF StartCancel
    <2>3. tx' \in [Procs -> Locals] /\ RefsOK'
      BY <2>1, <2>2, BeginTyped
    <2>. QED  BY <1>3, <2>3 DEF StartCancel, TypeOK, tables, history
  <1>4. ASSUME NEW u \in Users, NEW e \in EntryIds, LeaveWaitlist(p, u, e)  PROVE TypeInv'
    <2>. DEFINE t == [NoTx EXCEPT !.op = "leave", !.at_stmt = "commit"]
    <2>1. t \in Locals /\ t.at_stmt = "commit" /\ t.op = "leave"
      BY DEF NoTx, Locals, Ops, Stages
    <2>2. Begin(p, t)
      BY <1>4 DEF LeaveWaitlist
    <2>3. tx' \in [Procs -> Locals] /\ RefsOK'
      BY <2>1, <2>2, BeginTyped
    <2>4. waitlist_entries' \in [EntryIds -> EntryRow]
      BY <1>0, <1>4, EntriesTyped DEF LeaveWaitlist, EntryStatus
    <2>. QED  BY <1>4, <2>3, <2>4 DEF LeaveWaitlist, TypeOK, history
  <1>5. ASSUME NEW u \in Users, NEW r \in ReservationIds, NEW op \in {"confirm", "cancelRes"},
               StartOnReservation(p, u, r, op)
        PROVE  TypeInv'
    <2>. DEFINE t == [NoTx EXCEPT !.op = op, !.at_stmt = "lockReservation", !.user = u, !.rv = r,
                                  !.slot = slot_reservations[r].slot, !.at = now]
    <2>0. slot_reservations[r].slot \in Slots \union {None}
      BY <1>0 DEF ReservationRow
    <2>1. t \in Locals /\ t.at_stmt = "lockReservation" /\ t.rv = r
      BY <1>0, <2>0 DEF NoTx, Locals, Ops, Stages
    <2>2. Begin(p, t)
      BY <1>5 DEF StartOnReservation
    <2>3. tx' \in [Procs -> Locals] /\ RefsOK'
      BY <2>1, <2>2, BeginTyped
    <2>. QED  BY <1>5, <2>3 DEF StartOnReservation, TypeOK, tables, history
  <1>. QED
    BY <1>1, <1>2, <1>3, <1>4, <1>5 DEF Request, StartConfirm, StartCancelReservation

\* The locals t are put in place of p's, at a statement that is not one of
\* ConfirmReservation's.
LEMMA ContinueKeepsRefs ==
    ASSUME TypeInv, NEW p \in Procs, NEW t \in Locals, t.op # "confirm",
           NEW stage \in {"claim", "commit"}, tx' = [tx EXCEPT ![p] = Continue(t, stage)]
    PROVE  tx' \in [Procs -> Locals] /\ RefsOK'
  <1>1. tx \in [Procs -> Locals] /\ RefsOK
    BY DEF TypeInv, TypeOK
  <1>2. Continue(t, stage) \in Locals
    BY ContinueTyped DEF Stages
  <1>3. Continue(t, stage).at_stmt = stage /\ Continue(t, stage).op = t.op
    BY DEF Continue, NoTx, Locals
  <1>4. tx'[p] = Continue(t, stage) /\ \A q \in Procs : q # p => tx'[q] = tx[q]
    BY <1>1
  <1>. QED  BY <1>1, <1>2, <1>3, <1>4 DEF RefsOK

\* ClaimNextForNotify keeps TypeInv, for every caller.
LEMMA ClaimTyped ==
    ASSUME TypeInv, NEW p \in Procs, NEW s, NEW t \in Locals, t.op # "confirm",
           ClaimNextForNotify(p, s, t)
    PROVE  /\ tx' \in [Procs -> Locals] /\ RefsOK'
           /\ waitlist_entries' \in [EntryIds -> EntryRow]
           /\ passedOver' \in SUBSET EntryIds
  <1>0. /\ waitlist_entries \in [EntryIds -> EntryRow] /\ passedOver \in SUBSET EntryIds
        /\ tx \in [Procs -> Locals] /\ RefsOK
    BY DEF TypeInv, TypeOK
  <1>1. CASE /\ tx' = [tx EXCEPT ![p] = Continue(t, AfterClaim(t))]
             /\ passedOver' = passedOver \union SkipLocked(s, p)
             /\ UNCHANGED waitlist_entries
    <2>1. SkipLocked(s, p) \subseteq EntryIds
      BY DEF SkipLocked, Waiting
    <2>2. AfterClaim(t) \in {"claim", "commit"}
      BY DEF AfterClaim
    <2>. QED  BY <1>0, <1>1, <2>1, <2>2, ContinueKeepsRefs
  <1>2. ASSUME NEW e \in NextEntries(s, p),
               waitlist_entries' = Written(waitlist_entries, e, p, "notified"),
               tx' = [tx EXCEPT ![p] = [t EXCEPT !.at_stmt = "insertReservation", !.en = e]],
               UNCHANGED passedOver
        PROVE  /\ tx' \in [Procs -> Locals] /\ RefsOK'
               /\ waitlist_entries' \in [EntryIds -> EntryRow]
               /\ passedOver' \in SUBSET EntryIds
    <2>. DEFINE t2 == [t EXCEPT !.at_stmt = "insertReservation", !.en = e]
    <2>1. e \in EntryIds
      BY DEF NextEntries, Claimable, Waiting
    <2>2. /\ t2 \in Locals /\ t2.at_stmt = "insertReservation" /\ t2.en = e /\ t2.op = t.op
      BY <2>1 DEF Locals, Stages
    <2>3. tx'[p] = t2 /\ \A q \in Procs : q # p => tx'[q] = tx[q]
      BY <1>0, <1>2
    <2>4. tx' \in [Procs -> Locals]
      BY <1>0, <1>2, <2>2
    <2>5. RefsOK'
      <3>1. tx'[p].at_stmt = "insertReservation" /\ tx'[p].en = e /\ tx'[p].op # "confirm"
        BY <2>2, <2>3
      <3>. QED  BY <1>0, <2>1, <2>3, <3>1 DEF RefsOK
    <2>6. waitlist_entries' \in [EntryIds -> EntryRow]
      BY <1>0, <1>2, EntriesTyped DEF EntryStatus
    <2>. QED  BY <1>0, <1>2, <2>4, <2>5, <2>6
  <1>. QED  BY <1>1, <1>2 DEF ClaimNextForNotify

\* Every statement of every use case keeps TypeInv.
LEMMA StatementTyped ==
    ASSUME TypeInv, NEW p \in Procs, Statement(p)
    PROVE  TypeInv'
  <1>0. /\ bookings \in [BookingIds -> BookingRow]
        /\ slot_reservations \in [ReservationIds -> ReservationRow]
        /\ waitlist_entries \in [EntryIds -> EntryRow]
        /\ now \in Nat /\ tx \in [Procs -> Locals] /\ tx[p] \in Locals
        /\ passedOver \in SUBSET EntryIds /\ RefsOK
    BY DEF TypeInv, TypeOK
  <1>1. CASE CheckReservation(p)
    <2>1. slot_reservations' \in [ReservationIds -> ReservationRow]
      BY <1>0, <1>1, ReservationsTyped DEF CheckReservation
    <2>2. tx[p].op # "confirm"
      BY <1>0, <1>1 DEF CheckReservation, At, RefsOK
    <2>3. tx' \in [Procs -> Locals] /\ RefsOK'
      <3>1. CASE \E r \in ActiveReservations(tx[p].slot, p) :
                   tx' = [tx EXCEPT ![p].at_stmt = "waitReservation", ![p].rv = r]
        <4>1. PICK r \in ReservationIds :
                     tx' = [tx EXCEPT ![p].at_stmt = "waitReservation", ![p].rv = r]
          BY <3>1 DEF ActiveReservations, ReservationsOf
        <4>2. tx' \in [Procs -> Locals]
          BY <1>0, <4>1 DEF Locals, Stages
        <4>3. /\ tx'[p].at_stmt = "waitReservation" /\ tx'[p].op = tx[p].op
              /\ \A q \in Procs : q # p => tx'[q] = tx[q]
          BY <1>0, <4>1 DEF Locals
        <4>. QED  BY <1>0, <2>2, <4>2, <4>3 DEF RefsOK
      <3>2. CASE Goto(p, "rollback") \/ Goto(p, "insertBooking")
        BY <2>2, <3>2, GotoKeepsRefs DEF Stages
      <3>. QED  BY <1>1, <3>1, <3>2 DEF CheckReservation
    <2>. QED  BY <1>1, <2>1, <2>3 DEF CheckReservation, TypeInv, TypeOK, history
  <1>2. CASE WaitReservation(p)
    <2>1. slot_reservations' \in [ReservationIds -> ReservationRow]
      BY <1>0, <1>2, ReservationsTyped DEF WaitReservation
    <2>2. tx[p].op # "confirm"
      BY <1>0, <1>2 DEF WaitReservation, At, RefsOK
    <2>3. Goto(p, "rollback") \/ Goto(p, "insertBooking")
      BY <1>2 DEF WaitReservation
    <2>4. tx' \in [Procs -> Locals] /\ RefsOK'
      BY <2>2, <2>3, GotoKeepsRefs DEF Stages
    <2>. QED  BY <1>2, <2>1, <2>4 DEF WaitReservation, TypeInv, TypeOK, history
  <1>3. CASE InsertBooking(p)
    <2>1. bookings' \in [BookingIds -> BookingRow]
      <3>1. [user |-> tx[p].user, slot |-> tx[p].slot,
             status |-> "absent", pend |-> "active", lock |-> p] \in BookingRow
        BY <1>0 DEF BookingRow, BookingStatus, Locals
      <3>. QED  BY <1>0, <1>3, <3>1 DEF InsertBooking
    <2>2. tx[p].op = "confirm" => tx[p].rv \in ReservationIds
      BY <1>0, <1>3 DEF InsertBooking, At, RefsOK
    <2>3. \/ Goto(p, "rollback")
          \/ Goto(p, "setConfirmed") /\ tx[p].op = "confirm"
          \/ Goto(p, "commit") /\ tx[p].op # "confirm"
      BY <1>3 DEF InsertBooking
    <2>4. tx' \in [Procs -> Locals] /\ RefsOK'
      BY <2>2, <2>3, GotoKeepsRefs DEF Stages
    <2>. QED  BY <1>3, <2>1, <2>4 DEF InsertBooking, TypeInv, TypeOK, history
  <1>4. CASE UpdateBooking(p)
    <2>1. bookings' \in [BookingIds -> BookingRow]
      BY <1>0, <1>4, BookingsTyped DEF UpdateBooking, BookingStatus
    <2>2. tx[p].op # "confirm"
      BY <1>0, <1>4 DEF UpdateBooking, At, RefsOK
    <2>3. Goto(p, "claim") \/ Goto(p, "commit")
      BY <1>4 DEF UpdateBooking
    <2>4. tx' \in [Procs -> Locals] /\ RefsOK'
      BY <2>2, <2>3, GotoKeepsRefs DEF Stages
    <2>. QED  BY <1>4, <2>1, <2>4 DEF UpdateBooking, TypeInv, TypeOK, history
  <1>5. CASE LockBooking(p)
    <2>1. bookings' \in [BookingIds -> BookingRow]
      BY <1>0, <1>5, BookingsTyped DEF LockBooking
    <2>2. tx[p].op = "confirm" => tx[p].rv \in ReservationIds
      BY <1>0, <1>5 DEF LockBooking, At, RefsOK
    <2>3. tx' \in [Procs -> Locals] /\ RefsOK'
      <3>1. CASE \E b \in ActiveBookings(tx[p].slot, p) :
                   tx' = [tx EXCEPT ![p].at_stmt = "waitBooking", ![p].bk = b]
        <4>1. PICK b \in BookingIds : tx' = [tx EXCEPT ![p].at_stmt = "waitBooking", ![p].bk = b]
          BY <3>1 DEF ActiveBookings, BookingsOf
        <4>2. tx' \in [Procs -> Locals]
          BY <1>0, <4>1 DEF Locals, Stages
        <4>3. /\ tx'[p].at_stmt = "waitBooking" /\ tx'[p].op = tx[p].op /\ tx'[p].rv = tx[p].rv
              /\ \A q \in Procs : q # p => tx'[q] = tx[q]
          BY <1>0, <4>1 DEF Locals
        <4>. QED  BY <1>0, <2>2, <4>2, <4>3 DEF RefsOK
      <3>2. CASE \/ Goto(p, "rollback") \/ Goto(p, "insertBooking")
                 \/ Goto(p, "insertEntry") /\ tx[p].op # "confirm"
        BY <2>2, <3>2, GotoKeepsRefs DEF Stages
      <3>. QED  BY <1>5, <3>1, <3>2 DEF LockBooking, WithBooking, WithoutBooking
    <2>. QED  BY <1>5, <2>1, <2>3 DEF LockBooking, TypeInv, TypeOK, history
  <1>6. CASE WaitBooking(p)
    <2>1. bookings' \in [BookingIds -> BookingRow]
      BY <1>0, <1>6, BookingsTyped DEF WaitBooking
    <2>2. tx[p].op = "confirm" => tx[p].rv \in ReservationIds
      BY <1>0, <1>6 DEF WaitBooking, At, RefsOK
    <2>3. \/ Goto(p, "rollback") \/ Goto(p, "insertBooking")
          \/ Goto(p, "insertEntry") /\ tx[p].op # "confirm"
      BY <1>6 DEF WaitBooking, WithBooking, WithoutBooking
    <2>4. tx' \in [Procs -> Locals] /\ RefsOK'
      BY <2>2, <2>3, GotoKeepsRefs DEF Stages
    <2>. QED  BY <1>6, <2>1, <2>4 DEF WaitBooking, TypeInv, TypeOK, history
  <1>7. CASE InsertEntry(p)
    <2>1. waitlist_entries' \in [EntryIds -> EntryRow]
      <3>1. \A n \in NextPositions :
              [user |-> tx[p].user, slot |-> tx[p].slot, position |-> n,
               status |-> "absent", pend |-> "active", lock |-> p] \in EntryRow
        BY <1>0, ConstantsAssumption DEF EntryRow, EntryStatus, Locals, NextPositions
      <3>. QED  BY <1>0, <1>7, <3>1 DEF InsertEntry
    <2>2. tx[p].op # "confirm"
      BY <1>0, <1>7 DEF InsertEntry, At, RefsOK
    <2>3. Goto(p, "rollback") \/ Goto(p, "commit")
      BY <1>7 DEF InsertEntry
    <2>4. tx' \in [Procs -> Locals] /\ RefsOK'
      BY <2>2, <2>3, GotoKeepsRefs DEF Stages
    <2>. QED  BY <1>7, <2>1, <2>4 DEF InsertEntry, TypeInv, TypeOK, history
  <1>8. CASE LockReservation(p)
    <2>1. slot_reservations' \in [ReservationIds -> ReservationRow]
      BY <1>0, <1>8, ReservationsTyped DEF LockReservation
    <2>2. tx[p].rv \in ReservationIds
      BY <1>0, <1>8 DEF LockReservation, At, RefsOK
    <2>3. \/ Goto(p, "rollback")
          \/ Goto(p, "lockBooking") /\ tx[p].op = "confirm"
          \/ Goto(p, "setCancelled") /\ tx[p].op # "confirm"
          \/ Goto(p, "commit") /\ tx[p].op # "confirm"
      BY <1>8 DEF LockReservation, WithReservation
    <2>4. tx' \in [Procs -> Locals] /\ RefsOK'
      BY <2>2, <2>3, GotoKeepsRefs DEF Stages
    <2>. QED  BY <1>8, <2>1, <2>4 DEF LockReservation, TypeInv, TypeOK, history
  <1>9. CASE SetConfirmed(p)
    <2>1. slot_reservations' \in [ReservationIds -> ReservationRow]
      BY <1>0, <1>9, ReservationsTyped DEF SetConfirmed, SetReservation, ReservationStatus
    <2>2. tx[p].rv \in ReservationIds
      BY <1>0, <1>9 DEF SetConfirmed, At, RefsOK
    <2>3. tx' \in [Procs -> Locals] /\ RefsOK'
      BY <1>9, <2>2, GotoKeepsRefs DEF SetConfirmed, Stages
    <2>. QED  BY <1>9, <2>1, <2>3 DEF SetConfirmed, TypeInv, TypeOK, history
  <1>10. CASE SetCancelled(p)
    <2>1. slot_reservations' \in [ReservationIds -> ReservationRow]
      BY <1>0, <1>10, ReservationsTyped DEF SetCancelled, SetReservation, ReservationStatus
    <2>2. tx[p].op # "confirm"
      BY <1>0, <1>10 DEF SetCancelled, At, RefsOK
    <2>3. tx' \in [Procs -> Locals] /\ RefsOK'
      BY <1>10, <2>2, GotoKeepsRefs DEF SetCancelled, Stages
    <2>. QED  BY <1>10, <2>1, <2>3 DEF SetCancelled, TypeInv, TypeOK, history
  <1>11. CASE InsertReservation(p)
    <2>1. slot_reservations' \in [ReservationIds -> ReservationRow]
      <3>1. tx[p].en \in EntryIds
        BY <1>0, <1>11 DEF InsertReservation, At, RefsOK
      <3>2. [user |-> waitlist_entries[tx[p].en].user, slot |-> tx[p].slot, entry |-> tx[p].en,
             expires_at |-> ExpiresAt(tx[p]), status |-> "absent", pend |-> "active", lock |-> p]
            \in ReservationRow
        BY <1>0, <3>1, ConstantsAssumption
        DEF ReservationRow, ReservationStatus, Locals, EntryRow, ExpiresAt
      <3>. QED  BY <1>0, <1>11, <3>2 DEF InsertReservation
    <2>2. tx[p].op # "confirm"
      BY <1>0, <1>11 DEF InsertReservation, At, RefsOK
    <2>3. Goto(p, "rollback") \/ Goto(p, "claim") \/ Goto(p, "commit")
      BY <1>11 DEF InsertReservation, AfterClaim
    <2>4. tx' \in [Procs -> Locals] /\ RefsOK'
      BY <2>2, <2>3, GotoKeepsRefs DEF Stages
    <2>. QED  BY <1>11, <2>1, <2>4 DEF InsertReservation, TypeInv, TypeOK, history
  <1>12. CASE Claim(p)
    <2>. DEFINE t == [tx[p] EXCEPT !.at = IF tx[p].op = "cancel" THEN now ELSE tx[p].at]
    <2>1. t \in Locals /\ t.op = tx[p].op
      BY <1>0 DEF Locals
    <2>2. tx[p].op # "confirm"
      BY <1>0, <1>12 DEF Claim, At, RefsOK
    <2>3. ClaimNextForNotify(p, tx[p].slot, t)
      BY <1>12 DEF Claim
    <2>4. /\ tx' \in [Procs -> Locals] /\ RefsOK'
          /\ waitlist_entries' \in [EntryIds -> EntryRow]
          /\ passedOver' \in SUBSET EntryIds
      BY <2>1, <2>2, <2>3, ClaimTyped
    <2>. QED  BY <1>12, <2>4 DEF Claim, TypeInv, TypeOK
  <1>13. CASE ClaimForExpired(p)
    <2>1. PICK r \in tx[p].due :
            ClaimNextForNotify(p, slot_reservations[r].slot,
              [tx[p] EXCEPT !.slot = slot_reservations[r].slot, !.due = tx[p].due \ {r}])
      BY <1>13 DEF ClaimForExpired
    <2>. DEFINE t == [tx[p] EXCEPT !.slot = slot_reservations[r].slot, !.due = tx[p].due \ {r}]
    <2>2. tx[p].due \subseteq ReservationIds
      BY <1>0 DEF Locals
    <2>3. slot_reservations[r].slot \in Slots \union {None}
      BY <1>0, <2>2 DEF ReservationRow
    <2>4. t \in Locals /\ t.op = tx[p].op
      BY <1>0, <2>2, <2>3 DEF Locals
    <2>5. tx[p].op # "confirm"
      BY <1>13 DEF ClaimForExpired
    <2>6. /\ tx' \in [Procs -> Locals] /\ RefsOK'
          /\ waitlist_entries' \in [EntryIds -> EntryRow]
          /\ passedOver' \in SUBSET EntryIds
      BY <2>1, <2>4, <2>5, ClaimTyped
    <2>. QED  BY <1>13, <2>6 DEF ClaimForExpired, TypeInv, TypeOK
  <1>14. CASE ExpireBatch(p)
    <2>1. PICK batch \in Batches(p) :
            /\ slot_reservations' =
                 [r \in ReservationIds |->
                    IF r \in batch
                    THEN [slot_reservations[r] EXCEPT !.pend = "expired", !.lock = p]
                    ELSE slot_reservations[r]]
            /\ tx' = [tx EXCEPT ![p] = Continue([tx[p] EXCEPT !.due = batch],
                                                AfterClaim([tx[p] EXCEPT !.due = batch]))]
      BY <1>14 DEF ExpireBatch
    <2>. DEFINE t == [tx[p] EXCEPT !.due = batch]
    <2>2. batch \subseteq ReservationIds
      BY DEF Batches, FirstOf, Due
    <2>3. slot_reservations' \in [ReservationIds -> ReservationRow]
      <3>1. \A r \in ReservationIds :
              [slot_reservations[r] EXCEPT !.pend = "expired", !.lock = p] \in ReservationRow
        BY <1>0 DEF ReservationRow, ReservationStatus
      <3>. QED  BY <1>0, <2>1, <3>1
    <2>4. tx[p].op # "confirm"
      BY <1>0, <1>14 DEF ExpireBatch, At, RefsOK
    <2>5. t \in Locals /\ t.op = tx[p].op
      BY <1>0, <2>2 DEF Locals
    <2>6. AfterClaim(t) \in {"claim", "commit"}
      BY DEF AfterClaim
    <2>7. tx' = [tx EXCEPT ![p] = Continue(t, AfterClaim(t))]
      BY <2>1
    <2>8. tx' \in [Procs -> Locals] /\ RefsOK'
      BY <2>4, <2>5, <2>6, <2>7, ContinueKeepsRefs
    <2>. QED  BY <1>14, <2>3, <2>8 DEF ExpireBatch, TypeInv, TypeOK, history
  <1>. QED
    BY <1>1, <1>2, <1>3, <1>4, <1>5, <1>6, <1>7, <1>8, <1>9, <1>10, <1>11, <1>12, <1>13, <1>14
    DEF Statement

\* TypeInv is inductive.
LEMMA NextTypeInv == TypeInv /\ [Next]_vars => TypeInv'
  <1>. SUFFICES ASSUME TypeInv, [Next]_vars PROVE TypeInv'
    OBVIOUS
  <1>1. ASSUME NEW p \in Handlers, Request(p)  PROVE TypeInv'
    BY <1>1, RequestTyped DEF Procs
  <1>2. ASSUME NEW p \in Workers, StartExpire(p)  PROVE TypeInv'
    <2>. DEFINE t == [NoTx EXCEPT !.op = "expire", !.at_stmt = "expireBatch", !.at = now]
    <2>1. t \in Locals /\ t.at_stmt = "expireBatch" /\ t.op = "expire"
      BY DEF NoTx, Locals, Ops, Stages, TypeInv, TypeOK
    <2>2. p \in Procs /\ Begin(p, t)
      BY <1>2 DEF StartExpire, Procs
    <2>3. tx' \in [Procs -> Locals] /\ RefsOK'
      BY <2>1, <2>2, BeginTyped
    <2>. QED  BY <1>2, <2>3 DEF StartExpire, TypeInv, TypeOK, tables, history
  <1>3. ASSUME NEW p \in Procs, Statement(p)  PROVE TypeInv'
    BY <1>3, StatementTyped
  <1>4. ASSUME NEW p \in Procs, Commit(p)  PROVE TypeInv'
    <2>1. tx' \in [Procs -> Locals] /\ RefsOK'
      BY <1>4, EndTyped DEF Commit
    <2>2. slotReleased' \in [BookingIds -> Nat]
      <3>1. slotReleased \in [BookingIds -> Nat]
        BY DEF TypeInv, TypeOK
      <3>2. CASE tx[p].bk \in BookingIds
        BY <1>4, <3>1, <3>2 DEF Commit
      <3>3. CASE tx[p].bk \notin BookingIds
        BY <1>4, <3>1, <3>3 DEF Commit
      <3>. QED  BY <3>2, <3>3
    <2>3. /\ bookings' \in [BookingIds -> BookingRow]
          /\ waitlist_entries' \in [EntryIds -> EntryRow]
          /\ slot_reservations' \in [ReservationIds -> ReservationRow]
      BY <1>4, BookingsTyped, EntriesTyped, ReservationsTyped DEF Commit, TypeInv, TypeOK
    <2>. QED  BY <1>4, <2>1, <2>2, <2>3 DEF Commit, TypeInv, TypeOK
  <1>5. ASSUME NEW p \in Procs, UndoAll(p)  PROVE TypeInv'
    <2>1. tx' \in [Procs -> Locals] /\ RefsOK'
      BY <1>5, EndTyped DEF UndoAll
    <2>2. /\ bookings' \in [BookingIds -> BookingRow]
          /\ waitlist_entries' \in [EntryIds -> EntryRow]
          /\ slot_reservations' \in [ReservationIds -> ReservationRow]
      BY <1>5, BookingsTyped, EntriesTyped, ReservationsTyped DEF UndoAll, TypeInv, TypeOK
    <2>. QED  BY <1>5, <2>1, <2>2 DEF UndoAll, TypeInv, TypeOK, history
  <1>6. CASE Tick
    BY <1>6 DEF Tick, TypeInv, TypeOK, RefsOK, tables, history
  <1>7. CASE UNCHANGED vars
    BY <1>7 DEF vars, TypeInv, TypeOK, RefsOK
  <1>. QED  BY <1>1, <1>2, <1>3, <1>4, <1>5, <1>6, <1>7 DEF Next, Rollback, Abort

\* TypeInv holds in every reachable state.
LEMMA AlwaysTypeInv == Spec => []TypeInv
  BY InitTypeInv, NextTypeInv, PTL DEF Spec

\* The tables and the locals of every use case keep the types of the schema and
\* of the Go structs, for any number of users, slots, goroutines and rows.
THEOREM TypeCorrect == Spec => []TypeOK
  <1>1. TypeInv => TypeOK
    BY DEF TypeInv
  <1>. QED  BY <1>1, AlwaysTypeInv, PTL

-----------------------------------------------------------------------------
(* The indexes.  What an index allows does not depend on the table, so the *)
(* four things a transaction does to rows (update, insert, commit, roll    *)
(* back) are treated once, for a table t that becomes u while its keys k   *)
(* become l.                                                               *)

\* Rows are locked, or updated without entering the index.
RowsUpdated(ids, t, u, k, l, indexed, p) ==
    \A r \in ids :
        /\ l[r] = k[r] /\ u[r].status = t[r].status
        /\ \/ u[r].pend = t[r].pend /\ u[r].lock = t[r].lock
           \/ /\ t[r].lock \in {None, p} /\ u[r].lock = p
              /\ u[r].pend \in indexed => t[r].pend \in indexed

\* The row new is inserted after the index was found free of its key.
RowInserted(ids, t, u, k, l, indexed, p, new) ==
    /\ u[new].status \notin indexed /\ u[new].lock = p
    /\ \A r \in ids \ {new} :
         /\ l[r] = k[r] /\ u[r] = t[r]
         /\ l[r] = l[new] =>
              t[r].pend \notin indexed /\ (t[r].status \in indexed => t[r].lock = p)

\* All that p has written becomes the committed state at once.
RowsCommitted(ids, t, u, k, l, p) ==
    \A r \in ids :
        /\ l[r] = k[r]
        /\ t[r].lock # p => u[r] = t[r]
        /\ t[r].lock = p =>
             u[r].status = t[r].pend /\ u[r].pend = t[r].pend /\ u[r].lock = None

\* All that p has written is forgotten.
RowsRolledBack(ids, t, u, k, l, indexed, p) ==
    \A r \in ids :
        /\ t[r].lock # p => u[r] = t[r] /\ l[r] = k[r]
        /\ t[r].lock = p =>
             /\ u[r].lock = None /\ u[r].pend = u[r].status
             /\ u[r].status \notin indexed \/ (u[r].status = t[r].status /\ l[r] = k[r])

\* Locking rows, or updating them without entering the index, keeps it protected.
LEMMA UpdateKeeps ==
    ASSUME NEW ids, NEW t, NEW u, NEW k, NEW l, NEW indexed, NEW p, p # None,
           IndexProtected(ids, t, k, indexed), RowsUpdated(ids, t, u, k, l, indexed, p)
    PROVE  IndexProtected(ids, u, l, indexed)
  BY DEF IndexProtected, RowsUpdated

\* Inserting a row after the uniqueness check keeps the index protected.
LEMMA InsertKeeps ==
    ASSUME NEW ids, NEW t, NEW u, NEW k, NEW l, NEW indexed, NEW p, p # None, NEW new \in ids,
           IndexProtected(ids, t, k, indexed), RowInserted(ids, t, u, k, l, indexed, p, new)
    PROVE  IndexProtected(ids, u, l, indexed)
  BY DEF IndexProtected, RowInserted

\* COMMIT keeps the index protected.
LEMMA CommitKeeps ==
    ASSUME NEW ids, NEW t, NEW u, NEW k, NEW l, NEW indexed, NEW p, p # None,
           IndexProtected(ids, t, k, indexed), RowsCommitted(ids, t, u, k, l, p)
    PROVE  IndexProtected(ids, u, l, indexed)
  BY DEF IndexProtected, RowsCommitted

\* ROLLBACK keeps the index protected.
LEMMA RollbackKeeps ==
    ASSUME NEW ids, NEW t, NEW u, NEW k, NEW l, NEW indexed, NEW p, p # None,
           IndexProtected(ids, t, k, indexed), RowsRolledBack(ids, t, u, k, l, indexed, p)
    PROVE  IndexProtected(ids, u, l, indexed)
  BY DEF IndexProtected, RowsRolledBack

\* What the uniqueness check of an INSERT has established about a row.
LEMMA InsertAllowed ==
    ASSUME NEW table, NEW rows, NEW p, NEW indexed, NEW r \in rows,
           table[r].lock = None => table[r].pend = table[r].status,
           Awaited(table, rows, p, indexed) = {}, ~Taken(table, rows, p, indexed)
    PROVE  table[r].pend \notin indexed /\ (table[r].status \in indexed => table[r].lock = p)
  BY DEF Awaited, Taken, InProgress, View

-----------------------------------------------------------------------------
(* uq_bookings_active_slot *)

\* A statement that locks or cancels a booking keeps uq_bookings_active_slot.
LEMMA BookingUpdate ==
    ASSUME TypeInv, BookingIndex, NEW p \in Procs, NEW b \in BookingIds,
           LockFree(bookings, b, p),
           \/ bookings' = Locked(bookings, b, p)
           \/ bookings' = Written(bookings, b, p, "cancelled")
    PROVE  BookingIndex'
  <1>1. bookings \in [BookingIds -> BookingRow] /\ p # None
    BY ConstantsAssumption DEF TypeInv, TypeOK
  <1>2. \A c \in BookingIds :
          /\ bookings'[c].slot = bookings[c].slot /\ bookings'[c].user = bookings[c].user
          /\ bookings'[c].status = bookings[c].status
          /\ c # b => bookings'[c] = bookings[c]
    BY <1>1 DEF Locked, Written, BookingRow
  <1>3. bookings'[b].lock = p /\ (bookings'[b].pend \in {"active"} => bookings[b].pend \in {"active"})
    BY <1>1 DEF Locked, Written, BookingRow
  <1>4. \A c \in BookingIds : BookingKey[c] = bookings[c].slot /\ BookingKey'[c] = bookings'[c].slot
    BY DEF BookingKey
  <1>5. RowsUpdated(BookingIds, bookings, bookings', BookingKey, BookingKey', {"active"}, p)
    <2>1. \A c \in BookingIds : BookingKey'[c] = BookingKey[c]
      BY <1>2, <1>4
    <2>2. bookings[b].lock \in {None, p}
      BY DEF LockFree
    <2>. QED  BY <1>2, <1>3, <2>1, <2>2 DEF RowsUpdated
  <1>. QED  BY <1>1, <1>5, UpdateKeeps DEF BookingIndex

\* BookingRepo.Create keeps uq_bookings_active_slot.
LEMMA BookingInsert ==
    ASSUME TypeInv, BookingIndex, NEW p \in Procs, HasFresh(bookings), NEW row,
           row.status = "absent", row.lock = p, row.slot = tx[p].slot,
           Awaited(bookings, BookingsOf(tx[p].slot), p, {"active"}) = {},
           ~Taken(bookings, BookingsOf(tx[p].slot), p, {"active"}),
           bookings' = [bookings EXCEPT ![FreshId(bookings)] = row]
    PROVE  BookingIndex'
  <1>1. bookings \in [BookingIds -> BookingRow] /\ p # None
    BY ConstantsAssumption DEF TypeInv, TypeOK
  <1>2. PICK new \in BookingIds : bookings' = [bookings EXCEPT ![new] = row]
    BY <1>1, FreshIdIsFresh
  <1>3. bookings'[new] = row /\ \A c \in BookingIds \ {new} : bookings'[c] = bookings[c]
    BY <1>1, <1>2
  <1>4. \A c \in BookingIds : BookingKey[c] = bookings[c].slot /\ BookingKey'[c] = bookings'[c].slot
    BY DEF BookingKey
  <1>5. ASSUME NEW c \in BookingIds \ {new}, BookingKey'[c] = BookingKey'[new]
        PROVE  /\ bookings[c].pend \notin {"active"}
               /\ bookings[c].status \in {"active"} => bookings[c].lock = p
    <2>1. c \in BookingsOf(tx[p].slot)
      BY <1>3, <1>4, <1>5 DEF BookingsOf
    <2>2. bookings[c].lock = None => bookings[c].pend = bookings[c].status
      BY DEF BookingIndex, IndexProtected
    <2>. QED  BY <2>1, <2>2, InsertAllowed
  <1>6. RowInserted(BookingIds, bookings, bookings', BookingKey, BookingKey', {"active"}, p, new)
    BY <1>3, <1>4, <1>5 DEF RowInserted
  <1>. QED  BY <1>1, <1>6, InsertKeeps DEF BookingIndex

\* The end of a transaction keeps uq_bookings_active_slot.
LEMMA BookingEnd ==
    ASSUME TypeInv, BookingIndex, NEW p \in Procs,
           \/ bookings' = CommittedTable(bookings, p)
           \/ bookings' = RolledBackTable(bookings, p, NoBooking)
    PROVE  BookingIndex'
  <1>1. bookings \in [BookingIds -> BookingRow] /\ DOMAIN bookings = BookingIds /\ p # None
    BY ConstantsAssumption DEF TypeInv, TypeOK
  <1>2. \A c \in BookingIds : BookingKey[c] = bookings[c].slot /\ BookingKey'[c] = bookings'[c].slot
    BY DEF BookingKey
  <1>3. CASE bookings' = CommittedTable(bookings, p)
    <2>1. \A c \in BookingIds :
            /\ bookings'[c].slot = bookings[c].slot /\ bookings'[c].user = bookings[c].user
            /\ bookings[c].lock # p => bookings'[c] = bookings[c]
            /\ bookings[c].lock = p =>
                 /\ bookings'[c].status = bookings[c].pend /\ bookings'[c].pend = bookings[c].pend
                 /\ bookings'[c].lock = None
      BY <1>1, <1>3 DEF CommittedTable, BookingRow
    <2>2. RowsCommitted(BookingIds, bookings, bookings', BookingKey, BookingKey', p)
      BY <1>2, <2>1 DEF RowsCommitted
    <2>. QED  BY <1>1, <2>2, CommitKeeps DEF BookingIndex
  <1>4. CASE bookings' = RolledBackTable(bookings, p, NoBooking)
    <2>1. \A c \in BookingIds : bookings[c].lock # p => bookings'[c] = bookings[c]
      BY <1>1, <1>4 DEF RolledBackTable
    <2>2. \A c \in BookingIds : bookings[c].lock = p =>
            \/ bookings'[c] = NoBooking
            \/ bookings'[c] = [bookings[c] EXCEPT !.pend = bookings[c].status, !.lock = None]
      BY <1>1, <1>4 DEF RolledBackTable
    <2>3. ASSUME NEW c \in BookingIds, bookings[c].lock = p
          PROVE  /\ bookings'[c].lock = None /\ bookings'[c].pend = bookings'[c].status
                 /\ \/ bookings'[c].status = "absent"
                    \/ /\ bookings'[c].status = bookings[c].status
                       /\ bookings'[c].slot = bookings[c].slot /\ bookings'[c].user = bookings[c].user
      <3>1. CASE bookings'[c] = NoBooking
        BY <3>1 DEF NoBooking
      <3>2. CASE bookings'[c] = [bookings[c] EXCEPT !.pend = bookings[c].status, !.lock = None]
        BY <1>1, <3>2 DEF BookingRow
      <3>. QED  BY <2>2, <2>3, <3>1, <3>2
    <2>4. RowsRolledBack(BookingIds, bookings, bookings', BookingKey, BookingKey', {"active"}, p)
      BY <1>2, <2>1, <2>3 DEF RowsRolledBack
    <2>. QED  BY <1>1, <2>4, RollbackKeeps DEF BookingIndex
  <1>. QED  BY <1>3, <1>4

-----------------------------------------------------------------------------
(* uq_slot_reservations_active_slot *)

\* Locking, confirming, cancelling or expiring keeps uq_slot_reservations_active_slot.
LEMMA ReservationUpdate ==
    ASSUME TypeInv, ReservationIndex, NEW p \in Procs, NEW b \in ReservationIds,
           NEW st \in {"confirmed", "cancelled"}, LockFree(slot_reservations, b, p),
           \/ slot_reservations' = Locked(slot_reservations, b, p)
           \/ slot_reservations' = Written(slot_reservations, b, p, st)
    PROVE  ReservationIndex'
  <1>1. slot_reservations \in [ReservationIds -> ReservationRow] /\ p # None
    BY ConstantsAssumption DEF TypeInv, TypeOK
  <1>2. \A c \in ReservationIds :
          /\ slot_reservations'[c].slot = slot_reservations[c].slot /\ slot_reservations'[c].user = slot_reservations[c].user
          /\ slot_reservations'[c].status = slot_reservations[c].status
          /\ c # b => slot_reservations'[c] = slot_reservations[c]
    BY <1>1 DEF Locked, Written, ReservationRow
  <1>3. slot_reservations'[b].lock = p /\ (slot_reservations'[b].pend \in {"active"} => slot_reservations[b].pend \in {"active"})
    BY <1>1 DEF Locked, Written, ReservationRow
  <1>4. \A c \in ReservationIds : ReservationKey[c] = slot_reservations[c].slot /\ ReservationKey'[c] = slot_reservations'[c].slot
    BY DEF ReservationKey
  <1>5. RowsUpdated(ReservationIds, slot_reservations, slot_reservations', ReservationKey, ReservationKey', {"active"}, p)
    <2>1. \A c \in ReservationIds : ReservationKey'[c] = ReservationKey[c]
      BY <1>2, <1>4
    <2>2. slot_reservations[b].lock \in {None, p}
      BY DEF LockFree
    <2>. QED  BY <1>2, <1>3, <2>1, <2>2 DEF RowsUpdated
  <1>. QED  BY <1>1, <1>5, UpdateKeeps DEF ReservationIndex

\* ReservationRepo.Create keeps uq_slot_reservations_active_slot.
LEMMA ReservationInsert ==
    ASSUME TypeInv, ReservationIndex, NEW p \in Procs, HasFresh(slot_reservations), NEW row,
           row.status = "absent", row.lock = p, row.slot = tx[p].slot,
           Awaited(slot_reservations, ReservationsOf(tx[p].slot), p, {"active"}) = {},
           ~Taken(slot_reservations, ReservationsOf(tx[p].slot), p, {"active"}),
           slot_reservations' = [slot_reservations EXCEPT ![FreshId(slot_reservations)] = row]
    PROVE  ReservationIndex'
  <1>1. slot_reservations \in [ReservationIds -> ReservationRow] /\ p # None
    BY ConstantsAssumption DEF TypeInv, TypeOK
  <1>2. PICK new \in ReservationIds : slot_reservations' = [slot_reservations EXCEPT ![new] = row]
    BY <1>1, FreshIdIsFresh
  <1>3. slot_reservations'[new] = row /\ \A c \in ReservationIds \ {new} : slot_reservations'[c] = slot_reservations[c]
    BY <1>1, <1>2
  <1>4. \A c \in ReservationIds : ReservationKey[c] = slot_reservations[c].slot /\ ReservationKey'[c] = slot_reservations'[c].slot
    BY DEF ReservationKey
  <1>5. ASSUME NEW c \in ReservationIds \ {new}, ReservationKey'[c] = ReservationKey'[new]
        PROVE  /\ slot_reservations[c].pend \notin {"active"}
               /\ slot_reservations[c].status \in {"active"} => slot_reservations[c].lock = p
    <2>1. c \in ReservationsOf(tx[p].slot)
      BY <1>3, <1>4, <1>5 DEF ReservationsOf
    <2>2. slot_reservations[c].lock = None => slot_reservations[c].pend = slot_reservations[c].status
      BY DEF ReservationIndex, IndexProtected
    <2>. QED  BY <2>1, <2>2, InsertAllowed
  <1>6. RowInserted(ReservationIds, slot_reservations, slot_reservations', ReservationKey, ReservationKey', {"active"}, p, new)
    BY <1>3, <1>4, <1>5 DEF RowInserted
  <1>. QED  BY <1>1, <1>6, InsertKeeps DEF ReservationIndex

\* The end of a transaction keeps uq_slot_reservations_active_slot.
LEMMA ReservationEnd ==
    ASSUME TypeInv, ReservationIndex, NEW p \in Procs,
           \/ slot_reservations' = CommittedTable(slot_reservations, p)
           \/ slot_reservations' = RolledBackTable(slot_reservations, p, NoReservation)
    PROVE  ReservationIndex'
  <1>1. slot_reservations \in [ReservationIds -> ReservationRow] /\ DOMAIN slot_reservations = ReservationIds /\ p # None
    BY ConstantsAssumption DEF TypeInv, TypeOK
  <1>2. \A c \in ReservationIds : ReservationKey[c] = slot_reservations[c].slot /\ ReservationKey'[c] = slot_reservations'[c].slot
    BY DEF ReservationKey
  <1>3. CASE slot_reservations' = CommittedTable(slot_reservations, p)
    <2>1. \A c \in ReservationIds :
            /\ slot_reservations'[c].slot = slot_reservations[c].slot /\ slot_reservations'[c].user = slot_reservations[c].user
            /\ slot_reservations[c].lock # p => slot_reservations'[c] = slot_reservations[c]
            /\ slot_reservations[c].lock = p =>
                 /\ slot_reservations'[c].status = slot_reservations[c].pend /\ slot_reservations'[c].pend = slot_reservations[c].pend
                 /\ slot_reservations'[c].lock = None
      BY <1>1, <1>3 DEF CommittedTable, ReservationRow
    <2>2. RowsCommitted(ReservationIds, slot_reservations, slot_reservations', ReservationKey, ReservationKey', p)
      BY <1>2, <2>1 DEF RowsCommitted
    <2>. QED  BY <1>1, <2>2, CommitKeeps DEF ReservationIndex
  <1>4. CASE slot_reservations' = RolledBackTable(slot_reservations, p, NoReservation)
    <2>1. \A c \in ReservationIds : slot_reservations[c].lock # p => slot_reservations'[c] = slot_reservations[c]
      BY <1>1, <1>4 DEF RolledBackTable
    <2>2. \A c \in ReservationIds : slot_reservations[c].lock = p =>
            \/ slot_reservations'[c] = NoReservation
            \/ slot_reservations'[c] = [slot_reservations[c] EXCEPT !.pend = slot_reservations[c].status, !.lock = None]
      BY <1>1, <1>4 DEF RolledBackTable
    <2>3. ASSUME NEW c \in ReservationIds, slot_reservations[c].lock = p
          PROVE  /\ slot_reservations'[c].lock = None /\ slot_reservations'[c].pend = slot_reservations'[c].status
                 /\ \/ slot_reservations'[c].status = "absent"
                    \/ /\ slot_reservations'[c].status = slot_reservations[c].status
                       /\ slot_reservations'[c].slot = slot_reservations[c].slot /\ slot_reservations'[c].user = slot_reservations[c].user
      <3>1. CASE slot_reservations'[c] = NoReservation
        BY <3>1 DEF NoReservation
      <3>2. CASE slot_reservations'[c] = [slot_reservations[c] EXCEPT !.pend = slot_reservations[c].status, !.lock = None]
        BY <1>1, <3>2 DEF ReservationRow
      <3>. QED  BY <2>2, <2>3, <3>1, <3>2
    <2>4. RowsRolledBack(ReservationIds, slot_reservations, slot_reservations', ReservationKey, ReservationKey', {"active"}, p)
      BY <1>2, <2>1, <2>3 DEF RowsRolledBack
    <2>. QED  BY <1>1, <2>4, RollbackKeeps DEF ReservationIndex
  <1>. QED  BY <1>3, <1>4

-----------------------------------------------------------------------------
(* uq_waitlist_slot_user_active_or_notified *)

\* Claiming or leaving keeps uq_waitlist_slot_user_active_or_notified.
LEMMA EntryUpdate ==
    ASSUME TypeInv, EntryIndex, NEW p \in Procs, NEW b \in EntryIds,
           LockFree(waitlist_entries, b, p),
           \/ waitlist_entries' = Written(waitlist_entries, b, p, "cancelled")
           \/ /\ waitlist_entries' = Written(waitlist_entries, b, p, "notified")
              /\ View(waitlist_entries, b, p) = "active"
    PROVE  EntryIndex'
  <1>1. waitlist_entries \in [EntryIds -> EntryRow] /\ p # None
    BY ConstantsAssumption DEF TypeInv, TypeOK
  <1>2. \A c \in EntryIds :
          /\ waitlist_entries'[c].slot = waitlist_entries[c].slot /\ waitlist_entries'[c].user = waitlist_entries[c].user
          /\ waitlist_entries'[c].status = waitlist_entries[c].status
          /\ c # b => waitlist_entries'[c] = waitlist_entries[c]
    BY <1>1 DEF Locked, Written, EntryRow
  <1>3. waitlist_entries'[b].lock = p /\ (waitlist_entries'[b].pend \in {"active", "notified"} => waitlist_entries[b].pend \in {"active", "notified"})
    <2>1. /\ waitlist_entries'[b].lock = p
          /\ waitlist_entries'[b].pend \in {"cancelled", "notified"}
          /\ waitlist_entries'[b].pend = "notified" => View(waitlist_entries, b, p) = "active"
      BY <1>1 DEF Written, EntryRow
    <2>2. View(waitlist_entries, b, p) = waitlist_entries[b].pend
      BY DEF View, LockFree, EntryIndex, IndexProtected
    <2>. QED  BY <2>1, <2>2
  <1>4. \A c \in EntryIds : EntryKey[c] = <<waitlist_entries[c].slot, waitlist_entries[c].user>> /\ EntryKey'[c] = <<waitlist_entries'[c].slot, waitlist_entries'[c].user>>
    BY DEF EntryKey
  <1>5. RowsUpdated(EntryIds, waitlist_entries, waitlist_entries', EntryKey, EntryKey', {"active", "notified"}, p)
    <2>1. \A c \in EntryIds : EntryKey'[c] = EntryKey[c]
      BY <1>2, <1>4
    <2>2. waitlist_entries[b].lock \in {None, p}
      BY DEF LockFree
    <2>. QED  BY <1>2, <1>3, <2>1, <2>2 DEF RowsUpdated
  <1>. QED  BY <1>1, <1>5, UpdateKeeps DEF EntryIndex

\* WaitlistRepo.Join keeps uq_waitlist_slot_user_active_or_notified.
LEMMA EntryInsert ==
    ASSUME TypeInv, EntryIndex, NEW p \in Procs, HasFresh(waitlist_entries), NEW row,
           row.status = "absent", row.lock = p, row.slot = tx[p].slot, row.user = tx[p].user,
           Awaited(waitlist_entries, EntriesOf(tx[p].slot, tx[p].user), p, {"active", "notified"}) = {},
           ~Taken(waitlist_entries, EntriesOf(tx[p].slot, tx[p].user), p, {"active", "notified"}),
           waitlist_entries' = [waitlist_entries EXCEPT ![FreshId(waitlist_entries)] = row]
    PROVE  EntryIndex'
  <1>1. waitlist_entries \in [EntryIds -> EntryRow] /\ p # None
    BY ConstantsAssumption DEF TypeInv, TypeOK
  <1>2. PICK new \in EntryIds : waitlist_entries' = [waitlist_entries EXCEPT ![new] = row]
    BY <1>1, FreshIdIsFresh
  <1>3. waitlist_entries'[new] = row /\ \A c \in EntryIds \ {new} : waitlist_entries'[c] = waitlist_entries[c]
    BY <1>1, <1>2
  <1>4. \A c \in EntryIds : EntryKey[c] = <<waitlist_entries[c].slot, waitlist_entries[c].user>> /\ EntryKey'[c] = <<waitlist_entries'[c].slot, waitlist_entries'[c].user>>
    BY DEF EntryKey
  <1>5. ASSUME NEW c \in EntryIds \ {new}, EntryKey'[c] = EntryKey'[new]
        PROVE  /\ waitlist_entries[c].pend \notin {"active", "notified"}
               /\ waitlist_entries[c].status \in {"active", "notified"} => waitlist_entries[c].lock = p
    <2>1. c \in EntriesOf(tx[p].slot, tx[p].user)
      BY <1>3, <1>4, <1>5 DEF EntriesOf
    <2>2. waitlist_entries[c].lock = None => waitlist_entries[c].pend = waitlist_entries[c].status
      BY DEF EntryIndex, IndexProtected
    <2>. QED  BY <2>1, <2>2, InsertAllowed
  <1>6. RowInserted(EntryIds, waitlist_entries, waitlist_entries', EntryKey, EntryKey', {"active", "notified"}, p, new)
    BY <1>3, <1>4, <1>5 DEF RowInserted
  <1>. QED  BY <1>1, <1>6, InsertKeeps DEF EntryIndex

\* The end of a transaction keeps uq_waitlist_slot_user_active_or_notified.
LEMMA EntryEnd ==
    ASSUME TypeInv, EntryIndex, NEW p \in Procs,
           \/ waitlist_entries' = CommittedTable(waitlist_entries, p)
           \/ waitlist_entries' = RolledBackTable(waitlist_entries, p, NoEntry)
    PROVE  EntryIndex'
  <1>1. waitlist_entries \in [EntryIds -> EntryRow] /\ DOMAIN waitlist_entries = EntryIds /\ p # None
    BY ConstantsAssumption DEF TypeInv, TypeOK
  <1>2. \A c \in EntryIds : EntryKey[c] = <<waitlist_entries[c].slot, waitlist_entries[c].user>> /\ EntryKey'[c] = <<waitlist_entries'[c].slot, waitlist_entries'[c].user>>
    BY DEF EntryKey
  <1>3. CASE waitlist_entries' = CommittedTable(waitlist_entries, p)
    <2>1. \A c \in EntryIds :
            /\ waitlist_entries'[c].slot = waitlist_entries[c].slot /\ waitlist_entries'[c].user = waitlist_entries[c].user
            /\ waitlist_entries[c].lock # p => waitlist_entries'[c] = waitlist_entries[c]
            /\ waitlist_entries[c].lock = p =>
                 /\ waitlist_entries'[c].status = waitlist_entries[c].pend /\ waitlist_entries'[c].pend = waitlist_entries[c].pend
                 /\ waitlist_entries'[c].lock = None
      BY <1>1, <1>3 DEF CommittedTable, EntryRow
    <2>2. RowsCommitted(EntryIds, waitlist_entries, waitlist_entries', EntryKey, EntryKey', p)
      BY <1>2, <2>1 DEF RowsCommitted
    <2>. QED  BY <1>1, <2>2, CommitKeeps DEF EntryIndex
  <1>4. CASE waitlist_entries' = RolledBackTable(waitlist_entries, p, NoEntry)
    <2>1. \A c \in EntryIds : waitlist_entries[c].lock # p => waitlist_entries'[c] = waitlist_entries[c]
      BY <1>1, <1>4 DEF RolledBackTable
    <2>2. \A c \in EntryIds : waitlist_entries[c].lock = p =>
            \/ waitlist_entries'[c] = NoEntry
            \/ waitlist_entries'[c] = [waitlist_entries[c] EXCEPT !.pend = waitlist_entries[c].status, !.lock = None]
      BY <1>1, <1>4 DEF RolledBackTable
    <2>3. ASSUME NEW c \in EntryIds, waitlist_entries[c].lock = p
          PROVE  /\ waitlist_entries'[c].lock = None /\ waitlist_entries'[c].pend = waitlist_entries'[c].status
                 /\ \/ waitlist_entries'[c].status = "absent"
                    \/ /\ waitlist_entries'[c].status = waitlist_entries[c].status
                       /\ waitlist_entries'[c].slot = waitlist_entries[c].slot /\ waitlist_entries'[c].user = waitlist_entries[c].user
      <3>1. CASE waitlist_entries'[c] = NoEntry
        BY <3>1 DEF NoEntry
      <3>2. CASE waitlist_entries'[c] = [waitlist_entries[c] EXCEPT !.pend = waitlist_entries[c].status, !.lock = None]
        BY <1>1, <3>2 DEF EntryRow
      <3>. QED  BY <2>2, <2>3, <3>1, <3>2
    <2>4. RowsRolledBack(EntryIds, waitlist_entries, waitlist_entries', EntryKey, EntryKey', {"active", "notified"}, p)
      BY <1>2, <2>1, <2>3 DEF RowsRolledBack
    <2>. QED  BY <1>1, <2>4, RollbackKeeps DEF EntryIndex
  <1>. QED  BY <1>3, <1>4

\* ExpireBatch updates many reservations at once.
LEMMA ReservationExpire ==
    ASSUME TypeInv, ReservationIndex, NEW p \in Procs, NEW batch \in SUBSET Due(p),
           slot_reservations' = [r \in ReservationIds |->
              IF r \in batch THEN [slot_reservations[r] EXCEPT !.pend = "expired", !.lock = p]
                             ELSE slot_reservations[r]]
    PROVE  ReservationIndex'
  <1>1. slot_reservations \in [ReservationIds -> ReservationRow] /\ p # None
    BY ConstantsAssumption DEF TypeInv, TypeOK
  <1>2. \A c \in ReservationIds :
          ReservationKey[c] = slot_reservations[c].slot /\ ReservationKey'[c] = slot_reservations'[c].slot
    BY DEF ReservationKey
  <1>3. ASSUME NEW c \in ReservationIds, c \in batch
        PROVE  /\ slot_reservations'[c].slot = slot_reservations[c].slot
               /\ slot_reservations'[c].status = slot_reservations[c].status
               /\ slot_reservations'[c].lock = p /\ slot_reservations'[c].pend = "expired"
               /\ slot_reservations[c].lock \in {None, p}
    BY <1>1, <1>3 DEF ReservationRow, Due, LockFree
  <1>4. \A c \in ReservationIds : c \notin batch => slot_reservations'[c] = slot_reservations[c]
    OBVIOUS
  <1>5. RowsUpdated(ReservationIds, slot_reservations, slot_reservations', ReservationKey,
                    ReservationKey', {"active"}, p)
    BY <1>2, <1>3, <1>4 DEF RowsUpdated
  <1>. QED  BY <1>1, <1>5, UpdateKeeps DEF ReservationIndex

-----------------------------------------------------------------------------
(* UPDATE slot_reservations is only executed on a row the transaction has  *)
(* locked before: SetReservation has no condition on the lock of its own.  *)

MustHold(t) == \/ t.at_stmt \in {"setConfirmed", "setCancelled"}
               \/ t.op = "confirm" /\ t.at_stmt \in {"lockBooking", "waitBooking", "insertBooking"}

HoldsReservation ==
    \A p \in Procs : MustHold(tx[p]) => slot_reservations[tx[p].rv].lock = p

IndexInv == TypeInv /\ HoldsReservation /\ IndexesProtected

\* A step of p touches no reservation that somebody else has locked.
RespectsLocks(p) ==
    \A r \in ReservationIds :
        slot_reservations[r].lock \notin {None, p} => slot_reservations'[r] = slot_reservations[r]

\* A statement never takes the row lock of a reservation from its holder.
LEMMA StatementRespectsLocks ==
    ASSUME TypeInv, HoldsReservation, NEW p \in Procs, Statement(p)
    PROVE  RespectsLocks(p)
  <1>1. slot_reservations \in [ReservationIds -> ReservationRow] /\ RefsOK
    BY DEF TypeInv, TypeOK
  <1>2. CASE UNCHANGED slot_reservations
    BY <1>2 DEF RespectsLocks
  <1>3. ASSUME NEW r, LockFree(slot_reservations, r, p),
               slot_reservations' = Locked(slot_reservations, r, p)
        PROVE  RespectsLocks(p)
    BY <1>1, <1>3 DEF RespectsLocks, LockFree, Locked
  <1>4. CASE InsertReservation(p)
    BY <1>1, <1>4, FreshIdIsFresh DEF InsertReservation, RespectsLocks, IsFresh
  <1>5. CASE SetConfirmed(p) \/ SetCancelled(p)
    <2>1. slot_reservations[tx[p].rv].lock = p
      BY <1>5 DEF SetConfirmed, SetCancelled, At, HoldsReservation, MustHold
    <2>2. \E st : slot_reservations' \in {slot_reservations, Written(slot_reservations, tx[p].rv, p, st)}
      BY <1>5 DEF SetConfirmed, SetCancelled, SetReservation
    <2>. QED  BY <1>1, <2>1, <2>2 DEF RespectsLocks, Written
  <1>6. CASE ExpireBatch(p)
    <2>1. PICK batch \in Batches(p) :
            slot_reservations' = [r \in ReservationIds |->
               IF r \in batch THEN [slot_reservations[r] EXCEPT !.pend = "expired", !.lock = p]
                              ELSE slot_reservations[r]]
      BY <1>6 DEF ExpireBatch
    <2>2. \A r \in batch : slot_reservations[r].lock \in {None, p}
      BY DEF Batches, FirstOf, Due, LockFree
    <2>. QED  BY <2>1, <2>2 DEF RespectsLocks
  <1>7. CASE CheckReservation(p) \/ WaitReservation(p) \/ LockReservation(p)
    BY <1>2, <1>3, <1>7 DEF CheckReservation, WaitReservation, LockReservation
  <1>. QED
    BY <1>2, <1>4, <1>5, <1>6, <1>7
    DEF Statement, InsertBooking, UpdateBooking, Claim, ClaimForExpired, LockBooking, WaitBooking,
        InsertEntry

\* The others keep what they hold.
LEMMA OthersHold ==
    ASSUME TypeInv, HoldsReservation, NEW p \in Procs, RespectsLocks(p),
           \A q \in Procs \ {p} : tx'[q] = tx[q],
           MustHold(tx'[p]) => slot_reservations'[tx'[p].rv].lock = p
    PROVE  HoldsReservation'
  <1>1. ASSUME NEW q \in Procs \ {p}, MustHold(tx'[q])
        PROVE  slot_reservations'[tx'[q].rv].lock = q
    <2>1. slot_reservations[tx[q].rv].lock = q /\ MustHold(tx[q]) /\ tx'[q] = tx[q]
      BY <1>1 DEF HoldsReservation
    <2>2. tx[q].rv \in ReservationIds
      BY <2>1 DEF TypeInv, RefsOK, MustHold
    <2>3. q \notin {None, p}
      BY ConstantsAssumption
    <2>. QED  BY <2>1, <2>2, <2>3 DEF RespectsLocks
  <1>. QED  BY <1>1 DEF HoldsReservation, MustHold

\* What Goto does to the locals of p, and that it touches nobody else.
LEMMA GotoEffect ==
    ASSUME TypeInv, NEW p \in Procs, NEW stage \in Stages, Goto(p, stage)
    PROVE  /\ \A q \in Procs \ {p} : tx'[q] = tx[q]
           /\ tx'[p].at_stmt = stage
           /\ stage \notin {"rollback", "commit"} =>
                tx'[p].op = tx[p].op /\ tx'[p].rv = tx[p].rv
  <1>1. tx \in [Procs -> Locals] /\ tx' = [tx EXCEPT ![p] = Continue(tx[p], stage)]
    BY DEF Goto, TypeInv, TypeOK
  <1>2. tx'[p] = Continue(tx[p], stage) /\ tx[p] \in Locals
    BY <1>1
  <1>3. CASE stage \in {"rollback", "commit"}
    BY <1>1, <1>2, <1>3 DEF Continue, NoTx
  <1>4. CASE stage \notin {"rollback", "commit"}
    BY <1>1, <1>2, <1>4 DEF Continue, Locals
  <1>. QED  BY <1>3, <1>4

\* What ClaimNextForNotify does to the locals of p, and that it touches nobody else's.
LEMMA ClaimEffect ==
    ASSUME TypeInv, NEW p \in Procs, NEW s, NEW t \in Locals, ClaimNextForNotify(p, s, t)
    PROVE  /\ \A q \in Procs \ {p} : tx'[q] = tx[q]
           /\ tx'[p].at_stmt \in {"claim", "commit", "insertReservation"}
           /\ t.op # "confirm" => tx'[p].op # "confirm"
  <1>1. tx \in [Procs -> Locals]
    BY DEF TypeInv, TypeOK
  <1>2. CASE tx' = [tx EXCEPT ![p] = Continue(t, AfterClaim(t))]
    <2>1. tx'[p] = Continue(t, AfterClaim(t)) /\ AfterClaim(t) \in {"claim", "commit"}
      BY <1>1, <1>2 DEF AfterClaim
    <2>2. Continue(t, AfterClaim(t)).at_stmt = AfterClaim(t) /\ Continue(t, AfterClaim(t)).op = t.op
      BY <2>1 DEF Continue, NoTx, Locals
    <2>. QED  BY <1>1, <1>2, <2>1, <2>2
  <1>3. ASSUME NEW e, tx' = [tx EXCEPT ![p] = [t EXCEPT !.at_stmt = "insertReservation", !.en = e]]
        PROVE  /\ \A q \in Procs \ {p} : tx'[q] = tx[q]
               /\ tx'[p].at_stmt = "insertReservation" /\ tx'[p].op = t.op
    BY <1>1, <1>3 DEF Locals
  <1>. QED  BY <1>2, <1>3 DEF ClaimNextForNotify

\* A statement of p leaves p with the lock that p needs next.
LEMMA StatementHolds ==
    ASSUME TypeInv, HoldsReservation, NEW p \in Procs, Statement(p)
    PROVE  HoldsReservation'
  <1>0. /\ tx \in [Procs -> Locals] /\ tx[p] \in Locals /\ RefsOK
        /\ slot_reservations \in [ReservationIds -> ReservationRow] /\ now \in Nat
    BY DEF TypeInv, TypeOK
  <1>. SUFFICES /\ \A q \in Procs \ {p} : tx'[q] = tx[q]
                /\ MustHold(tx'[p]) => slot_reservations'[tx'[p].rv].lock = p
    BY StatementRespectsLocks, OthersHold
  <1>1. CASE CheckReservation(p)
    <2>1. tx[p].op # "confirm"
      BY <1>0, <1>1 DEF CheckReservation, At, RefsOK
    <2>2. CASE \E r : tx' = [tx EXCEPT ![p].at_stmt = "waitReservation", ![p].rv = r]
      BY <1>0, <2>2 DEF MustHold, Locals
    <2>3. CASE Goto(p, "insertBooking") \/ Goto(p, "rollback")
      BY <2>1, <2>3, GotoEffect DEF MustHold, Stages
    <2>. QED  BY <1>1, <2>2, <2>3 DEF CheckReservation
  <1>2. CASE WaitReservation(p)
    <2>1. tx[p].op # "confirm"
      BY <1>0, <1>2 DEF WaitReservation, At, RefsOK
    <2>2. Goto(p, "insertBooking") \/ Goto(p, "rollback")
      BY <1>2 DEF WaitReservation
    <2>. QED  BY <2>1, <2>2, GotoEffect DEF MustHold, Stages
  <1>3. CASE InsertBooking(p)
    <2>1. tx[p].op = "confirm" => slot_reservations[tx[p].rv].lock = p
      BY <1>3 DEF InsertBooking, At, HoldsReservation, MustHold
    <2>2. \/ Goto(p, "rollback") \/ Goto(p, "commit")
          \/ Goto(p, "setConfirmed") /\ tx[p].op = "confirm"
      BY <1>3 DEF InsertBooking
    <2>3. UNCHANGED slot_reservations
      BY <1>3 DEF InsertBooking
    <2>. QED  BY <2>1, <2>2, <2>3, GotoEffect DEF MustHold, Stages
  <1>4. CASE LockBooking(p) \/ WaitBooking(p)
    <2>1. tx[p].op = "confirm" => slot_reservations[tx[p].rv].lock = p
      BY <1>4 DEF LockBooking, WaitBooking, At, HoldsReservation, MustHold
    <2>2. UNCHANGED slot_reservations
      BY <1>4 DEF LockBooking, WaitBooking
    <2>3. CASE \E b : tx' = [tx EXCEPT ![p].at_stmt = "waitBooking", ![p].bk = b]
      <3>1. /\ tx'[p].op = tx[p].op /\ tx'[p].rv = tx[p].rv /\ tx'[p].at_stmt = "waitBooking"
            /\ \A q \in Procs \ {p} : tx'[q] = tx[q]
        BY <1>0, <2>3 DEF Locals
      <3>. QED  BY <2>1, <2>2, <3>1 DEF MustHold
    <2>4. CASE Goto(p, "rollback") \/ Goto(p, "insertBooking") \/ Goto(p, "insertEntry")
      BY <2>1, <2>2, <2>4, GotoEffect DEF MustHold, Stages
    <2>. QED  BY <1>4, <2>3, <2>4 DEF LockBooking, WaitBooking, WithBooking, WithoutBooking
  <1>5. CASE LockReservation(p)
    <2>1. tx[p].rv \in ReservationIds
      BY <1>0, <1>5 DEF LockReservation, At, RefsOK
    <2>2. slot_reservations'[tx[p].rv].lock = p
      BY <1>0, <1>5, <2>1 DEF LockReservation, Locked, ReservationRow
    <2>3. \/ Goto(p, "rollback") \/ Goto(p, "commit")
          \/ Goto(p, "lockBooking") \/ Goto(p, "setCancelled")
      BY <1>5 DEF LockReservation, WithReservation
    <2>. QED  BY <2>2, <2>3, GotoEffect DEF MustHold, Stages
  <1>6. CASE Claim(p)
    <2>. DEFINE t == [tx[p] EXCEPT !.at = IF tx[p].op = "cancel" THEN now ELSE tx[p].at]
    <2>1. t \in Locals
      BY <1>0 DEF Locals
    <2>2. ClaimNextForNotify(p, tx[p].slot, t)
      BY <1>6 DEF Claim
    <2>. HIDE DEF t
    <2>. QED  BY <2>1, <2>2, ClaimEffect DEF MustHold
  <1>7. CASE ClaimForExpired(p)
    <2>1. PICK r \in tx[p].due :
            ClaimNextForNotify(p, slot_reservations[r].slot,
              [tx[p] EXCEPT !.slot = slot_reservations[r].slot, !.due = tx[p].due \ {r}])
      BY <1>7 DEF ClaimForExpired
    <2>. DEFINE t == [tx[p] EXCEPT !.slot = slot_reservations[r].slot, !.due = tx[p].due \ {r}]
    <2>2. t \in Locals
      BY <1>0 DEF Locals, ReservationRow
    <2>. QED  BY <2>1, <2>2, ClaimEffect DEF MustHold
  <1>8. CASE ExpireBatch(p)
    <2>1. PICK batch \in Batches(p) :
            tx' = [tx EXCEPT ![p] = Continue([tx[p] EXCEPT !.due = batch],
                                             AfterClaim([tx[p] EXCEPT !.due = batch]))]
      BY <1>8 DEF ExpireBatch
    <2>. DEFINE t == [tx[p] EXCEPT !.due = batch]
    <2>2. batch \subseteq ReservationIds
      BY DEF Batches, FirstOf, Due
    <2>3. t \in Locals /\ t.op = tx[p].op /\ AfterClaim(t) \in {"claim", "commit"}
      BY <1>0, <2>2 DEF Locals, AfterClaim
    <2>. HIDE DEF t
    <2>4. Continue(t, AfterClaim(t)).at_stmt = AfterClaim(t)
      BY <2>3 DEF Continue, NoTx, Locals
    <2>5. tx'[p] = Continue(t, AfterClaim(t)) /\ \A q \in Procs \ {p} : tx'[q] = tx[q]
      BY <1>0, <2>1 DEF t
    <2>6. tx'[p].at_stmt \in {"claim", "commit"}
      BY <2>3, <2>4, <2>5
    <2>7. tx[p].op # "confirm"
      BY <1>0, <1>8 DEF ExpireBatch, At, RefsOK
    <2>. QED  BY <2>5, <2>6 DEF MustHold
  <1>9. CASE \/ UpdateBooking(p) \/ InsertReservation(p) \/ InsertEntry(p) \/ SetConfirmed(p)
             \/ SetCancelled(p)
    <2>1. Goto(p, "rollback") \/ Goto(p, "commit") \/ Goto(p, "claim")
      BY <1>9
      DEF UpdateBooking, InsertReservation, AfterClaim, InsertEntry, SetConfirmed, SetCancelled
    <2>. QED  BY <2>1, GotoEffect DEF MustHold, Stages
  <1>. QED  BY <1>1, <1>2, <1>3, <1>4, <1>5, <1>6, <1>7, <1>8, <1>9 DEF Statement

-----------------------------------------------------------------------------
(* Every step keeps the indexes. *)

\* A step that leaves the tables alone keeps the indexes protected.
LEMMA UnchangedTables ==
    /\ UNCHANGED bookings /\ BookingIndex => BookingIndex'
    /\ UNCHANGED slot_reservations /\ ReservationIndex => ReservationIndex'
    /\ UNCHANGED waitlist_entries /\ EntryIndex => EntryIndex'
  <1>1. ASSUME UNCHANGED bookings, BookingIndex  PROVE BookingIndex'
    <2>1. BookingKey' = BookingKey
      BY <1>1 DEF BookingKey
    <2>. QED  BY <1>1, <2>1 DEF BookingIndex, IndexProtected
  <1>2. ASSUME UNCHANGED slot_reservations, ReservationIndex  PROVE ReservationIndex'
    <2>1. ReservationKey' = ReservationKey
      BY <1>2 DEF ReservationKey
    <2>. QED  BY <1>2, <2>1 DEF ReservationIndex, IndexProtected
  <1>3. ASSUME UNCHANGED waitlist_entries, EntryIndex  PROVE EntryIndex'
    <2>1. EntryKey' = EntryKey
      BY <1>3 DEF EntryKey
    <2>. QED  BY <1>3, <2>1 DEF EntryIndex, IndexProtected
  <1>. QED  BY <1>1, <1>2, <1>3

\* SELECT ... FOR UPDATE and CancelBooking's UPDATE of bookings.
LEMMA StatementKeepsBookings ==
    ASSUME TypeInv, BookingIndex, NEW p \in Procs, Statement(p)
    PROVE  BookingIndex'
  <1>0. bookings \in [BookingIds -> BookingRow]
    BY DEF TypeInv, TypeOK
  <1>1. CASE UNCHANGED bookings
    BY <1>1, UnchangedTables
  <1>2. ASSUME NEW b, LockFree(bookings, b, p),
               \/ bookings' = Locked(bookings, b, p)
               \/ bookings' = Written(bookings, b, p, "cancelled")
        PROVE  BookingIndex'
    <2>1. CASE b \in BookingIds
      BY <1>2, <2>1, BookingUpdate
    <2>2. CASE b \notin BookingIds
      <3>1. bookings' = bookings
        BY <1>0, <1>2, <2>2 DEF Locked, Written
      <3>. QED  BY <1>1, <3>1
    <2>. QED  BY <2>1, <2>2
  <1>3. CASE InsertBooking(p)
    <2>. DEFINE row == [user |-> tx[p].user, slot |-> tx[p].slot,
                        status |-> "absent", pend |-> "active", lock |-> p]
    <2>1. row.status = "absent" /\ row.lock = p /\ row.slot = tx[p].slot
      OBVIOUS
    <2>2. \/ UNCHANGED bookings
          \/ /\ Awaited(bookings, BookingsOf(tx[p].slot), p, {"active"}) = {}
             /\ ~Taken(bookings, BookingsOf(tx[p].slot), p, {"active"})
             /\ HasFresh(bookings)
             /\ bookings' = [bookings EXCEPT ![FreshId(bookings)] = row]
      BY <1>3 DEF InsertBooking
    <2>. HIDE DEF row
    <2>. QED  BY <1>1, <2>1, <2>2, BookingInsert
  <1>4. CASE UpdateBooking(p) \/ LockBooking(p) \/ WaitBooking(p)
    BY <1>1, <1>2, <1>4 DEF UpdateBooking, LockBooking, WaitBooking
  <1>. QED
    BY <1>1, <1>3, <1>4
    DEF Statement, CheckReservation, WaitReservation, Claim, ClaimForExpired, InsertReservation,
        InsertEntry, LockReservation, SetConfirmed, SetCancelled, ExpireBatch

\* The claim's UPDATE and JoinWaitlist's INSERT.
LEMMA StatementKeepsEntries ==
    ASSUME TypeInv, EntryIndex, NEW p \in Procs, Statement(p)
    PROVE  EntryIndex'
  <1>1. CASE UNCHANGED waitlist_entries
    BY <1>1, UnchangedTables
  <1>2. ASSUME NEW s, NEW t, ClaimNextForNotify(p, s, t)  PROVE EntryIndex'
    <2>1. ASSUME NEW e \in NextEntries(s, p),
                 waitlist_entries' = Written(waitlist_entries, e, p, "notified")
          PROVE  EntryIndex'
      <3>1. /\ e \in EntryIds /\ LockFree(waitlist_entries, e, p)
            /\ View(waitlist_entries, e, p) = "active"
        BY DEF NextEntries, Claimable, Waiting
      <3>. QED  BY <2>1, <3>1, EntryUpdate
    <2>. QED  BY <1>1, <1>2, <2>1 DEF ClaimNextForNotify
  <1>3. CASE InsertEntry(p)
    <2>. DEFINE row(n) == [user |-> tx[p].user, slot |-> tx[p].slot, position |-> n,
                           status |-> "absent", pend |-> "active", lock |-> p]
    <2>1. \/ UNCHANGED waitlist_entries
          \/ /\ Awaited(waitlist_entries, EntriesOf(tx[p].slot, tx[p].user), p,
                        {"active", "notified"}) = {}
             /\ ~Taken(waitlist_entries, EntriesOf(tx[p].slot, tx[p].user), p,
                       {"active", "notified"})
             /\ HasFresh(waitlist_entries)
             /\ \E n \in NextPositions :
                  waitlist_entries' =
                    [waitlist_entries EXCEPT ![FreshId(waitlist_entries)] = row(n)]
      BY <1>3 DEF InsertEntry
    <2>2. \A n : /\ row(n).status = "absent" /\ row(n).lock = p
                 /\ row(n).slot = tx[p].slot /\ row(n).user = tx[p].user
      OBVIOUS
    <2>. HIDE DEF row
    <2>. QED  BY <1>1, <2>1, <2>2, EntryInsert
  <1>4. CASE Claim(p) \/ ClaimForExpired(p)
    BY <1>2, <1>4 DEF Claim, ClaimForExpired
  <1>. QED
    BY <1>1, <1>3, <1>4
    DEF Statement, CheckReservation, WaitReservation, InsertBooking, UpdateBooking,
        InsertReservation, LockBooking, WaitBooking, LockReservation, SetConfirmed, SetCancelled,
        ExpireBatch

\* Every statement keeps uq_slot_reservations_active_slot.
LEMMA StatementKeepsReservations ==
    ASSUME TypeInv, HoldsReservation, ReservationIndex, NEW p \in Procs, Statement(p)
    PROVE  ReservationIndex'
  <1>0. slot_reservations \in [ReservationIds -> ReservationRow] /\ RefsOK
    BY DEF TypeInv, TypeOK
  <1>1. CASE UNCHANGED slot_reservations
    BY <1>1, UnchangedTables
  <1>2. ASSUME NEW r, LockFree(slot_reservations, r, p),
               slot_reservations' = Locked(slot_reservations, r, p)
        PROVE  ReservationIndex'
    <2>1. CASE r \in ReservationIds
      BY <1>2, <2>1, ReservationUpdate
    <2>2. CASE r \notin ReservationIds
      <3>1. slot_reservations' = slot_reservations
        BY <1>0, <1>2, <2>2 DEF Locked
      <3>. QED  BY <1>1, <3>1
    <2>. QED  BY <2>1, <2>2
  <1>3. ASSUME NEW st \in {"confirmed", "cancelled"}, SetReservation(p, st),
               At(p, "setConfirmed") \/ At(p, "setCancelled")
        PROVE  ReservationIndex'
    <2>1. tx[p].rv \in ReservationIds
      BY <1>0, <1>3 DEF At, RefsOK
    <2>2. LockFree(slot_reservations, tx[p].rv, p)
      BY <1>3 DEF At, HoldsReservation, MustHold, LockFree
    <2>3. \/ UNCHANGED slot_reservations
          \/ slot_reservations' = Written(slot_reservations, tx[p].rv, p, st)
      BY <1>3 DEF SetReservation
    <2>. QED  BY <1>1, <2>1, <2>2, <2>3, ReservationUpdate
  <1>4. CASE InsertReservation(p)
    <2>. DEFINE row == [user |-> waitlist_entries[tx[p].en].user, slot |-> tx[p].slot,
                        entry |-> tx[p].en, expires_at |-> ExpiresAt(tx[p]),
                        status |-> "absent", pend |-> "active", lock |-> p]
    <2>1. row.status = "absent" /\ row.lock = p /\ row.slot = tx[p].slot
      OBVIOUS
    <2>2. \/ UNCHANGED slot_reservations
          \/ /\ Awaited(slot_reservations, ReservationsOf(tx[p].slot), p, {"active"}) = {}
             /\ ~Taken(slot_reservations, ReservationsOf(tx[p].slot), p, {"active"})
             /\ HasFresh(slot_reservations)
             /\ slot_reservations' =
                  [slot_reservations EXCEPT ![FreshId(slot_reservations)] = row]
      BY <1>4 DEF InsertReservation
    <2>. HIDE DEF row
    <2>. QED  BY <1>1, <2>1, <2>2, ReservationInsert
  <1>5. CASE ExpireBatch(p)
    <2>1. PICK batch \in Batches(p) :
            slot_reservations' = [r \in ReservationIds |->
               IF r \in batch THEN [slot_reservations[r] EXCEPT !.pend = "expired", !.lock = p]
                              ELSE slot_reservations[r]]
      BY <1>5 DEF ExpireBatch
    <2>2. batch \in SUBSET Due(p)
      BY DEF Batches, FirstOf
    <2>. QED  BY <2>1, <2>2, ReservationExpire
  <1>6. CASE SetConfirmed(p) \/ SetCancelled(p)
    BY <1>3, <1>6 DEF SetConfirmed, SetCancelled
  <1>7. CASE CheckReservation(p) \/ WaitReservation(p) \/ LockReservation(p)
    BY <1>1, <1>2, <1>7 DEF CheckReservation, WaitReservation, LockReservation
  <1>. QED
    BY <1>1, <1>4, <1>5, <1>6, <1>7
    DEF Statement, InsertBooking, UpdateBooking, Claim, ClaimForExpired, LockBooking, WaitBooking,
        InsertEntry

\* A use case that begins holds nothing and needs no lock yet.
LEMMA BeginHolds ==
    ASSUME TypeInv, HoldsReservation, NEW p \in Procs, NEW t, Begin(p, t), ~MustHold(t),
           UNCHANGED slot_reservations
    PROVE  HoldsReservation'
  <1>1. tx \in [Procs -> Locals] /\ tx' = [tx EXCEPT ![p] = t]
    BY DEF Begin, TypeInv, TypeOK
  <1>2. tx'[p] = t /\ \A q \in Procs \ {p} : tx'[q] = tx[q]
    BY <1>1
  <1>3. RespectsLocks(p)
    BY DEF RespectsLocks
  <1>. QED  BY <1>2, <1>3, OthersHold

\* The beginning of a use case keeps the indexes protected.
LEMMA RequestKeeps ==
    ASSUME IndexInv, NEW p \in Procs, Request(p)
    PROVE  HoldsReservation' /\ IndexesProtected'
  <1>0. TypeInv /\ HoldsReservation /\ BookingIndex /\ ReservationIndex /\ EntryIndex
    BY DEF IndexInv, IndexesProtected
  <1>1. ASSUME NEW t, Begin(p, t), ~MustHold(t), UNCHANGED tables
        PROVE  HoldsReservation' /\ IndexesProtected'
    BY <1>0, <1>1, BeginHolds, UnchangedTables DEF tables, IndexesProtected
  <1>2. ASSUME NEW u \in Users, NEW s \in Slots, StartCreate(p, u, s) \/ StartJoin(p, u, s)
        PROVE  HoldsReservation' /\ IndexesProtected'
    BY <1>1, <1>2 DEF StartCreate, StartJoin, MustHold, NoTx
  <1>3. ASSUME NEW u \in Users, NEW b \in BookingIds, StartCancel(p, u, b)
        PROVE  HoldsReservation' /\ IndexesProtected'
    BY <1>1, <1>3 DEF StartCancel, MustHold, NoTx
  <1>4. ASSUME NEW u \in Users, NEW r \in ReservationIds, NEW op, StartOnReservation(p, u, r, op)
        PROVE  HoldsReservation' /\ IndexesProtected'
    BY <1>1, <1>4 DEF StartOnReservation, MustHold, NoTx
  <1>5. ASSUME NEW u \in Users, NEW e \in EntryIds, LeaveWaitlist(p, u, e)
        PROVE  HoldsReservation' /\ IndexesProtected'
    <2>1. EntryIndex'
      BY <1>0, <1>5, EntryUpdate DEF LeaveWaitlist
    <2>2. HoldsReservation'
      <3>. DEFINE t == [NoTx EXCEPT !.op = "leave", !.at_stmt = "commit"]
      <3>1. ~MustHold(t)
        BY DEF MustHold, NoTx
      <3>2. Begin(p, t) /\ UNCHANGED slot_reservations
        BY <1>5 DEF LeaveWaitlist
      <3>. QED  BY <1>0, <3>1, <3>2, BeginHolds
    <2>. QED  BY <1>0, <1>5, <2>1, <2>2, UnchangedTables DEF LeaveWaitlist, IndexesProtected
  <1>. QED
    BY <1>2, <1>3, <1>4, <1>5 DEF Request, StartConfirm, StartCancelReservation

\* COMMIT and ROLLBACK give up all locks of p and nobody else's.
LEMMA EndKeeps ==
    ASSUME IndexInv, NEW p \in Procs, Commit(p) \/ UndoAll(p)
    PROVE  HoldsReservation' /\ IndexesProtected'
  <1>0. TypeInv /\ HoldsReservation /\ BookingIndex /\ ReservationIndex /\ EntryIndex
    BY DEF IndexInv, IndexesProtected
  <1>1. IndexesProtected'
    BY <1>0, BookingEnd, ReservationEnd, EntryEnd DEF Commit, UndoAll, IndexesProtected
  <1>2. RespectsLocks(p)
    <2>1. slot_reservations \in [ReservationIds -> ReservationRow]
      BY <1>0 DEF TypeInv, TypeOK
    <2>2. CASE slot_reservations' = CommittedTable(slot_reservations, p)
      BY <2>1, <2>2 DEF CommittedTable, RespectsLocks
    <2>3. CASE slot_reservations' = RolledBackTable(slot_reservations, p, NoReservation)
      BY <2>1, <2>3 DEF RolledBackTable, RespectsLocks
    <2>. QED  BY <2>2, <2>3 DEF Commit, UndoAll
  <1>3. HoldsReservation'
    <2>1. tx \in [Procs -> Locals] /\ tx' = [tx EXCEPT ![p] = NoTx]
      BY <1>0 DEF TypeInv, TypeOK, Commit, UndoAll
    <2>2. tx'[p] = NoTx /\ \A q \in Procs \ {p} : tx'[q] = tx[q]
      BY <2>1
    <2>3. ~MustHold(NoTx)
      BY DEF MustHold, NoTx
    <2>. QED  BY <1>0, <1>2, <2>2, <2>3, OthersHold
  <1>. QED  BY <1>1, <1>3

\* The empty tables satisfy IndexInv.
LEMMA InitIndexInv == Init => IndexInv
  <1>. SUFFICES ASSUME Init PROVE IndexInv
    OBVIOUS
  <1>1. TypeInv
    BY InitTypeInv
  <1>2. HoldsReservation
    BY DEF Init, HoldsReservation, MustHold, NoTx
  <1>3. IndexesProtected
    BY DEF Init, IndexesProtected, BookingIndex, ReservationIndex, EntryIndex, IndexProtected,
           NoBooking, NoReservation, NoEntry
  <1>. QED  BY <1>1, <1>2, <1>3 DEF IndexInv

\* IndexInv is inductive.
LEMMA NextIndexInv == IndexInv /\ [Next]_vars => IndexInv'
  <1>. SUFFICES ASSUME IndexInv, [Next]_vars PROVE IndexInv'
    OBVIOUS
  <1>0. TypeInv /\ HoldsReservation /\ BookingIndex /\ ReservationIndex /\ EntryIndex
    BY DEF IndexInv, IndexesProtected
  <1>1. TypeInv'
    BY <1>0, NextTypeInv
  <1>. SUFFICES HoldsReservation' /\ IndexesProtected'
    BY <1>1 DEF IndexInv
  <1>2. ASSUME NEW p \in Handlers, Request(p)  PROVE HoldsReservation' /\ IndexesProtected'
    BY <1>2, RequestKeeps DEF Procs
  <1>3. ASSUME NEW p \in Workers, StartExpire(p)  PROVE HoldsReservation' /\ IndexesProtected'
    <2>. DEFINE t == [NoTx EXCEPT !.op = "expire", !.at_stmt = "expireBatch", !.at = now]
    <2>1. ~MustHold(t)
      BY DEF MustHold, NoTx
    <2>2. p \in Procs /\ Begin(p, t) /\ UNCHANGED tables
      BY <1>3 DEF StartExpire, Procs
    <2>3. HoldsReservation'
      BY <1>0, <2>1, <2>2, BeginHolds DEF tables
    <2>. QED  BY <1>0, <2>2, <2>3, UnchangedTables DEF tables, IndexesProtected
  <1>4. ASSUME NEW p \in Procs, Statement(p)  PROVE HoldsReservation' /\ IndexesProtected'
    BY <1>0, <1>4, StatementHolds, StatementKeepsBookings, StatementKeepsEntries,
       StatementKeepsReservations
    DEF IndexesProtected
  <1>5. ASSUME NEW p \in Procs, Commit(p) \/ UndoAll(p)
        PROVE  HoldsReservation' /\ IndexesProtected'
    BY <1>5, EndKeeps
  <1>6. CASE Tick \/ UNCHANGED vars
    <2>1. UNCHANGED <<bookings, waitlist_entries, slot_reservations, tx>>
      BY <1>6 DEF Tick, vars, tables
    <2>2. HoldsReservation'
      BY <1>0, <2>1 DEF HoldsReservation, MustHold
    <2>. QED  BY <1>0, <2>1, <2>2, UnchangedTables DEF IndexesProtected
  <1>. QED  BY <1>2, <1>3, <1>4, <1>5, <1>6 DEF Next, Rollback, Abort

\* IndexInv holds in every reachable state.
LEMMA AlwaysIndexInv == Spec => []IndexInv
  BY InitIndexInv, NextIndexInv, PTL DEF Spec

\* The uniqueness checks of the INSERTs of CreateBooking, ConfirmReservation,
\* JoinWaitlist and of the claims, which wait for every undecided row with the
\* same key, protect the three partial unique indexes at every statement.
THEOREM IndexesAlwaysProtected == Spec => []IndexesProtected
  <1>1. IndexInv => IndexesProtected
    BY DEF IndexInv
  <1>. QED  BY <1>1, AlwaysIndexInv, PTL

\* No interleaving of CreateBooking, CancelBooking and ConfirmReservation gives
\* a slot two active bookings.
THEOREM NoDoubleBooking == Spec => []OneActiveBookingPerSlot
  <1>1. IndexInv => OneActiveBookingPerSlot
    <2>. SUFFICES ASSUME IndexInv, NEW s \in Slots, NEW b \in BookingsOf(s), NEW c \in BookingsOf(s),
                         bookings[b].status = "active", bookings[c].status = "active"
                  PROVE  b = c
      BY DEF OneActiveBookingPerSlot
    <2>1. b \in BookingIds /\ c \in BookingIds /\ BookingKey[b] = BookingKey[c]
      BY DEF BookingsOf, BookingKey
    <2>. QED  BY <2>1 DEF IndexInv, IndexesProtected, BookingIndex, IndexProtected
  <1>. QED  BY <1>1, AlwaysIndexInv, PTL

\* No interleaving of CancelBooking, CancelReservation and ExpireDue offers a
\* slot to two waiters at once.
THEOREM NoDoubleReservation == Spec => []OneActiveReservationPerSlot
  <1>1. IndexInv => OneActiveReservationPerSlot
    <2>. SUFFICES ASSUME IndexInv, NEW s \in Slots,
                         NEW r \in ReservationsOf(s), NEW q \in ReservationsOf(s),
                         slot_reservations[r].status = "active",
                         slot_reservations[q].status = "active"
                  PROVE  r = q
      BY DEF OneActiveReservationPerSlot
    <2>1. r \in ReservationIds /\ q \in ReservationIds /\ ReservationKey[r] = ReservationKey[q]
      BY DEF ReservationsOf, ReservationKey
    <2>. QED  BY <2>1 DEF IndexInv, IndexesProtected, ReservationIndex, IndexProtected
  <1>. QED  BY <1>1, AlwaysIndexInv, PTL
=============================================================================
