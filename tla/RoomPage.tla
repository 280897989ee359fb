------------------------------ MODULE RoomPage ------------------------------
(***************************************************************************)
(* How a change reaches the browser that shows the slots of a room: the    *)
(* use cases publish events after COMMIT, Redis hands them to the          *)
(* subscriber of the process that holds the websocket, and the page loads  *)
(* the slots again when it sees one.                                       *)
(*                                                                         *)
(* The tables are a version that every commit raises.  The hub is what     *)
(* RealtimeHub shows it to be: an event for a subscribed client is queued  *)
(* or the connection is closed.  In the browser an action is one task of   *)
(* the event loop, or one React commit with the effects that follow it.    *)
(* The user stays logged in and looks at one room and one date.            *)
(***************************************************************************)
EXTENDS Integers, Sequences, FiniteSets

CONSTANTS
    Servers,        \* goroutines that run use cases
    UseCases,       \* outcomes of use cases that change the slots of the room
    MaxFetches,     \* bound on the requests for slots the page has under way
    MaxVersion,     \* bound on the commits
    MaxQueue,       \* bound on messages on their way between server and browser
    None

ASSUME ConstantsAssumption ==
    /\ MaxFetches \in Nat \ {0} /\ MaxVersion \in Nat /\ MaxQueue \in Nat \ {0}
    /\ None \notin Int

VARIABLES
    version,        \* commits that changed a slot of the room
    outbox,         \* per goroutine: events of its last commit not published yet
    subscriber,     \* RedisSubscriber.Run: "subscribed", or waiting to retry
    channel,        \* events published and not handled by the subscriber
    conn,           \* the server's end of the websocket: open, subscribed to the room
    requests, wire, \* messages to and from the server
    socket, reconnectTimer, activeRoomId,   \* fields of RealtimeWsClient
    lastEvent,          \* state of RealtimeProvider
    activeReservation,  \* and whether it asks the user about a reservation of this room
    rendered,       \* the page's effect has run for lastEvent
    mounted,        \* RoomDetailsPage is on the screen
    timers,         \* its setTimeout callbacks: of the first load, of a refresh
    fetches,        \* its calls of listRoomSlots
    shown,          \* the version of the slots it shows
    missed          \* history: it may have missed a change

server == <<version, outbox, subscriber, channel>>
connection == <<conn, requests, wire, socket, reconnectTimer, activeRoomId>>
page == <<lastEvent, activeReservation, rendered, mounted, timers, fetches, shown>>
vars == <<version, outbox, subscriber, channel, conn, requests, wire, socket, reconnectTimer,
          activeRoomId, lastEvent, activeReservation, rendered, mounted, timers, fetches,
          shown, missed>>

-----------------------------------------------------------------------------
(* Events. *)

RoomEvents == {"slot_booked", "slot_released", "slot_available", "slot_reserved",
               "slot_reservation_expired"}
UserEvents == {"waitlist_slot_available", "waitlist_slot_reserved", "reservation_expired"}

\* What Validate accepts.
EventTypes == RoomEvents \union UserEvents
Acks == {"subscribed", "unsubscribed"}

\* Fault: an event type the subscriber does not know.
PublicationsFault(useCase) == <<"slot_updated">>

\* A waiter got the slot; a reservation ended.
Reserved == <<"slot_reserved", "waitlist_slot_reserved">>
Expired == <<"reservation_expired", "slot_reservation_expired">>

\* What a use case publishes after COMMIT; "+" when a waiter got the slot.
Publications(useCase) ==
    CASE useCase \in {"CreateBooking", "ConfirmReservation"} -> <<"slot_booked">>
      [] useCase = "CancelBooking" -> <<"slot_released">>
      [] useCase = "CancelReservation" -> <<"slot_available">>
      [] useCase \in {"CancelBooking+", "CancelReservation+"} -> Reserved
      [] useCase = "ExpireDue" -> Expired \o <<"slot_available">>
      [] useCase = "ExpireDue+" -> Expired \o Reserved

ASSUME UseCasesAssumption ==
    /\ UseCases \subseteq {"CreateBooking", "ConfirmReservation", "CancelBooking", "CancelBooking+",
                           "CancelReservation", "CancelReservation+", "ExpireDue", "ExpireDue+"}
    /\ None \notin EventTypes \union Acks

\* Fault: the event of a reservation is forgotten.
RoomRefreshEventsFault == RoomEvents \ {"slot_reserved"}

\* ROOM_REFRESH_EVENTS
RoomRefreshEvents == {"slot_booked", "slot_released", "slot_reserved", "slot_available",
                      "slot_reservation_expired"}

Refreshes(type) == type \in RoomRefreshEvents
AnyRefresh(queue) == \E i \in DOMAIN queue : Refreshes(queue[i])

\* If cond holds, the page on the screen may miss a change.
Miss(cond) == missed' = (missed \/ (mounted /\ cond))

-----------------------------------------------------------------------------
(* Publisher and subscriber. *)

Commit(p, useCase) ==
    /\ outbox[p] = <<>>
    /\ version < MaxVersion
    /\ version' = version + 1
    /\ outbox' = [outbox EXCEPT ![p] = Publications(useCase)]
    /\ UNCHANGED <<subscriber, channel, connection, page, missed>>

\* publishEvent: Redis keeps nothing for a subscriber that is not there, and an
\* error or a timeout is only logged.
Publish(p) ==
    /\ outbox[p] # <<>>
    /\ outbox' = [outbox EXCEPT ![p] = Tail(outbox[p])]
    /\ \/ /\ subscriber = "subscribed"
          /\ channel' = Append(channel, Head(outbox[p]))
          /\ UNCHANGED missed
       \/ /\ Miss(Refreshes(Head(outbox[p])))
          /\ UNCHANGED channel
    /\ UNCHANGED <<version, subscriber, connection, page>>

\* The process ends between COMMIT and the events.
Crash(p) ==
    /\ outbox[p] # <<>>
    /\ outbox' = [outbox EXCEPT ![p] = <<>>]
    /\ Miss(AnyRefresh(outbox[p]))
    /\ UNCHANGED <<version, subscriber, channel, connection, page>>

\* consume fails; what it has already received is still handled.
SubscriberFails ==
    /\ subscriber = "subscribed"
    /\ subscriber' = "retry"
    /\ \E n \in 0..Len(channel) :
         /\ channel' = SubSeq(channel, 1, n)
         /\ Miss(AnyRefresh(SubSeq(channel, n + 1, Len(channel))))
    /\ UNCHANGED <<version, outbox, connection, page>>

SubscriberRetries ==
    /\ subscriber = "retry"
    /\ subscriber' = "subscribed"
    /\ UNCHANGED <<version, outbox, channel, connection, page, missed>>

\* Broadcast to the room, or SendToUser: to this browser's user or to another.
handleMessage ==
    /\ channel # <<>>
    /\ channel' = Tail(channel)
    /\ \/ /\ Head(channel) \in RoomEvents
          /\ conn.open /\ conn.room
          /\ Len(wire) < MaxQueue
          /\ wire' = Append(wire, Head(channel))
          /\ UNCHANGED missed
       \/ /\ Head(channel) \in RoomEvents
          /\ ~(conn.open /\ conn.room)
          /\ Miss(TRUE)
          /\ UNCHANGED wire
       \/ /\ Head(channel) \in UserEvents
          /\ conn.open
          /\ Len(wire) < MaxQueue
          /\ wire' = Append(wire, Head(channel))
          /\ UNCHANGED missed
       \/ /\ Head(channel) \in UserEvents
          /\ UNCHANGED <<wire, missed>>
    /\ UNCHANGED <<version, outbox, subscriber, conn, requests, socket, reconnectTimer,
                   activeRoomId, page>>

-----------------------------------------------------------------------------
(* The connection: RealtimeWsClient in the browser, Client at the server.  *)

Closed == [open |-> FALSE, room |-> FALSE]

\* The client's subscribe and unsubscribe; a repeated one is not answered.
HandleRequest ==
    /\ conn.open
    /\ requests # <<>>
    /\ Len(wire) < MaxQueue
    /\ requests' = Tail(requests)
    /\ LET room == Head(requests) = "subscribe" IN
       /\ conn' = [conn EXCEPT !.room = room]
       /\ wire' = IF conn.room = room THEN wire
                  ELSE Append(wire, IF room THEN "subscribed" ELSE "unsubscribed")
    /\ UNCHANGED <<server, socket, reconnectTimer, activeRoomId, page, missed>>

\* The network fails, the server stops, or the hub drops a slow client; what has
\* reached the browser is still handled.
ConnectionLost ==
    /\ conn.open
    /\ conn' = Closed
    /\ requests' = <<>>
    /\ \E n \in 0..Len(wire) :
         /\ wire' = SubSeq(wire, 1, n)
         /\ Miss(AnyRefresh(SubSeq(wire, n + 1, Len(wire))))
    /\ UNCHANGED <<server, socket, reconnectTimer, activeRoomId, page>>

\* Fault: the room is not asked for again after a reconnect.
onopenFault ==
    /\ socket = "connecting"
    /\ socket' = "open"
    /\ conn' = [open |-> TRUE, room |-> FALSE]
    /\ UNCHANGED <<server, requests, wire, reconnectTimer, activeRoomId, page, missed>>

onopen ==
    /\ socket = "connecting"
    /\ socket' = "open"
    /\ conn' = [open |-> TRUE, room |-> FALSE]
    /\ requests' = IF activeRoomId THEN <<"subscribe">> ELSE <<>>
    /\ UNCHANGED <<server, wire, reconnectTimer, activeRoomId, page, missed>>

\* Fault: no reconnect is scheduled.
oncloseFault ==
    /\ socket # "none" /\ ~conn.open /\ wire = <<>>
    /\ socket' = "none"
    /\ UNCHANGED <<server, conn, requests, wire, reconnectTimer, activeRoomId, page, missed>>

\* The connection has ended or could not be opened: scheduleReconnect.
onclose ==
    /\ socket # "none" /\ ~conn.open /\ wire = <<>>
    /\ socket' = "none"
    /\ reconnectTimer' = TRUE
    /\ UNCHANGED <<server, conn, requests, wire, activeRoomId, page, missed>>

reconnect ==
    /\ socket = "none" /\ reconnectTimer
    /\ socket' = "connecting"
    /\ reconnectTimer' = FALSE
    /\ UNCHANGED <<server, conn, requests, wire, activeRoomId, page, missed>>

setRoomSubscription(roomId) ==
    /\ activeRoomId' = roomId
    /\ requests' = IF activeRoomId = roomId \/ socket # "open" \/ ~conn.open THEN requests
                   ELSE Append(requests, IF roomId THEN "subscribe" ELSE "unsubscribe")

-----------------------------------------------------------------------------
(* The page. *)

FetchIds == 1..MaxFetches
Sent == -1
Idle == [f \in FetchIds |-> None]
FreeFetches == {f \in FetchIds : fetches[f] = None}

\* The user follows a link to the room: the page is mounted under the provider.
Navigate ==
    /\ ~mounted
    /\ Len(requests) < MaxQueue
    /\ mounted' = TRUE
    /\ setRoomSubscription(TRUE)
    /\ timers' = {"load"} \union (IF Refreshes(lastEvent) THEN {"refresh"} ELSE {})
    /\ rendered' = TRUE
    /\ missed' = FALSE
    /\ UNCHANGED <<server, conn, wire, socket, reconnectTimer, lastEvent, activeReservation,
                   fetches, shown>>

Leave ==
    /\ mounted
    /\ Len(requests) < MaxQueue
    /\ mounted' = FALSE
    /\ setRoomSubscription(FALSE)
    /\ timers' = {} /\ fetches' = Idle /\ shown' = None /\ rendered' = TRUE /\ missed' = FALSE
    /\ UNCHANGED <<server, conn, wire, socket, reconnectTimer, lastEvent, activeReservation>>

\* The room's address is opened or loaded anew.  The effects of the page run
\* before those of the provider around it: there is no client yet when it asks
\* for its room, and the client that is then created has none.
Reload ==
    /\ conn' = Closed /\ requests' = <<>> /\ wire' = <<>>
    /\ socket' = "connecting" /\ reconnectTimer' = FALSE /\ activeRoomId' = FALSE
    /\ lastEvent' = None /\ activeReservation' = FALSE /\ rendered' = TRUE
    /\ mounted' = TRUE /\ timers' = {"load"} /\ fetches' = Idle /\ shown' = None
    /\ missed' = FALSE
    /\ UNCHANGED server

\* handleIncomingEvent: until React commits, the next message replaces this one.
onmessage ==
    /\ socket = "open"
    /\ wire # <<>>
    /\ wire' = Tail(wire)
    /\ lastEvent' = Head(wire)
    /\ activeReservation' \in CASE Head(wire) = "waitlist_slot_reserved" -> {TRUE}
                                [] Head(wire) = "reservation_expired" -> {FALSE, activeReservation}
                                [] OTHER -> {activeReservation}
    /\ rendered' = ~mounted
    /\ Miss(~rendered /\ Refreshes(lastEvent) /\ ~Refreshes(Head(wire)))
    /\ UNCHANGED <<server, conn, requests, socket, reconnectTimer, activeRoomId,
                   mounted, timers, fetches, shown>>

\* confirmActiveReservation, cancelActiveReservationAction: the request has been
\* answered (what it did is a Commit), and the provider makes an event of its own.
answerReservation(type) ==
    /\ activeReservation
    /\ activeReservation' = FALSE
    /\ lastEvent' = type
    /\ rendered' = ~mounted
    /\ UNCHANGED <<server, connection, mounted, timers, fetches, shown, missed>>

dismissReservationPrompt ==
    /\ activeReservation
    /\ activeReservation' = FALSE
    /\ UNCHANGED <<server, connection, lastEvent, rendered, mounted, timers, fetches, shown, missed>>

\* The effect on lastEvent; its cleanup clears the timer of the event before.
effect ==
    /\ mounted /\ ~rendered
    /\ rendered' = TRUE
    /\ timers' = IF Refreshes(lastEvent) THEN timers \union {"refresh"} ELSE timers \ {"refresh"}
    /\ Miss("refresh" \in timers /\ ~Refreshes(lastEvent))
    /\ UNCHANGED <<server, connection, lastEvent, activeReservation, mounted, fetches, shown>>

StartFetch ==
    /\ FreeFetches # {}
    /\ fetches' = [fetches EXCEPT ![CHOOSE f \in FreeFetches : TRUE] = Sent]

\* refreshData or loadSlots.
timeout(t) ==
    /\ t \in timers
    /\ timers' = timers \ {t}
    /\ StartFetch
    /\ UNCHANGED <<server, connection, lastEvent, activeReservation, rendered, mounted, shown, missed>>

\* handleBook and handleJoinWaitlist load the slots when their request is done.
loadSlots ==
    /\ mounted
    /\ StartFetch
    /\ UNCHANGED <<server, connection, lastEvent, activeReservation, rendered, mounted, timers, shown,
                   missed>>

\* ListAllByRoomAndDate
ListRoomSlots(f) ==
    /\ fetches[f] = Sent
    /\ fetches' = [fetches EXCEPT ![f] = version]
    /\ UNCHANGED <<server, connection, lastEvent, activeReservation, rendered, mounted, timers, shown,
                   missed>>

\* setSlots, in the order in which the answers come.
setSlots(f) ==
    /\ fetches[f] \in Nat
    /\ shown' = fetches[f]
    /\ fetches' = [fetches EXCEPT ![f] = None]
    /\ missed' = IF fetches[f] = version THEN FALSE
                 ELSE missed \/ (shown \in Nat /\ fetches[f] < shown)
    /\ UNCHANGED <<server, connection, lastEvent, activeReservation, rendered, mounted, timers>>

fetchFails(f) ==
    /\ fetches[f] # None
    /\ fetches' = [fetches EXCEPT ![f] = None]
    /\ Miss(TRUE)
    /\ UNCHANGED <<server, connection, lastEvent, activeReservation, rendered, mounted, timers, shown>>

-----------------------------------------------------------------------------
Init ==
    /\ version = 0
    /\ outbox = [p \in Servers |-> <<>>]
    /\ subscriber = "retry"
    /\ channel = <<>>
    /\ conn = Closed /\ requests = <<>> /\ wire = <<>>
    /\ socket = "connecting" /\ reconnectTimer = FALSE /\ activeRoomId = FALSE
    /\ lastEvent = None /\ activeReservation = FALSE /\ rendered = TRUE
    /\ mounted = FALSE /\ timers = {} /\ fetches = Idle /\ shown = None
    /\ missed = FALSE

Next ==
    \/ \E p \in Servers :
         Publish(p) \/ Crash(p) \/ \E useCase \in UseCases : Commit(p, useCase)
    \/ SubscriberFails \/ SubscriberRetries \/ handleMessage
    \/ HandleRequest \/ ConnectionLost \/ onopen \/ onclose \/ reconnect
    \/ Navigate \/ Leave \/ Reload \/ onmessage \/ effect \/ loadSlots
    \/ dismissReservationPrompt
    \/ \E type \in {"slot_booked", "slot_available"} : answerReservation(type)
    \/ \E t \in {"load", "refresh"} : timeout(t)
    \/ \E f \in FetchIds : ListRoomSlots(f) \/ setSlots(f) \/ fetchFails(f)

Spec == Init /\ [][Next]_vars

\* The browser runs its callbacks.  A connection may break at any time, but not
\* every attempt fails, and not always before the first request is answered.
Fairness ==
    /\ WF_vars(onclose) /\ WF_vars(reconnect) /\ WF_vars(onmessage)
    /\ SF_vars(onopen) /\ SF_vars(HandleRequest)

FairSpec == Spec /\ Fairness

-----------------------------------------------------------------------------
(* Safety. *)

\* The variables have their types; only events the subscriber accepts are
\* published.
TypeOK ==
    /\ version \in 0..MaxVersion
    /\ outbox \in [Servers -> Seq(EventTypes)]
    /\ subscriber \in {"retry", "subscribed"}
    /\ channel \in Seq(EventTypes)
    /\ conn \in [open : BOOLEAN, room : BOOLEAN]
    /\ requests \in Seq({"subscribe", "unsubscribe"})
    /\ wire \in Seq(EventTypes \union Acks)
    /\ socket \in {"none", "connecting", "open"}
    /\ {reconnectTimer, activeRoomId, activeReservation, rendered, mounted, missed} \subseteq BOOLEAN
    /\ lastEvent \in EventTypes \union Acks \union {None}
    /\ timers \subseteq {"load", "refresh"}
    /\ fetches \in [FetchIds -> 0..MaxVersion \union {None, Sent}]
    /\ shown \in 0..MaxVersion \union {None}

\* Nothing is under way that could still change what the page shows.
Quiet ==
    /\ \A p \in Servers : outbox[p] = <<>>
    /\ channel = <<>> /\ wire = <<>> /\ rendered /\ timers = {} /\ fetches = Idle

\* When everything has calmed down, the page shows the slots as they are,
\* whatever the order of the events was, unless since it last did so
\*  - an event got lost between COMMIT and the hub, or found the browser
\*    disconnected or not yet subscribed;
\*  - an event that asks for a refresh was replaced, before the refresh began,
\*    by one that does not;
\*  - the answer to an older request came after that to a newer one;
\*  - a request failed.
StaleOnlyWhenMissed ==
    Quiet /\ mounted /\ shown # None /\ ~missed => shown = version

\* Once the server has handled what the browser sent, the connection is in the
\* room exactly when the client has the room set (activeRoomId), through any number
\* of reconnects and visits of the page, and never for a page that has been left.
\* (The reverse is not so: a page that was loaded by its address has not set the
\* room and is not subscribed.)
SubscriptionAgrees ==
    conn.open /\ socket = "open" /\ requests = <<>> =>
        /\ conn.room = activeRoomId
        /\ conn.room => mounted

-----------------------------------------------------------------------------
(* Liveness. *)

\* A page that stays on the screen with its room set in the client is subscribed
\* again after every loss of the connection.
SubscribedAgain == <>[]activeRoomId => []<>(conn.open /\ conn.room)
=============================================================================
