---------------------------- MODULE RoomPageProofs ----------------------------
(***************************************************************************)
(* What RoomPage keeps for any number of goroutines, commits, messages and *)
(* requests under way.                                                     *)
(*                                                                         *)
(* A page that has missed nothing shows the slots as they are, or          *)
(* something is on its way that will make it ask again: the argument       *)
(* follows a refresh event from the outbox of the use case over the        *)
(* channel, the websocket, React's state and the timer to the answer of    *)
(* the request.                                                            *)
(***************************************************************************)
EXTENDS RoomPage, SequenceTheorems, TLAPS

\* Something is under way that brings the current slots to the page.
UnderWay ==
    \/ \E p \in Servers : AnyRefresh(outbox[p])
    \/ AnyRefresh(channel)
    \/ AnyRefresh(wire)
    \/ ~rendered /\ Refreshes(lastEvent)
    \/ timers # {}
    \/ \E f \in FetchIds : fetches[f] \in {Sent, version}

CurrentOrUnderWay == mounted /\ ~missed => shown = version \/ UnderWay

\* No answer is from the future.
NotFromFuture ==
    /\ \A f \in FetchIds : fetches[f] \in Nat => fetches[f] <= version
    /\ shown \in Nat => shown <= version

\* The last request on its way to the server is about the room the client has set.
LastRequestCounts ==
    conn.open /\ socket = "open" =>
        IF requests = <<>> THEN conn.room = activeRoomId
        ELSE (requests[Len(requests)] = "subscribe") = activeRoomId

\* The client has the room set only for a page that is on the screen.
SetByPage == activeRoomId => mounted

PageInv == TypeOK /\ NotFromFuture /\ CurrentOrUnderWay /\ LastRequestCounts /\ SetByPage

-----------------------------------------------------------------------------
(* Queues of events. *)

\* Where a refresh event is after a message is taken, added, or the rest is dropped.
LEMMA RefreshInQueue ==
    ASSUME NEW S, NEW q \in Seq(S)
    PROVE  /\ ~AnyRefresh(<<>>)
           /\ q # <<>> => /\ Tail(q) \in Seq(S) /\ Head(q) \in S
                          /\ AnyRefresh(q) => Refreshes(Head(q)) \/ AnyRefresh(Tail(q))
           /\ \A x \in S : /\ Append(q, x) \in Seq(S)
                           /\ AnyRefresh(q) \/ Refreshes(x) => AnyRefresh(Append(q, x))
           /\ \A n \in 0..Len(q) :
                /\ SubSeq(q, 1, n) \in Seq(S)
                /\ AnyRefresh(q) => \/ AnyRefresh(SubSeq(q, 1, n))
                                    \/ AnyRefresh(SubSeq(q, n + 1, Len(q)))
  <1>1. ~AnyRefresh(<<>>)
    BY DEF AnyRefresh
  <1>2. ASSUME q # <<>>
        PROVE  /\ Tail(q) \in Seq(S) /\ Head(q) \in S
               /\ AnyRefresh(q) => Refreshes(Head(q)) \/ AnyRefresh(Tail(q))
    <2>1. Tail(q) \in Seq(S) /\ Head(q) \in S /\ Head(q) = q[1] /\ Len(Tail(q)) = Len(q) - 1
      BY <1>2
    <2>2. ASSUME NEW i \in DOMAIN q, Refreshes(q[i]), i # 1
          PROVE  AnyRefresh(Tail(q))
      <3>1. i - 1 \in DOMAIN Tail(q) /\ Tail(q)[i - 1] = q[i]
        BY <1>2, <2>1, <2>2
      <3>. QED  BY <2>2, <3>1 DEF AnyRefresh
    <2>. QED  BY <2>1, <2>2 DEF AnyRefresh
  <1>3. ASSUME NEW x \in S
        PROVE  /\ Append(q, x) \in Seq(S)
               /\ AnyRefresh(q) \/ Refreshes(x) => AnyRefresh(Append(q, x))
    <2>1. /\ Append(q, x) \in Seq(S) /\ Len(Append(q, x)) = Len(q) + 1
          /\ \A i \in 1..Len(q) : Append(q, x)[i] = q[i]
          /\ Append(q, x)[Len(q) + 1] = x
      BY <1>3
    <2>2. DOMAIN q = 1..Len(q) /\ DOMAIN Append(q, x) = 1..(Len(q) + 1) /\ Len(q) \in Nat
      BY <2>1
    <2>. QED  BY <2>1, <2>2 DEF AnyRefresh
  <1>4. ASSUME NEW n \in 0..Len(q)
        PROVE  /\ SubSeq(q, 1, n) \in Seq(S)
               /\ AnyRefresh(q) => \/ AnyRefresh(SubSeq(q, 1, n))
                                   \/ AnyRefresh(SubSeq(q, n + 1, Len(q)))
    <2>1. /\ SubSeq(q, 1, n) \in Seq(S) /\ Len(SubSeq(q, 1, n)) = n
          /\ \A i \in 1..n : SubSeq(q, 1, n)[i] = q[i]
      BY <1>4
    <2>2. /\ SubSeq(q, n + 1, Len(q)) \in Seq(S) /\ Len(SubSeq(q, n + 1, Len(q))) = Len(q) - n
          /\ \A i \in 1..(Len(q) - n) : SubSeq(q, n + 1, Len(q))[i] = q[n + i]
      BY <1>4
    <2>3. ASSUME NEW i \in DOMAIN q, Refreshes(q[i])
          PROVE  AnyRefresh(SubSeq(q, 1, n)) \/ AnyRefresh(SubSeq(q, n + 1, Len(q)))
      <3>1. CASE i <= n
        <4>1. i \in DOMAIN SubSeq(q, 1, n) /\ SubSeq(q, 1, n)[i] = q[i]
          BY <2>1, <3>1
        <4>. QED  BY <2>3, <4>1 DEF AnyRefresh
      <3>2. CASE i > n
        <4>1. /\ i - n \in DOMAIN SubSeq(q, n + 1, Len(q))
              /\ SubSeq(q, n + 1, Len(q))[i - n] = q[i]
          BY <2>2, <3>2
        <4>. QED  BY <2>3, <4>1 DEF AnyRefresh
      <3>. QED  BY <3>1, <3>2
    <2>. QED  BY <2>1, <2>3 DEF AnyRefresh
  <1>. QED  BY <1>1, <1>2, <1>3, <1>4

\* Two queues joined have the refresh events of both.
LEMMA RefreshInConcat ==
    ASSUME NEW S, NEW q \in Seq(S), NEW r \in Seq(S)
    PROVE  /\ q \o r \in Seq(S)
           /\ AnyRefresh(q) \/ AnyRefresh(r) => AnyRefresh(q \o r)
  <1>1. /\ q \o r \in Seq(S) /\ Len(q \o r) = Len(q) + Len(r)
        /\ \A i \in 1..Len(q) : (q \o r)[i] = q[i]
        /\ \A i \in 1..Len(r) : (q \o r)[Len(q) + i] = r[i]
    OBVIOUS
  <1>2. ASSUME NEW i \in DOMAIN q, Refreshes(q[i])  PROVE AnyRefresh(q \o r)
    <2>1. i \in DOMAIN (q \o r) /\ (q \o r)[i] = q[i]
      BY <1>1
    <2>. QED  BY <1>2, <2>1 DEF AnyRefresh
  <1>3. ASSUME NEW i \in DOMAIN r, Refreshes(r[i])  PROVE AnyRefresh(q \o r)
    <2>1. Len(q) + i \in DOMAIN (q \o r) /\ (q \o r)[Len(q) + i] = r[i]
      BY <1>1
    <2>. QED  BY <1>3, <2>1 DEF AnyRefresh
  <1>. QED  BY <1>1, <1>2, <1>3 DEF AnyRefresh

\* Every use case publishes events the subscriber accepts, one of which makes the
\* page load the slots again.
LEMMA PublicationsRefresh ==
    ASSUME NEW useCase \in UseCases
    PROVE  /\ Publications(useCase) \in Seq(EventTypes)
           /\ AnyRefresh(Publications(useCase))
  <1>1. /\ Refreshes("slot_booked") /\ Refreshes("slot_released") /\ Refreshes("slot_available")
        /\ Refreshes("slot_reserved")
    BY DEF Refreshes, RoomRefreshEvents
  <1>2. /\ {"slot_booked", "slot_released", "slot_available", "slot_reserved"} \subseteq EventTypes
        /\ {"waitlist_slot_reserved", "reservation_expired",
            "slot_reservation_expired"} \subseteq EventTypes
    BY DEF EventTypes, RoomEvents, UserEvents
  <1>3. ASSUME NEW x \in EventTypes
        PROVE  <<x>> \in Seq(EventTypes) /\ (Refreshes(x) => AnyRefresh(<<x>>))
    BY DEF AnyRefresh
  <1>4. ASSUME NEW x \in EventTypes, NEW y \in EventTypes
        PROVE  <<x, y>> \in Seq(EventTypes) /\ (Refreshes(x) => AnyRefresh(<<x, y>>))
    BY DEF AnyRefresh
  <1>5. Reserved \in Seq(EventTypes) /\ AnyRefresh(Reserved) /\ Expired \in Seq(EventTypes)
    BY <1>1, <1>2, <1>4 DEF Reserved, Expired
  <1>6. /\ Expired \o <<"slot_available">> \in Seq(EventTypes)
        /\ AnyRefresh(Expired \o <<"slot_available">>)
    BY <1>1, <1>2, <1>3, <1>5, RefreshInConcat
  <1>7. Expired \o Reserved \in Seq(EventTypes) /\ AnyRefresh(Expired \o Reserved)
    BY <1>5, RefreshInConcat
  <1>8. CASE useCase \in {"CreateBooking", "ConfirmReservation", "CancelBooking",
                          "CancelReservation"}
    <2>1. Publications(useCase) \in {<<"slot_booked">>, <<"slot_released">>, <<"slot_available">>}
      BY <1>8 DEF Publications
    <2>. QED  BY <1>1, <1>2, <1>3, <2>1
  <1>9. CASE useCase \in {"CancelBooking+", "CancelReservation+"}
    BY <1>5, <1>9 DEF Publications
  <1>10. CASE useCase \in {"ExpireDue", "ExpireDue+"}
    <2>1. Publications(useCase) \in {Expired \o <<"slot_available">>, Expired \o Reserved}
      BY <1>10 DEF Publications
    <2>. QED  BY <1>6, <1>7, <2>1
  <1>. QED  BY <1>8, <1>9, <1>10, UseCasesAssumption

-----------------------------------------------------------------------------
(* Every step keeps the invariant. *)

\* The head of a queue of one is its last element.
LEMMA OnlyRequest ==
    ASSUME NEW S, NEW q \in Seq(S), q # <<>>, Tail(q) = <<>>
    PROVE  q[Len(q)] = Head(q)
  <1>1. Len(Tail(q)) = Len(q) - 1 /\ Len(q) \in Nat /\ Head(q) = q[1]
    OBVIOUS
  <1>. Len(<<>>) = 0
    OBVIOUS
  <1>2. Len(Tail(q)) = 0
    BY Zenon
  <1>3. Len(q) = 1
    BY <1>1, <1>2
  <1>. QED  BY <1>1, <1>3

\* The queues of requests that a new connection starts with.
LEMMA OneRequest ==
    /\ <<"subscribe">> \in Seq({"subscribe", "unsubscribe"})
    /\ <<>> \in Seq({"subscribe", "unsubscribe"})
  <1>1. ASSUME NEW S, NEW x \in S  PROVE <<x>> \in Seq(S) /\ <<>> \in Seq(S)
    OBVIOUS
  <1>. QED  BY <1>1

\* Every step keeps the types.
LEMMA NextTypeOK ==
    ASSUME TypeOK, [Next]_vars
    PROVE  TypeOK'
  <1>1. CASE UNCHANGED vars
    BY <1>1 DEF vars, TypeOK
  <1>2. ASSUME NEW p \in Servers, NEW useCase \in UseCases, Commit(p, useCase)  PROVE TypeOK'
    BY <1>2, PublicationsRefresh, ConstantsAssumption DEF Commit, connection, page, TypeOK
  <1>3. ASSUME NEW p \in Servers, Publish(p)  PROVE TypeOK'
    <2>1. /\ Tail(outbox[p]) \in Seq(EventTypes)
          /\ Append(channel, Head(outbox[p])) \in Seq(EventTypes)
      BY <1>3, RefreshInQueue DEF Publish, TypeOK
    <2>2. outbox' \in [Servers -> Seq(EventTypes)] /\ channel' \in Seq(EventTypes)
      BY <1>3, <2>1 DEF Publish, TypeOK
    <2>. QED  BY <1>3, <2>2 DEF Publish, Miss, connection, page, TypeOK
  <1>4. ASSUME NEW p \in Servers, Crash(p)  PROVE TypeOK'
    BY <1>4 DEF Crash, Miss, connection, page, TypeOK
  <1>5. ASSUME SubscriberFails  PROVE TypeOK'
    BY <1>5, RefreshInQueue DEF SubscriberFails, Miss, connection, page, TypeOK
  <1>6. ASSUME SubscriberRetries  PROVE TypeOK'
    BY <1>6 DEF SubscriberRetries, connection, page, TypeOK
  <1>7. ASSUME handleMessage  PROVE TypeOK'
    <2>1. /\ Tail(channel) \in Seq(EventTypes) /\ Head(channel) \in EventTypes \union Acks
          /\ Append(wire, Head(channel)) \in Seq(EventTypes \union Acks)
      BY <1>7, RefreshInQueue DEF handleMessage, TypeOK
    <2>2. /\ channel' \in Seq(EventTypes) /\ wire' \in Seq(EventTypes \union Acks)
          /\ missed' \in BOOLEAN
      BY <1>7, <2>1 DEF handleMessage, Miss, TypeOK
    <2>. QED  BY <1>7, <2>2 DEF handleMessage, page, TypeOK
  <1>8. ASSUME HandleRequest  PROVE TypeOK'
    <2>1. /\ Tail(requests) \in Seq({"subscribe", "unsubscribe"})
          /\ Append(wire, "subscribed") \in Seq(EventTypes \union Acks)
          /\ Append(wire, "unsubscribed") \in Seq(EventTypes \union Acks)
      BY <1>8, RefreshInQueue DEF HandleRequest, TypeOK, Acks
    <2>2. /\ requests' \in Seq({"subscribe", "unsubscribe"})
          /\ wire' \in Seq(EventTypes \union Acks)
      BY <1>8, <2>1 DEF HandleRequest, TypeOK
    <2>3. conn' \in [open : BOOLEAN, room : BOOLEAN]
      BY <1>8 DEF HandleRequest, TypeOK
    <2>. QED  BY <1>8, <2>2, <2>3 DEF HandleRequest, server, page, TypeOK
  <1>9. ASSUME ConnectionLost  PROVE TypeOK'
    BY <1>9, RefreshInQueue DEF ConnectionLost, Miss, Closed, server, page, TypeOK
  <1>10. ASSUME onopen  PROVE TypeOK'
    <2>1. requests' = <<"subscribe">> \/ requests' = <<>>
      BY <1>10 DEF onopen
    <2>2. requests' \in Seq({"subscribe", "unsubscribe"})
      BY <2>1, OneRequest
    <2>3. conn' \in [open : BOOLEAN, room : BOOLEAN]
      BY <1>10 DEF onopen
    <2>. QED  BY <1>10, <2>2, <2>3 DEF onopen, server, page, TypeOK
  <1>11. ASSUME onclose  PROVE TypeOK'
    BY <1>11 DEF onclose, server, page, TypeOK
  <1>12. ASSUME reconnect  PROVE TypeOK'
    BY <1>12 DEF reconnect, server, page, TypeOK
  <1>13. ASSUME Navigate  PROVE TypeOK'
    <2>1. requests' \in Seq({"subscribe", "unsubscribe"}) /\ activeRoomId' = TRUE
      BY <1>13, RefreshInQueue DEF Navigate, setRoomSubscription, TypeOK
    <2>2. timers' \subseteq {"load", "refresh"}
      BY <1>13 DEF Navigate
    <2>. QED  BY <1>13, <2>1, <2>2 DEF Navigate, server, TypeOK
  <1>14. ASSUME Leave  PROVE TypeOK'
    <2>1. requests' \in Seq({"subscribe", "unsubscribe"}) /\ activeRoomId' = FALSE
      BY <1>14, RefreshInQueue DEF Leave, setRoomSubscription, TypeOK
    <2>2. fetches' \in [FetchIds -> 0..MaxVersion \union {None, Sent}]
      BY <1>14 DEF Leave, Idle
    <2>. QED  BY <1>14, <2>1, <2>2 DEF Leave, server, TypeOK
  <1>15. ASSUME Reload  PROVE TypeOK'
    <2>1. fetches' \in [FetchIds -> 0..MaxVersion \union {None, Sent}]
      BY <1>15 DEF Reload, Idle
    <2>2. conn' \in [open : BOOLEAN, room : BOOLEAN]
      BY <1>15 DEF Reload, Closed
    <2>3. /\ requests' \in Seq({"subscribe", "unsubscribe"})
          /\ wire' \in Seq(EventTypes \union Acks)
          /\ timers' \subseteq {"load", "refresh"}
      BY <1>15 DEF Reload
    <2>. QED  BY <1>15, <2>1, <2>2, <2>3 DEF Reload, server, TypeOK
  <1>16. ASSUME onmessage  PROVE TypeOK'
    BY <1>16, RefreshInQueue DEF onmessage, Miss, server, TypeOK
  <1>17. ASSUME effect  PROVE TypeOK'
    BY <1>17 DEF effect, Miss, server, connection, TypeOK
  <1>18. ASSUME loadSlots  PROVE TypeOK'
    BY <1>18 DEF loadSlots, StartFetch, FreeFetches, Sent, server, connection, TypeOK
  <1>19. ASSUME dismissReservationPrompt  PROVE TypeOK'
    BY <1>19 DEF dismissReservationPrompt, server, connection, TypeOK
  <1>20. ASSUME NEW type \in {"slot_booked", "slot_available"}, answerReservation(type)
         PROVE  TypeOK'
    <2>1. lastEvent' \in EventTypes
      BY <1>20 DEF answerReservation, EventTypes, RoomEvents
    <2>. QED  BY <1>20, <2>1 DEF answerReservation, server, connection, TypeOK
  <1>21. ASSUME NEW t \in {"load", "refresh"}, timeout(t)  PROVE TypeOK'
    BY <1>21 DEF timeout, StartFetch, FreeFetches, Sent, server, connection, TypeOK
  <1>22. ASSUME NEW f \in FetchIds, ListRoomSlots(f)  PROVE TypeOK'
    BY <1>22 DEF ListRoomSlots, Sent, server, connection, TypeOK
  <1>23. ASSUME NEW f \in FetchIds, setSlots(f)  PROVE TypeOK'
    <2>1. fetches[f] \in 0..MaxVersion
      BY <1>23, ConstantsAssumption DEF setSlots, TypeOK, Sent
    <2>2. fetches' \in [FetchIds -> 0..MaxVersion \union {None, Sent}]
      BY <1>23 DEF setSlots, TypeOK
    <2>3. missed' \in BOOLEAN
      BY <1>23 DEF setSlots, TypeOK
    <2>. QED  BY <1>23, <2>1, <2>2, <2>3 DEF setSlots, server, connection, TypeOK
  <1>24. ASSUME NEW f \in FetchIds, fetchFails(f)  PROVE TypeOK'
    BY <1>24 DEF fetchFails, Miss, server, connection, TypeOK
  <1>. QED  BY <1>1, <1>2, <1>3, <1>4, <1>5, <1>6, <1>7, <1>8, <1>9, <1>10, <1>11, <1>12, <1>13,
      <1>14, <1>15, <1>16, <1>17, <1>18, <1>19, <1>20, <1>21, <1>22, <1>23, <1>24 DEF Next

\* An answer has the version of the tables at its time, and versions only grow.
LEMMA NextNotFromFuture ==
    ASSUME TypeOK, NotFromFuture, [Next]_vars
    PROVE  NotFromFuture'
  <1>1. CASE UNCHANGED <<version, fetches, shown>>
    BY <1>1 DEF NotFromFuture, TypeOK
  <1>2. ASSUME \/ SubscriberFails \/ SubscriberRetries \/ handleMessage \/ HandleRequest
               \/ ConnectionLost \/ onopen \/ onclose \/ reconnect \/ Navigate \/ onmessage
               \/ effect \/ dismissReservationPrompt
               \/ \E p \in Servers : Publish(p) \/ Crash(p)
               \/ \E type \in {"slot_booked", "slot_available"} : answerReservation(type)
               \/ UNCHANGED vars
        PROVE  UNCHANGED <<version, fetches, shown>>
    BY <1>2
    DEF Publish, Crash, SubscriberFails, SubscriberRetries, handleMessage, HandleRequest,
      ConnectionLost, onopen, onclose, reconnect, Navigate, onmessage, effect,
      dismissReservationPrompt, answerReservation, connection, page, server, vars
  <1>3. ASSUME NEW p \in Servers, NEW useCase \in UseCases, Commit(p, useCase)  PROVE NotFromFuture'
    BY <1>3, ConstantsAssumption DEF Commit, connection, page, NotFromFuture, TypeOK
  <1>4. ASSUME Leave  PROVE NotFromFuture'
    BY <1>4, ConstantsAssumption
    DEF Leave, setRoomSubscription, Idle, server, NotFromFuture, TypeOK
  <1>5. ASSUME Reload  PROVE NotFromFuture'
    BY <1>5, ConstantsAssumption DEF Reload, Closed, Idle, server, NotFromFuture, TypeOK
  <1>6. ASSUME loadSlots  PROVE NotFromFuture'
    BY <1>6, ConstantsAssumption
    DEF loadSlots, StartFetch, FreeFetches, Sent, server, connection, NotFromFuture, TypeOK
  <1>7. ASSUME NEW t \in {"load", "refresh"}, timeout(t)  PROVE NotFromFuture'
    BY <1>7, ConstantsAssumption
    DEF timeout, StartFetch, FreeFetches, Sent, server, connection, NotFromFuture, TypeOK
  <1>8. ASSUME NEW f \in FetchIds, ListRoomSlots(f)  PROVE NotFromFuture'
    BY <1>8, ConstantsAssumption
    DEF ListRoomSlots, Sent, server, connection, NotFromFuture, TypeOK
  <1>9. ASSUME NEW f \in FetchIds, setSlots(f)  PROVE NotFromFuture'
    BY <1>9, ConstantsAssumption DEF setSlots, server, connection, NotFromFuture, TypeOK
  <1>10. ASSUME NEW f \in FetchIds, fetchFails(f)  PROVE NotFromFuture'
    BY <1>10, ConstantsAssumption
    DEF fetchFails, Miss, server, connection, NotFromFuture, TypeOK
  <1>. QED  BY <1>1, <1>2, <1>3, <1>4, <1>5, <1>6, <1>7, <1>8, <1>9, <1>10 DEF Next

\* The client sends a request with every change of activeRoomId and after onopen.
LEMMA NextLastRequestCounts ==
    ASSUME TypeOK, LastRequestCounts, [Next]_vars
    PROVE  LastRequestCounts'
  <1>1. CASE UNCHANGED <<conn, requests, socket, activeRoomId>>
    BY <1>1 DEF LastRequestCounts, TypeOK
  <1>2. ASSUME \/ SubscriberFails \/ SubscriberRetries \/ handleMessage \/ onmessage
               \/ effect \/ loadSlots \/ dismissReservationPrompt
               \/ \E p \in Servers : \E useCase \in UseCases : Commit(p, useCase)
               \/ \E p \in Servers : Publish(p) \/ Crash(p)
               \/ \E type \in {"slot_booked", "slot_available"} : answerReservation(type)
               \/ \E t \in {"load", "refresh"} : timeout(t)
               \/ \E f \in FetchIds : ListRoomSlots(f) \/ setSlots(f) \/ fetchFails(f)
               \/ UNCHANGED vars
        PROVE  UNCHANGED <<conn, requests, socket, activeRoomId>>
    BY <1>2
    DEF Commit, Publish, Crash, SubscriberFails, SubscriberRetries, handleMessage, onmessage,
      effect, loadSlots, dismissReservationPrompt, answerReservation, timeout, ListRoomSlots,
      setSlots, fetchFails, connection, page, server, vars
  <1>3. ASSUME HandleRequest  PROVE LastRequestCounts'
    <2>1. CASE Tail(requests) = <<>>
      <3>1. requests[Len(requests)] = Head(requests)
        <4>1. requests \in Seq({"subscribe", "unsubscribe"}) /\ requests # <<>>
          BY <1>3 DEF HandleRequest, TypeOK
        <4>. QED  BY <2>1, <4>1, OnlyRequest
      <3>2. /\ conn.open /\ requests # <<>> /\ requests' = <<>>
            /\ UNCHANGED <<socket, activeRoomId>>
        BY <1>3, <2>1 DEF HandleRequest
      <3>3. conn' = [conn EXCEPT !.room = (Head(requests) = "subscribe")]
        BY <1>3, Zenon DEF HandleRequest
      <3>4. conn'.room = (Head(requests) = "subscribe")
        BY <3>3 DEF TypeOK
      <3>. QED  BY <3>1, <3>2, <3>4 DEF LastRequestCounts
    <2>2. CASE Tail(requests) # <<>>
      <3>1. /\ requests' = Tail(requests) /\ requests # <<>> /\ conn.open
            /\ UNCHANGED <<socket, activeRoomId>>
        BY <1>3 DEF HandleRequest
      <3>2. requests'[Len(requests')] = requests[Len(requests)]
        BY <2>2, <3>1 DEF TypeOK
      <3>. QED  BY <2>2, <3>1, <3>2 DEF LastRequestCounts
    <2>. QED  BY <2>1, <2>2
  <1>4. ASSUME ConnectionLost  PROVE LastRequestCounts'
    BY <1>4 DEF ConnectionLost, Miss, Closed, server, page, LastRequestCounts, TypeOK
  <1>5. ASSUME onopen  PROVE LastRequestCounts'
    BY <1>5 DEF onopen, server, page, LastRequestCounts, TypeOK
  <1>6. ASSUME onclose  PROVE LastRequestCounts'
    BY <1>6 DEF onclose, server, page, LastRequestCounts, TypeOK
  <1>7. ASSUME reconnect  PROVE LastRequestCounts'
    BY <1>7 DEF reconnect, server, page, LastRequestCounts, TypeOK
  <1>8. ASSUME Navigate  PROVE LastRequestCounts'
    <2>1. CASE conn.open /\ socket = "open" /\ activeRoomId # TRUE
      <3>1. /\ requests' = Append(requests, "subscribe") /\ activeRoomId' = TRUE
            /\ UNCHANGED <<conn, socket>>
        BY <1>8, <2>1 DEF Navigate, setRoomSubscription, TypeOK
      <3>2. requests' # <<>> /\ requests'[Len(requests')] = "subscribe"
        BY <3>1 DEF TypeOK
      <3>. QED  BY <3>1, <3>2 DEF LastRequestCounts
    <2>2. CASE ~(conn.open /\ socket = "open" /\ activeRoomId # TRUE)
      BY <1>8, <2>2 DEF Navigate, setRoomSubscription, LastRequestCounts
    <2>. QED  BY <2>1, <2>2
  <1>9. ASSUME Leave  PROVE LastRequestCounts'
    <2>1. CASE conn.open /\ socket = "open" /\ activeRoomId # FALSE
      <3>1. /\ requests' = Append(requests, "unsubscribe") /\ activeRoomId' = FALSE
            /\ UNCHANGED <<conn, socket>>
        BY <1>9, <2>1 DEF Leave, setRoomSubscription, TypeOK
      <3>2. requests' # <<>> /\ requests'[Len(requests')] = "unsubscribe"
        BY <3>1 DEF TypeOK
      <3>. QED  BY <3>1, <3>2 DEF LastRequestCounts
    <2>2. CASE ~(conn.open /\ socket = "open" /\ activeRoomId # FALSE)
      BY <1>9, <2>2 DEF Leave, setRoomSubscription, LastRequestCounts
    <2>. QED  BY <2>1, <2>2
  <1>10. ASSUME Reload  PROVE LastRequestCounts'
    BY <1>10 DEF Reload, Closed, Idle, server, LastRequestCounts, TypeOK
  <1>. QED  BY <1>1, <1>2, <1>3, <1>4, <1>5, <1>6, <1>7, <1>8, <1>9, <1>10 DEF Next

\* A change is handed from stage to stage; what loses it sets missed.
LEMMA NextCurrentOrUnderWay ==
    ASSUME TypeOK, NotFromFuture, CurrentOrUnderWay, [Next]_vars
    PROVE  CurrentOrUnderWay'
  <1>1. CASE UNCHANGED <<version, outbox, channel, wire, lastEvent, rendered, mounted, timers,
                          fetches, shown, missed>>
    BY <1>1 DEF CurrentOrUnderWay, UnderWay, TypeOK
  <1>2. ASSUME \/ SubscriberRetries \/ onopen \/ onclose \/ reconnect
               \/ dismissReservationPrompt
               \/ UNCHANGED vars
        PROVE  UNCHANGED <<version, outbox, channel, wire, lastEvent, rendered, mounted, timers,
                          fetches, shown, missed>>
    BY <1>2
    DEF SubscriberRetries, onopen, onclose, reconnect, dismissReservationPrompt, connection,
      page, server, vars
  <1>3. ASSUME NEW p \in Servers, NEW useCase \in UseCases, Commit(p, useCase)
        PROVE  CurrentOrUnderWay'
    BY <1>3, PublicationsRefresh, ConstantsAssumption
    DEF Commit, connection, page, CurrentOrUnderWay, UnderWay, TypeOK
  <1>4. ASSUME NEW p \in Servers, Publish(p)  PROVE CurrentOrUnderWay'
    <2>. SUFFICES ASSUME mounted', ~missed', shown' # version'  PROVE UnderWay'
      BY DEF CurrentOrUnderWay
    <2>1. /\ UNCHANGED <<version, wire, lastEvent, rendered, mounted, timers, fetches, shown>>
          /\ outbox[p] # <<>> /\ outbox' = [outbox EXCEPT ![p] = Tail(outbox[p])]
          /\ ~missed
          /\ AnyRefresh(channel) => AnyRefresh(channel')
          /\ Refreshes(Head(outbox[p])) => AnyRefresh(channel')
      <3>1. /\ Head(outbox[p]) \in EventTypes
            /\ \A x \in EventTypes :
                 AnyRefresh(channel) \/ Refreshes(x) => AnyRefresh(Append(channel, x))
        BY <1>4, RefreshInQueue DEF Publish, TypeOK
      <3>2. CASE channel' = Append(channel, Head(outbox[p])) /\ UNCHANGED missed
        BY <1>4, <3>1, <3>2 DEF Publish, connection, page
      <3>3. CASE Miss(Refreshes(Head(outbox[p]))) /\ UNCHANGED channel
        BY <1>4, <3>3 DEF Publish, Miss, connection, page
      <3>. QED  BY <1>4, <3>2, <3>3 DEF Publish
    <2>2. ASSUME NEW q \in Servers, AnyRefresh(outbox[q])
          PROVE  AnyRefresh(channel') \/ AnyRefresh(outbox'[q])
      BY <2>1, <2>2, RefreshInQueue DEF TypeOK
    <2>. QED  BY <2>1, <2>2 DEF CurrentOrUnderWay, UnderWay
  <1>5. ASSUME NEW p \in Servers, Crash(p)  PROVE CurrentOrUnderWay'
    BY <1>5 DEF Crash, Miss, connection, page, CurrentOrUnderWay, UnderWay, TypeOK
  <1>6. ASSUME SubscriberFails  PROVE CurrentOrUnderWay'
    BY <1>6, RefreshInQueue
    DEF SubscriberFails, Miss, connection, page, CurrentOrUnderWay, UnderWay, TypeOK
  <1>7. ASSUME handleMessage  PROVE CurrentOrUnderWay'
    <2>. SUFFICES ASSUME mounted', ~missed', shown' # version'  PROVE UnderWay'
      BY DEF CurrentOrUnderWay
    <2>1. /\ UNCHANGED <<version, outbox, lastEvent, rendered, mounted, timers, fetches, shown>>
          /\ channel # <<>> /\ channel' = Tail(channel)
      BY <1>7 DEF handleMessage, page
    <2>2. ~missed
      BY <1>7 DEF handleMessage, Miss
    <2>3. /\ Head(channel) \in EventTypes
          /\ AnyRefresh(channel) => Refreshes(Head(channel)) \/ AnyRefresh(Tail(channel))
          /\ AnyRefresh(wire) \/ Refreshes(Head(channel)) => AnyRefresh(Append(wire, Head(channel)))
      BY <2>1, RefreshInQueue DEF TypeOK
    <2>4. CASE wire' = Append(wire, Head(channel))
      BY <2>1, <2>2, <2>3, <2>4 DEF CurrentOrUnderWay, UnderWay
    <2>5. CASE Head(channel) \in UserEvents /\ wire' = wire
      <3>1. ~Refreshes(Head(channel))
        BY <2>5 DEF Refreshes, RoomRefreshEvents, UserEvents
      <3>. QED  BY <2>1, <2>2, <2>3, <2>5, <3>1 DEF CurrentOrUnderWay, UnderWay
    <2>. QED  BY <1>7, <2>1, <2>4, <2>5 DEF handleMessage, Miss
  <1>8. ASSUME HandleRequest  PROVE CurrentOrUnderWay'
    <2>1. AnyRefresh(wire) => AnyRefresh(wire')
      BY <1>8, RefreshInQueue DEF HandleRequest, TypeOK, Acks
    <2>. QED  BY <1>8, <2>1 DEF HandleRequest, server, page, CurrentOrUnderWay, UnderWay
  <1>9. ASSUME ConnectionLost  PROVE CurrentOrUnderWay'
    BY <1>9, RefreshInQueue
    DEF ConnectionLost, Miss, Closed, server, page, CurrentOrUnderWay, UnderWay, TypeOK
  <1>10. ASSUME Navigate  PROVE CurrentOrUnderWay'
    BY <1>10 DEF Navigate, setRoomSubscription, server, CurrentOrUnderWay, UnderWay, TypeOK
  <1>11. ASSUME Leave  PROVE CurrentOrUnderWay'
    BY <1>11 DEF Leave, setRoomSubscription, Idle, server, CurrentOrUnderWay, UnderWay, TypeOK
  <1>12. ASSUME Reload  PROVE CurrentOrUnderWay'
    BY <1>12 DEF Reload, Closed, Idle, server, CurrentOrUnderWay, UnderWay, TypeOK
  <1>13. ASSUME onmessage  PROVE CurrentOrUnderWay'
    BY <1>13, RefreshInQueue DEF onmessage, Miss, server, CurrentOrUnderWay, UnderWay, TypeOK
  <1>14. ASSUME effect  PROVE CurrentOrUnderWay'
    <2>. SUFFICES ASSUME mounted', ~missed', shown' # version'  PROVE UnderWay'
      BY DEF CurrentOrUnderWay
    <2>1. /\ UNCHANGED <<version, outbox, channel, wire, lastEvent, mounted, fetches, shown>>
          /\ ~missed /\ ~rendered
          /\ Refreshes(lastEvent) => "refresh" \in timers'
          /\ ~Refreshes(lastEvent) => timers' = timers
      BY <1>14 DEF effect, Miss, server, connection
    <2>. QED  BY <2>1 DEF CurrentOrUnderWay, UnderWay
  <1>15. ASSUME loadSlots  PROVE CurrentOrUnderWay'
    BY <1>15
    DEF loadSlots, StartFetch, FreeFetches, Sent, server, connection, CurrentOrUnderWay,
      UnderWay, TypeOK
  <1>16. ASSUME NEW type \in {"slot_booked", "slot_available"}, answerReservation(type)
         PROVE  CurrentOrUnderWay'
    <2>. SUFFICES ASSUME mounted', ~missed', shown' # version'  PROVE UnderWay'
      BY DEF CurrentOrUnderWay
    <2>1. Refreshes(lastEvent') /\ ~rendered'
      BY <1>16 DEF answerReservation, Refreshes, RoomRefreshEvents
    <2>. QED  BY <2>1 DEF UnderWay
  <1>17. ASSUME NEW t \in {"load", "refresh"}, timeout(t)  PROVE CurrentOrUnderWay'
    BY <1>17
    DEF timeout, StartFetch, FreeFetches, Sent, server, connection, CurrentOrUnderWay, UnderWay,
      TypeOK
  <1>18. ASSUME NEW f \in FetchIds, ListRoomSlots(f)  PROVE CurrentOrUnderWay'
    BY <1>18 DEF ListRoomSlots, Sent, server, connection, CurrentOrUnderWay, UnderWay, TypeOK
  <1>19. ASSUME NEW f \in FetchIds, setSlots(f)  PROVE CurrentOrUnderWay'
    <2>. SUFFICES ASSUME mounted', ~missed', shown' # version'  PROVE UnderWay'
      BY DEF CurrentOrUnderWay
    <2>1. /\ fetches[f] \in Nat /\ fetches[f] # version /\ shown' = fetches[f]
          /\ ~missed /\ ~(shown \in Nat /\ fetches[f] < shown)
          /\ fetches' = [fetches EXCEPT ![f] = None]
          /\ UNCHANGED <<version, outbox, channel, wire, lastEvent, rendered, mounted, timers>>
      BY <1>19 DEF setSlots, server, connection
    <2>2. /\ version \in Nat /\ fetches[f] < version
          /\ fetches \in [FetchIds -> 0..MaxVersion \union {None, Sent}]
      BY <2>1, ConstantsAssumption DEF NotFromFuture, TypeOK
    <2>3. shown # version
      BY <2>1, <2>2
    <2>4. ASSUME NEW g \in FetchIds, fetches[g] \in {Sent, version}
          PROVE  fetches'[g] \in {Sent, version'}
      BY <2>1, <2>2, <2>4 DEF Sent
    <2>. QED  BY <2>1, <2>2, <2>3, <2>4 DEF CurrentOrUnderWay, UnderWay
  <1>20. ASSUME NEW f \in FetchIds, fetchFails(f)  PROVE CurrentOrUnderWay'
    BY <1>20 DEF fetchFails, Miss, server, connection, CurrentOrUnderWay, UnderWay, TypeOK
  <1>. QED  BY <1>1, <1>2, <1>3, <1>4, <1>5, <1>6, <1>7, <1>8, <1>9, <1>10, <1>11, <1>12, <1>13,
      <1>14, <1>15, <1>16, <1>17, <1>18, <1>19, <1>20 DEF Next

\* setRoomSubscription is called by the page when it is mounted and when it is left.
LEMMA NextSetByPage ==
    ASSUME TypeOK, SetByPage, [Next]_vars
    PROVE  SetByPage'
  <1>1. CASE Navigate \/ Leave \/ Reload
    BY <1>1 DEF Navigate, Leave, Reload, setRoomSubscription, SetByPage
  <1>2. CASE ~(Navigate \/ Leave \/ Reload)
    <2>1. UNCHANGED <<activeRoomId, mounted>>
      BY <1>2
      DEF Next, vars, server, connection, page, Publish, Crash, Commit, SubscriberFails,
        SubscriberRetries, handleMessage, HandleRequest, ConnectionLost, onopen, onclose, reconnect,
        onmessage, effect, loadSlots, dismissReservationPrompt, answerReservation, timeout,
        ListRoomSlots, setSlots, fetchFails
    <2>. QED  BY <2>1 DEF SetByPage
  <1>. QED  BY <1>1, <1>2

\* At the start the page is not shown.
LEMMA InitPageInv == Init => PageInv
  <1>. SUFFICES ASSUME Init  PROVE PageInv
    OBVIOUS
  <1>1. TypeOK
    <2>1. fetches \in [FetchIds -> 0..MaxVersion \union {None, Sent}]
      BY DEF Init, Idle
    <2>2. conn \in [open : BOOLEAN, room : BOOLEAN]
      BY DEF Init, Closed
    <2>3. outbox \in [Servers -> Seq(EventTypes)]
      BY DEF Init
    <2>4. /\ channel \in Seq(EventTypes) /\ wire \in Seq(EventTypes \union Acks)
          /\ requests \in Seq({"subscribe", "unsubscribe"})
      BY DEF Init
    <2>5. version \in 0..MaxVersion
      BY ConstantsAssumption DEF Init
    <2>6. {reconnectTimer, activeRoomId, activeReservation, rendered, mounted, missed} \subseteq BOOLEAN
      BY Zenon DEF Init
    <2>. QED  BY <2>1, <2>2, <2>3, <2>4, <2>5, <2>6 DEF Init, TypeOK
  <1>2. NotFromFuture
    BY ConstantsAssumption DEF Init, NotFromFuture, Idle
  <1>3. CurrentOrUnderWay
    BY DEF Init, CurrentOrUnderWay
  <1>4. LastRequestCounts
    BY DEF Init, LastRequestCounts, Closed
  <1>5. SetByPage
    BY DEF Init, SetByPage
  <1>. QED  BY <1>1, <1>2, <1>3, <1>4, <1>5 DEF PageInv

-----------------------------------------------------------------------------
(* What holds in every reachable state. *)

\* PageInv always holds.
LEMMA AlwaysPageInv == Spec => []PageInv
  <1>1. PageInv /\ [Next]_vars => PageInv'
    BY NextTypeOK, NextNotFromFuture, NextLastRequestCounts, NextCurrentOrUnderWay, NextSetByPage
    DEF PageInv
  <1>. QED  BY <1>1, InitPageInv, PTL DEF Spec

\* Every variable keeps its type; in particular every event that a use case
\* publishes, over the channel and the websocket to lastEvent, is one that
\* Validate in the subscriber accepts.
THEOREM PageTypeCorrect == Spec => []TypeOK
  <1>1. PageInv => TypeOK
    BY DEF PageInv
  <1>. QED  BY <1>1, AlwaysPageInv, PTL

\* When nothing is under way any more, a page that has missed nothing shows the
\* slots as they are: for any number of goroutines that commit and publish, of
\* events on their way and of requests under way at once, the refresh that the
\* last commit asks for is not lost between publishEvent and setSlots.
THEOREM StalePagesMissedSomething == Spec => []StaleOnlyWhenMissed
  <1>1. ASSUME PageInv  PROVE StaleOnlyWhenMissed
    <2>. SUFFICES ASSUME Quiet, mounted, shown # None, ~missed  PROVE shown = version
      BY DEF StaleOnlyWhenMissed
    <2>1. ~AnyRefresh(<<>>)
      BY DEF AnyRefresh
    <2>2. \A f \in FetchIds : fetches[f] \notin {Sent, version}
      BY <1>1, ConstantsAssumption DEF Quiet, Idle, PageInv, TypeOK, Sent
    <2>3. ~UnderWay
      BY <2>1, <2>2 DEF Quiet, UnderWay
    <2>. QED  BY <1>1, <2>3 DEF PageInv, CurrentOrUnderWay
  <1>. QED  BY <1>1, AlwaysPageInv, PTL

\* Once the server has handled every request of the browser, the connection is in
\* the room exactly when the client has it set in activeRoomId, and in none once the
\* page has been left: the requests that setRoomSubscription and onopen send end in
\* one about activeRoomId, through any number of visits and reconnects.  That a page
\* on the screen has its room set is not claimed, and is not so after a Reload.
THEOREM SubscriptionsAgree == Spec => []SubscriptionAgrees
  <1>1. PageInv => SubscriptionAgrees
    BY DEF PageInv, LastRequestCounts, SetByPage, SubscriptionAgrees
  <1>. QED  BY <1>1, AlwaysPageInv, PTL
=============================================================================
