------------------------------ MODULE HubProofs ------------------------------
(***************************************************************************)
(* What RealtimeHub keeps for any number of clients, rooms, users and      *)
(* events and any size of the queues.                                      *)
(*                                                                         *)
(* HubInv says, for a connection that nobody has begun to close, how the   *)
(* client's rooms, the hub's rooms and the events still owed relate at     *)
(* each stage of readPump and of a broadcast; and, for one that is being   *)
(* closed, what Close has already taken away and nobody can bring back.    *)
(***************************************************************************)
EXTENDS RealtimeHub, FiniteSetTheorems, TLAPS

RoomsOf(c) == {r \in Rooms : c \in rooms[r]}

\* readPump knows the room it is asked for.
ReaderHasRoom ==
    \A c \in Clients :
        reader[c].at \in {"subscribe", "hubSubscribe", "unsubscribe", "hubUnsubscribe"} =>
            reader[c].room \in Rooms

\* Nobody knows a client whose Run has not begun.
NewIsUnknown ==
    \A c \in Clients :
        /\ ReaderAt(c, "new") <=> writer[c] = "new"
        /\ ReaderAt(c, "new") =>
             /\ once[c] = "open"
             /\ \A r \in Rooms : c \notin rooms[r]
             /\ \A u \in Users : c \notin users[u]
             /\ c \notin hub.todo /\ c \notin hub.slow /\ hub.closing # c

\* The rooms of an open client, on both sides, between the two critical sections
\* of a request too.
RoomsAgree ==
    \A c \in Clients : once[c] = "open" =>
        /\ ReaderAt(c, "hubSubscribe") => subscribed[c] = RoomsOf(c) \union {reader[c].room}
        /\ ReaderAt(c, "hubUnsubscribe") => subscribed[c] = RoomsOf(c) \ {reader[c].room}
        /\ reader[c].at \notin {"hubSubscribe", "hubUnsubscribe"} => subscribed[c] = RoomsOf(c)

\* A room that is, or is about to be, acknowledged has the client in the hub.
AckedIsSubscribed ==
    \A c \in Clients : once[c] = "open" =>
        /\ acked[c] \subseteq RoomsOf(c)
        /\ ReaderAt(c, "reply") => reader[c].room \in RoomsOf(c) \union {None}
        /\ ReaderAt(c, "hubUnsubscribe") => reader[c].room \notin acked[c]

\* A user has its own clients, each of them until Close takes it away.
Registered ==
    \A c \in Clients :
        /\ \A u \in Users : c \in users[u] => u = UserOf[c]
        /\ once[c] = "open" /\ writer[c] # "new" => c \in users[UserOf[c]]
        /\ once[c] \in {"unregistered", "done"} => c \notin users[UserOf[c]]

\* What an open client has not got is the event being delivered, and the client
\* is still to be written to or to be closed.
OwedOrClosing ==
    \A c \in Clients : once[c] = "open" =>
        /\ missing[c] \subseteq {events}
        /\ missing[c] # {} => c \in hub.todo \union hub.slow \union {hub.closing}

\* What Close takes away comes back only behind its back.
ClosedIsEmpty ==
    \A c \in Clients :
        /\ ReaderAt(c, "ended") => once[c] = "done"
        /\ once[c] # "open" /\ c \notin late => subscribed[c] = {}
        /\ once[c] \in {"unsubscribed", "unregistered", "done"} /\ c \notin late => RoomsOf(c) = {}

\* The subscriptions, as pairs; the gauge counts them.
Pairs == {x \in Clients \X Rooms : x[2] \in subscribed[x[1]]}
GaugeCounts == IsFiniteSet(Pairs) /\ wsSubscriptions = Cardinality(Pairs)

HubInv ==
    /\ TypeOK /\ ReaderHasRoom /\ NewIsUnknown /\ RoomsAgree /\ AckedIsSubscribed /\ Registered
    /\ OwedOrClosing /\ ClosedIsEmpty
    /\ GaugeCounts

-----------------------------------------------------------------------------
(* The gauge. *)

\* The subscriptions of one client.
LEMMA OwnPairs ==
    ASSUME TypeOK, IsFiniteSet(Pairs), NEW c \in Clients
    PROVE  /\ IsFiniteSet(subscribed[c])
           /\ IsFiniteSet({x \in Pairs : x[1] = c})
           /\ Cardinality({x \in Pairs : x[1] = c}) = Cardinality(subscribed[c])
  <1>. DEFINE own == {x \in Pairs : x[1] = c}
              f == [x \in own |-> x[2]]
  <1>1. IsFiniteSet(own)
    BY FS_Subset
  <1>2. \A x \in own : x = <<c, x[2]>> /\ x[2] \in subscribed[c]
    BY DEF Pairs
  <1>3. f \in [own -> subscribed[c]]
    BY <1>2
  <1>4. \A x, y \in own : f[x] = f[y] => x = y
    BY <1>2
  <1>5. \A r \in subscribed[c] : <<c, r>> \in own /\ f[<<c, r>>] = r
    BY DEF Pairs, TypeOK
  <1>. HIDE DEF own, f
  <1>6. f \in Bijection(own, subscribed[c])
    <2>1. f \in Injection(own, subscribed[c])
      BY <1>3, <1>4 DEF Injection, IsInjective
    <2>2. f \in Surjection(own, subscribed[c])
      BY <1>3, <1>5 DEF Surjection
    <2>. QED  BY <2>1, <2>2 DEF Bijection
  <1>7. ExistsBijection(own, subscribed[c])
    BY <1>6 DEF ExistsBijection
  <1>8. IsFiniteSet(subscribed[c]) /\ Cardinality(subscribed[c]) = Cardinality(own)
    BY <1>1, <1>7, FS_Bijection
  <1>. QED  BY <1>1, <1>8 DEF own

\* Subscribe, Unsubscribe and Close change the gauge by as many pairs as they change.
LEMMA NextGaugeCounts ==
    ASSUME HubInv, [Next]_vars
    PROVE  GaugeCounts'
  <1>0. TypeOK /\ IsFiniteSet(Pairs) /\ wsSubscriptions = Cardinality(Pairs)
    BY DEF HubInv, GaugeCounts
  <1>1. CASE UNCHANGED <<subscribed, wsSubscriptions>>
    BY <1>0, <1>1 DEF GaugeCounts, Pairs
  <1>2. ASSUME NEW c \in Clients, Subscribe(c)  PROVE GaugeCounts'
    <2>1. CASE /\ reader[c].room \notin subscribed[c]
               /\ subscribed' = [subscribed EXCEPT ![c] = @ \union {reader[c].room}]
               /\ wsSubscriptions' = wsSubscriptions + 1
      <3>1. reader[c].room \in Rooms
        BY <1>2 DEF HubInv, ReaderHasRoom, Subscribe, ReaderAt
      <3>2. <<c, reader[c].room>> \notin Pairs
        BY <2>1 DEF Pairs
      <3>3. Pairs' = Pairs \union {<<c, reader[c].room>>}
        BY <1>0, <2>1, <3>1 DEF Pairs, TypeOK
      <3>. QED  BY <1>0, <2>1, <3>2, <3>3, FS_AddElement DEF GaugeCounts
    <2>. QED  BY <1>1, <1>2, <2>1 DEF Subscribe
  <1>3. ASSUME NEW c \in Clients, Unsubscribe(c)  PROVE GaugeCounts'
    <2>1. CASE /\ reader[c].room \in subscribed[c]
               /\ subscribed' = [subscribed EXCEPT ![c] = @ \ {reader[c].room}]
               /\ wsSubscriptions' = wsSubscriptions - 1
      <3>1. <<c, reader[c].room>> \in Pairs
        BY <1>0, <2>1 DEF Pairs, TypeOK
      <3>2. Pairs' = Pairs \ {<<c, reader[c].room>>}
        BY <1>0, <2>1 DEF Pairs, TypeOK
      <3>. QED  BY <1>0, <2>1, <3>1, <3>2, FS_RemoveElement DEF GaugeCounts
    <2>. QED  BY <1>1, <1>3, <2>1 DEF Unsubscribe
  <1>4. ASSUME NEW c \in Clients, CloseStarts(c)  PROVE GaugeCounts'
    <2>. DEFINE own == {x \in Pairs : x[1] = c}
    <2>1. IsFiniteSet(own) /\ Cardinality(own) = Cardinality(subscribed[c])
      BY <1>0, OwnPairs
    <2>2. Pairs' = Pairs \ own
      BY <1>0, <1>4 DEF CloseStarts, Pairs, TypeOK
    <2>3. Pairs = (Pairs \ own) \union own /\ (Pairs \ own) \cap own = {}
      OBVIOUS
    <2>. HIDE DEF own
    <2>4. IsFiniteSet(Pairs \ own)
      BY <1>0, FS_Subset
    <2>5. Cardinality(Pairs) = Cardinality(Pairs \ own) + Cardinality(own) - Cardinality({})
      BY <2>1, <2>3, <2>4, FS_Union
    <2>6. /\ Cardinality(Pairs \ own) \in Nat /\ Cardinality(own) \in Nat
          /\ Cardinality({}) = 0
      BY <2>1, <2>4, FS_CardinalityType, FS_EmptySet
    <2>7. wsSubscriptions' = wsSubscriptions - Cardinality(subscribed[c])
      BY <1>4 DEF CloseStarts
    <2>8. wsSubscriptions' = Cardinality(Pairs \ own)
      BY <1>0, <2>1, <2>5, <2>6, <2>7
    <2>. QED  BY <2>2, <2>4, <2>8 DEF GaugeCounts
  <1>5. ASSUME NEW c \in Clients,
               \/ Run(c) \/ ReadMessage(c) \/ ReadError(c) \/ HubSubscribe(c) \/ HubUnsubscribe(c)
               \/ Reply(c) \/ ReaderClosed(c) \/ Write(c) \/ WriteError(c) \/ WriterClosed(c)
               \/ CloseConn(c) \/ UnsubscribeAll(c) \/ UnregisterUser(c) \/ CloseSend(c)
               \/ HubStep(c)
        PROVE  UNCHANGED <<subscribed, wsSubscriptions>>
    BY <1>5
    DEF Run, ReadMessage, ReadError, HubSubscribe, HubUnsubscribe, Reply, ReaderClosed, Write,
        WriteError, WriterClosed, CloseConn, UnsubscribeAll, UnregisterUser, CloseSend, HubStep,
        Deliver, DisconnectSlow, HubClosed, client
  <1>6. ASSUME \/ \E r \in Rooms : Broadcast(r)
               \/ \E u \in Users : SendToUser(u)
               \/ UNCHANGED vars
        PROVE  UNCHANGED <<subscribed, wsSubscriptions>>
    BY <1>6 DEF Broadcast, SendToUser, vars, client
  <1>. QED  BY <1>1, <1>2, <1>3, <1>4, <1>5, <1>6 DEF Next, ReaderStep, CloseSteps

-----------------------------------------------------------------------------
(* The other parts of HubInv, action by action. *)

\* Every step keeps the types.
LEMMA NextTypeOK ==
    ASSUME HubInv, [Next]_vars
    PROVE  TypeOK'
  <1>1. CASE UNCHANGED vars
    BY <1>1 DEF HubInv, vars, TypeOK, Onces, ReaderStages, WriterStages
  <1>2. ASSUME NEW c \in Clients, Run(c)  PROVE TypeOK'
    BY <1>2
    DEF Run, ReaderGoto, ReaderAt, WriterGoto, client, history, HubInv, TypeOK, ReaderStages,
        WriterStages
  <1>3. ASSUME NEW c \in Clients, ReadMessage(c)  PROVE TypeOK'
    <2>1. ASSUME NEW stage \in {"subscribe", "unsubscribe"}, NEW r \in Rooms,
                 ReaderGotoFor(c, stage, r)
          PROVE  TypeOK'
      BY <1>3, <2>1
      DEF ReadMessage, ReaderGoto, ReaderGotoFor, ReaderAt, client, history, HubInv, TypeOK,
          ReaderStages
    <2>2. CASE ReaderGoto(c, "reply")
      BY <1>3, <2>2
      DEF ReadMessage, ReaderGoto, ReaderGotoFor, ReaderAt, client, history, HubInv, TypeOK,
          ReaderStages
    <2>. QED  BY <1>3, <2>1, <2>2 DEF ReadMessage
  <1>4. ASSUME NEW c \in Clients, ReadError(c)  PROVE TypeOK'
    BY <1>4 DEF ReadError, ReaderGoto, ReaderAt, client, history, HubInv, TypeOK, ReaderStages
  <1>5. ASSUME NEW c \in Clients, Subscribe(c)  PROVE TypeOK'
    <2>1. CASE ReaderGoto(c, "read") /\ UNCHANGED <<subscribed, wsSubscriptions, late>>
      BY <1>5, <2>1
      DEF Subscribe, ReaderGoto, ReaderGotoFor, ReaderAt, HubInv, TypeOK, ReaderStages,
          ReaderHasRoom
    <2>2. CASE ReaderGoto(c, "reply") /\ UNCHANGED <<subscribed, wsSubscriptions, late>>
      BY <1>5, <2>2
      DEF Subscribe, ReaderGoto, ReaderGotoFor, ReaderAt, HubInv, TypeOK, ReaderStages,
          ReaderHasRoom
    <2>3. CASE /\ reader[c].room \notin subscribed[c]
               /\ subscribed' = [subscribed EXCEPT ![c] = @ \union {reader[c].room}]
               /\ wsSubscriptions' = wsSubscriptions + 1
               /\ late' = IF once[c] = "open" THEN late ELSE late \union {c}
               /\ ReaderGotoFor(c, "hubSubscribe", reader[c].room)
      BY <1>5, <2>3
      DEF Subscribe, ReaderGoto, ReaderGotoFor, ReaderAt, HubInv, TypeOK, ReaderStages,
          ReaderHasRoom
    <2>. QED  BY <1>5, <2>1, <2>2, <2>3 DEF Subscribe
  <1>6. ASSUME NEW c \in Clients, HubSubscribe(c)  PROVE TypeOK'
    BY <1>6
    DEF HubSubscribe, ReaderGotoFor, ReaderAt, client, HubInv, TypeOK, ReaderStages,
        ReaderHasRoom
  <1>7. ASSUME NEW c \in Clients, Unsubscribe(c)  PROVE TypeOK'
    <2>1. CASE ReaderGoto(c, "read") /\ UNCHANGED <<subscribed, wsSubscriptions, acked>>
      BY <1>7, <2>1
      DEF Unsubscribe, ReaderGoto, ReaderGotoFor, ReaderAt, HubInv, TypeOK, ReaderStages,
          ReaderHasRoom
    <2>2. CASE /\ reader[c].room \in subscribed[c]
               /\ subscribed' = [subscribed EXCEPT ![c] = @ \ {reader[c].room}]
               /\ wsSubscriptions' = wsSubscriptions - 1
               /\ acked' = [acked EXCEPT ![c] = @ \ {reader[c].room}]
               /\ ReaderGotoFor(c, "hubUnsubscribe", reader[c].room)
      BY <1>7, <2>2
      DEF Unsubscribe, ReaderGoto, ReaderGotoFor, ReaderAt, HubInv, TypeOK, ReaderStages,
          ReaderHasRoom
    <2>. QED  BY <1>7, <2>1, <2>2 DEF Unsubscribe
  <1>8. ASSUME NEW c \in Clients, HubUnsubscribe(c)  PROVE TypeOK'
    BY <1>8
    DEF HubUnsubscribe, ReaderGoto, ReaderAt, client, history, HubInv, TypeOK, ReaderStages
  <1>9. ASSUME NEW c \in Clients, Reply(c)  PROVE TypeOK'
    <2>1. CASE /\ CanEnqueue(c) /\ queued' = [queued EXCEPT ![c] = @ + 1]
               /\ acked' = [acked EXCEPT ![c] = @ \union ({reader[c].room} \ {None})]
               /\ ReaderGoto(c, "read")
      BY <1>9, <2>1, ConstantsAssumption
      DEF Reply, ReaderGoto, ReaderAt, CanEnqueue, HubInv, TypeOK, ReaderStages
    <2>2. CASE ReaderGoto(c, "drop") /\ UNCHANGED <<queued, acked>>
      BY <1>9, <2>2 DEF Reply, ReaderGoto, ReaderAt, CanEnqueue, HubInv, TypeOK, ReaderStages
    <2>. QED  BY <1>9, <2>1, <2>2 DEF Reply
  <1>10. ASSUME NEW c \in Clients, Write(c)  PROVE TypeOK'
    BY <1>10, ConstantsAssumption DEF Write, history, HubInv, TypeOK
  <1>11. ASSUME NEW c \in Clients, WriteError(c)  PROVE TypeOK'
    BY <1>11 DEF WriteError, WriterGoto, client, history, HubInv, TypeOK, WriterStages
  <1>12. ASSUME NEW c \in Clients, CloseStarts(c)  PROVE TypeOK'
    <2>1. Cardinality(subscribed[c]) \in Nat
      BY OwnPairs, FS_CardinalityType DEF HubInv, GaugeCounts
    <2>. QED  BY <1>12, <2>1 DEF CloseStarts, HubInv, TypeOK, Onces
  <1>13. ASSUME NEW c \in Clients, CloseConn(c)  PROVE TypeOK'
    BY <1>13 DEF CloseConn, CloseStep, history, HubInv, TypeOK, Onces
  <1>14. ASSUME NEW c \in Clients, UnsubscribeAll(c)  PROVE TypeOK'
    BY <1>14 DEF UnsubscribeAll, CloseStep, history, HubInv, TypeOK, Onces
  <1>15. ASSUME NEW c \in Clients, UnregisterUser(c)  PROVE TypeOK'
    BY <1>15 DEF UnregisterUser, CloseStep, history, HubInv, TypeOK, Onces
  <1>16. ASSUME NEW c \in Clients, CloseSend(c)  PROVE TypeOK'
    BY <1>16 DEF CloseSend, CloseStep, history, HubInv, TypeOK, Onces
  <1>17. ASSUME NEW c \in Clients, ReaderClosed(c)  PROVE TypeOK'
    <2>1. CASE ReaderGoto(c, "read")
      BY <1>17, <2>1
      DEF ReaderClosed, ReaderGoto, ReaderAt, client, history, HubInv, TypeOK, ReaderStages
    <2>2. CASE ReaderGoto(c, "ended")
      BY <1>17, <2>2
      DEF ReaderClosed, ReaderGoto, ReaderAt, client, history, HubInv, TypeOK, ReaderStages
    <2>. QED  BY <1>17, <2>1, <2>2 DEF ReaderClosed
  <1>18. ASSUME NEW c \in Clients, WriterClosed(c)  PROVE TypeOK'
    BY <1>18 DEF WriterClosed, WriterGoto, client, history, HubInv, TypeOK, WriterStages
  <1>19. ASSUME NEW c \in Clients, Deliver(c)  PROVE TypeOK'
    <2>1. CASE /\ CanEnqueue(c) /\ queued' = [queued EXCEPT ![c] = @ + 1]
               /\ missing' = [missing EXCEPT ![c] = @ \ {events}]
               /\ hub' = [hub EXCEPT !.todo = @ \ {c}]
      BY <1>19, <2>1, ConstantsAssumption
      DEF Deliver, CanEnqueue, HubInv, TypeOK, Onces, ReaderStages, WriterStages
    <2>2. CASE /\ hub' = [hub EXCEPT !.todo = @ \ {c}, !.slow = @ \union {c}]
               /\ UNCHANGED <<queued, missing>>
      BY <1>19, <2>2 DEF Deliver, CanEnqueue, HubInv, TypeOK, Onces, ReaderStages, WriterStages
    <2>. QED  BY <1>19, <2>1, <2>2 DEF Deliver
  <1>20. ASSUME NEW c \in Clients, DisconnectSlow(c)  PROVE TypeOK'
    BY <1>20 DEF DisconnectSlow, client, history, HubInv, TypeOK
  <1>21. ASSUME NEW c \in Clients, HubClosed(c)  PROVE TypeOK'
    BY <1>21 DEF HubClosed, client, history, HubInv, TypeOK
  <1>22. ASSUME NEW r \in Rooms, Broadcast(r)  PROVE TypeOK'
    BY <1>22 DEF Broadcast, Receive, IdleHub, client, HubInv, TypeOK
  <1>23. ASSUME NEW u \in Users, SendToUser(u)  PROVE TypeOK'
    BY <1>23 DEF SendToUser, Receive, IdleHub, client, HubInv, TypeOK
  <1>. QED  BY <1>1, <1>2, <1>3, <1>4, <1>5, <1>6, <1>7, <1>8, <1>9, <1>10, <1>11, <1>12, <1>13,
         <1>14, <1>15, <1>16, <1>17, <1>18, <1>19, <1>20, <1>21, <1>22, <1>23
  DEF Next, ReaderStep, CloseSteps, HubStep

\* readPump goes to a statement about a room only with a room of a request.
LEMMA NextReaderHasRoom ==
    ASSUME HubInv, [Next]_vars
    PROVE  ReaderHasRoom'
  <1>1. CASE UNCHANGED reader
    BY <1>1 DEF HubInv, TypeOK, ReaderHasRoom
  <1>2. ASSUME \/ \E c \in Clients : Write(c) \/ WriteError(c) \/ CloseStarts(c) \/
                      CloseConn(c) \/ UnsubscribeAll(c) \/ UnregisterUser(c) \/ CloseSend(c) \/
                      WriterClosed(c) \/ Deliver(c) \/ DisconnectSlow(c) \/ HubClosed(c)
               \/ \E r \in Rooms : Broadcast(r)
               \/ \E u \in Users : SendToUser(u)
               \/ UNCHANGED vars
        PROVE  UNCHANGED reader
    BY <1>2
    DEF Write, WriteError, CloseStarts, CloseConn, UnsubscribeAll, UnregisterUser, CloseSend,
        WriterClosed, Deliver, DisconnectSlow, HubClosed, Broadcast, SendToUser, history,
        client, Receive, vars
  <1>3. ASSUME NEW c \in Clients, Run(c)  PROVE ReaderHasRoom'
    BY <1>3
    DEF Run, ReaderGoto, ReaderAt, WriterGoto, client, history, HubInv, TypeOK, ReaderHasRoom
  <1>4. ASSUME NEW c \in Clients, ReadMessage(c)  PROVE ReaderHasRoom'
    <2>1. ASSUME NEW stage \in {"subscribe", "unsubscribe"}, NEW r \in Rooms,
                 ReaderGotoFor(c, stage, r)
          PROVE  ReaderHasRoom'
      BY <1>4, <2>1
      DEF ReadMessage, ReaderGoto, ReaderGotoFor, ReaderAt, client, history, HubInv, TypeOK,
          ReaderHasRoom
    <2>2. CASE ReaderGoto(c, "reply")
      BY <1>4, <2>2
      DEF ReadMessage, ReaderGoto, ReaderGotoFor, ReaderAt, client, history, HubInv, TypeOK,
          ReaderHasRoom
    <2>. QED  BY <1>4, <2>1, <2>2 DEF ReadMessage
  <1>5. ASSUME NEW c \in Clients, ReadError(c)  PROVE ReaderHasRoom'
    BY <1>5 DEF ReadError, ReaderGoto, ReaderAt, client, history, HubInv, TypeOK, ReaderHasRoom
  <1>6. ASSUME NEW c \in Clients, Subscribe(c)  PROVE ReaderHasRoom'
    <2>1. CASE ReaderGoto(c, "read") /\ UNCHANGED <<subscribed, wsSubscriptions, late>>
      BY <1>6, <2>1
      DEF Subscribe, ReaderGoto, ReaderGotoFor, ReaderAt, HubInv, TypeOK, ReaderHasRoom
    <2>2. CASE ReaderGoto(c, "reply") /\ UNCHANGED <<subscribed, wsSubscriptions, late>>
      BY <1>6, <2>2
      DEF Subscribe, ReaderGoto, ReaderGotoFor, ReaderAt, HubInv, TypeOK, ReaderHasRoom
    <2>3. CASE /\ reader[c].room \notin subscribed[c]
               /\ subscribed' = [subscribed EXCEPT ![c] = @ \union {reader[c].room}]
               /\ wsSubscriptions' = wsSubscriptions + 1
               /\ late' = IF once[c] = "open" THEN late ELSE late \union {c}
               /\ ReaderGotoFor(c, "hubSubscribe", reader[c].room)
      BY <1>6, <2>3
      DEF Subscribe, ReaderGoto, ReaderGotoFor, ReaderAt, HubInv, TypeOK, ReaderHasRoom
    <2>. QED  BY <1>6, <2>1, <2>2, <2>3 DEF Subscribe
  <1>7. ASSUME NEW c \in Clients, HubSubscribe(c)  PROVE ReaderHasRoom'
    BY <1>7 DEF HubSubscribe, ReaderGotoFor, ReaderAt, client, HubInv, TypeOK, ReaderHasRoom
  <1>8. ASSUME NEW c \in Clients, Unsubscribe(c)  PROVE ReaderHasRoom'
    <2>1. CASE ReaderGoto(c, "read") /\ UNCHANGED <<subscribed, wsSubscriptions, acked>>
      BY <1>8, <2>1
      DEF Unsubscribe, ReaderGoto, ReaderGotoFor, ReaderAt, HubInv, TypeOK, ReaderHasRoom
    <2>2. CASE /\ reader[c].room \in subscribed[c]
               /\ subscribed' = [subscribed EXCEPT ![c] = @ \ {reader[c].room}]
               /\ wsSubscriptions' = wsSubscriptions - 1
               /\ acked' = [acked EXCEPT ![c] = @ \ {reader[c].room}]
               /\ ReaderGotoFor(c, "hubUnsubscribe", reader[c].room)
      BY <1>8, <2>2
      DEF Unsubscribe, ReaderGoto, ReaderGotoFor, ReaderAt, HubInv, TypeOK, ReaderHasRoom
    <2>. QED  BY <1>8, <2>1, <2>2 DEF Unsubscribe
  <1>9. ASSUME NEW c \in Clients, HubUnsubscribe(c)  PROVE ReaderHasRoom'
    BY <1>9
    DEF HubUnsubscribe, ReaderGoto, ReaderAt, client, history, HubInv, TypeOK, ReaderHasRoom
  <1>10. ASSUME NEW c \in Clients, Reply(c)  PROVE ReaderHasRoom'
    <2>1. CASE /\ CanEnqueue(c) /\ queued' = [queued EXCEPT ![c] = @ + 1]
               /\ acked' = [acked EXCEPT ![c] = @ \union ({reader[c].room} \ {None})]
               /\ ReaderGoto(c, "read")
      BY <1>10, <2>1 DEF Reply, ReaderGoto, ReaderAt, CanEnqueue, HubInv, TypeOK, ReaderHasRoom
    <2>2. CASE ReaderGoto(c, "drop") /\ UNCHANGED <<queued, acked>>
      BY <1>10, <2>2 DEF Reply, ReaderGoto, ReaderAt, CanEnqueue, HubInv, TypeOK, ReaderHasRoom
    <2>. QED  BY <1>10, <2>1, <2>2 DEF Reply
  <1>11. ASSUME NEW c \in Clients, ReaderClosed(c)  PROVE ReaderHasRoom'
    <2>1. CASE ReaderGoto(c, "read")
      BY <1>11, <2>1
      DEF ReaderClosed, ReaderGoto, ReaderAt, client, history, HubInv, TypeOK, ReaderHasRoom
    <2>2. CASE ReaderGoto(c, "ended")
      BY <1>11, <2>2
      DEF ReaderClosed, ReaderGoto, ReaderAt, client, history, HubInv, TypeOK, ReaderHasRoom
    <2>. QED  BY <1>11, <2>1, <2>2 DEF ReaderClosed
  <1>. QED  BY <1>1, <1>2, <1>3, <1>4, <1>5, <1>6, <1>7, <1>8, <1>9, <1>10, <1>11
  DEF Next, ReaderStep, CloseSteps, HubStep

\* Before Run, no goroutine has a reference to the client.
LEMMA NextNewIsUnknown ==
    ASSUME HubInv, [Next]_vars
    PROVE  NewIsUnknown'
  <1>1. CASE UNCHANGED <<rooms, users, once, reader, writer, hub>>
    BY <1>1 DEF HubInv, TypeOK, NewIsUnknown, ReaderAt
  <1>2. ASSUME \/ \E c \in Clients : Write(c)
               \/ UNCHANGED vars
        PROVE  UNCHANGED <<rooms, users, once, reader, writer, hub>>
    BY <1>2 DEF Write, history, vars
  <1>3. ASSUME NEW c \in Clients, Run(c)  PROVE NewIsUnknown'
    BY <1>3
    DEF Run, ReaderGoto, ReaderAt, WriterGoto, client, history, HubInv, TypeOK, NewIsUnknown
  <1>4. ASSUME NEW c \in Clients, ReadMessage(c)  PROVE NewIsUnknown'
    BY <1>4
    DEF ReadMessage, ReaderGoto, ReaderGotoFor, ReaderAt, client, history, HubInv, TypeOK,
        NewIsUnknown
  <1>5. ASSUME NEW c \in Clients, ReadError(c)  PROVE NewIsUnknown'
    BY <1>5 DEF ReadError, ReaderGoto, ReaderAt, client, history, HubInv, TypeOK, NewIsUnknown
  <1>6. ASSUME NEW c \in Clients, Subscribe(c)  PROVE NewIsUnknown'
    BY <1>6
    DEF Subscribe, ReaderGoto, ReaderGotoFor, ReaderAt, HubInv, TypeOK, NewIsUnknown,
        ReaderHasRoom
  <1>7. ASSUME NEW c \in Clients, HubSubscribe(c)  PROVE NewIsUnknown'
    BY <1>7
    DEF HubSubscribe, ReaderGotoFor, ReaderAt, client, HubInv, TypeOK, NewIsUnknown,
        ReaderHasRoom
  <1>8. ASSUME NEW c \in Clients, Unsubscribe(c)  PROVE NewIsUnknown'
    <2>1. CASE ReaderGoto(c, "read") /\ UNCHANGED <<subscribed, wsSubscriptions, acked>>
      BY <1>8, <2>1
      DEF Unsubscribe, ReaderGoto, ReaderGotoFor, ReaderAt, HubInv, TypeOK, NewIsUnknown
    <2>2. CASE /\ reader[c].room \in subscribed[c]
               /\ subscribed' = [subscribed EXCEPT ![c] = @ \ {reader[c].room}]
               /\ wsSubscriptions' = wsSubscriptions - 1
               /\ acked' = [acked EXCEPT ![c] = @ \ {reader[c].room}]
               /\ ReaderGotoFor(c, "hubUnsubscribe", reader[c].room)
      BY <1>8, <2>2
      DEF Unsubscribe, ReaderGoto, ReaderGotoFor, ReaderAt, HubInv, TypeOK, NewIsUnknown
    <2>. QED  BY <1>8, <2>1, <2>2 DEF Unsubscribe
  <1>9. ASSUME NEW c \in Clients, HubUnsubscribe(c)  PROVE NewIsUnknown'
    BY <1>9
    DEF HubUnsubscribe, ReaderGoto, ReaderAt, client, history, HubInv, TypeOK, NewIsUnknown,
        ReaderHasRoom
  <1>10. ASSUME NEW c \in Clients, Reply(c)  PROVE NewIsUnknown'
    <2>1. CASE /\ CanEnqueue(c) /\ queued' = [queued EXCEPT ![c] = @ + 1]
               /\ acked' = [acked EXCEPT ![c] = @ \union ({reader[c].room} \ {None})]
               /\ ReaderGoto(c, "read")
      BY <1>10, <2>1 DEF Reply, ReaderGoto, ReaderAt, CanEnqueue, HubInv, TypeOK, NewIsUnknown
    <2>2. CASE ReaderGoto(c, "drop") /\ UNCHANGED <<queued, acked>>
      BY <1>10, <2>2 DEF Reply, ReaderGoto, ReaderAt, CanEnqueue, HubInv, TypeOK, NewIsUnknown
    <2>. QED  BY <1>10, <2>1, <2>2 DEF Reply
  <1>11. ASSUME NEW c \in Clients, WriteError(c)  PROVE NewIsUnknown'
    BY <1>11 DEF WriteError, WriterGoto, client, history, HubInv, TypeOK, NewIsUnknown, ReaderAt
  <1>12. ASSUME NEW c \in Clients, CloseStarts(c)  PROVE NewIsUnknown'
    BY <1>12 DEF CloseStarts, HubInv, TypeOK, NewIsUnknown, ReaderAt, Closing
  <1>13. ASSUME NEW c \in Clients, CloseConn(c)  PROVE NewIsUnknown'
    BY <1>13 DEF CloseConn, CloseStep, history, HubInv, TypeOK, NewIsUnknown, ReaderAt
  <1>14. ASSUME NEW c \in Clients, UnsubscribeAll(c)  PROVE NewIsUnknown'
    BY <1>14 DEF UnsubscribeAll, CloseStep, history, HubInv, TypeOK, NewIsUnknown, ReaderAt
  <1>15. ASSUME NEW c \in Clients, UnregisterUser(c)  PROVE NewIsUnknown'
    BY <1>15 DEF UnregisterUser, CloseStep, history, HubInv, TypeOK, NewIsUnknown, ReaderAt
  <1>16. ASSUME NEW c \in Clients, CloseSend(c)  PROVE NewIsUnknown'
    BY <1>16 DEF CloseSend, CloseStep, history, HubInv, TypeOK, NewIsUnknown, ReaderAt
  <1>17. ASSUME NEW c \in Clients, ReaderClosed(c)  PROVE NewIsUnknown'
    <2>1. CASE ReaderGoto(c, "read")
      BY <1>17, <2>1
      DEF ReaderClosed, ReaderGoto, ReaderAt, client, history, HubInv, TypeOK, NewIsUnknown
    <2>2. CASE ReaderGoto(c, "ended")
      BY <1>17, <2>2
      DEF ReaderClosed, ReaderGoto, ReaderAt, client, history, HubInv, TypeOK, NewIsUnknown
    <2>. QED  BY <1>17, <2>1, <2>2 DEF ReaderClosed
  <1>18. ASSUME NEW c \in Clients, WriterClosed(c)  PROVE NewIsUnknown'
    BY <1>18
    DEF WriterClosed, WriterGoto, client, history, HubInv, TypeOK, NewIsUnknown, ReaderAt
  <1>19. ASSUME NEW c \in Clients, Deliver(c)  PROVE NewIsUnknown'
    <2>1. CASE /\ CanEnqueue(c) /\ queued' = [queued EXCEPT ![c] = @ + 1]
               /\ missing' = [missing EXCEPT ![c] = @ \ {events}]
               /\ hub' = [hub EXCEPT !.todo = @ \ {c}]
      BY <1>19, <2>1 DEF Deliver, CanEnqueue, HubInv, TypeOK, NewIsUnknown, ReaderAt
    <2>2. CASE /\ hub' = [hub EXCEPT !.todo = @ \ {c}, !.slow = @ \union {c}]
               /\ UNCHANGED <<queued, missing>>
      BY <1>19, <2>2 DEF Deliver, CanEnqueue, HubInv, TypeOK, NewIsUnknown, ReaderAt
    <2>. QED  BY <1>19, <2>1, <2>2 DEF Deliver
  <1>20. ASSUME NEW c \in Clients, DisconnectSlow(c)  PROVE NewIsUnknown'
    BY <1>20 DEF DisconnectSlow, client, history, HubInv, TypeOK, NewIsUnknown, ReaderAt
  <1>21. ASSUME NEW c \in Clients, HubClosed(c)  PROVE NewIsUnknown'
    BY <1>21, ConstantsAssumption
    DEF HubClosed, client, history, HubInv, TypeOK, NewIsUnknown, ReaderAt
  <1>22. ASSUME NEW r \in Rooms, Broadcast(r)  PROVE NewIsUnknown'
    BY <1>22, ConstantsAssumption
    DEF Broadcast, Receive, IdleHub, client, HubInv, TypeOK, NewIsUnknown, ReaderAt
  <1>23. ASSUME NEW u \in Users, SendToUser(u)  PROVE NewIsUnknown'
    BY <1>23, ConstantsAssumption
    DEF SendToUser, Receive, IdleHub, client, HubInv, TypeOK, NewIsUnknown, ReaderAt
  <1>. QED  BY <1>1, <1>2, <1>3, <1>4, <1>5, <1>6, <1>7, <1>8, <1>9, <1>10, <1>11, <1>12, <1>13,
         <1>14, <1>15, <1>16, <1>17, <1>18, <1>19, <1>20, <1>21, <1>22, <1>23
  DEF Next, ReaderStep, CloseSteps, HubStep

\* Nobody but the reader changes the rooms of an open client, on either side.
LEMMA NextRoomsAgree ==
    ASSUME HubInv, [Next]_vars
    PROVE  RoomsAgree'
  <1>1. CASE UNCHANGED <<rooms, subscribed, once, reader>>
    BY <1>1 DEF HubInv, TypeOK, RoomsAgree, RoomsOf, ReaderAt
  <1>2. ASSUME \/ \E c \in Clients : Write(c) \/ WriteError(c) \/ WriterClosed(c) \/
                      Deliver(c) \/ DisconnectSlow(c) \/ HubClosed(c)
               \/ \E r \in Rooms : Broadcast(r)
               \/ \E u \in Users : SendToUser(u)
               \/ UNCHANGED vars
        PROVE  UNCHANGED <<rooms, subscribed, once, reader>>
    BY <1>2
    DEF Write, WriteError, WriterClosed, Deliver, DisconnectSlow, HubClosed, Broadcast,
        SendToUser, history, client, Receive, vars
  <1>3. ASSUME NEW c \in Clients, Run(c)  PROVE RoomsAgree'
    BY <1>3
    DEF Run, ReaderGoto, ReaderAt, WriterGoto, client, history, HubInv, TypeOK, RoomsAgree,
        RoomsOf
  <1>4. ASSUME NEW c \in Clients, ReadMessage(c)  PROVE RoomsAgree'
    <2>1. ASSUME NEW stage \in {"subscribe", "unsubscribe"}, NEW r \in Rooms,
                 ReaderGotoFor(c, stage, r)
          PROVE  RoomsAgree'
      BY <1>4, <2>1
      DEF ReadMessage, ReaderGoto, ReaderGotoFor, ReaderAt, client, history, HubInv, TypeOK,
          RoomsAgree, RoomsOf
    <2>2. CASE ReaderGoto(c, "reply")
      BY <1>4, <2>2
      DEF ReadMessage, ReaderGoto, ReaderGotoFor, ReaderAt, client, history, HubInv, TypeOK,
          RoomsAgree, RoomsOf
    <2>. QED  BY <1>4, <2>1, <2>2 DEF ReadMessage
  <1>5. ASSUME NEW c \in Clients, ReadError(c)  PROVE RoomsAgree'
    BY <1>5
    DEF ReadError, ReaderGoto, ReaderAt, client, history, HubInv, TypeOK, RoomsAgree, RoomsOf
  <1>6. ASSUME NEW c \in Clients, Subscribe(c)  PROVE RoomsAgree'
    BY <1>6
    DEF Subscribe, ReaderGoto, ReaderGotoFor, ReaderAt, HubInv, TypeOK, RoomsAgree, RoomsOf,
        ReaderHasRoom
  <1>7. ASSUME NEW c \in Clients, HubSubscribe(c)  PROVE RoomsAgree'
    BY <1>7
    DEF HubSubscribe, ReaderGotoFor, ReaderAt, client, HubInv, TypeOK, RoomsAgree, RoomsOf,
        ReaderHasRoom
  <1>8. ASSUME NEW c \in Clients, Unsubscribe(c)  PROVE RoomsAgree'
    <2>1. CASE ReaderGoto(c, "read") /\ UNCHANGED <<subscribed, wsSubscriptions, acked>>
      BY <1>8, <2>1
      DEF Unsubscribe, ReaderGoto, ReaderGotoFor, ReaderAt, HubInv, TypeOK, RoomsAgree, RoomsOf,
          ReaderHasRoom
    <2>2. CASE /\ reader[c].room \in subscribed[c]
               /\ subscribed' = [subscribed EXCEPT ![c] = @ \ {reader[c].room}]
               /\ wsSubscriptions' = wsSubscriptions - 1
               /\ acked' = [acked EXCEPT ![c] = @ \ {reader[c].room}]
               /\ ReaderGotoFor(c, "hubUnsubscribe", reader[c].room)
      BY <1>8, <2>2
      DEF Unsubscribe, ReaderGoto, ReaderGotoFor, ReaderAt, HubInv, TypeOK, RoomsAgree, RoomsOf,
          ReaderHasRoom
    <2>. QED  BY <1>8, <2>1, <2>2 DEF Unsubscribe
  <1>9. ASSUME NEW c \in Clients, HubUnsubscribe(c)  PROVE RoomsAgree'
    BY <1>9
    DEF HubUnsubscribe, ReaderGoto, ReaderAt, client, history, HubInv, TypeOK, RoomsAgree,
        RoomsOf, ReaderHasRoom
  <1>10. ASSUME NEW c \in Clients, Reply(c)  PROVE RoomsAgree'
    <2>1. CASE /\ CanEnqueue(c) /\ queued' = [queued EXCEPT ![c] = @ + 1]
               /\ acked' = [acked EXCEPT ![c] = @ \union ({reader[c].room} \ {None})]
               /\ ReaderGoto(c, "read")
      BY <1>10, <2>1
      DEF Reply, ReaderGoto, ReaderAt, CanEnqueue, HubInv, TypeOK, RoomsAgree, RoomsOf
    <2>2. CASE ReaderGoto(c, "drop") /\ UNCHANGED <<queued, acked>>
      BY <1>10, <2>2
      DEF Reply, ReaderGoto, ReaderAt, CanEnqueue, HubInv, TypeOK, RoomsAgree, RoomsOf
    <2>. QED  BY <1>10, <2>1, <2>2 DEF Reply
  <1>11. ASSUME NEW c \in Clients, CloseStarts(c)  PROVE RoomsAgree'
    BY <1>11 DEF CloseStarts, HubInv, TypeOK, RoomsAgree, RoomsOf, ReaderAt
  <1>12. ASSUME NEW c \in Clients, CloseConn(c)  PROVE RoomsAgree'
    BY <1>12 DEF CloseConn, CloseStep, history, HubInv, TypeOK, RoomsAgree, RoomsOf, ReaderAt
  <1>13. ASSUME NEW c \in Clients, UnsubscribeAll(c)  PROVE RoomsAgree'
    BY <1>13
    DEF UnsubscribeAll, CloseStep, history, HubInv, TypeOK, RoomsAgree, RoomsOf, ReaderAt
  <1>14. ASSUME NEW c \in Clients, UnregisterUser(c)  PROVE RoomsAgree'
    BY <1>14
    DEF UnregisterUser, CloseStep, history, HubInv, TypeOK, RoomsAgree, RoomsOf, ReaderAt
  <1>15. ASSUME NEW c \in Clients, CloseSend(c)  PROVE RoomsAgree'
    BY <1>15 DEF CloseSend, CloseStep, history, HubInv, TypeOK, RoomsAgree, RoomsOf, ReaderAt
  <1>16. ASSUME NEW c \in Clients, ReaderClosed(c)  PROVE RoomsAgree'
    <2>1. CASE ReaderGoto(c, "read")
      BY <1>16, <2>1
      DEF ReaderClosed, ReaderGoto, ReaderAt, client, history, HubInv, TypeOK, RoomsAgree,
          RoomsOf
    <2>2. CASE ReaderGoto(c, "ended")
      BY <1>16, <2>2
      DEF ReaderClosed, ReaderGoto, ReaderAt, client, history, HubInv, TypeOK, RoomsAgree,
          RoomsOf
    <2>. QED  BY <1>16, <2>1, <2>2 DEF ReaderClosed
  <1>. QED  BY <1>1, <1>2, <1>3, <1>4, <1>5, <1>6, <1>7, <1>8, <1>9, <1>10, <1>11, <1>12, <1>13,
         <1>14, <1>15, <1>16
  DEF Next, ReaderStep, CloseSteps, HubStep

\* The acknowledgement is queued after Hub.Subscribe, and withdrawn before Hub.Unsubscribe.
LEMMA NextAckedIsSubscribed ==
    ASSUME HubInv, [Next]_vars
    PROVE  AckedIsSubscribed'
  <1>1. CASE UNCHANGED <<rooms, once, reader, acked>>
    BY <1>1 DEF HubInv, TypeOK, AckedIsSubscribed, RoomsOf, ReaderAt
  <1>2. ASSUME \/ \E c \in Clients : Write(c) \/ WriteError(c) \/ WriterClosed(c) \/
                      Deliver(c) \/ DisconnectSlow(c) \/ HubClosed(c)
               \/ \E r \in Rooms : Broadcast(r)
               \/ \E u \in Users : SendToUser(u)
               \/ UNCHANGED vars
        PROVE  UNCHANGED <<rooms, once, reader, acked>>
    BY <1>2
    DEF Write, WriteError, WriterClosed, Deliver, DisconnectSlow, HubClosed, Broadcast,
        SendToUser, history, client, Receive, vars
  <1>3. ASSUME NEW c \in Clients, Run(c)  PROVE AckedIsSubscribed'
    BY <1>3
    DEF Run, ReaderGoto, ReaderAt, WriterGoto, client, history, HubInv, TypeOK,
        AckedIsSubscribed, RoomsOf
  <1>4. ASSUME NEW c \in Clients, ReadMessage(c)  PROVE AckedIsSubscribed'
    <2>1. ASSUME NEW stage \in {"subscribe", "unsubscribe"}, NEW r \in Rooms,
                 ReaderGotoFor(c, stage, r)
          PROVE  AckedIsSubscribed'
      BY <1>4, <2>1
      DEF ReadMessage, ReaderGoto, ReaderGotoFor, ReaderAt, client, history, HubInv, TypeOK,
          AckedIsSubscribed, RoomsOf
    <2>2. CASE ReaderGoto(c, "reply")
      BY <1>4, <2>2
      DEF ReadMessage, ReaderGoto, ReaderGotoFor, ReaderAt, client, history, HubInv, TypeOK,
          AckedIsSubscribed, RoomsOf
    <2>. QED  BY <1>4, <2>1, <2>2 DEF ReadMessage
  <1>5. ASSUME NEW c \in Clients, ReadError(c)  PROVE AckedIsSubscribed'
    BY <1>5
    DEF ReadError, ReaderGoto, ReaderAt, client, history, HubInv, TypeOK, AckedIsSubscribed,
        RoomsOf
  <1>6. ASSUME NEW c \in Clients, Subscribe(c)  PROVE AckedIsSubscribed'
    <2>1. CASE ReaderGoto(c, "read") /\ UNCHANGED <<subscribed, wsSubscriptions, late>>
      BY <1>6, <2>1
      DEF Subscribe, ReaderGoto, ReaderGotoFor, ReaderAt, HubInv, TypeOK, AckedIsSubscribed,
          RoomsOf, ReaderHasRoom
    <2>2. CASE ReaderGoto(c, "reply") /\ UNCHANGED <<subscribed, wsSubscriptions, late>>
      BY <1>6, <2>2
      DEF Subscribe, ReaderGoto, ReaderGotoFor, ReaderAt, HubInv, TypeOK, AckedIsSubscribed,
          RoomsOf, ReaderHasRoom
    <2>3. CASE /\ reader[c].room \notin subscribed[c]
               /\ subscribed' = [subscribed EXCEPT ![c] = @ \union {reader[c].room}]
               /\ wsSubscriptions' = wsSubscriptions + 1
               /\ late' = IF once[c] = "open" THEN late ELSE late \union {c}
               /\ ReaderGotoFor(c, "hubSubscribe", reader[c].room)
      BY <1>6, <2>3
      DEF Subscribe, ReaderGoto, ReaderGotoFor, ReaderAt, HubInv, TypeOK, AckedIsSubscribed,
          RoomsOf, ReaderHasRoom
    <2>. QED  BY <1>6, <2>1, <2>2, <2>3 DEF Subscribe
  <1>7. ASSUME NEW c \in Clients, HubSubscribe(c)  PROVE AckedIsSubscribed'
    BY <1>7
    DEF HubSubscribe, ReaderGotoFor, ReaderAt, client, HubInv, TypeOK, AckedIsSubscribed,
        RoomsOf, ReaderHasRoom
  <1>8. ASSUME NEW c \in Clients, Unsubscribe(c)  PROVE AckedIsSubscribed'
    <2>1. CASE ReaderGoto(c, "read") /\ UNCHANGED <<subscribed, wsSubscriptions, acked>>
      BY <1>8, <2>1
      DEF Unsubscribe, ReaderGoto, ReaderGotoFor, ReaderAt, HubInv, TypeOK, AckedIsSubscribed,
          RoomsOf, ReaderHasRoom
    <2>2. CASE /\ reader[c].room \in subscribed[c]
               /\ subscribed' = [subscribed EXCEPT ![c] = @ \ {reader[c].room}]
               /\ wsSubscriptions' = wsSubscriptions - 1
               /\ acked' = [acked EXCEPT ![c] = @ \ {reader[c].room}]
               /\ ReaderGotoFor(c, "hubUnsubscribe", reader[c].room)
      BY <1>8, <2>2
      DEF Unsubscribe, ReaderGoto, ReaderGotoFor, ReaderAt, HubInv, TypeOK, AckedIsSubscribed,
          RoomsOf, ReaderHasRoom
    <2>. QED  BY <1>8, <2>1, <2>2 DEF Unsubscribe
  <1>9. ASSUME NEW c \in Clients, HubUnsubscribe(c)  PROVE AckedIsSubscribed'
    BY <1>9
    DEF HubUnsubscribe, ReaderGoto, ReaderAt, client, history, HubInv, TypeOK,
        AckedIsSubscribed, RoomsOf, ReaderHasRoom
  <1>10. ASSUME NEW c \in Clients, Reply(c)  PROVE AckedIsSubscribed'
    <2>1. CASE /\ CanEnqueue(c) /\ queued' = [queued EXCEPT ![c] = @ + 1]
               /\ acked' = [acked EXCEPT ![c] = @ \union ({reader[c].room} \ {None})]
               /\ ReaderGoto(c, "read")
      BY <1>10, <2>1
      DEF Reply, ReaderGoto, ReaderAt, CanEnqueue, HubInv, TypeOK, AckedIsSubscribed, RoomsOf
    <2>2. CASE ReaderGoto(c, "drop") /\ UNCHANGED <<queued, acked>>
      BY <1>10, <2>2
      DEF Reply, ReaderGoto, ReaderAt, CanEnqueue, HubInv, TypeOK, AckedIsSubscribed, RoomsOf
    <2>. QED  BY <1>10, <2>1, <2>2 DEF Reply
  <1>11. ASSUME NEW c \in Clients, CloseStarts(c)  PROVE AckedIsSubscribed'
    BY <1>11 DEF CloseStarts, HubInv, TypeOK, AckedIsSubscribed, RoomsOf, ReaderAt
  <1>12. ASSUME NEW c \in Clients, CloseConn(c)  PROVE AckedIsSubscribed'
    BY <1>12
    DEF CloseConn, CloseStep, history, HubInv, TypeOK, AckedIsSubscribed, RoomsOf, ReaderAt
  <1>13. ASSUME NEW c \in Clients, UnsubscribeAll(c)  PROVE AckedIsSubscribed'
    BY <1>13
    DEF UnsubscribeAll, CloseStep, history, HubInv, TypeOK, AckedIsSubscribed, RoomsOf, ReaderAt
  <1>14. ASSUME NEW c \in Clients, UnregisterUser(c)  PROVE AckedIsSubscribed'
    BY <1>14
    DEF UnregisterUser, CloseStep, history, HubInv, TypeOK, AckedIsSubscribed, RoomsOf, ReaderAt
  <1>15. ASSUME NEW c \in Clients, CloseSend(c)  PROVE AckedIsSubscribed'
    BY <1>15
    DEF CloseSend, CloseStep, history, HubInv, TypeOK, AckedIsSubscribed, RoomsOf, ReaderAt
  <1>16. ASSUME NEW c \in Clients, ReaderClosed(c)  PROVE AckedIsSubscribed'
    <2>1. CASE ReaderGoto(c, "read")
      BY <1>16, <2>1
      DEF ReaderClosed, ReaderGoto, ReaderAt, client, history, HubInv, TypeOK,
          AckedIsSubscribed, RoomsOf
    <2>2. CASE ReaderGoto(c, "ended")
      BY <1>16, <2>2
      DEF ReaderClosed, ReaderGoto, ReaderAt, client, history, HubInv, TypeOK,
          AckedIsSubscribed, RoomsOf
    <2>. QED  BY <1>16, <2>1, <2>2 DEF ReaderClosed
  <1>. QED  BY <1>1, <1>2, <1>3, <1>4, <1>5, <1>6, <1>7, <1>8, <1>9, <1>10, <1>11, <1>12, <1>13,
         <1>14, <1>15, <1>16
  DEF Next, ReaderStep, CloseSteps, HubStep

\* Run registers a client before its goroutines start, Close takes it away once.
LEMMA NextRegistered ==
    ASSUME HubInv, [Next]_vars
    PROVE  Registered'
  <1>1. CASE UNCHANGED <<users, once, writer>>
    BY <1>1 DEF HubInv, TypeOK, Registered
  <1>2. ASSUME \/ \E c \in Clients : ReadMessage(c) \/ ReadError(c) \/ Subscribe(c) \/
                      HubSubscribe(c) \/ Unsubscribe(c) \/ HubUnsubscribe(c) \/ Reply(c) \/
                      Write(c) \/ ReaderClosed(c) \/ Deliver(c) \/ DisconnectSlow(c) \/
                      HubClosed(c)
               \/ \E r \in Rooms : Broadcast(r)
               \/ \E u \in Users : SendToUser(u)
               \/ UNCHANGED vars
        PROVE  UNCHANGED <<users, once, writer>>
    BY <1>2
    DEF ReadMessage, ReadError, Subscribe, HubSubscribe, Unsubscribe, HubUnsubscribe, Reply,
        Write, ReaderClosed, Deliver, DisconnectSlow, HubClosed, Broadcast, SendToUser, client,
        history, Receive, vars
  <1>3. ASSUME NEW c \in Clients, Run(c)  PROVE Registered'
    <2>1. PICK u \in Users : u = UserOf[c]
      BY ConstantsAssumption
    <2>2. users' = [users EXCEPT ![u] = users[u] \union {c}]
      BY <1>3, <2>1 DEF Run
    <2>3. ASSUME NEW d \in Clients, d # c
          PROVE  \A v \in Users : d \in users'[v] <=> d \in users[v]
      BY <2>2, <2>3 DEF HubInv, TypeOK
    <2>4. \A v \in Users : c \in users'[v] <=> v = u
      BY <2>1, <2>2 DEF HubInv, TypeOK, Registered
    <2>. QED  BY <1>3, <2>1, <2>3, <2>4, ConstantsAssumption
              DEF Run, WriterGoto, client, NewIsUnknown, HubInv, TypeOK, Registered
  <1>4. ASSUME NEW c \in Clients, WriteError(c)  PROVE Registered'
    BY <1>4 DEF WriteError, WriterGoto, client, history, HubInv, TypeOK, Registered
  <1>5. ASSUME NEW c \in Clients, CloseStarts(c)  PROVE Registered'
    BY <1>5 DEF CloseStarts, HubInv, TypeOK, Registered
  <1>6. ASSUME NEW c \in Clients, CloseConn(c)  PROVE Registered'
    BY <1>6 DEF CloseConn, CloseStep, history, HubInv, TypeOK, Registered
  <1>7. ASSUME NEW c \in Clients, UnsubscribeAll(c)  PROVE Registered'
    BY <1>7 DEF UnsubscribeAll, CloseStep, history, HubInv, TypeOK, Registered
  <1>8. ASSUME NEW c \in Clients, UnregisterUser(c)  PROVE Registered'
    <2>1. PICK u \in Users : u = UserOf[c]
      BY ConstantsAssumption
    <2>2. users' = [users EXCEPT ![u] = users[u] \ {c}]
      BY <1>8, <2>1 DEF UnregisterUser
    <2>3. ASSUME NEW d \in Clients, d # c
          PROVE  \A v \in Users : d \in users'[v] <=> d \in users[v]
      BY <2>2, <2>3 DEF HubInv, TypeOK
    <2>4. \A v \in Users : c \in users'[v] => FALSE
      BY <2>1, <2>2 DEF HubInv, TypeOK, Registered
    <2>. QED  BY <1>8, <2>1, <2>3, <2>4, ConstantsAssumption
              DEF UnregisterUser, CloseStep, HubInv, TypeOK, Registered
  <1>9. ASSUME NEW c \in Clients, CloseSend(c)  PROVE Registered'
    BY <1>9 DEF CloseSend, CloseStep, history, HubInv, TypeOK, Registered
  <1>10. ASSUME NEW c \in Clients, WriterClosed(c)  PROVE Registered'
    BY <1>10 DEF WriterClosed, WriterGoto, client, history, HubInv, TypeOK, Registered
  <1>. QED  BY <1>1, <1>2, <1>3, <1>4, <1>5, <1>6, <1>7, <1>8, <1>9, <1>10
  DEF Next, ReaderStep, CloseSteps, HubStep

\* Broadcast copies every subscriber before it writes to the first.
LEMMA NextOwedOrClosing ==
    ASSUME HubInv, [Next]_vars
    PROVE  OwedOrClosing'
  <1>1. CASE UNCHANGED <<once, hub, events, missing>>
    BY <1>1 DEF HubInv, TypeOK, OwedOrClosing
  <1>2. ASSUME \/ \E c \in Clients : Run(c) \/ ReadMessage(c) \/ ReadError(c) \/
                      Subscribe(c) \/ HubSubscribe(c) \/ Unsubscribe(c) \/ HubUnsubscribe(c) \/
                      Reply(c) \/ Write(c) \/ WriteError(c) \/ ReaderClosed(c) \/
                      WriterClosed(c)
               \/ UNCHANGED vars
        PROVE  UNCHANGED <<once, hub, events, missing>>
    BY <1>2
    DEF Run, ReadMessage, ReadError, Subscribe, HubSubscribe, Unsubscribe, HubUnsubscribe,
        Reply, Write, WriteError, ReaderClosed, WriterClosed, client, history, vars
  <1>3. ASSUME NEW c \in Clients, CloseStarts(c)  PROVE OwedOrClosing'
    BY <1>3 DEF CloseStarts, HubInv, TypeOK, OwedOrClosing
  <1>4. ASSUME NEW c \in Clients, CloseConn(c)  PROVE OwedOrClosing'
    BY <1>4 DEF CloseConn, CloseStep, history, HubInv, TypeOK, OwedOrClosing
  <1>5. ASSUME NEW c \in Clients, UnsubscribeAll(c)  PROVE OwedOrClosing'
    BY <1>5 DEF UnsubscribeAll, CloseStep, history, HubInv, TypeOK, OwedOrClosing
  <1>6. ASSUME NEW c \in Clients, UnregisterUser(c)  PROVE OwedOrClosing'
    BY <1>6 DEF UnregisterUser, CloseStep, history, HubInv, TypeOK, OwedOrClosing
  <1>7. ASSUME NEW c \in Clients, CloseSend(c)  PROVE OwedOrClosing'
    BY <1>7 DEF CloseSend, CloseStep, history, HubInv, TypeOK, OwedOrClosing
  <1>8. ASSUME NEW c \in Clients, Deliver(c)  PROVE OwedOrClosing'
    <2>1. CASE /\ CanEnqueue(c) /\ queued' = [queued EXCEPT ![c] = @ + 1]
               /\ missing' = [missing EXCEPT ![c] = @ \ {events}]
               /\ hub' = [hub EXCEPT !.todo = @ \ {c}]
      BY <1>8, <2>1 DEF Deliver, CanEnqueue, HubInv, TypeOK, OwedOrClosing
    <2>2. CASE /\ hub' = [hub EXCEPT !.todo = @ \ {c}, !.slow = @ \union {c}]
               /\ UNCHANGED <<queued, missing>>
      BY <1>8, <2>2 DEF Deliver, CanEnqueue, HubInv, TypeOK, OwedOrClosing
    <2>. QED  BY <1>8, <2>1, <2>2 DEF Deliver
  <1>9. ASSUME NEW c \in Clients, DisconnectSlow(c)  PROVE OwedOrClosing'
    BY <1>9, ConstantsAssumption
    DEF DisconnectSlow, client, history, HubInv, TypeOK, OwedOrClosing
  <1>10. ASSUME NEW c \in Clients, HubClosed(c)  PROVE OwedOrClosing'
    BY <1>10 DEF HubClosed, client, history, HubInv, TypeOK, OwedOrClosing
  <1>11. ASSUME NEW r \in Rooms, Broadcast(r)  PROVE OwedOrClosing'
    BY <1>11, ConstantsAssumption
    DEF Broadcast, Receive, IdleHub, client, HubInv, TypeOK, OwedOrClosing, AckedIsSubscribed,
        RoomsOf, HubIdle
  <1>12. ASSUME NEW u \in Users, SendToUser(u)  PROVE OwedOrClosing'
    BY <1>12, ConstantsAssumption
    DEF SendToUser, Receive, IdleHub, client, HubInv, TypeOK, OwedOrClosing, Registered, HubIdle
  <1>. QED  BY <1>1, <1>2, <1>3, <1>4, <1>5, <1>6, <1>7, <1>8, <1>9, <1>10, <1>11, <1>12
  DEF Next, ReaderStep, CloseSteps, HubStep

\* After Close a room comes back only through a reader that is late.
LEMMA NextClosedIsEmpty ==
    ASSUME HubInv, [Next]_vars
    PROVE  ClosedIsEmpty'
  <1>1. CASE UNCHANGED <<rooms, subscribed, once, reader, late>>
    BY <1>1 DEF HubInv, TypeOK, ClosedIsEmpty, RoomsOf, ReaderAt
  <1>2. ASSUME \/ \E c \in Clients : Write(c) \/ WriteError(c) \/ WriterClosed(c) \/
                      Deliver(c) \/ DisconnectSlow(c) \/ HubClosed(c)
               \/ \E r \in Rooms : Broadcast(r)
               \/ \E u \in Users : SendToUser(u)
               \/ UNCHANGED vars
        PROVE  UNCHANGED <<rooms, subscribed, once, reader, late>>
    BY <1>2
    DEF Write, WriteError, WriterClosed, Deliver, DisconnectSlow, HubClosed, Broadcast,
        SendToUser, history, client, Receive, vars
  <1>3. ASSUME NEW c \in Clients, Run(c)  PROVE ClosedIsEmpty'
    BY <1>3
    DEF Run, ReaderGoto, ReaderAt, WriterGoto, client, history, HubInv, TypeOK, ClosedIsEmpty,
        RoomsOf
  <1>4. ASSUME NEW c \in Clients, ReadMessage(c)  PROVE ClosedIsEmpty'
    BY <1>4
    DEF ReadMessage, ReaderGoto, ReaderGotoFor, ReaderAt, client, history, HubInv, TypeOK,
        ClosedIsEmpty, RoomsOf
  <1>5. ASSUME NEW c \in Clients, ReadError(c)  PROVE ClosedIsEmpty'
    BY <1>5
    DEF ReadError, ReaderGoto, ReaderAt, client, history, HubInv, TypeOK, ClosedIsEmpty, RoomsOf
  <1>6. ASSUME NEW c \in Clients, Subscribe(c)  PROVE ClosedIsEmpty'
    <2>1. CASE ReaderGoto(c, "read") /\ UNCHANGED <<subscribed, wsSubscriptions, late>>
      BY <1>6, <2>1
      DEF Subscribe, ReaderGoto, ReaderGotoFor, ReaderAt, HubInv, TypeOK, ClosedIsEmpty,
          RoomsOf, ReaderHasRoom
    <2>2. CASE ReaderGoto(c, "reply") /\ UNCHANGED <<subscribed, wsSubscriptions, late>>
      BY <1>6, <2>2
      DEF Subscribe, ReaderGoto, ReaderGotoFor, ReaderAt, HubInv, TypeOK, ClosedIsEmpty,
          RoomsOf, ReaderHasRoom
    <2>3. CASE /\ reader[c].room \notin subscribed[c]
               /\ subscribed' = [subscribed EXCEPT ![c] = @ \union {reader[c].room}]
               /\ wsSubscriptions' = wsSubscriptions + 1
               /\ late' = IF once[c] = "open" THEN late ELSE late \union {c}
               /\ ReaderGotoFor(c, "hubSubscribe", reader[c].room)
      BY <1>6, <2>3
      DEF Subscribe, ReaderGoto, ReaderGotoFor, ReaderAt, HubInv, TypeOK, ClosedIsEmpty,
          RoomsOf, ReaderHasRoom
    <2>. QED  BY <1>6, <2>1, <2>2, <2>3 DEF Subscribe
  <1>7. ASSUME NEW c \in Clients, HubSubscribe(c)  PROVE ClosedIsEmpty'
    BY <1>7
    DEF HubSubscribe, ReaderGotoFor, ReaderAt, client, HubInv, TypeOK, ClosedIsEmpty, RoomsOf,
        ReaderHasRoom
  <1>8. ASSUME NEW c \in Clients, Unsubscribe(c)  PROVE ClosedIsEmpty'
    <2>1. CASE ReaderGoto(c, "read") /\ UNCHANGED <<subscribed, wsSubscriptions, acked>>
      BY <1>8, <2>1
      DEF Unsubscribe, ReaderGoto, ReaderGotoFor, ReaderAt, HubInv, TypeOK, ClosedIsEmpty,
          RoomsOf, ReaderHasRoom
    <2>2. CASE /\ reader[c].room \in subscribed[c]
               /\ subscribed' = [subscribed EXCEPT ![c] = @ \ {reader[c].room}]
               /\ wsSubscriptions' = wsSubscriptions - 1
               /\ acked' = [acked EXCEPT ![c] = @ \ {reader[c].room}]
               /\ ReaderGotoFor(c, "hubUnsubscribe", reader[c].room)
      BY <1>8, <2>2
      DEF Unsubscribe, ReaderGoto, ReaderGotoFor, ReaderAt, HubInv, TypeOK, ClosedIsEmpty,
          RoomsOf, ReaderHasRoom
    <2>. QED  BY <1>8, <2>1, <2>2 DEF Unsubscribe
  <1>9. ASSUME NEW c \in Clients, HubUnsubscribe(c)  PROVE ClosedIsEmpty'
    BY <1>9
    DEF HubUnsubscribe, ReaderGoto, ReaderAt, client, history, HubInv, TypeOK, ClosedIsEmpty,
        RoomsOf, ReaderHasRoom
  <1>10. ASSUME NEW c \in Clients, Reply(c)  PROVE ClosedIsEmpty'
    <2>1. CASE /\ CanEnqueue(c) /\ queued' = [queued EXCEPT ![c] = @ + 1]
               /\ acked' = [acked EXCEPT ![c] = @ \union ({reader[c].room} \ {None})]
               /\ ReaderGoto(c, "read")
      BY <1>10, <2>1
      DEF Reply, ReaderGoto, ReaderAt, CanEnqueue, HubInv, TypeOK, ClosedIsEmpty, RoomsOf
    <2>2. CASE ReaderGoto(c, "drop") /\ UNCHANGED <<queued, acked>>
      BY <1>10, <2>2
      DEF Reply, ReaderGoto, ReaderAt, CanEnqueue, HubInv, TypeOK, ClosedIsEmpty, RoomsOf
    <2>. QED  BY <1>10, <2>1, <2>2 DEF Reply
  <1>11. ASSUME NEW c \in Clients, CloseStarts(c)  PROVE ClosedIsEmpty'
    BY <1>11 DEF CloseStarts, HubInv, TypeOK, ClosedIsEmpty, RoomsOf, ReaderAt
  <1>12. ASSUME NEW c \in Clients, CloseConn(c)  PROVE ClosedIsEmpty'
    BY <1>12 DEF CloseConn, CloseStep, history, HubInv, TypeOK, ClosedIsEmpty, RoomsOf, ReaderAt
  <1>13. ASSUME NEW c \in Clients, UnsubscribeAll(c)  PROVE ClosedIsEmpty'
    BY <1>13
    DEF UnsubscribeAll, CloseStep, history, HubInv, TypeOK, ClosedIsEmpty, RoomsOf, ReaderAt
  <1>14. ASSUME NEW c \in Clients, UnregisterUser(c)  PROVE ClosedIsEmpty'
    BY <1>14
    DEF UnregisterUser, CloseStep, history, HubInv, TypeOK, ClosedIsEmpty, RoomsOf, ReaderAt
  <1>15. ASSUME NEW c \in Clients, CloseSend(c)  PROVE ClosedIsEmpty'
    BY <1>15 DEF CloseSend, CloseStep, history, HubInv, TypeOK, ClosedIsEmpty, RoomsOf, ReaderAt
  <1>16. ASSUME NEW c \in Clients, ReaderClosed(c)  PROVE ClosedIsEmpty'
    <2>1. CASE ReaderGoto(c, "read")
      BY <1>16, <2>1
      DEF ReaderClosed, ReaderGoto, ReaderAt, client, history, HubInv, TypeOK, ClosedIsEmpty,
          RoomsOf
    <2>2. CASE ReaderGoto(c, "ended")
      BY <1>16, <2>2
      DEF ReaderClosed, ReaderGoto, ReaderAt, client, history, HubInv, TypeOK, ClosedIsEmpty,
          RoomsOf
    <2>. QED  BY <1>16, <2>1, <2>2 DEF ReaderClosed
  <1>. QED  BY <1>1, <1>2, <1>3, <1>4, <1>5, <1>6, <1>7, <1>8, <1>9, <1>10, <1>11, <1>12, <1>13,
         <1>14, <1>15, <1>16
  DEF Next, ReaderStep, CloseSteps, HubStep

-----------------------------------------------------------------------------
(* The theorems. *)

\* Nobody is connected at the start.
LEMMA InitHubInv == Init => HubInv
  <1>. SUFFICES ASSUME Init  PROVE HubInv
    OBVIOUS
  <1>1. TypeOK
    BY ConstantsAssumption DEF Init, TypeOK, IdleHub, Onces, ReaderStages, WriterStages
  <1>2. Pairs = {}
    BY DEF Init, Pairs
  <1>3. GaugeCounts
    BY <1>2, FS_EmptySet DEF Init, GaugeCounts
  <1>4. ReaderHasRoom /\ NewIsUnknown /\ Registered
    BY ConstantsAssumption DEF Init, ReaderHasRoom, NewIsUnknown, Registered, ReaderAt, IdleHub
  <1>5. RoomsAgree /\ AckedIsSubscribed /\ OwedOrClosing /\ ClosedIsEmpty
    BY DEF Init, RoomsAgree, AckedIsSubscribed, OwedOrClosing, ClosedIsEmpty, RoomsOf, ReaderAt
  <1>. QED  BY <1>1, <1>3, <1>4, <1>5 DEF HubInv

\* HubInv is inductive, part by part.
LEMMA NextHubInv == HubInv /\ [Next]_vars => HubInv'
  BY NextTypeOK, NextReaderHasRoom, NextNewIsUnknown, NextRoomsAgree, NextAckedIsSubscribed,
     NextRegistered, NextOwedOrClosing, NextClosedIsEmpty, NextGaugeCounts
  DEF HubInv

\* HubInv always holds.
LEMMA AlwaysHubInv == Spec => []HubInv
  BY InitHubInv, NextHubInv, PTL DEF Spec

\* The fields of Hub and Client have their types, and neither the outbound queue
\* nor the reader's request ever leaves its range.
THEOREM HubTypeCorrect == Spec => []TypeOK
  <1>1. HubInv => TypeOK
    BY DEF HubInv
  <1>. QED  BY <1>1, AlwaysHubInv, PTL

\* A client that was told "subscribed" has every later event of the room in its
\* queue as soon as Broadcast is over, or it is being closed: enqueue never drops
\* an event of a client that stays connected.
THEOREM NoEventGap == Spec => []NoGap
  <1>1. HubInv => NoGap
    BY ConstantsAssumption DEF HubInv, OwedOrClosing, NoGap, HubIdle, IdleHub
  <1>. QED  BY <1>1, AlwaysHubInv, PTL

\* Client.subscribed and Hub.rooms agree whenever readPump waits for the next
\* request of a connection that nobody closes, although they are changed in two
\* critical sections.
THEOREM HubAndClientAgree == Spec => []HubAgreesWithClient
  <1>1. HubInv => HubAgreesWithClient
    BY DEF HubInv, RoomsAgree, RoomsOf, HubAgreesWithClient, ReaderAt
  <1>. QED  BY <1>1, AlwaysHubInv, PTL

\* ClosedIsUnregistered: after Close no user has the client any more, whichever of
\* reader, writer and hub called it first, and Run never registers it again.
THEOREM ClosedIsForgotten == Spec => []ClosedIsUnregistered
  <1>1. HubInv => ClosedIsUnregistered
    BY DEF HubInv, Registered, ClosedIsUnregistered
  <1>. QED  BY <1>1, AlwaysHubInv, PTL

\* The gauge ws_subscriptions_current counts the subscriptions of all clients, so
\* it is back to zero, and the hub's rooms are empty, when every connection is
\* over, unless readPump subscribed behind the back of Close.
THEOREM NothingLeftBehind == Spec => []LeftBehindOnlyIfLate
  <1>1. HubInv => LeftBehindOnlyIfLate
    <2>. SUFFICES ASSUME HubInv, \A c \in Clients : Ended(c) /\ c \notin late
                  PROVE  wsSubscriptions = 0 /\ \A r \in Rooms : rooms[r] = {}
      BY DEF LeftBehindOnlyIfLate
    <2>1. \A c \in Clients : subscribed[c] = {} /\ RoomsOf(c) = {}
      BY DEF HubInv, ClosedIsEmpty, Ended
    <2>2. Pairs = {}
      BY <2>1 DEF Pairs
    <2>3. wsSubscriptions = 0
      BY <2>2, FS_EmptySet DEF HubInv, GaugeCounts
    <2>4. \A r \in Rooms : rooms[r] = {}
      BY <2>1 DEF HubInv, TypeOK, RoomsOf
    <2>. QED  BY <2>3, <2>4
  <1>. QED  BY <1>1, AlwaysHubInv, PTL
=============================================================================
