----------------------------- MODULE RealtimeHub -----------------------------
(***************************************************************************)
(* The websocket side of one application process: the Hub, its Clients and *)
(* the goroutine of RedisSubscriber that hands events to them.             *)
(*                                                                         *)
(* Three kinds of goroutines meet on a Client: its readPump, its writePump *)
(* and the subscriber.  An action is what a goroutine does between two     *)
(* points where another one can get in: a critical section of Client.mu or *)
(* Hub.mu, a channel operation, a call of the connection.  A gauge is      *)
(* updated with the critical section before it.                            *)
(*                                                                         *)
(* Events arrive from Redis at any time and in any number up to MaxEvents; *)
(* an event that Redis loses is one that does not arrive.                  *)
(***************************************************************************)
EXTENDS Integers, FiniteSets

CONSTANTS
    Clients,            \* Client structs: one per connection, never reused
    Rooms, Users,
    UserOf,             \* Client.user
    OutboundQueueSize, MaxSubscriptions,
    MaxEvents,          \* bound on the events the subscriber receives
    None

ASSUME ConstantsAssumption ==
    /\ UserOf \in [Clients -> Users]
    /\ OutboundQueueSize \in Nat \ {0} /\ MaxSubscriptions \in Nat \ {0} /\ MaxEvents \in Nat
    /\ None \notin Rooms \union Users \union Clients

VARIABLES
    rooms, users,       \* Hub.rooms, Hub.users
    subscribed,         \* Client.subscribed
    queued,             \* messages in Client.send
    once,               \* how far Client.closeOnce has got
    reader, writer,     \* what readPump and writePump are doing
    hub,                \* what the subscriber's goroutine is doing
    wsSubscriptions,    \* the gauge ws_subscriptions_current
    events,             \* number of events received from Redis
    acked,              \* rooms whose "subscribed" is queued and that are still wanted
    missing,            \* events a connected client has a right to and has not got
    late                \* clients to which a room was added behind the back of Close

client == <<subscribed, queued, once>>
history == <<events, acked, missing, late>>
vars == <<rooms, users, subscribed, queued, once, reader, writer, hub, wsSubscriptions,
          events, acked, missing, late>>

\* Close: what is left of it after the subscriptions are cleared.
Onces == {"open", "cleared", "connClosed", "unsubscribed", "unregistered", "done"}
ReaderStages == {"new", "read", "subscribe", "hubSubscribe", "unsubscribe",
                 "hubUnsubscribe", "reply", "drop", "closing", "ended"}
WriterStages == {"new", "select", "closing", "ended"}

\* Fault: Close leaves the connection open.
ConnOpenFault(c) == TRUE

ConnOpen(c) == once[c] \in {"open", "cleared"}
SendClosed(c) == once[c] = "done"

ReaderAt(c, stage) == reader[c].at = stage
ReaderGoto(c, stage) == reader' = [reader EXCEPT ![c] = [at |-> stage, room |-> None]]
ReaderGotoFor(c, stage, r) == reader' = [reader EXCEPT ![c] = [at |-> stage, room |-> r]]
WriterGoto(c, stage) == writer' = [writer EXCEPT ![c] = stage]

\* Fault: the length of the queue is not looked at.
CanEnqueueFault(c) == ~SendClosed(c)

\* enqueue: a full queue and a closed channel (the panic is recovered) are both
\* reported as failure.
CanEnqueue(c) == ~SendClosed(c) /\ queued[c] < OutboundQueueSize

-----------------------------------------------------------------------------
(* Run: the websocket is accepted, its user registered with the hub and    *)
(* its goroutines are started.                                             *)

Run(c) ==
    /\ ReaderAt(c, "new")
    /\ users' = [users EXCEPT ![UserOf[c]] = @ \union {c}]
    /\ ReaderGoto(c, "read")
    /\ WriterGoto(c, "select")
    /\ UNCHANGED <<rooms, client, hub, wsSubscriptions, history>>

-----------------------------------------------------------------------------
(* readPump. *)

\* ReadMessage returns a message; a malformed one is answered with an error.
\* Frames that were buffered are still read after the connection is closed.
ReadMessage(c) ==
    /\ ReaderAt(c, "read")
    /\ \/ \E r \in Rooms : ReaderGotoFor(c, "subscribe", r) \/ ReaderGotoFor(c, "unsubscribe", r)
       \/ ReaderGoto(c, "reply")
    /\ UNCHANGED <<rooms, users, client, writer, hub, wsSubscriptions, history>>

\* The peer is gone, no pong came in time, or the connection was closed here.
ReadError(c) ==
    /\ ReaderAt(c, "read")
    /\ ReaderGoto(c, "closing")
    /\ UNCHANGED <<rooms, users, client, writer, hub, wsSubscriptions, history>>

Subscribe(c) ==
    LET r == reader[c].room IN
    /\ ReaderAt(c, "subscribe")
    /\ \/ /\ r \in subscribed[c]
          /\ ReaderGoto(c, "read")
          /\ UNCHANGED <<subscribed, wsSubscriptions, late>>
       \/ /\ r \notin subscribed[c]
          /\ Cardinality(subscribed[c]) >= MaxSubscriptions
          /\ ReaderGoto(c, "reply")                          \* "too many subscriptions"
          /\ UNCHANGED <<subscribed, wsSubscriptions, late>>
       \/ /\ r \notin subscribed[c]
          /\ Cardinality(subscribed[c]) < MaxSubscriptions
          /\ subscribed' = [subscribed EXCEPT ![c] = @ \union {r}]
          /\ wsSubscriptions' = wsSubscriptions + 1
          /\ late' = IF once[c] = "open" THEN late ELSE late \union {c}
          /\ ReaderGotoFor(c, "hubSubscribe", r)
    /\ UNCHANGED <<rooms, users, queued, once, writer, hub, events, acked, missing>>

\* Fault: as in Unsubscribe, a room nobody has subscribed to is passed over.
HubSubscribeFault(c) ==
    LET r == reader[c].room IN
    /\ ReaderAt(c, "hubSubscribe")
    /\ rooms' = IF rooms[r] = {} THEN rooms ELSE [rooms EXCEPT ![r] = @ \union {c}]
    /\ ReaderGotoFor(c, "reply", r)
    /\ UNCHANGED <<users, client, writer, hub, wsSubscriptions, history>>

HubSubscribe(c) ==
    LET r == reader[c].room IN
    /\ ReaderAt(c, "hubSubscribe")
    /\ rooms' = [rooms EXCEPT ![r] = @ \union {c}]
    /\ ReaderGotoFor(c, "reply", r)
    /\ late' = IF once[c] \in {"open", "cleared", "connClosed"} THEN late ELSE late \union {c}
    /\ UNCHANGED <<users, client, writer, hub, wsSubscriptions, events, acked, missing>>

Unsubscribe(c) ==
    LET r == reader[c].room IN
    /\ ReaderAt(c, "unsubscribe")
    /\ \/ /\ r \notin subscribed[c]
          /\ ReaderGoto(c, "read")
          /\ UNCHANGED <<subscribed, wsSubscriptions, acked>>
       \/ /\ r \in subscribed[c]
          /\ subscribed' = [subscribed EXCEPT ![c] = @ \ {r}]
          /\ wsSubscriptions' = wsSubscriptions - 1
          /\ acked' = [acked EXCEPT ![c] = @ \ {r}]
          /\ ReaderGotoFor(c, "hubUnsubscribe", r)
    /\ UNCHANGED <<rooms, users, queued, once, writer, hub, events, missing, late>>

\* Fault: the hub is not told.
HubUnsubscribeFault(c) ==
    /\ ReaderAt(c, "hubUnsubscribe")
    /\ ReaderGoto(c, "reply")
    /\ UNCHANGED <<rooms, users, client, writer, hub, wsSubscriptions, history>>

HubUnsubscribe(c) ==
    /\ ReaderAt(c, "hubUnsubscribe")
    /\ rooms' = [rooms EXCEPT ![reader[c].room] = @ \ {c}]
    /\ ReaderGoto(c, "reply")
    /\ UNCHANGED <<users, client, writer, hub, wsSubscriptions, history>>

\* sendServerMessage: "subscribed" (the room is kept), "unsubscribed" or an
\* error.  A client that cannot take its answer is closed.
Reply(c) ==
    /\ ReaderAt(c, "reply")
    /\ \/ /\ CanEnqueue(c)
          /\ queued' = [queued EXCEPT ![c] = @ + 1]
          /\ acked' = [acked EXCEPT ![c] = @ \union ({reader[c].room} \ {None})]
          /\ ReaderGoto(c, "read")
       \/ /\ ~CanEnqueue(c)
          /\ ReaderGoto(c, "drop")
          /\ UNCHANGED <<queued, acked>>
    /\ UNCHANGED <<rooms, users, subscribed, once, writer, hub, wsSubscriptions,
                   events, missing, late>>

-----------------------------------------------------------------------------
(* writePump.  A write has a deadline, so it succeeds or fails.  Messages  *)
(* queued before the channel was closed are still received.                *)

Write(c) ==
    /\ writer[c] = "select"
    /\ queued[c] > 0
    /\ ConnOpen(c)
    /\ queued' = [queued EXCEPT ![c] = @ - 1]
    /\ UNCHANGED <<rooms, users, subscribed, once, reader, writer, hub, wsSubscriptions, history>>

\* A message or a ping cannot be written, or the channel was closed and is empty.
WriteError(c) ==
    /\ writer[c] = "select"
    /\ WriterGoto(c, "closing")
    /\ UNCHANGED <<rooms, users, client, reader, hub, wsSubscriptions, history>>

-----------------------------------------------------------------------------
(* Close.  Whoever calls it first executes it; everybody else who calls it *)
(* waits in closeOnce until that is finished.                              *)

Closing(c) ==
    ReaderAt(c, "drop") \/ ReaderAt(c, "closing") \/ writer[c] = "closing" \/ hub.closing = c

CloseStarts(c) ==
    /\ Closing(c)
    /\ once[c] = "open"
    /\ once' = [once EXCEPT ![c] = "cleared"]
    /\ subscribed' = [subscribed EXCEPT ![c] = {}]
    /\ wsSubscriptions' = wsSubscriptions - Cardinality(subscribed[c])
    /\ acked' = [acked EXCEPT ![c] = {}]
    /\ missing' = [missing EXCEPT ![c] = {}]
    /\ UNCHANGED <<rooms, users, queued, reader, writer, hub, events, late>>

CloseStep(c, from, to) == once[c] = from /\ once' = [once EXCEPT ![c] = to]

CloseConn(c) ==
    /\ CloseStep(c, "cleared", "connClosed")
    /\ UNCHANGED <<rooms, users, subscribed, queued, reader, writer, hub, wsSubscriptions, history>>

\* Fault: it goes through the subscriptions of the client, cleared by then.
UnsubscribeAllFault(c) ==
    /\ CloseStep(c, "connClosed", "unsubscribed")
    /\ rooms' = [r \in Rooms |-> IF r \in subscribed[c] THEN rooms[r] \ {c} ELSE rooms[r]]
    /\ UNCHANGED <<users, subscribed, queued, reader, writer, hub, wsSubscriptions, history>>

UnsubscribeAll(c) ==
    /\ CloseStep(c, "connClosed", "unsubscribed")
    /\ rooms' = [r \in Rooms |-> rooms[r] \ {c}]
    /\ UNCHANGED <<users, subscribed, queued, reader, writer, hub, wsSubscriptions, history>>

\* Fault: the user keeps the client.
UnregisterUserFault(c) ==
    /\ CloseStep(c, "unsubscribed", "unregistered")
    /\ UNCHANGED <<rooms, users, subscribed, queued, reader, writer, hub, wsSubscriptions, history>>

UnregisterUser(c) ==
    /\ CloseStep(c, "unsubscribed", "unregistered")
    /\ users' = [users EXCEPT ![UserOf[c]] = @ \ {c}]
    /\ UNCHANGED <<rooms, subscribed, queued, reader, writer, hub, wsSubscriptions, history>>

CloseSend(c) ==
    /\ CloseStep(c, "unregistered", "done")
    /\ UNCHANGED <<rooms, users, subscribed, queued, reader, writer, hub, wsSubscriptions, history>>

\* Close returns.
ReaderClosed(c) ==
    /\ once[c] = "done"
    /\ \/ ReaderAt(c, "drop") /\ ReaderGoto(c, "read")
       \/ ReaderAt(c, "closing") /\ ReaderGoto(c, "ended")
    /\ UNCHANGED <<rooms, users, client, writer, hub, wsSubscriptions, history>>

WriterClosed(c) ==
    /\ once[c] = "done"
    /\ writer[c] = "closing"
    /\ WriterGoto(c, "ended")
    /\ UNCHANGED <<rooms, users, client, reader, hub, wsSubscriptions, history>>

-----------------------------------------------------------------------------
(* RedisSubscriber.handleMessage: Broadcast to a room, SendToUser to a     *)
(* user.  The clients are copied under the lock and written to after it.   *)

IdleHub == [todo |-> {}, slow |-> {}, closing |-> None]
HubIdle == hub = IdleHub

Receive(targets) ==
    /\ HubIdle
    /\ events < MaxEvents
    /\ events' = events + 1
    /\ hub' = [IdleHub EXCEPT !.todo = targets]

Broadcast(r) ==
    /\ Receive(rooms[r])
    /\ missing' = [c \in Clients |-> IF once[c] = "open" /\ r \in acked[c]
                                     THEN missing[c] \union {events + 1} ELSE missing[c]]
    /\ UNCHANGED <<rooms, users, client, reader, writer, wsSubscriptions, acked, late>>

SendToUser(u) ==
    /\ Receive(users[u])
    /\ missing' = [c \in Clients |-> IF once[c] = "open" /\ UserOf[c] = u /\ writer[c] # "new"
                                     THEN missing[c] \union {events + 1} ELSE missing[c]]
    /\ UNCHANGED <<rooms, users, client, reader, writer, wsSubscriptions, acked, late>>

Deliver(c) ==
    /\ c \in hub.todo
    /\ \/ /\ CanEnqueue(c)
          /\ queued' = [queued EXCEPT ![c] = @ + 1]
          /\ missing' = [missing EXCEPT ![c] = @ \ {events}]
          /\ hub' = [hub EXCEPT !.todo = @ \ {c}]
       \/ /\ ~CanEnqueue(c)
          /\ hub' = [hub EXCEPT !.todo = @ \ {c}, !.slow = @ \union {c}]
          /\ UNCHANGED <<queued, missing>>
    /\ UNCHANGED <<rooms, users, subscribed, once, reader, writer, wsSubscriptions,
                   events, acked, late>>

\* Fault: slow consumers are left connected.
DisconnectSlowFault(c) ==
    /\ hub.todo = {} /\ hub.closing = None /\ c \in hub.slow
    /\ hub' = [hub EXCEPT !.slow = @ \ {c}]
    /\ UNCHANGED <<rooms, users, client, reader, writer, wsSubscriptions, history>>

\* Disconnect slow consumers to avoid global backpressure.
DisconnectSlow(c) ==
    /\ hub.todo = {} /\ hub.closing = None /\ c \in hub.slow
    /\ hub' = [hub EXCEPT !.slow = @ \ {c}, !.closing = c]
    /\ UNCHANGED <<rooms, users, client, reader, writer, wsSubscriptions, history>>

HubClosed(c) ==
    /\ hub.closing = c
    /\ once[c] = "done"
    /\ hub' = [hub EXCEPT !.closing = None]
    /\ UNCHANGED <<rooms, users, client, reader, writer, wsSubscriptions, history>>

-----------------------------------------------------------------------------
Init ==
    /\ rooms = [r \in Rooms |-> {}]
    /\ users = [u \in Users |-> {}]
    /\ subscribed = [c \in Clients |-> {}]
    /\ queued = [c \in Clients |-> 0]
    /\ once = [c \in Clients |-> "open"]
    /\ reader = [c \in Clients |-> [at |-> "new", room |-> None]]
    /\ writer = [c \in Clients |-> "new"]
    /\ hub = IdleHub
    /\ wsSubscriptions = 0
    /\ events = 0
    /\ acked = [c \in Clients |-> {}]
    /\ missing = [c \in Clients |-> {}]
    /\ late = {}

\* What goroutines do without waiting for the peer.
ReaderStep(c) ==
    \/ Subscribe(c) \/ HubSubscribe(c) \/ Unsubscribe(c) \/ HubUnsubscribe(c)
    \/ Reply(c) \/ ReaderClosed(c)
CloseSteps(c) ==
    CloseStarts(c) \/ CloseConn(c) \/ UnsubscribeAll(c) \/ UnregisterUser(c) \/ CloseSend(c)
HubStep(c) == Deliver(c) \/ DisconnectSlow(c) \/ HubClosed(c)

Next ==
    \/ \E c \in Clients :
        \/ Run(c) \/ ReadMessage(c) \/ ReadError(c) \/ ReaderStep(c)
        \/ Write(c) \/ WriteError(c) \/ WriterClosed(c)
        \/ CloseSteps(c) \/ HubStep(c)
    \/ \E r \in Rooms : Broadcast(r)
    \/ \E u \in Users : SendToUser(u)

Spec == Init /\ [][Next]_vars

\* The Go scheduler runs every goroutine that can run, and a call of a closed
\* connection returns with an error, a read once what was buffered is used up.
\* The peer owes nothing.
Fairness ==
    \A c \in Clients :
        /\ WF_vars(ReaderStep(c)) /\ WF_vars(CloseSteps(c)) /\ WF_vars(HubStep(c))
        /\ WF_vars(WriterClosed(c))
        /\ SF_vars(~ConnOpen(c) /\ ReadError(c))
        /\ WF_vars(~ConnOpen(c) /\ WriteError(c))

FairSpec == Spec /\ Fairness

-----------------------------------------------------------------------------
(* Safety. *)

\* The fields have their types and no queue, and no client's set of rooms,
\* exceeds its limit.
TypeOK ==
    /\ rooms \in [Rooms -> SUBSET Clients]
    /\ users \in [Users -> SUBSET Clients]
    /\ subscribed \in [Clients -> SUBSET Rooms]
    /\ queued \in [Clients -> 0..OutboundQueueSize]
    /\ once \in [Clients -> Onces]
    /\ reader \in [Clients -> [at : ReaderStages, room : Rooms \union {None}]]
    /\ writer \in [Clients -> WriterStages]
    /\ hub \in [todo : SUBSET Clients, slow : SUBSET Clients, closing : Clients \union {None}]
    /\ wsSubscriptions \in Int
    /\ events \in Nat
    /\ acked \in [Clients -> SUBSET Rooms]
    /\ missing \in [Clients -> SUBSET Nat]
    /\ late \in SUBSET Clients

\* A client that has been told "subscribed", and that is neither unsubscribing
\* nor being closed, has every event of the room since then in its queue, and
\* every event for its user since it was registered: either nothing is lost or
\* the connection is.
NoGap == \A c \in Clients : HubIdle /\ once[c] = "open" => missing[c] = {}

\* The client and the hub agree about the rooms of a connection that is in use,
\* whenever its readPump is not in the middle of a request.
HubAgreesWithClient ==
    \A c \in Clients : once[c] = "open" /\ ReaderAt(c, "read") =>
        subscribed[c] = {r \in Rooms : c \in rooms[r]}

\* A client that was closed gets no personal events any more, although Close may
\* run while readPump is still in a request.
ClosedIsUnregistered ==
    \A c \in Clients : once[c] = "done" => \A u \in Users : c \notin users[u]

Ended(c) == ReaderAt(c, "ended") /\ writer[c] = "ended"

\* When every connection is over, no subscription is counted and the hub holds no
\* client any more, unless readPump handled a subscribe while somebody else's
\* Close was running: what it adds then is never taken back.
LeftBehindOnlyIfLate ==
    (\A c \in Clients : Ended(c) /\ c \notin late) =>
        wsSubscriptions = 0 /\ \A r \in Rooms : rooms[r] = {}

-----------------------------------------------------------------------------
(* Liveness. *)

\* Once anybody has begun to close a client, both its goroutines end, whoever
\* else is closing it and whatever its readPump was doing.
ClosedClientEnds == \A c \in Clients : once[c] # "open" ~> Ended(c)
=============================================================================
