# Verification of the booking service

TLA+ specifications of the booking service (Go, PostgreSQL, Redis, websockets),
TLC configurations that check them on small instances, and TLAPS proofs of what
matters most for instances of every size. Every definition is a translation of
code under `src/`; `PROJECT.json` maps definitions to source lines.

## The system

A monolith serves an HTTP API over PostgreSQL. Rooms have one weekly schedule;
a background goroutine materialises slots from it; users book slots, queue for
booked ones, and get a short-lived reservation when a slot they wait for becomes
free. Changes are announced to browsers: event, Redis pub/sub, hub, websocket.
Several processes may run against one database and one Redis.

| Component | State | Operations | Hard part |
|---|---|---|---|
| Bookings | table `bookings`, partial unique index on the active one of a slot | `CreateBooking`, `CancelBooking` | two transactions on a slot; values read without a lock; lost transactions |
| Waitlist | table `waitlist_entries` with a sequence `position` | `JoinWaitlist`, `LeaveWaitlist`, `ClaimNextForNotify` | `SKIP LOCKED`, order, claim and reservation in one transaction |
| Reservations | table `slot_reservations` with `expires_at` | `ConfirmReservation`, `CancelReservation`, `ExpireDue` | confirm, cancel and expire racing; batches; the clock read before a lock is waited for |
| Schedules | table `schedules` | `CreateSchedule` | check and insert are separate statements |
| Slot generator | table `slots`, the locals of a run, the generator's clock | `Generate` on start and on each tick | interruption between batches; two processes; the rolling window |
| Websocket hub | `Hub.rooms`, `Hub.users`, per client `subscribed`, `send`, `closeOnce` | `Subscribe`, `Unsubscribe`, `Broadcast`, `SendToUser`, `Close` | three goroutines on a client, two mutexes, a bounded queue |
| Redis publisher, subscriber | the connection | publish after COMMIT; `Run` with reconnection | at most once, crash between COMMIT and event |
| Authentication | table `users`, signed tokens | `Register`, `Login`, `DummyLogin` | two registrations of one address; an answer that is lost; what is normalised and what is not |
| Slot lists | none: queries over the tables | `ListAllByRoomAndDate`, `ListAvailableByRoomAndDate`, `ListActiveByUser` | lists and use cases compare with the clock apart from each other |
| Process start and shutdown | the state of `main()`, the pool, the Redis client, the schema's version | migrations, start, signals, shutdown with a deadline | what still runs when its resources are closed; a kill inside of a migration |
| Rooms | table `rooms` | one INSERT, queries | |
| HTTP transport, metrics, logging, configuration | none that lasts | | |
| Frontend | token, slots on the screen, `lastEvent`, one websocket | pages; reconnecting client | answers out of order, events replaced before they are rendered, reconnects |

The use cases interact through the tables only: `CancelBooking`,
`CancelReservation` and `ExpireDue` all call the queue and insert a reservation;
`ConfirmReservation` turns one into a booking. The generator reads `schedules`
and appends to `slots`, which the use cases only read. The hub hears of changes
through Redis after COMMIT and never influences the tables. Handlers and
background goroutines share the pool and the Redis client, which `main()` opens
and closes.

What makes each part correct:

* **Slot life cycle**: at most one active booking and one active reservation per
  slot and one live waitlist entry per user and slot; an entry is served once, in
  order, together with its reservation; a confirmation appears with its booking;
  terminal statuses are final; the queue never stops while somebody waits; no
  deadlock; overdue reservations go away.
* **Hub**: a connected client misses no event of a room it was told it is
  subscribed to; hub and client agree; a closed client leaves nothing behind and
  both its goroutines end.
* **Generator**: a schedule per room, slots only inside its opening hours, no gap
  inside the window, the window moves with the clock, all rooms are served.
* **Room page**: what it shows is what the tables say once everything is quiet,
  unless a change was missed in one of a few known ways; the server's subscription
  is that of the client's room, through reconnects and visits.
* **Accounts**: one account per address, answers that are true, no login refused
  that should succeed.
* **Process**: no work on half a schema, nothing cut off before the deadline of
  the shutdown, and an end once it is asked for.
* **Lists**: what is shown as free can be booked, what is shown as reserved for a
  user can be confirmed.

The hazards behind these properties are listed, at the lines where they bite,
in `PROJECT.json`. Some of them the code does not avoid and no document
excludes. These are modelled, and the property next to them exempts them by name,
which shows that nothing else goes wrong but does not catch them: a waiter whose
locked row a claim has skipped (`NoStrandedWaiter`), a subscription that is handled
after `Close` (`LeftBehindOnlyIfLate`), lost, replaced and overtaken updates of the
room page (`StaleOnlyWhenMissed`), a page that is loaded by its address and is never
subscribed (neither this one nor `SubscriptionAgrees`, which is about the room that
the client has set), a password that was stored without its spaces
(`LoginRefusedRightly`), and the overtaking of a waiter whose row is locked, which
`FirstComeFirstNotified`, checked with one goroutine, does not reach.

## Modules

| Module | Models |
|---|---|
| `SlotBooking` | bookings, waitlist, reservations, the expiration worker, transactions |
| `SlotLedger` | what the use cases promise, each in one step: the abstract specification that `SlotBooking` implements |
| `SlotLists` | the lists that users see of the tables of `SlotBooking` |
| `SlotBookingProofs` | types, the partial unique indexes, no double booking, no double reservation |
| `SlotTransactionProofs` | what transactions hold; no deadlock |
| `SlotQueueProofs` | the queue is never forgotten; what one goroutine alone keeps |
| `SlotLedgerProofs` | `SlotBooking` implements `SlotLedger`, and what follows |
| `RealtimeHub` | hub, websocket clients, delivery of events |
| `HubProofs` | what `RealtimeHub` keeps for any number of clients and rooms |
| `SlotGenerator` | schedules and the slot generator |
| `SlotGeneratorProofs` | slots only as scheduled, complete windows, opening hours of a day that stay |
| `RoomPage` | publisher, Redis, subscriber, websocket, the room page of the frontend |
| `RoomPageProofs` | what `RoomPage` keeps for any number of commits, messages and requests |
| `Process` | `main()`: migrations, start, signals, shutdown, kill and restart |
| `Accounts` | registration and login |
| `Server` | `Process` and `Accounts` composed: requests in a process that ends |
| `ServerProofs` | what `Server` keeps for any number of handlers, mailboxes and migrations |
| `MCSlotBooking`, `MCRealtimeHub`, `MCSlotGenerator` | values of the constants for TLC |
| `MCSlotQueue` | `SlotBooking` from a state with two reserved slots |

A definition whose name ends in `Fault` is not part of a specification. It is the
definition after it with a plausible bug (named in its comment); substituted for
it, it makes TLC find the property it is listed with in `PROJECT.json` violated.

### SlotBooking

A table is a function from row identifiers to rows. A row holds its committed
status, the status written by the transaction that holds the row lock (`pend`)
and that transaction (`lock`). `View` is what a statement of READ COMMITTED sees
(`pool.Begin` asks for no other level). `Awaited` and `Taken` are the uniqueness
check of a partial index: wait for a transaction that is creating or taking away
an entry with the key, then fail or insert. `SELECT ... FOR UPDATE` that waits
re-evaluates only the row it waited for (`WaitReservation`, `WaitBooking`).

`tx[p]` holds the locals of the use case that goroutine `p` runs and the
statement it is about to execute (`at_stmt`). Each SQL statement is an action,
named after the repository method or the part of the use case around it; reads of
the immutable table `slots` are folded into the next statement. A use case ends
in `Commit`, in `Rollback` when it returns an error, or in `Abort`, which may
happen at any statement: a cancelled request, a lost connection, a killed
process, a failing COMMIT. A request that is refused by its first read (unknown
row, wrong role) changes nothing and has no action; one to book a slot that has
begun is a step (`CheckReservation`), because the lists are compared with it.
`slotReleased` counts the commits of `CancelBooking` that announce a release or
call the queue, `passedOver` collects entries that a fruitless claim skipped
because they were locked; both are history variables that no action reads.

Abstractions: identifiers are drawn from finite sets (`uuid.New`); `position` is
reused after a rollback, which keeps the order of the committed rows; the time
of a slot and the clock are small integers; events are the subject of `RoomPage`.

### SlotLedger and the refinement

`SlotLedger` knows committed rows only, and a use case is one step. Under
`SlotBooking!Ledger` a row is mapped to the columns it has committed (`CommittedBookings`,
`CommittedEntries`, `CommittedReservations`: a row that is being inserted is
absent, a pending status does not count), so that
every statement but COMMIT is a stuttering step and a COMMIT is one use case.
`ImplementsLedger` is checked by `slot_requests`, and its steps
(`CommitsAreLedgerSteps`) by `slot_queue`, which does not start with empty tables; it
is proved in `SlotLedgerProofs`. It says, among
other things, that a confirmation is a booking and a terminal status at once, that
a claimed waiter and its reservation appear together, that a batch of
`ExpireDue` gives each slot at most one new reservation, and that nobody joins a
queue of a slot that is not booked. Two things are weaker in `SlotLedger` than one
may expect, because the code does not keep them under concurrency (the violations
below): a freed slot's queue may find nobody although somebody waits, and a
reserved slot may be booked.

### SlotLists

The three lists are operators over the tables and a clock. `AvailableCanBeBooked` and
`ListedCanBeConfirmed` hold them against the use cases at the clock the request has
read: in `slot_serial`, where nobody interferes, a use case succeeds exactly for what
the list shows. `IsPast` (of the use cases) and the first WHEN of
`ListAllByRoomAndDate` are the two comparisons of the code, apart from each other
as there. Two exceptions are stated: the list of free slots does not look at the
clock, so that a slot on it that has begun is refused, and a reservation of a slot
that has begun is listed as active and can no longer be confirmed.

### RealtimeHub

An action is what a goroutine does between two points where another one can get
in: a critical section of `Client.mu` or `Hub.mu`, a channel operation, a call of
the connection. `reader` and `writer` are the program counters of `readPump` and
`writePump`, `hub` that of the subscriber's goroutine (the clients copied by
`Broadcast` and not written to yet, the slow ones, the one being closed), and
`once` says how far `Close` has got: whoever calls it first executes it and the
others wait for it. Only the number of queued messages matters. `acked` and
`missing` are history variables: rooms a client has been told about and wants,
and the events it has a right to and has not got. `late` is one too: the clients
to which `subscribe` or `Hub.Subscribe` added a room while or after `Close`
took the others away. Such a client stays in the hub and in the gauge of
subscriptions for ever; `LeftBehindOnlyIfLate` says that nothing else does.

### SlotGenerator

Time is an integer, day 0 a Monday. `CreateSchedule` is two statements,
`CheckSchedule` and `CreateBatch`; `Generate` is `StartGenerate`
(ListWithSchedule), `ListByRoomIDs`, and per room `StartRoom` (the last slot and
the plan) and the batches. The deterministic slot identifier is a hash of room and
start, so a slot is that pair. `FailGenerate` and `Restart` may happen anywhere.
`NewGenerator` evaluates the clock when the process starts, because `now` is the
method value `time.Now().UTC`. `Weekday` is Go's number of a day, with Sunday, the
last day of the week, as 0, and `dbWeekdayFromGo` that of the table. `Expected`, the
reference that the properties compare with, has the number of the table at once, and
describes the slots of a schedule without loops or bounds.

### RoomPage

The tables are a version, raised by every commit that changes a slot of the room;
`Publications` is what each use case publishes afterwards, one event at a time
(`Publish`), unless the process ends first (`Crash`). `channel` is what Redis has
handed to the subscriber, which loses what is published while it is reconnecting.
`conn`, `requests` and `wire` are the two ends of the websocket; the hub is
abstracted to what `RealtimeHub` shows (`NoGap`): an event is queued for a
subscribed client, or the connection goes. In the browser an action is one task
of the event loop, named after the handler, or one React commit with its effects
(`effect`, `Navigate`, `Leave`). `lastEvent` keeps only the last message, and the
cleanup of the effect clears the refresh of the event before. A request for slots
is sent, answered from the tables and shown in three steps, so that answers
overtake each other. `Reload` has the order of React's effects: those of the page
run before those of the provider, which has no client yet. `missed` is a history
variable; it is set in exactly the situations that the comment of
`StaleOnlyWhenMissed` lists.

### Process, Accounts and Server

`main` in `Process` is the statement `main()` is about to execute. A goroutine is
abstracted to what the shutdown has to respect: it holds a connection, it owes
events after a COMMIT, it is idle or over. `RunMigrations` and `Migrated` are what
the library does around one migration: the version is recorded as dirty, the SQL
is executed, the mark is taken away. The process may be killed at any moment; the
schema stays as it is and `Restart` starts another one. Signals may come at any
time, `ListenAndServe` may fail, and the ten seconds of `shutdownCtx` may pass
(`Deadline`) at any moment of the shutdown. Waiting for connections in
`dbPool.Close` has no deadline. Websockets are hijacked connections, for which
`Shutdown` does not wait.

In `Accounts` a typed address is a mailbox and a way of writing it, a typed
password a word that is empty, short, long (for bcrypt) or neither, with or without
spaces around it: what `normalizeEmail`, `isValidEmail`, `TrimSpace`, the length
check and `Hash` tell apart. Look-up and INSERT are separate statements. A
statement may fail, the INSERT with or without its row.

`Server` extends both and joins their actions: a request occupies a handler of
`Process`, needs a connection for each statement, and ends with its answer or with
the process (`Abandon`). A handler may serve any other request instead. The seeded
mailbox has a row without a hash, as `scripts/seed.sql` inserts it.

## Runs

Passing runs:

| Run | Bounds | Question |
|---|---|---|
| `slot_requests` | 2 handlers, 2 users, 1 slot, 2 rows per table, the clock stands still; 0.7 million states | Do two requests of any kind on one slot, lost anywhere, keep the indexes and the atomicity of a confirmation, without deadlock, and commit only what `SlotLedger` allows? |
| `slot_queue` | handler and worker, 3 users, 2 slots, 3 rows per table, batches of 1, the clock up to 2, from two reservations with one expiry; 0.3 million states | Do confirm, cancel and expire exclude each other, with bookings that appear with the confirmation or not at all; does the worker end overdue reservations although it takes one at a time; is every waiter served once and left behind only where a claim skipped a locked row; is every commit a step of `SlotLedger`? |
| `slot_serial` | one goroutine that is handler and worker, 3 users, 2 slots, 3 entries, batches of 2; 2.0 million states | Is the sequential logic right, so that what the violations below show is due to interleaving alone? Do the use cases do what the lists show? |
| `hub_races` | 2 clients of a user, 1 room, queue of 1; 4.1 million states | Does an event arrive or the connection go, with reader, writer and hub closing at once? |
| `hub_single` | 1 client, 2 rooms, subscription limit 1, queue of 2 | With the limits in reach: do both goroutines end, and what do they leave behind? |
| `gen_window` | 2 processes, 1 room, 2 requests, the clock up to 1 | Is the window complete and within the opening hours, with failures, restarts and both processes inserting, and is it filled again and again although a run may fail at every statement? |
| `page_updates` | 1 goroutine, 1 commit of three kinds, 2 requests for slots at once, 1 message in each direction; 0.5 million states | Is the page out of date only for the reasons known; is the server's subscription that of the client's room, and does it come back? |
| `server` | 2 handlers, 1 background goroutine, 2 migrations, 2 mailboxes of which one is seeded, 1 good password; 0.3 million states | Is nobody served on half a schema or cut off before the deadline, does the process end when it is told to, and do accounts and answers agree, with failures, kills and restarts anywhere? |

Runs in which TLC finds a violation; each states something the repository says:

| Run | What happens |
|---|---|
| `slot_booked_and_reserved` | `CreateBooking` finds no reservation, a cancellation commits one, the booking is inserted: the slot is booked by one user and reserved for another. |
| `slot_double_cancel` | Two cancellations of a booking both read it as active; the second finds nothing to update and still releases the slot. |
| `gen_frozen` | The window of a process stays where it was when the process started. |
| `gen_twice` | Two requests both find no schedule of a room and both create one, on different days, although a schedule "can be created only once per room" (`schedule/service.go:52`) and is immutable (`README.md:276`). |

The same formulas `ReservedExcludesBooked` and `ReleasedOnce` hold in `slot_serial`,
and so does `EveryWaiterHasTurn`. With several goroutines the latter does not
hold: a transaction (a claim, or `LeaveWaitlist`) holds a waiter's row, a claim skips
the row and commits, the holder is rolled back, and the waiter is active while
nobody will call the queue. No document excludes that, so it is not a run;
`NoStrandedWaiter` exempts the skipped entries and says that `SKIP LOCKED` is the only
way a waiter is left behind.

`slot_queue` starts where the interesting races are, and not with empty tables, so
that its few rows are spent on them: `TwoReserved` has two slots, one of which has
begun and one not, both reserved until the same moment, and a user who still waits for the
first. It is a state of `SlotBooking`: users book the two slots, queue for them and
cancel, the clock moving once in between, which leads there in 32 steps from `Init`.
All theorems therefore hold for this run too. From
there a reservation can be confirmed (in time, or late, when the clock moves while
the confirmation waits), cancelled or expired while another transaction is at it; two
reservations are due and the batch takes one; the freed slot is offered to the
last waiter, whose reservation will be due in turn.

Why the bounds are enough. Two transactions that meet on one slot are what the
locks and indexes are about; two rows per table give a new row beside an old one,
the case of the index. The queue needs a holder and two waiters, hence three
users. `TTL` is 1 and the clock moves, but for `slot_requests`: a reservation is
live, then overdue, and a slot that starts at 0 is bookable and then past;
`slot_queue` has a clock that moves on once more when reservations are overdue.
`slot_serial` does not reach a batch limit below the number of due reservations;
`slot_queue` does. Two connections are the least for which
`Broadcast` has a next client; a queue of one makes slow clients common. A week
of two days with three slots a day, of which a schedule can reach two (no time of
day is midnight of the next day), has days with and without opening hours, and
batches of one slot are interrupted everywhere. The inputs of `CreateSchedule`
include times off the grid, a day that does not exist, and disjoint days, so that
two requests can both succeed. Two rooms are too many states for the check of
`WindowFilled`, so that a room that starves behind another one is not exercised. A
slot is two units long: a process that starts at
time 1 is inside of a slot and has a window that ends one slot later than that of
a process that started at 0. One commit and two requests for slots are enough for
an answer that is overtaken; its three kinds publish a single room event, a room
event followed by a personal one, and the reverse.

Two handlers are the least for two registrations of one address; with one that
is free and one that is seeded, and passwords that are good, padded, short, long and
empty, every branch of `Register` and `Login` is taken. Two migrations give a
process that is killed before, inside, between and after them. One background
goroutine is enough, because `main()` waits for all of them in the same way.

Symmetry is used for users, handlers, slots and clients, in
runs without liveness only; none of them is compared by anything but equality.

Deadlock is checked in the slot runs except `slot_requests`: without a worker,
and with all rows used, requests may wait for a free
row only, which the real tables always have; lock cycles are what `NoDeadlock` is
about. The hub stops when all connections are over. In the generator runs the
clock and the requests come to their bounds. The page can always be reloaded,
and a process started again.

## Fairness

* `SlotBooking.WorkerFairness`: `main.go` starts the ticker once and it never
  stops, hence weak fairness of `StartExpire`. A statement may fail, but not each
  time it is tried: strong fairness of each statement of the worker and of its
  COMMIT. Handlers owe nothing; `OverdueExpires` is about the time after they have
  become quiet, because a handler that stays connected can hold a row lock. It
  says that again and again nothing is overdue: what the batch limit leaves, and what
  is offered on and falls due, has its turn too.
* `RealtimeHub.Fairness`: the scheduler runs a goroutine that can run. A call on a
  closed connection ends in an error, for reads once the buffered frames are
  used up (strong fairness). The peer owes nothing.
* `SlotGenerator.Fairness`: the ticker calls `Generate` again and again, and no
  statement fails each time it is tried, for any room. That is needed: a room
  whose statements always fail keeps the rooms after it from being served.
* `RoomPage.Fairness`: the browser runs its callbacks (weak fairness). A
  connection may break at any time, but not every attempt to open one fails, and
  not every one breaks before its first request is handled (strong fairness).

* `Process.Fairness`: the scheduler runs `main()`, and time passes for its deadline
  (weak fairness of `MainStep`); no statement takes for ever (weak fairness of
  `Release`), without which `dbPool.Close` could keep the process from ending.
  Requests, the server's goroutine and the background goroutines owe nothing else.
  `ServerSpec` has the same fairness.

## Proofs

Every safety property that a passing run checks, invariants and action
properties alike, and the refinement are also proved (`CommitsAreLedgerSteps` is the
step part of `ImplementsLedger`). The theorems hold
for all sets of users, slots, goroutines and row identifiers, and every clock and
bound. They use only the named assumptions on the constants:
`ConstantsAssumption` of `SlotBooking`, `RealtimeHub`, `RoomPage` and
`SlotGenerator` (numbers are naturals, limits are positive, `None` is none of
the others), `UseCasesAssumption`, `ProcessAssumption`, `AccountsAssumption` and
`ServerAssumption`. TLC evaluates each of them in a run. The proof modules are a
chain for the slots, `SlotBookingProofs`, then `SlotTransactionProofs`, on which
both `SlotQueueProofs` and `SlotLedgerProofs` build; the other four stand alone.

### Slots: types, indexes, locks

* `SlotBookingProofs!TypeCorrect`: `TypeOK`. The inductive invariant is
  `TypeInv == TypeOK /\ RefsOK`: types alone do not say that a goroutine about to
  execute a statement has the row, slot and user it needs, which `RefsOK` does,
  stage by stage. The proof has one step per action.
* `SlotBookingProofs!IndexesAlwaysProtected`, with the corollaries `NoDoubleBooking`
  and `NoDoubleReservation`. The inductive invariant is `IndexInv == TypeInv /\
  HoldsReservation /\ IndexesProtected`. `IndexesProtected` talks about committed
  and pending statuses at once: of two rows with a key, not both are in the
  index, not both are about to be, and if one leaves while the other enters then
  one transaction holds both. The third part is what makes it inductive:
  committing such a transaction swaps the two in one step and rolling it back
  undoes both. What a transaction does to rows is treated once, for any table
  (`UpdateKeeps`, `InsertKeeps`, `CommitKeeps`, `RollbackKeeps`), and each action is
  shown to be one of these four.
* `SlotTransactionProofs!NeverDeadlocked`: `NoDeadlock`. `TxInv` says, use case by
  use case and statement by statement, which rows a transaction has locked and
  from which status to which it takes them. It speaks of a transaction's own
  locals and rows, which the steps of the others leave alone (`OthersKeepTx`), so
  that each statement is treated once. `LockOrder` then gives the statement a
  transaction waits at a number, and whoever it waits for is at a greater one:
  reservation, booking, entry, offered reservation. In a set of transactions that
  all wait for each other there would be no greatest number.

### Slots: the queue

* `SlotQueueProofs!QueueNeverForgotten`: `NoStrandedWaiter`. A booking or
  reservation that keeps a queue waiting may be on its way out; the invariant
  `QueueInv` adds to `TxInv` that its row then belongs to a transaction that still calls the
  queue, has made the next reservation, or is rolled back (`Supports`).
* The second part of `SlotQueueProofs` assumes `OneGoroutine`: nobody else is at
  work, as in `slot_serial`, with everything else arbitrary. `SerialInv` adds to
  `QueueInv` that what a use case has read is still so when it acts on it
  (`SerialLocals`), that a slot is booked and reserved only inside of a
  confirmation (`NeverBoth`), and that pending claims are in order (`InOrder`). It
  gives `SeriallyExclusive` and `SeriallyReleasedOnce`, the very formulas that
  `slot_booked_and_reserved` and `slot_double_cancel` refute for several goroutines,
  so what these runs show is due to interleaving and not to the sequential logic;
  further `SeriallyServed` (`EveryWaiterHasTurn`), `SeriallyInOrder`
  (`FirstComeFirstNotified`), `SeriallyAvailable` and `SeriallyConfirmed`
  (`AvailableCanBeBooked` and `ListedCanBeConfirmed`: the use cases do what the
  lists show at the clock the request has read). For `SeriallyAvailable`,
  `SerialLocals` carries the outcome of the comparison with the clock from
  `CheckReservation` to the INSERT.

### Slots: the refinement

* `SlotLedgerProofs!LedgerImplemented`: `ImplementsLedger`. Statements, rollbacks and
  starts of use cases leave the committed rows alone. A COMMIT is one step of
  `SlotLedger`: `TxInv` says what the transaction holds, and `IndexesProtected` that
  nobody has got in between.
* `TerminalIsFinal` and `ConfirmedWithBooking` follow from the refinement: the
  formulas are about committed rows, and `SlotLedger` has few actions
  (`LedgerStatusSteps`). `ClaimedExactlyOnce` is an induction over the steps of
  `SlotLedger` too: an entry has a reservation from the step in which it is
  notified, and only then.

### Hub

`HubProofs` proves `TypeOK`, `NoGap`, `HubAgreesWithClient`, `ClosedIsUnregistered` and
`LeftBehindOnlyIfLate` from `HubInv`. For a connection that nobody has begun to
close it relates the client's rooms, the hub's rooms and what was acknowledged at
each stage of `readPump`, between the two critical sections as well (`RoomsAgree`,
`AckedIsSubscribed`), and says that an event not delivered yet has its client among those the
hub will write to or close (`OwedOrClosing`). For one that is being closed it
says what is gone for good (`ClosedIsEmpty`, `Registered`). The gauge of
subscriptions is shown to be the number of pairs of client and room
(`GaugeCounts`), so that it is zero when the pairs are gone.

### Generator

`SlotGeneratorProofs` proves `TypeOK`, `OnlyScheduledSlots` and `WindowComplete` from
`GenInv`, for all lengths of slots, days, weeks and
windows, on the grid or not. `HoursAreFixed` is what remains of "created only once",
which `gen_twice` refutes: the rows of a day are never replaced or doubled
(`DaysAreFixed`). `WeekdayOfDay` shows that Go's number of a day, with the step that makes
a Sunday the last one, is that of the table, for weeks of any length. The key is `NoGaps`: before a slot that exists none is
missing from the present on. `Generate` looks only after the last slot of a room,
and `NoGaps` is why that is enough; it is kept because every process works its plan
off in ascending order and every plan reaches back to the last slot or to the
present. `RunOK` relates the locals of a run to tables that have moved on.

### Page

`RoomPageProofs` proves `TypeOK`, `StaleOnlyWhenMissed` and `SubscriptionAgrees` from
`PageInv`. `CurrentOrUnderWay` follows a change from the outbox of its use case over
channel, websocket, React's state and the timer to the answer of the
request: a page that missed nothing shows the current slots, or one of these holds
something that will make it ask again. `NotFromFuture` excludes that an
answer is taken for current too early. `LastRequestCounts` says that the last
message on the way to the server is about the room that is set in the client
(`activeRoomId`), and `SetByPage` that it is set only while the page is on the
screen. The reverse does not hold: after `Reload` the page is on the screen, no
room is set and the connection is not subscribed, which `SubscriptionAgrees` allows.

### Process and accounts

* `ServerProofs!SchemaIsComplete` and `ShutdownIsOrderly`: `SchemaBeforeUse` and
  `NothingInterrupted`. `ServerStepsAreProcessSteps` says that `Server` only ever
  does to the process what `Process` allows. The inductive invariant adds to the
  types that the schema is complete from `Start` on (`SchemaReady`) and, for each
  stage of the shutdown, who is over by then and that nobody can begin again,
  because the listener is closed (`Orderly`).
* `ServerProofs!NoDoubleAccount`, `AnswersStayTrue` and `LoginsRefusedRightly`:
  `OneAccountPerAddress`, `AnswersAreTrue` and `LoginRefusedRightly`. The UNIQUE constraint
  compares addresses as they are stored, so the invariant has to carry that every
  row and every request at a statement has a normalised one (`Rows`, `Prepared`);
  answers stay true because rows are only ever added (`RequestStep`, which treats
  what one request does to itself and the others once for all actions).
* `ServerProofs!ServerTypeCorrect`: `ServerTypeOK`.

### Model-checked only

The liveness properties `OverdueExpires`, `ClosedClientEnds`, `WindowFilled`,
`SubscribedAgain` and `ProcessEnds`: fairness and ENABLED are out of the prover's
reach. The four violations are counterexamples on an instance, and need
no proof.

## Not modelled

Rooms (one INSERT without a constraint it could violate, and two reads), metrics
and logging (nothing reads them; the gauge of subscriptions is in `RealtimeHub`),
`realtime/manager.go` (not used by `main.go`), the decoding and encoding of HTTP
and the middleware, which keep no state, the two lists of bookings, the signing
and checking of tokens (a library's signature and one comparison with the
clock). Of the start: `RUN_MIGRATIONS=false` and two processes that
migrate at once (the library takes an advisory lock). The pages of the frontend
other than that of a room keep nothing between two visits. Of the room page: the
change of the date, logging out, and a second socket of the same client: after
logging out and in again quickly, the `onclose` of the first socket
(`ws/client.ts:106`) sets `socket` to null although the second is open. No
property covers this hazard, and `PROJECT.json` does not list it. The
database, Redis, the Go runtime, the migration and websocket libraries, the browser
and React are modelled from how the code uses them.

## Plan

In this order:

1. The page when its address is opened: a run that states what the repository's
   README asks a tester to see (the list follows the room events), which `Reload`
   contradicts. Logging out and in, and with it several sockets of one client; the
   change of the date.
2. `SlotBooking` composed with its publications: which events follow which commit.
3. `Generate` with two rooms and two processes under fairness.
