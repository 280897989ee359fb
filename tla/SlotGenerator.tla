---------------------------- MODULE SlotGenerator ----------------------------
(***************************************************************************)
(* Schedules and the slots materialised from them: CreateSchedule on the   *)
(* one hand, and on the other the goroutine of each application process    *)
(* that calls Generate at start and on every tick of the slot interval.    *)
(*                                                                         *)
(* Time is an integer; day 0 is a Monday, a day has DayLength units and a  *)
(* slot SlotDuration of them, so that the clock can be inside of a slot.   *)
(* An action is one SQL statement.  pgx sends a batch of INSERTs as one    *)
(* implicit transaction.  A process can fail or be restarted anywhere.     *)
(***************************************************************************)
EXTENDS Integers, FiniteSets

CONSTANTS
    Rooms,
    Requests,         \* concurrent CreateSchedule requests of administrators
    Inputs,           \* what they may ask for: [days, start, end]
    Instances,        \* application processes
    SlotDuration, DayLength, WeekLength,
    RollingWindow,    \* DefaultRollingWindow
    MaxBatch,         \* DefaultMaxBatch
    MaxClock,         \* bound on the clock
    None

ASSUME ConstantsAssumption ==
    /\ SlotDuration \in Nat \ {0} /\ DayLength \in Nat \ {0} /\ WeekLength \in Nat \ {0}
    /\ RollingWindow \in Nat /\ MaxBatch \in Nat \ {0} /\ MaxClock \in Nat
    /\ Inputs \subseteq [days : SUBSET Nat, start : 0..(DayLength - 1), end : 0..(DayLength - 1)]
    /\ None \notin Rooms

VARIABLES
    schedules,        \* table schedules
    slots,            \* table slots: pairs <<room_id, start_time>>
    request,          \* per CreateSchedule request: how far it has got
    generator,        \* per process: Generator.now and the locals of Generate
    clock

vars == <<schedules, slots, request, generator, clock>>

Times == 0..(MaxClock + RollingWindow)
WeekDays == 1..WeekLength

\* A time of day is at most 23:59: no schedule ends at midnight.
TimeOfDay == 0..(DayLength - 1)

ScheduleRow == [room : Rooms, day_of_week : WeekDays, start_time : TimeOfDay,
                end_time : TimeOfDay, by : Requests]

\* now: the instant g.now() returns; began: when the run started; rooms: the
\* rooms of the run; left: those not handled yet; room, plan: the one being
\* handled and its slots not inserted yet; rules: ListByRoomIDs.
Stages == {"idle", "rules", "room", "insert", "done"}
Locals == [at : Stages, now : Nat, began : Nat, rooms : SUBSET Rooms, left : SUBSET Rooms,
           room : Rooms \union {None}, plan : SUBSET Times, rules : SUBSET ScheduleRow]

NewGenerator(now) ==
    [at |-> "idle", now |-> now, began |-> now, rooms |-> {}, left |-> {}, room |-> None,
     plan |-> {}, rules |-> {}]

-----------------------------------------------------------------------------
(* CreateSchedule. *)

RowsOf(r) == {row \in schedules : row.room = r}

isAlignedToSlotGrid(t) == t % SlotDuration = 0

\* Fault: the days are not validated.
ValidInputFault(input) ==
    /\ input.days # {}
    /\ isAlignedToSlotGrid(input.start) /\ isAlignedToSlotGrid(input.end)
    /\ input.start < input.end

ValidInput(input) ==
    /\ input.days # {} /\ input.days \subseteq WeekDays
    /\ isAlignedToSlotGrid(input.start) /\ isAlignedToSlotGrid(input.end)
    /\ input.start < input.end

\* ExistsByRoomID, and the checks that follow it.
CheckSchedule(q, r, input) ==
    /\ request[q].at = "new"
    /\ ValidInput(input)
    /\ request' = [request EXCEPT ![q] =
         IF RowsOf(r) = {} THEN [at |-> "insert", room |-> r, input |-> input]
         ELSE [at |-> "done", room |-> None, input |-> None]]         \* SCHEDULE_EXISTS
    /\ UNCHANGED <<schedules, slots, generator, clock>>

\* CreateBatch: one INSERT, refused as a whole by UNIQUE (room_id, day_of_week).
CreateBatch(q) ==
    LET r == request[q].room
        input == request[q].input
        rows == {[room |-> r, day_of_week |-> d, start_time |-> input.start,
                  end_time |-> input.end, by |-> q] : d \in input.days}
    IN
    /\ request[q].at = "insert"
    /\ schedules' = IF \E row \in RowsOf(r) : row.day_of_week \in input.days
                    THEN schedules ELSE schedules \union rows
    /\ request' = [request EXCEPT ![q] = [at |-> "done", room |-> None, input |-> None]]
    /\ UNCHANGED <<slots, generator, clock>>

-----------------------------------------------------------------------------
(* Generate. *)

truncateToUTCDate(t) == t \div DayLength

\* time.Weekday: the last day of the week is a Sunday, and the number of that is 0.
Weekday(day) == (day + 1) % WeekLength

\* Fault: the days are counted from Sunday = 1.
dbWeekdayFromGoFault(w) == w + 1

dbWeekdayFromGo(w) == IF w = 0 THEN WeekLength ELSE w

weekdayMatches(day, dayOfWeek) == dbWeekdayFromGo(Weekday(day)) = dayOfWeek

LastSlotStarts(r) ==
    {t \in Times : <<r, t>> \in slots /\ \A u \in Times : <<r, u>> \in slots => u <= t}

\* Fault: the slot after the last one is skipped.
computeLowerBoundFault(now, last) ==
    IF \E t \in last : t + 2 * SlotDuration > now
    THEN (CHOOSE t \in last : TRUE) + 2 * SlotDuration ELSE now

\* maxTime(now, lastSlotStart + SlotDuration)
computeLowerBound(now, last) ==
    IF \E t \in last : t + SlotDuration > now
    THEN (CHOOSE t \in last : TRUE) + SlotDuration ELSE now

\* Whole slots of the day's opening hours that start in [lower, target).
generateForSchedule(day, row, lower, target) ==
    {t \in Times :
        /\ day * DayLength + row.start_time <= t
        /\ (t - (day * DayLength + row.start_time)) % SlotDuration = 0
        /\ t + SlotDuration <= day * DayLength + row.end_time
        /\ lower <= t /\ t < target}

generateForRoom(rules, lower, target) ==
    UNION {IF weekdayMatches(day, row.day_of_week)
           THEN generateForSchedule(day, row, lower, target) ELSE {} :
             day \in truncateToUTCDate(lower)..truncateToUTCDate(target), row \in rules}

\* ListWithSchedule.
StartGenerate(i) ==
    LET rooms == {row.room : row \in schedules} IN
    /\ generator[i].at \in {"idle", "done"}
    /\ generator' = [generator EXCEPT ![i] =
         [NewGenerator(generator[i].now) EXCEPT
            !.at = IF rooms = {} THEN "done" ELSE "rules",
            !.began = clock, !.rooms = rooms, !.left = rooms]]
    /\ UNCHANGED <<schedules, slots, request, clock>>

\* Rows added since ListWithSchedule are among the rules.
ListByRoomIDs(i) ==
    /\ generator[i].at = "rules"
    /\ generator' = [generator EXCEPT ![i].at = "room",
                        ![i].rules = {row \in schedules : row.room \in generator[i].rooms}]
    /\ UNCHANGED <<schedules, slots, request, clock>>

\* GetLastSlotStartByRoomID, and the plan for the room.
StartRoom(i, r) ==
    LET g == generator[i]
        plan == generateForRoom({row \in g.rules : row.room = r},
                                computeLowerBound(g.now, LastSlotStarts(r)),
                                g.now + RollingWindow)
    IN
    /\ g.at = "room"
    /\ r \in g.left
    /\ generator' = [generator EXCEPT ![i] =
         IF plan = {} THEN [g EXCEPT !.left = g.left \ {r}]
         ELSE [g EXCEPT !.at = "insert", !.left = g.left \ {r}, !.room = r, !.plan = plan]]
    /\ UNCHANGED <<schedules, slots, request, clock>>

\* Fault: the batches are flushed from the end.
NextBatchFault(plan) ==
    {t \in plan : Cardinality({u \in plan : u > t}) < MaxBatch}

\* The plan is worked off in ascending order, MaxBatch slots at a time.
NextBatch(plan) ==
    {t \in plan : Cardinality({u \in plan : u < t}) < MaxBatch}

\* INSERT ... ON CONFLICT (room_id, start_time) DO NOTHING
InsertBatchIgnoreConflicts(i) ==
    LET g == generator[i]
        rest == g.plan \ NextBatch(g.plan)
    IN
    /\ g.at = "insert"
    /\ slots' = slots \union {<<g.room, t>> : t \in NextBatch(g.plan)}
    /\ generator' = [generator EXCEPT ![i] =
         [g EXCEPT !.plan = rest, !.at = IF rest = {} THEN "room" ELSE "insert",
                   !.room = IF rest = {} THEN None ELSE g.room]]
    /\ UNCHANGED <<schedules, request, clock>>

EndGenerate(i) ==
    /\ generator[i].at = "room"
    /\ generator[i].left = {}
    /\ generator' = [generator EXCEPT ![i].at = "done", ![i].rules = {}]
    /\ UNCHANGED <<schedules, slots, request, clock>>

\* A statement fails or the context is cancelled: Generate returns the error
\* and leaves the other rooms to the next tick.
FailGenerate(i) ==
    /\ generator[i].at \in {"rules", "room", "insert"}
    /\ generator' = [generator EXCEPT ![i] = NewGenerator(generator[i].now)]
    /\ UNCHANGED <<schedules, slots, request, clock>>

\* NewGenerator: now is the method value time.Now().UTC, whose receiver is
\* evaluated here and never again.
Restart(i) ==
    /\ generator' = [generator EXCEPT ![i] = NewGenerator(clock)]
    /\ UNCHANGED <<schedules, slots, request, clock>>

Tick ==
    /\ clock < MaxClock
    /\ clock' = clock + 1
    /\ UNCHANGED <<schedules, slots, request, generator>>

-----------------------------------------------------------------------------
Init ==
    /\ schedules = {}
    /\ slots = {}
    /\ request = [q \in Requests |-> [at |-> "new", room |-> None, input |-> None]]
    /\ generator = [i \in Instances |-> NewGenerator(0)]
    /\ clock = 0

GeneratorStep(i) ==
    \/ StartGenerate(i) \/ ListByRoomIDs(i) \/ \E r \in Rooms : StartRoom(i, r)
    \/ InsertBatchIgnoreConflicts(i) \/ EndGenerate(i)

Next ==
    \/ \E q \in Requests :
         CreateBatch(q) \/ \E r \in Rooms, input \in Inputs : CheckSchedule(q, r, input)
    \/ \E i \in Instances : GeneratorStep(i) \/ FailGenerate(i) \/ Restart(i)
    \/ Tick

Spec == Init /\ [][Next]_vars

\* The ticker calls Generate again and again.  A run may fail anywhere, but no
\* statement fails each time it is tried, for any room: a room whose statements
\* always failed would keep the rooms after it from their slots.
Fairness ==
    \A i \in Instances :
        /\ WF_vars(StartGenerate(i)) /\ WF_vars(EndGenerate(i))
        /\ SF_vars(ListByRoomIDs(i))
        /\ \A r \in Rooms :
             /\ SF_vars(StartRoom(i, r))
             /\ SF_vars(generator[i].room = r /\ InsertBatchIgnoreConflicts(i))

FairSpec == Spec /\ Fairness

-----------------------------------------------------------------------------
(* What the schedule promises, said without loops and in the numbers of    *)
(* the table, where Monday (day 0) is 1: a slot starts at t if some row is *)
(* open at t for a whole slot.                                             *)

IsSlotOf(row, t) ==
    LET offset == t % DayLength IN
    /\ row.day_of_week = ((t \div DayLength) % WeekLength) + 1
    /\ offset \in row.start_time..(row.end_time - SlotDuration)
    /\ \E k \in 0..DayLength : offset = row.start_time + k * SlotDuration

Expected(r) == {t \in Times : \E row \in RowsOf(r) : IsSlotOf(row, t)}

\* The schedule of r was created by one request.
CreatedOnce(r) == \A x, y \in RowsOf(r) : x.by = y.by

\* Rows and locals have their types.
TypeOK ==
    /\ schedules \in SUBSET ScheduleRow
    /\ slots \in SUBSET (Rooms \X Times)
    /\ request \in [Requests -> [at : {"new", "insert", "done"}, room : Rooms \union {None},
                                 input : Inputs \union {None}]]
    /\ generator \in [Instances -> Locals]
    /\ clock \in Nat

\* A slot is a whole slot of the opening hours of its room, wherever the
\* generator was interrupted and however its lower bound moved.
OnlyScheduledSlots ==
    \A r \in Rooms, t \in Times : <<r, t>> \in slots => t \in Expected(r)

\* When Generate returns without an error, every slot of its rooms that starts
\* from now on and before the end of the window exists, although it only looks
\* at what comes after the last slot of the room: no failure, restart or other
\* process has left a gap behind.  (A second schedule that slipped in beside the
\* first one is not caught up with.)
WindowComplete ==
    \A i \in Instances : generator[i].at = "done" =>
        \A r \in generator[i].rooms : CreatedOnce(r) => \A t \in Expected(r) :
            clock <= t /\ t < generator[i].now + RollingWindow => <<r, t>> \in slots

\* The window moves on with the clock: a run that ends without an error has the
\* slots of RollingWindow from the moment it began.
WindowFollowsClock ==
    \A i \in Instances : generator[i].at = "done" =>
        \A r \in generator[i].rooms : \A t \in Expected(r) :
            clock <= t /\ t < generator[i].began + RollingWindow => <<r, t>> \in slots

\* A schedule is immutable and can be created only once per room.  (It is not so:
\* of two requests that both found none, both succeed when they share no day, and a
\* schedule from which slots have been generated gets further days.)
ScheduleCreatedOnce == \A r \in Rooms : CreatedOnce(r)

-----------------------------------------------------------------------------
(* Liveness. *)

\* Again and again the window of every process is complete for every room, no
\* matter how often a run is interrupted between two rooms or two batches.
WindowFilled ==
    []<>(\A i \in Instances, r \in Rooms : CreatedOnce(r) => \A t \in Expected(r) :
            clock <= t /\ t < generator[i].now + RollingWindow => <<r, t>> \in slots)
=============================================================================
