------------------------- MODULE SlotGeneratorProofs -------------------------
(***************************************************************************)
(* What SlotGenerator keeps for any number of rooms, requests, processes   *)
(* and batches, and for any lengths of slots, days, weeks and of the       *)
(* window.                                                                 *)
(*                                                                         *)
(* Generate only looks at what comes after the last slot of a room.  That  *)
(* is enough because the slots of a room never have a gap from the clock   *)
(* on (NoGaps): a plan reaches back to the last slot or to the present,    *)
(* and is worked off in ascending order by every process.                  *)
(***************************************************************************)
EXTENDS SlotGenerator, FiniteSetTheorems, TLAPS

-----------------------------------------------------------------------------
(* The inductive invariant. *)

\* A request about to insert has passed the checks, and is done once it has inserted.
RequestsChecked ==
    /\ \A q \in Requests : request[q].at = "insert" =>
         request[q].room \in Rooms /\ request[q].input \in Inputs /\ ValidInput(request[q].input)
    /\ \A row \in schedules : request[row.by].at = "done"

\* UNIQUE (room_id, day_of_week)
OneRowPerDay ==
    \A x, y \in schedules : x.room = y.room /\ x.day_of_week = y.day_of_week => x = y

\* The slot t of r exists, or process i is about to insert it.
IsComing(i, r, t) ==
    \/ <<r, t>> \in slots
    \/ generator[i].at = "insert" /\ generator[i].room = r /\ t \in generator[i].plan

\* The locals of Generate, against the tables as they are now.
RunOK(i) ==
    LET g == generator[i] IN
    /\ g.now <= clock
    /\ g.left \subseteq g.rooms
    /\ \A r \in g.rooms : RowsOf(r) # {}
    /\ g.at = "done" => g.left = {}
    /\ g.at \in {"idle", "rules"} => g.left = g.rooms
    /\ g.at \in {"room", "insert"} =>
         /\ g.rules \subseteq schedules
         /\ \A r \in g.rooms : CreatedOnce(r) => RowsOf(r) \subseteq g.rules
    /\ g.at = "insert" =>
         /\ g.room \in g.rooms \ g.left
         /\ \A t \in g.plan : t \in Expected(g.room) /\ t < g.now + RollingWindow
    /\ \A r \in g.rooms \ g.left : CreatedOnce(r) => \A t \in Expected(r) :
         clock <= t /\ t < g.now + RollingWindow => IsComing(i, r, t)

\* Before a slot that exists, none is missing from the present on.
NoGaps ==
    \A r \in Rooms : CreatedOnce(r) => \A t \in Expected(r), u \in Times :
        clock <= t /\ t < u /\ <<r, u>> \in slots => <<r, t>> \in slots

GenInv ==
    /\ TypeOK /\ RequestsChecked /\ OneRowPerDay /\ OnlyScheduledSlots
    /\ \A i \in Instances : RunOK(i)
    /\ NoGaps

-----------------------------------------------------------------------------
(* Days and slots. *)

\* Quotient and remainder.
LEMMA DivMod ==
    ASSUME NEW a \in Int, NEW b \in Nat \ {0}
    PROVE  /\ a \div b \in Int /\ a % b \in 0..(b - 1)
           /\ a = (a \div b) * b + (a % b)
  OBVIOUS

\* The day of a time is the one that it lies in.
LEMMA DivUnique ==
    ASSUME NEW a \in Int, NEW b \in Nat \ {0}, NEW d \in Int, d * b <= a, a < d * b + b
    PROVE  a \div b = d /\ a % b = a - d * b
  OBVIOUS

\* A later time is not on an earlier day.
LEMMA DivMonotone ==
    ASSUME NEW a \in Int, NEW c \in Int, NEW b \in Nat \ {0}, a <= c
    PROVE  a \div b <= c \div b
  <1>. DEFINE d == a \div b
              e == c \div b
  <1>1. /\ d \in Int /\ e \in Int /\ d * b <= a /\ c < e * b + b
    BY DivMod
  <1>2. ASSUME e < d  PROVE e * b + b <= d * b
    BY <1>1, <1>2
  <1>. HIDE DEF d, e
  <1>3. d <= e
    BY <1>1, <1>2
  <1>. QED  BY <1>3 DEF d, e

\* The number of a day in the table, for time.Weekday's, which starts with Sunday.
LEMMA WeekdayOfDay ==
    ASSUME NEW day \in Int, NEW dayOfWeek
    PROVE  weekdayMatches(day, dayOfWeek) <=> dayOfWeek = (day % WeekLength) + 1
  <1>. DEFINE week == day \div WeekLength
              n == day % WeekLength
              start == week * WeekLength
  <1>1. /\ WeekLength \in Nat \ {0} /\ week \in Int /\ n \in 0..(WeekLength - 1)
        /\ start \in Int /\ day = start + n
    BY ConstantsAssumption, DivMod
  <1>. HIDE DEF n, week
  <1>2. ASSUME NEW w \in Int, NEW first \in Int, first = w * WeekLength,
               first <= day + 1, day + 1 < first + WeekLength
        PROVE  Weekday(day) = day + 1 - first
    <2>. DEFINE next == day + 1
    <2>1. /\ next \in Int /\ w * WeekLength <= next
          /\ next < w * WeekLength + WeekLength
      BY <1>2
    <2>. HIDE DEF next
    <2>2. next % WeekLength = next - w * WeekLength
      BY <1>1, <1>2, <2>1, DivUnique
    <2>. QED  BY <1>2, <2>2 DEF Weekday, next
  <1>3. CASE n = WeekLength - 1
    <2>1. start + WeekLength = (week + 1) * WeekLength /\ week + 1 \in Int
      BY <1>1
    <2>. HIDE DEF start
    <2>2. Weekday(day) = 0
      BY <1>1, <1>2, <1>3, <2>1
    <2>. QED  BY <1>1, <1>3, <2>2 DEF weekdayMatches, dbWeekdayFromGo, n
  <1>4. CASE n < WeekLength - 1
    <2>1. start = week * WeekLength
      OBVIOUS
    <2>. HIDE DEF start
    <2>2. Weekday(day) = n + 1 /\ n + 1 # 0
      BY <1>1, <1>2, <1>4, <2>1
    <2>. QED  BY <2>2 DEF weekdayMatches, dbWeekdayFromGo, n
  <1>. QED  BY <1>1, <1>3, <1>4

\* The times of a row are within its day.
LEMMA RowHours ==
    ASSUME NEW row \in ScheduleRow
    PROVE  /\ row.start_time \in Nat /\ row.end_time \in Nat
           /\ row.start_time < DayLength /\ row.end_time < DayLength
           /\ row.room \in Rooms /\ row.by \in Requests /\ row.day_of_week \in WeekDays
  BY ConstantsAssumption DEF ScheduleRow, TimeOfDay

\* What the loop over the hours of a day finds is a slot of the row.
LEMMA FoundIsSlot ==
    ASSUME NEW row \in ScheduleRow, NEW day \in Int, weekdayMatches(day, row.day_of_week),
           NEW lower, NEW target, NEW t \in generateForSchedule(day, row, lower, target)
    PROVE  IsSlotOf(row, t)
  <1>. DEFINE base == day * DayLength
              offset == t % DayLength
              k == (offset - row.start_time) \div SlotDuration
  <1>1. /\ t \in Int /\ base \in Int /\ base + row.start_time <= t
        /\ (t - (base + row.start_time)) % SlotDuration = 0
        /\ t + SlotDuration <= base + row.end_time
    BY ConstantsAssumption DEF generateForSchedule, Times
  <1>2. SlotDuration \in Nat \ {0} /\ DayLength \in Nat \ {0}
    BY ConstantsAssumption
  <1>3. base <= t /\ t < base + DayLength
    BY <1>1, <1>2, RowHours
  <1>4. t \div DayLength = day /\ offset = t - base
    BY <1>1, <1>2, <1>3, DivUnique
  <1>. HIDE DEF base, offset
  <1>5. /\ offset \in Int /\ row.start_time <= offset /\ offset + SlotDuration <= row.end_time
        /\ (offset - row.start_time) % SlotDuration = 0
    <2>1. offset - row.start_time = t - (base + row.start_time)
      BY <1>1, <1>4, RowHours
    <2>. QED  BY <1>1, <1>2, <1>4, <2>1, RowHours
  <1>6. k \in Int /\ offset - row.start_time = k * SlotDuration
    <2>. DEFINE diff == offset - row.start_time
    <2>1. diff \in Int /\ diff % SlotDuration = 0
      BY <1>5, RowHours
    <2>. HIDE DEF diff
    <2>2. \E m \in Int : diff = m * SlotDuration /\ diff \div SlotDuration = m
      BY <1>2, <2>1
    <2>. QED  BY <2>2 DEF diff
  <1>. HIDE DEF k
  <1>7. k \in 0..DayLength
    <2>1. 0 <= k * SlotDuration /\ k * SlotDuration < DayLength
      BY <1>2, <1>5, <1>6, RowHours
    <2>2. ASSUME k < 0  PROVE k * SlotDuration < 0
      BY <1>2, <1>6, <2>2
    <2>3. ASSUME k >= 0  PROVE k <= k * SlotDuration
      BY <1>2, <1>6, <2>3
    <2>. QED  BY <1>2, <1>6, <2>1, <2>2, <2>3
  <1>8. \E m \in 0..DayLength : offset = row.start_time + m * SlotDuration
    <2>1. offset = row.start_time + k * SlotDuration
      BY <1>2, <1>5, <1>6, RowHours
    <2>. QED  BY <1>7, <2>1
  <1>9. offset \in row.start_time..(row.end_time - SlotDuration)
    BY <1>2, <1>5, RowHours
  <1>10. row.day_of_week = ((t \div DayLength) % WeekLength) + 1
    BY <1>4, WeekdayOfDay
  <1>. QED  BY <1>8, <1>9, <1>10 DEF IsSlotOf, offset

\* And it finds every slot of the row on that day.
LEMMA SlotIsFound ==
    ASSUME NEW row \in ScheduleRow, NEW t \in Times, IsSlotOf(row, t), NEW lower \in Int,
           NEW target \in Int, lower <= t, t < target
    PROVE  /\ weekdayMatches(t \div DayLength, row.day_of_week)
           /\ t \div DayLength \in truncateToUTCDate(lower)..truncateToUTCDate(target)
           /\ t \in generateForSchedule(t \div DayLength, row, lower, target)
  <1>. DEFINE day == t \div DayLength
              offset == t % DayLength
  <1>1. SlotDuration \in Nat \ {0} /\ DayLength \in Nat \ {0} /\ t \in Int
    BY ConstantsAssumption DEF Times
  <1>2. day \in Int /\ offset \in Int /\ t = day * DayLength + offset
    BY <1>1, DivMod
  <1>3. /\ offset \in row.start_time..(row.end_time - SlotDuration)
        /\ row.day_of_week = (day % WeekLength) + 1
    BY DEF IsSlotOf
  <1>4. PICK k \in 0..DayLength : offset = row.start_time + k * SlotDuration
    BY DEF IsSlotOf
  <1>. HIDE DEF day, offset
  <1>5. day \in truncateToUTCDate(lower)..truncateToUTCDate(target)
    <2>1. lower \div DayLength \in Int /\ target \div DayLength \in Int
      BY <1>1, DivMod
    <2>2. lower \div DayLength <= day /\ day <= target \div DayLength
      BY <1>1, DivMonotone DEF day
    <2>. QED  BY <1>2, <2>1, <2>2 DEF truncateToUTCDate
  <1>6. (t - (day * DayLength + row.start_time)) % SlotDuration = 0
    <2>. DEFINE base == day * DayLength
                steps == k * SlotDuration
    <2>1. base \in Int /\ steps \in Int
      BY <1>1, <1>2, <1>4
    <2>2. steps % SlotDuration = 0
      BY <1>1, <1>4
    <2>3. t = base + offset /\ offset = row.start_time + steps
      BY <1>2, <1>4
    <2>. HIDE DEF base, steps
    <2>4. t - (base + row.start_time) = steps
      BY <2>1, <2>3, <1>2, RowHours
    <2>. QED  BY <2>2, <2>4 DEF base
  <1>7. /\ day * DayLength + row.start_time <= t
        /\ t + SlotDuration <= day * DayLength + row.end_time
    <2>. DEFINE base == day * DayLength
    <2>1. base \in Int /\ t = base + offset
      BY <1>1, <1>2
    <2>. HIDE DEF base
    <2>2. base + row.start_time <= t /\ t + SlotDuration <= base + row.end_time
      BY <1>1, <1>2, <1>3, <2>1, RowHours
    <2>. QED  BY <2>2 DEF base
  <1>8. t \in generateForSchedule(day, row, lower, target)
    BY <1>6, <1>7 DEF generateForSchedule
  <1>. QED  BY <1>2, <1>3, <1>5, <1>8, WeekdayOfDay DEF day

\* Two slots of a room do not overlap.
LEMMA SlotsApart ==
    ASSUME schedules \subseteq ScheduleRow, OneRowPerDay, NEW r,
           NEW t \in Expected(r), NEW u \in Expected(r), t < u
    PROVE  t + SlotDuration <= u
  <1>1. PICK x \in schedules : x.room = r /\ IsSlotOf(x, t)
    BY DEF Expected, RowsOf
  <1>2. PICK y \in schedules : y.room = r /\ IsSlotOf(y, u)
    BY DEF Expected, RowsOf
  <1>3. t \in Int /\ u \in Int /\ SlotDuration \in Nat \ {0} /\ DayLength \in Nat \ {0}
    BY ConstantsAssumption DEF Expected, Times
  <1>. DEFINE d == t \div DayLength
              e == u \div DayLength
              a == t % DayLength
              b == u % DayLength
  <1>4. /\ d \in Int /\ a \in Int /\ t = d * DayLength + a
        /\ e \in Int /\ b \in Nat /\ u = e * DayLength + b
    BY <1>3, DivMod
  <1>5. /\ a \in x.start_time..(x.end_time - SlotDuration)
        /\ x.day_of_week = (d % WeekLength) + 1
        /\ \E k \in 0..DayLength : a = x.start_time + k * SlotDuration
    BY <1>1 DEF IsSlotOf
  <1>6. /\ y.day_of_week = (e % WeekLength) + 1
        /\ \E k \in 0..DayLength : b = y.start_time + k * SlotDuration
    BY <1>2 DEF IsSlotOf
  <1>7. d <= e
    BY <1>3, DivMonotone
  <1>. HIDE DEF d, e, a, b
  <1>8. CASE d = e
    <2>1. x = y
      BY <1>1, <1>2, <1>5, <1>6, <1>8 DEF OneRowPerDay
    <2>2. a < b
      <3>. DEFINE base == d * DayLength
      <3>1. base \in Int /\ t = base + a /\ u = base + b
        BY <1>3, <1>4, <1>8
      <3>. HIDE DEF base
      <3>. QED  BY <1>4, <3>1
    <2>3. PICK k \in 0..DayLength : a = x.start_time + k * SlotDuration
      BY <1>5
    <2>4. PICK l \in 0..DayLength : b = x.start_time + l * SlotDuration
      BY <1>6, <2>1
    <2>5. k \in Int /\ l \in Int /\ k * SlotDuration < l * SlotDuration
      <3>1. k * SlotDuration \in Int /\ l * SlotDuration \in Int
        BY <1>3
      <3>. QED  BY <1>1, <2>2, <2>3, <2>4, <3>1, RowHours
    <2>6. ASSUME l <= k  PROVE l * SlotDuration <= k * SlotDuration
      BY <1>3, <2>6
    <2>7. k < l
      BY <1>3, <2>5, <2>6
    <2>8. k * SlotDuration + SlotDuration <= l * SlotDuration
      BY <1>3, <2>5, <2>7
    <2>9. a + SlotDuration <= b
      <3>1. k * SlotDuration \in Int /\ l * SlotDuration \in Int
        BY <1>3
      <3>. QED  BY <1>1, <1>3, <2>3, <2>4, <2>8, <3>1, RowHours
    <2>10. d * DayLength \in Int /\ t = d * DayLength + a /\ u = d * DayLength + b
      BY <1>3, <1>4, <1>8
    <2>. QED  BY <1>3, <1>4, <2>9, <2>10
  <1>9. CASE d < e
    <2>1. d * DayLength + DayLength <= e * DayLength
      BY <1>3, <1>4, <1>9
    <2>2. d * DayLength \in Int /\ e * DayLength \in Int
      BY <1>3, <1>4
    <2>3. a + SlotDuration < DayLength
      BY <1>1, <1>3, <1>4, <1>5, RowHours
    <2>. QED  BY <1>3, <1>4, <2>1, <2>2, <2>3
  <1>. QED  BY <1>4, <1>7, <1>8, <1>9

-----------------------------------------------------------------------------
(* The plan for a room. *)

\* Rows only ever come, so what a slot was expected for stays.
LEMMA ExpectedGrows ==
    ASSUME schedules \subseteq schedules', NEW r
    PROVE  RowsOf(r) \subseteq RowsOf(r)' /\ Expected(r) \subseteq Expected(r)'
  BY DEF RowsOf, Expected

\* A slot is expected if it is one of some row of the room.
LEMMA ExpectedOf ==
    ASSUME NEW r, NEW t
    PROVE  t \in Expected(r) <=>
             t \in Times /\ \E row \in schedules : row.room = r /\ IsSlotOf(row, t)
  BY DEF Expected, RowsOf

\* A plan starts now or at the end of an existing slot.
LEMMA LowerBound ==
    ASSUME NEW now \in Int, NEW last \in SUBSET Times
    PROVE  \/ computeLowerBound(now, last) = now
           \/ \E t \in last : computeLowerBound(now, last) = t + SlotDuration
  <1>1. CASE \E t \in last : t + SlotDuration > now
    <2>1. (CHOOSE t \in last : TRUE) \in last
      BY <1>1
    <2>. QED  BY <1>1, <2>1 DEF computeLowerBound
  <1>. QED  BY <1>1 DEF computeLowerBound

\* Everything a plan holds is a slot of the room, in the window.
LEMMA PlanIsExpected ==
    ASSUME NEW rules \in SUBSET schedules, schedules \subseteq ScheduleRow, NEW r,
           \A row \in rules : row.room = r, NEW lower \in Int, NEW target \in Int,
           NEW t \in generateForRoom(rules, lower, target)
    PROVE  t \in Expected(r) /\ t < target /\ t \in Times
  <1>1. PICK day \in truncateToUTCDate(lower)..truncateToUTCDate(target), row \in rules :
          /\ weekdayMatches(day, row.day_of_week)
          /\ t \in generateForSchedule(day, row, lower, target)
    BY DEF generateForRoom
  <1>2. day \in Int
    BY <1>1
  <1>3. IsSlotOf(row, t)
    BY <1>1, <1>2, FoundIsSlot
  <1>4. t \in Times /\ t < target
    BY <1>1 DEF generateForSchedule
  <1>. QED  BY <1>3, <1>4, ExpectedOf

\* Every slot of the window that does not exist yet is in the plan of the room:
\* between the last slot and the next one there is nothing, and before the last
\* one there is no gap.
LEMMA PlanIsComplete ==
    ASSUME TypeOK, OneRowPerDay, OnlyScheduledSlots, NoGaps, NEW r \in Rooms, CreatedOnce(r),
           NEW rules, RowsOf(r) \subseteq rules, NEW now \in Nat, now <= clock,
           NEW t \in Expected(r), clock <= t, t < now + RollingWindow
    PROVE  \/ <<r, t>> \in slots
           \/ t \in generateForRoom(rules, computeLowerBound(now, LastSlotStarts(r)),
                                    now + RollingWindow)
  <1>. DEFINE lower == computeLowerBound(now, LastSlotStarts(r))
              target == now + RollingWindow
  <1>1. t \in Times /\ t \in Int /\ clock \in Int /\ target \in Int /\ SlotDuration \in Nat
    BY ConstantsAssumption DEF Expected, Times, TypeOK
  <1>2. \/ lower = now
        \/ \E u \in LastSlotStarts(r) : lower = u + SlotDuration
    <2>1. LastSlotStarts(r) \in SUBSET Times /\ now \in Int
      BY DEF LastSlotStarts
    <2>. QED  BY <2>1, LowerBound
  <1>3. lower \in Int
    <2>1. \A u \in LastSlotStarts(r) : u \in Int
      BY ConstantsAssumption DEF LastSlotStarts, Times
    <2>. QED  BY <1>1, <1>2, <2>1
  <1>. HIDE DEF lower
  <1>4. CASE lower <= t
    <2>1. PICK row \in RowsOf(r) : IsSlotOf(row, t)
      BY DEF Expected
    <2>2. row \in ScheduleRow /\ row \in rules
      BY <2>1 DEF RowsOf, TypeOK
    <2>3. /\ weekdayMatches(t \div DayLength, row.day_of_week)
          /\ t \div DayLength \in truncateToUTCDate(lower)..truncateToUTCDate(target)
          /\ t \in generateForSchedule(t \div DayLength, row, lower, target)
      BY <1>1, <1>3, <1>4, <2>1, <2>2, SlotIsFound
    <2>. QED  BY <1>1, <2>2, <2>3 DEF generateForRoom, lower
  <1>5. CASE t < lower
    <2>1. PICK u \in LastSlotStarts(r) : lower = u + SlotDuration
      BY <1>1, <1>2, <1>5
    <2>2. u \in Times /\ u \in Int /\ <<r, u>> \in slots
      BY ConstantsAssumption DEF LastSlotStarts, Times
    <2>3. CASE t < u
      BY <2>2, <2>3 DEF NoGaps
    <2>4. CASE u < t
      <3>1. u \in Expected(r)
        BY <2>2 DEF OnlyScheduledSlots
      <3>2. u + SlotDuration <= t
        BY <2>4, <3>1, SlotsApart DEF TypeOK
      <3>. QED  BY <1>1, <1>5, <2>1, <2>2, <3>2
    <2>5. CASE t = u
      BY <2>2, <2>5
    <2>. QED  BY <1>1, <2>2, <2>3, <2>4, <2>5
  <1>. QED  BY <1>1, <1>3, <1>4, <1>5

\* A batch is the beginning of the plan.
LEMMA BatchFromBelow ==
    ASSUME NEW plan \in SUBSET Times, NEW t \in plan, NEW u \in NextBatch(plan), t < u
    PROVE  t \in NextBatch(plan)
  <1>. DEFINE below(v) == {w \in plan : w < v}
  <1>1. MaxClock + RollingWindow \in Nat /\ MaxBatch \in Nat
    BY ConstantsAssumption
  <1>2. IsFiniteSet(Times)
    BY <1>1, FS_Interval DEF Times
  <1>3. \A v \in plan : v \in Int
    BY <1>1 DEF Times
  <1>4. below(t) \subseteq below(u) /\ below(u) \subseteq Times
    BY <1>3 DEF NextBatch
  <1>5. IsFiniteSet(below(u))
    BY <1>2, <1>4, FS_Subset
  <1>6. IsFiniteSet(below(t)) /\ Cardinality(below(t)) <= Cardinality(below(u))
    BY <1>4, <1>5, FS_Subset
  <1>7. Cardinality(below(u)) < MaxBatch
    BY DEF NextBatch
  <1>8. Cardinality(below(t)) \in Nat /\ Cardinality(below(u)) \in Nat
    BY <1>5, <1>6, FS_CardinalityType
  <1>. HIDE DEF below
  <1>9. Cardinality(below(t)) < MaxBatch
    BY <1>1, <1>6, <1>7, <1>8
  <1>. QED  BY <1>9 DEF NextBatch, below

-----------------------------------------------------------------------------
(* Schedules. *)

\* CreateBatch adds nothing, or rows of its own for days of a room that have none.
NewRows(q, rows) ==
    /\ rows \in SUBSET ScheduleRow /\ rows # {}
    /\ schedules' = schedules \union rows
    /\ \A x, y \in rows : x.room = y.room /\ x.by = q /\ (x.day_of_week = y.day_of_week => x = y)
    /\ \A x \in rows, y \in schedules :
         y.by # q /\ ~(x.room = y.room /\ x.day_of_week = y.day_of_week)

\* CreateBatch inserts all rows of its request, or none.
LEMMA BatchRows ==
    ASSUME TypeOK, RequestsChecked, NEW q \in Requests, CreateBatch(q)
    PROVE  schedules' = schedules \/ \E rows : NewRows(q, rows)
  <1>. DEFINE r == request[q].room
              input == request[q].input
              row(d) == [room |-> r, day_of_week |-> d, start_time |-> input.start,
                         end_time |-> input.end, by |-> q]
              rows == {row(d) : d \in input.days}
  <1>1. request[q].at = "insert" /\ r \in Rooms /\ input \in Inputs /\ ValidInput(input)
    BY DEF CreateBatch, RequestsChecked
  <1>2. /\ input.days # {} /\ input.days \subseteq WeekDays
        /\ input.start \in TimeOfDay /\ input.end \in TimeOfDay
    BY <1>1, ConstantsAssumption DEF ValidInput, TimeOfDay
  <1>3. \/ schedules' = schedules
        \/ /\ schedules' = schedules \union rows
           /\ ~\E x \in RowsOf(r) : x.day_of_week \in input.days
    BY DEF CreateBatch
  <1>. HIDE DEF r, input
  <1>4. rows \in SUBSET ScheduleRow /\ rows # {}
    <2>1. \A d \in input.days : row(d) \in ScheduleRow
      BY <1>1, <1>2 DEF ScheduleRow
    <2>2. PICK d \in input.days : TRUE
      BY <1>2
    <2>3. row(d) \in rows
      BY <2>2
    <2>. QED  BY <2>1, <2>3, Zenon
  <1>5. \A x \in rows : x.room = r /\ x.by = q /\ x.day_of_week \in input.days
    OBVIOUS
  <1>6. \A x, y \in rows : x.day_of_week = y.day_of_week => x = y
    OBVIOUS
  <1>7. \A y \in schedules : y.by # q
    BY <1>1 DEF RequestsChecked
  <1>. HIDE DEF rows
  <1>8. ASSUME schedules' = schedules \union rows,
               ~\E x \in RowsOf(r) : x.day_of_week \in input.days
        PROVE  NewRows(q, rows)
    BY <1>4, <1>5, <1>6, <1>7, <1>8 DEF NewRows, RowsOf
  <1>. QED  BY <1>3, <1>8

\* Only CreateBatch writes rows.
LEMMA SchedulesStep ==
    ASSUME TypeOK, RequestsChecked, [Next]_vars
    PROVE  \/ schedules' = schedules
           \/ \E q \in Requests : \E rows : CreateBatch(q) /\ NewRows(q, rows)
  <1>1. ASSUME NEW q \in Requests, CreateBatch(q)
        PROVE  schedules' = schedules \/ \E rows : CreateBatch(q) /\ NewRows(q, rows)
    BY <1>1, BatchRows
  <1>2. ASSUME NEW q \in Requests, NEW r \in Rooms, NEW input \in Inputs, CheckSchedule(q, r, input)
        PROVE  schedules' = schedules
    BY <1>2 DEF CheckSchedule
  <1>3. ASSUME NEW i \in Instances, GeneratorStep(i) \/ FailGenerate(i) \/ Restart(i)
        PROVE  schedules' = schedules
    BY <1>3 DEF GeneratorStep, StartGenerate, ListByRoomIDs, StartRoom,
                InsertBatchIgnoreConflicts, EndGenerate, FailGenerate, Restart
  <1>4. ASSUME Tick \/ UNCHANGED vars  PROVE schedules' = schedules
    BY <1>4 DEF Tick, vars
  <1>. QED  BY <1>1, <1>2, <1>3, <1>4 DEF Next

\* Rows of schedules are never changed or deleted.
LEMMA SchedulesGrow ==
    ASSUME TypeOK, RequestsChecked, [Next]_vars
    PROVE  schedules \subseteq schedules'
  BY SchedulesStep DEF NewRows

\* CreateBatch fails as a whole when one of its days has a row.
LEMMA NextOneRowPerDay ==
    ASSUME TypeOK, RequestsChecked, OneRowPerDay, [Next]_vars
    PROVE  OneRowPerDay'
  <1>1. CASE schedules' = schedules
    BY <1>1 DEF OneRowPerDay
  <1>2. ASSUME NEW q, NEW rows, NewRows(q, rows)  PROVE OneRowPerDay'
    BY <1>2 DEF NewRows, OneRowPerDay
  <1>. QED  BY <1>1, <1>2, SchedulesStep

\* Input that is not valid never comes to the INSERT.
LEMMA NextRequestsChecked ==
    ASSUME TypeOK, RequestsChecked, [Next]_vars
    PROVE  RequestsChecked'
  <1>1. ASSUME NEW q \in Requests, CreateBatch(q)  PROVE RequestsChecked'
    <2>1. /\ request' = [request EXCEPT ![q] = [at |-> "done", room |-> None, input |-> None]]
          /\ \A p \in Requests \ {q} : request'[p] = request[p]
          /\ request'[q].at = "done"
      BY <1>1 DEF CreateBatch, TypeOK
    <2>2. \A row \in schedules' : row \in schedules \/ row.by = q
      BY <1>1, BatchRows DEF NewRows
    <2>3. \A row \in schedules : row.by \in Requests
      BY RowHours DEF TypeOK
    <2>. QED  BY <2>1, <2>2, <2>3 DEF RequestsChecked
  <1>2. ASSUME NEW q \in Requests, NEW r \in Rooms, NEW input \in Inputs, CheckSchedule(q, r, input)
        PROVE  RequestsChecked'
    <2>1. /\ request[q].at = "new" /\ ValidInput(input) /\ schedules' = schedules
          /\ \A p \in Requests \ {q} : request'[p] = request[p]
          /\ \/ request'[q] = [at |-> "insert", room |-> r, input |-> input]
             \/ request'[q] = [at |-> "done", room |-> None, input |-> None]
      BY <1>2 DEF CheckSchedule, TypeOK
    <2>2. \A row \in schedules : row.by \in Requests \ {q}
      BY <2>1, RowHours DEF TypeOK, RequestsChecked
    <2>. QED  BY <2>1, <2>2 DEF RequestsChecked
  <1>3. ASSUME NEW i \in Instances, GeneratorStep(i) \/ FailGenerate(i) \/ Restart(i)
        PROVE  UNCHANGED <<schedules, request>>
    BY <1>3 DEF GeneratorStep, StartGenerate, ListByRoomIDs, StartRoom,
                InsertBatchIgnoreConflicts, EndGenerate, FailGenerate, Restart
  <1>4. ASSUME Tick \/ UNCHANGED vars  PROVE UNCHANGED <<schedules, request>>
    BY <1>4 DEF Tick, vars
  <1>5. CASE UNCHANGED <<schedules, request>>
    BY <1>5 DEF RequestsChecked
  <1>. QED  BY <1>1, <1>2, <1>3, <1>4, <1>5 DEF Next

\* A room whose schedule was created once had it from the beginning: the rows of
\* a second request have another creator.
LEMMA CreatedOnceIsFixed ==
    ASSUME TypeOK, RequestsChecked, [Next]_vars, NEW r, RowsOf(r) # {}, CreatedOnce(r)'
    PROVE  CreatedOnce(r) /\ RowsOf(r)' = RowsOf(r) /\ Expected(r)' = Expected(r)
  <1>1. CASE schedules' = schedules
    BY <1>1 DEF CreatedOnce, RowsOf, Expected
  <1>2. ASSUME NEW q, NEW rows, NewRows(q, rows)
        PROVE  CreatedOnce(r) /\ RowsOf(r)' = RowsOf(r)
    <2>1. PICK y \in schedules : y.room = r /\ y.by # q
      BY <1>2 DEF RowsOf, NewRows
    <2>2. \A x \in rows : x.room # r
      BY <1>2, <2>1 DEF CreatedOnce, RowsOf, NewRows
    <2>3. RowsOf(r)' = RowsOf(r)
      BY <1>2, <2>2 DEF RowsOf, NewRows
    <2>. QED  BY <2>3 DEF CreatedOnce
  <1>3. RowsOf(r)' = RowsOf(r) => Expected(r)' = Expected(r)
    BY DEF Expected
  <1>. QED  BY <1>1, <1>2, <1>3, SchedulesStep

-----------------------------------------------------------------------------
(* Types. *)

\* The locals of a process that has just started.
LEMMA NewGeneratorTyped ==
    ASSUME NEW now \in Nat
    PROVE  /\ NewGenerator(now) \in Locals /\ NewGenerator(now).at = "idle"
           /\ NewGenerator(now).now = now
           /\ NewGenerator(now).rooms = {} /\ NewGenerator(now).left = {}
  BY DEF NewGenerator, Locals, Stages

\* A plan is a set of times.
LEMMA PlanTyped ==
    ASSUME NEW rules, NEW lower, NEW target
    PROVE  generateForRoom(rules, lower, target) \in SUBSET Times
  BY DEF generateForRoom, generateForSchedule

\* What a step of process i does to its locals, and that it leaves those of the
\* others alone.
LEMMA LocalsStep ==
    ASSUME generator \in [Instances -> Locals], NEW i \in Instances, NEW g \in Locals,
           generator' = [generator EXCEPT ![i] = g]
    PROVE  /\ generator' \in [Instances -> Locals] /\ generator'[i] = g
           /\ \A j \in Instances \ {i} : generator'[j] = generator[j]
  OBVIOUS

\* The locals after each step of Generate.
LEMMA GenerateLocals ==
    ASSUME TypeOK, NEW i \in Instances
    PROVE  /\ StartGenerate(i) => \E g \in Locals :
                /\ generator' = [generator EXCEPT ![i] = g]
                /\ g.now = generator[i].now /\ g.left = g.rooms
                /\ g.rooms = {row.room : row \in schedules}
                /\ g.at = IF g.rooms = {} THEN "done" ELSE "rules"
           /\ ListByRoomIDs(i) => \E g \in Locals :
                /\ generator' = [generator EXCEPT ![i] = g]
                /\ g = [generator[i] EXCEPT !.at = "room",
                          !.rules = {row \in schedules : row.room \in generator[i].rooms}]
           /\ EndGenerate(i) => \E g \in Locals :
                /\ generator' = [generator EXCEPT ![i] = g]
                /\ g = [generator[i] EXCEPT !.at = "done", !.rules = {}]
           /\ FailGenerate(i) => \E g \in Locals :
                /\ generator' = [generator EXCEPT ![i] = g] /\ g = NewGenerator(generator[i].now)
           /\ Restart(i) => \E g \in Locals :
                /\ generator' = [generator EXCEPT ![i] = g] /\ g = NewGenerator(clock)
  <1>1. generator \in [Instances -> Locals] /\ generator[i] \in Locals /\ generator[i].now \in Nat
    BY DEF TypeOK, Locals
  <1>2. ASSUME StartGenerate(i)
        PROVE  \E g \in Locals :
                 /\ generator' = [generator EXCEPT ![i] = g]
                 /\ g.now = generator[i].now /\ g.left = g.rooms
                 /\ g.rooms = {row.room : row \in schedules}
                 /\ g.at = IF g.rooms = {} THEN "done" ELSE "rules"
    <2>. DEFINE rooms == {row.room : row \in schedules}
                at == IF rooms = {} THEN "done" ELSE "rules"
                g == [NewGenerator(generator[i].now) EXCEPT
                        !.at = at, !.began = clock, !.rooms = rooms, !.left = rooms]
    <2>1. generator' = [generator EXCEPT ![i] = g]
      BY <1>2, Zenon DEF StartGenerate
    <2>2. rooms \in SUBSET Rooms /\ at \in Stages /\ clock \in Nat
      BY RowHours DEF TypeOK, Stages
    <2>. HIDE DEF rooms, at
    <2>3. g \in Locals /\ g.now = generator[i].now /\ g.left = rooms /\ g.rooms = rooms /\ g.at = at
      BY <1>1, <2>2, NewGeneratorTyped DEF NewGenerator, Locals
    <2>4. g.at = IF g.rooms = {} THEN "done" ELSE "rules"
      BY <2>3 DEF at
    <2>. HIDE DEF g
    <2>. QED  BY <2>1, <2>3, <2>4 DEF rooms
  <1>3. ASSUME ListByRoomIDs(i)
        PROVE  \E g \in Locals :
                 /\ generator' = [generator EXCEPT ![i] = g]
                 /\ g = [generator[i] EXCEPT !.at = "room",
                           !.rules = {row \in schedules : row.room \in generator[i].rooms}]
    <2>. DEFINE rules == {row \in schedules : row.room \in generator[i].rooms}
                g == [generator[i] EXCEPT !.at = "room", !.rules = rules]
    <2>1. rules \in SUBSET ScheduleRow
      BY DEF TypeOK
    <2>2. generator' = [generator EXCEPT ![i] = g]
      BY <1>1, <1>3 DEF ListByRoomIDs
    <2>. HIDE DEF rules
    <2>3. g \in Locals
      BY <1>1, <2>1 DEF Locals, Stages
    <2>. QED  BY <2>2, <2>3 DEF rules
  <1>4. ASSUME EndGenerate(i)
        PROVE  \E g \in Locals :
                 /\ generator' = [generator EXCEPT ![i] = g]
                 /\ g = [generator[i] EXCEPT !.at = "done", !.rules = {}]
    <2>. DEFINE g == [generator[i] EXCEPT !.at = "done", !.rules = {}]
    <2>1. generator' = [generator EXCEPT ![i] = g]
      BY <1>1, <1>4 DEF EndGenerate
    <2>2. g \in Locals
      BY <1>1 DEF Locals, Stages
    <2>. QED  BY <2>1, <2>2
  <1>5. ASSUME FailGenerate(i) \/ Restart(i)
        PROVE  NewGenerator(generator[i].now) \in Locals /\ NewGenerator(clock) \in Locals
    BY <1>1, NewGeneratorTyped DEF TypeOK
  <1>. QED  BY <1>2, <1>3, <1>4, <1>5 DEF FailGenerate, Restart

\* And after the steps that plan and insert.
RoomStarted(i, r, plan, g) ==
    /\ generator[i].at = "room" /\ r \in generator[i].left
    /\ plan = generateForRoom({row \in generator[i].rules : row.room = r},
                 computeLowerBound(generator[i].now, LastSlotStarts(r)),
                 generator[i].now + RollingWindow)
    /\ generator' = [generator EXCEPT ![i] = g]
    /\ g.now = generator[i].now /\ g.rooms = generator[i].rooms
    /\ g.rules = generator[i].rules /\ g.left = generator[i].left \ {r}
    /\ \/ plan = {} /\ g.at = "room"
       \/ g.at = "insert" /\ g.room = r /\ g.plan = plan

\* What StartRoom leaves in the locals.
LEMMA RoomLocals ==
    ASSUME TypeOK, NEW i \in Instances, NEW r \in Rooms, StartRoom(i, r)
    PROVE  \E plan \in SUBSET Times, g \in Locals : RoomStarted(i, r, plan, g)
  <1>. DEFINE h == generator[i]
              plan == generateForRoom({row \in h.rules : row.room = r},
                                      computeLowerBound(h.now, LastSlotStarts(r)),
                                      h.now + RollingWindow)
              g == IF plan = {} THEN [h EXCEPT !.left = h.left \ {r}]
                   ELSE [h EXCEPT !.at = "insert", !.left = h.left \ {r}, !.room = r, !.plan = plan]
  <1>1. h.at = "room" /\ r \in h.left /\ generator' = [generator EXCEPT ![i] = g]
    BY Zenon DEF StartRoom
  <1>2. plan \in SUBSET Times
    BY PlanTyped
  <1>3. h \in Locals
    BY DEF TypeOK
  <1>. HIDE DEF h, plan
  <1>4. g \in Locals
    BY <1>1, <1>2, <1>3 DEF Locals, Stages
  <1>5. /\ g.now = h.now /\ g.rooms = h.rooms /\ g.rules = h.rules /\ g.left = h.left \ {r}
        /\ \/ plan = {} /\ g.at = "room"
           \/ g.at = "insert" /\ g.room = r /\ g.plan = plan
    BY <1>1, <1>2, <1>3 DEF Locals
  <1>. HIDE DEF g
  <1>6. RoomStarted(i, r, plan, g)
    BY <1>1, <1>5 DEF RoomStarted, h, plan
  <1>. QED  BY <1>2, <1>4, <1>6

\* What a batch leaves in the locals.
LEMMA InsertLocals ==
    ASSUME TypeOK, NEW i \in Instances, InsertBatchIgnoreConflicts(i)
    PROVE  \E g \in Locals :
             /\ generator' = [generator EXCEPT ![i] = g]
             /\ generator[i].at = "insert"
             /\ g.now = generator[i].now /\ g.rooms = generator[i].rooms
             /\ g.rules = generator[i].rules /\ g.left = generator[i].left
             /\ g.plan = generator[i].plan \ NextBatch(generator[i].plan)
             /\ \/ g.plan = {} /\ g.at = "room"
                \/ g.at = "insert" /\ g.room = generator[i].room
  <1>. DEFINE h == generator[i]
              rest == h.plan \ NextBatch(h.plan)
              at == IF rest = {} THEN "room" ELSE "insert"
              room == IF rest = {} THEN None ELSE h.room
              g == [h EXCEPT !.plan = rest, !.at = at, !.room = room]
  <1>1. h.at = "insert" /\ generator' = [generator EXCEPT ![i] = g]
    BY Zenon DEF InsertBatchIgnoreConflicts
  <1>2. h \in Locals
    BY DEF TypeOK
  <1>3. /\ rest \in SUBSET Times /\ at \in Stages /\ room \in Rooms \union {None}
        /\ \/ rest = {} /\ at = "room"
           \/ at = "insert" /\ room = h.room
    BY <1>2 DEF Locals, Stages
  <1>. HIDE DEF h, rest, at, room
  <1>4. g \in Locals
    BY <1>2, <1>3 DEF Locals
  <1>5. /\ g.now = h.now /\ g.rooms = h.rooms /\ g.rules = h.rules /\ g.left = h.left
        /\ g.plan = rest /\ g.at = at /\ g.room = room
    BY <1>2 DEF Locals
  <1>. HIDE DEF g
  <1>. QED  BY <1>1, <1>3, <1>4, <1>5 DEF h, rest

\* The locals of a process keep their types.
LEMMA NextGenerator ==
    ASSUME TypeOK, [Next]_vars
    PROVE  generator' \in [Instances -> Locals]
  <1>1. ASSUME NEW i \in Instances, GeneratorStep(i) \/ FailGenerate(i) \/ Restart(i)
        PROVE  \E g \in Locals : generator' = [generator EXCEPT ![i] = g]
    <2>1. CASE \E r \in Rooms : StartRoom(i, r)
      <3>1. PICK r \in Rooms, plan \in SUBSET Times, g \in Locals : RoomStarted(i, r, plan, g)
        BY <2>1, RoomLocals
      <3>. QED  BY <3>1 DEF RoomStarted
    <2>2. CASE InsertBatchIgnoreConflicts(i)
      BY <2>2, InsertLocals
    <2>3. CASE StartGenerate(i)
      BY <2>3, GenerateLocals
    <2>4. CASE ListByRoomIDs(i)
      BY <2>4, GenerateLocals
    <2>5. CASE EndGenerate(i)
      BY <2>5, GenerateLocals
    <2>6. CASE FailGenerate(i)
      BY <2>6, GenerateLocals
    <2>7. CASE Restart(i)
      BY <2>7, GenerateLocals
    <2>. QED  BY <1>1, <2>1, <2>2, <2>3, <2>4, <2>5, <2>6, <2>7 DEF GeneratorStep
  <1>2. ASSUME \/ Tick \/ UNCHANGED vars
               \/ \E q \in Requests : CreateBatch(q)
               \/ \E q \in Requests, r \in Rooms, input \in Inputs : CheckSchedule(q, r, input)
        PROVE  generator' = generator
    BY <1>2 DEF Tick, vars, CreateBatch, CheckSchedule
  <1>3. generator \in [Instances -> Locals]
    BY DEF TypeOK
  <1>. QED  BY <1>1, <1>2, <1>3, LocalsStep DEF Next

\* Only InsertBatchIgnoreConflicts writes slots: the batch of a room.
LEMMA SlotsStep ==
    ASSUME [Next]_vars
    PROVE  \/ slots' = slots
           \/ \E i \in Instances :
                /\ InsertBatchIgnoreConflicts(i) /\ generator[i].at = "insert"
                /\ slots' = slots \union
                     {<<generator[i].room, t>> : t \in NextBatch(generator[i].plan)}
                /\ UNCHANGED <<schedules, clock>>
  BY DEF Next, GeneratorStep, StartGenerate, ListByRoomIDs, StartRoom, InsertBatchIgnoreConflicts,
         EndGenerate, FailGenerate, Restart, CreateBatch, CheckSchedule, Tick, vars

\* The clock does not go back.
LEMMA ClockStep ==
    ASSUME TypeOK, [Next]_vars
    PROVE  clock' \in Nat /\ clock <= clock'
  <1>1. clock \in Nat
    BY DEF TypeOK
  <1>2. clock' = clock \/ clock' = clock + 1
    BY DEF Next, GeneratorStep, StartGenerate, ListByRoomIDs, StartRoom, InsertBatchIgnoreConflicts,
           EndGenerate, FailGenerate, Restart, CreateBatch, CheckSchedule, Tick, vars
  <1>. QED  BY <1>1, <1>2

\* Every step keeps the types.
LEMMA NextTypeOK ==
    ASSUME TypeOK, RequestsChecked, \A i \in Instances : RunOK(i), [Next]_vars
    PROVE  TypeOK'
  <1>1. schedules' \in SUBSET ScheduleRow
    BY SchedulesStep DEF TypeOK, NewRows
  <1>2. slots' \in SUBSET (Rooms \X Times)
    <2>1. ASSUME NEW i \in Instances, generator[i].at = "insert"
          PROVE  {<<generator[i].room, t>> : t \in NextBatch(generator[i].plan)} \in
                   SUBSET (Rooms \X Times)
      <3>1. generator[i].room \in Rooms /\ generator[i].plan \in SUBSET Times
        BY <2>1 DEF RunOK, TypeOK, Locals
      <3>2. \A t \in NextBatch(generator[i].plan) : <<generator[i].room, t>> \in Rooms \X Times
        BY <3>1 DEF NextBatch
      <3>. QED  BY <3>2
    <2>. QED  BY <2>1, SlotsStep DEF TypeOK
  <1>. DEFINE RequestType == [at : {"new", "insert", "done"}, room : Rooms \union {None},
                              input : Inputs \union {None}]
  <1>3. request' \in [Requests -> RequestType]
    <2>1. ASSUME NEW q \in Requests, CreateBatch(q)
          PROVE  request' \in [Requests -> RequestType]
      BY <2>1 DEF CreateBatch, TypeOK
    <2>2. ASSUME NEW q \in Requests, NEW r \in Rooms, NEW input \in Inputs,
                 CheckSchedule(q, r, input)
          PROVE  request' \in [Requests -> RequestType]
      BY <2>2 DEF CheckSchedule, TypeOK
    <2>3. ASSUME \/ Tick \/ UNCHANGED vars
                 \/ \E i \in Instances : GeneratorStep(i) \/ FailGenerate(i) \/ Restart(i)
          PROVE  request' = request
      BY <2>3 DEF Tick, vars, GeneratorStep, StartGenerate, ListByRoomIDs, StartRoom,
                  InsertBatchIgnoreConflicts, EndGenerate, FailGenerate, Restart
    <2>. QED  BY <2>1, <2>2, <2>3 DEF Next, TypeOK
  <1>. QED  BY <1>1, <1>2, <1>3, NextGenerator, ClockStep DEF TypeOK

\* A batch is part of a plan, and a plan has slots of rows that exist only.
LEMMA NextOnlyScheduledSlots ==
    ASSUME TypeOK, RequestsChecked, OnlyScheduledSlots, \A i \in Instances : RunOK(i), [Next]_vars
    PROVE  OnlyScheduledSlots'
  <1>. SUFFICES ASSUME NEW r \in Rooms, NEW t \in Times, <<r, t>> \in slots'
                PROVE  t \in Expected(r)'
    BY DEF OnlyScheduledSlots, Times
  <1>1. Expected(r) \subseteq Expected(r)'
    BY SchedulesGrow, ExpectedGrows
  <1>2. CASE <<r, t>> \in slots
    BY <1>1, <1>2 DEF OnlyScheduledSlots
  <1>3. CASE <<r, t>> \notin slots
    <2>1. PICK i \in Instances :
            /\ generator[i].at = "insert" /\ r = generator[i].room
            /\ t \in NextBatch(generator[i].plan)
      BY <1>3, SlotsStep
    <2>. QED  BY <1>1, <2>1 DEF NextBatch, RunOK
  <1>. QED  BY <1>2, <1>3

\* The slots of a room before a new one exist: they did, or they are in the same
\* batch.
LEMMA NextNoGaps ==
    ASSUME TypeOK, RequestsChecked, OnlyScheduledSlots, \A i \in Instances : RunOK(i), NoGaps,
           [Next]_vars
    PROVE  NoGaps'
  <1>. SUFFICES ASSUME NEW r \in Rooms, CreatedOnce(r)', NEW t \in Expected(r)', NEW u \in Times,
                       clock' <= t, t < u, <<r, u>> \in slots'
                PROVE  <<r, t>> \in slots'
    BY DEF NoGaps, Times
  <1>1. slots \subseteq slots' /\ clock \in Nat /\ clock' \in Nat /\ clock <= clock'
    BY SlotsStep, ClockStep DEF TypeOK
  <1>2. t \in Times /\ t \in Int /\ u \in Int /\ clock <= t
    BY <1>1, ConstantsAssumption DEF Expected, Times
  <1>3. RowsOf(r) # {}
    <2>1. CASE <<r, u>> \in slots
      BY <2>1 DEF OnlyScheduledSlots, Expected
    <2>2. CASE <<r, u>> \notin slots
      <3>1. PICK i \in Instances :
              /\ generator[i].at = "insert" /\ r = generator[i].room
              /\ u \in NextBatch(generator[i].plan)
        BY <2>2, SlotsStep
      <3>. QED  BY <3>1 DEF RunOK
    <2>. QED  BY <2>1, <2>2
  <1>4. CreatedOnce(r) /\ t \in Expected(r)
    BY <1>3, CreatedOnceIsFixed
  <1>5. CASE <<r, u>> \in slots
    BY <1>1, <1>2, <1>4, <1>5 DEF NoGaps
  <1>6. CASE <<r, u>> \notin slots
    <2>1. PICK i \in Instances :
            /\ generator[i].at = "insert" /\ r = generator[i].room
            /\ u \in NextBatch(generator[i].plan)
            /\ slots' = slots \union {<<generator[i].room, v>> : v \in NextBatch(generator[i].plan)}
      BY <1>6, SlotsStep
    <2>2. generator[i].plan \in SUBSET Times /\ generator[i].now \in Nat
      BY DEF TypeOK, Locals
    <2>3. r \in generator[i].rooms \ generator[i].left /\ u < generator[i].now + RollingWindow
      BY <2>1 DEF RunOK, NextBatch
    <2>4. t < generator[i].now + RollingWindow
      BY <1>2, <2>2, <2>3, ConstantsAssumption
    <2>5. IsComing(i, r, t)
      BY <1>2, <1>4, <2>3, <2>4 DEF RunOK
    <2>6. CASE t \in generator[i].plan
      <3>1. t \in NextBatch(generator[i].plan)
        BY <2>1, <2>2, <2>6, BatchFromBelow
      <3>. QED  BY <2>1, <3>1
    <2>. QED  BY <1>1, <2>5, <2>6 DEF IsComing
  <1>. QED  BY <1>5, <1>6

-----------------------------------------------------------------------------
(* The runs of Generate. *)

\* What others do to the slots, and the clock, do not disturb a run.
LEMMA RunKept ==
    ASSUME NEW j, RunOK(j), generator[j] \in Locals, generator'[j] = generator[j],
           schedules' = schedules, slots \subseteq slots', clock \in Nat, clock' \in Nat,
           clock <= clock'
    PROVE  RunOK(j)'
  <1>. DEFINE g == generator[j]
  <1>1. g.now \in Nat
    BY DEF Locals
  <1>2. \A r : /\ RowsOf(r)' = RowsOf(r) /\ Expected(r)' = Expected(r)
               /\ CreatedOnce(r)' <=> CreatedOnce(r)
    BY DEF RowsOf, Expected, CreatedOnce
  <1>3. \A r, t : IsComing(j, r, t) => IsComing(j, r, t)'
    BY DEF IsComing
  <1>4. \A r, t : t \in Expected(r) /\ clock' <= t => clock <= t
    BY ConstantsAssumption DEF Expected, Times
  <1>. QED  BY <1>1, <1>2, <1>3, <1>4 DEF RunOK

\* A new schedule is for a room without one, or the room has now been created
\* twice.
LEMMA RunAfterCreate ==
    ASSUME TypeOK, RequestsChecked, [Next]_vars, NEW q \in Requests, CreateBatch(q),
           NEW j \in Instances, RunOK(j)
    PROVE  RunOK(j)'
  <1>1. UNCHANGED <<slots, generator, clock>> /\ schedules \subseteq schedules'
    BY SchedulesGrow DEF CreateBatch
  <1>2. \A r \in generator[j].rooms : RowsOf(r) # {} /\ RowsOf(r)' # {}
    BY <1>1 DEF RunOK, RowsOf
  <1>3. \A r \in generator[j].rooms : CreatedOnce(r)' =>
          CreatedOnce(r) /\ RowsOf(r)' = RowsOf(r) /\ Expected(r)' = Expected(r)
    BY <1>2, CreatedOnceIsFixed
  <1>4. \A r : Expected(r) \subseteq Expected(r)'
    BY <1>1, ExpectedGrows
  <1>5. \A r, t : IsComing(j, r, t) => IsComing(j, r, t)'
    BY <1>1 DEF IsComing
  <1>. QED  BY <1>1, <1>2, <1>3, <1>4, <1>5 DEF RunOK

\* A run that has just begun, has failed, or belongs to a new process owes nothing.
LEMMA RunBegins ==
    ASSUME NEW i, generator'[i].at \in {"idle", "rules", "room", "done"},
           generator'[i].left = generator'[i].rooms,
           generator'[i].at = "done" => generator'[i].left = {},
           generator'[i].at = "room" => /\ generator'[i].rules \subseteq schedules'
                                        /\ \A r \in generator'[i].rooms :
                                             RowsOf(r)' \subseteq generator'[i].rules,
           \A r \in generator'[i].rooms : RowsOf(r)' # {},
           generator'[i].now <= clock'
    PROVE  RunOK(i)'
  BY DEF RunOK

\* A new plan covers all that is missing from the window: this is where NoGaps is needed.
LEMMA RunOfRoom ==
    ASSUME TypeOK, OneRowPerDay, OnlyScheduledSlots, NoGaps, NEW i \in Instances, RunOK(i),
           NEW r \in Rooms, StartRoom(i, r)
    PROVE  RunOK(i)'
  <1>0. PICK plan \in SUBSET Times, g \in Locals : RoomStarted(i, r, plan, g)
    BY RoomLocals
  <1>1. /\ generator[i].at = "room" /\ r \in generator[i].left
        /\ plan = generateForRoom({row \in generator[i].rules : row.room = r},
                     computeLowerBound(generator[i].now, LastSlotStarts(r)),
                     generator[i].now + RollingWindow)
        /\ generator' = [generator EXCEPT ![i] = g]
        /\ g.now = generator[i].now /\ g.rooms = generator[i].rooms
        /\ g.rules = generator[i].rules /\ g.left = generator[i].left \ {r}
        /\ \/ plan = {} /\ g.at = "room"
           \/ g.at = "insert" /\ g.room = r /\ g.plan = plan
    BY <1>0 DEF RoomStarted
  <1>. DEFINE h == generator[i]
              rules == {row \in h.rules : row.room = r}
  <1>2. /\ generator'[i] = g /\ UNCHANGED <<schedules, slots, clock>>
        /\ h \in Locals /\ h.now \in Nat /\ clock \in Nat
    BY <1>1, LocalsStep DEF StartRoom, TypeOK, Locals
  <1>3. /\ h.now <= clock /\ h.left \subseteq h.rooms /\ h.rules \subseteq schedules
        /\ CreatedOnce(r) => RowsOf(r) \subseteq h.rules
        /\ \A x \in h.rooms : RowsOf(x) # {}
        /\ \A x \in h.rooms : CreatedOnce(x) => RowsOf(x) \subseteq h.rules
    BY <1>1 DEF RunOK
  <1>4. ASSUME NEW t \in plan  PROVE t \in Expected(r) /\ t < h.now + RollingWindow
    <2>. DEFINE lower == computeLowerBound(h.now, LastSlotStarts(r))
    <2>1. lower \in Int /\ h.now + RollingWindow \in Int
      <3>1. LastSlotStarts(r) \in SUBSET Times /\ h.now \in Int
        BY <1>2 DEF LastSlotStarts
      <3>2. lower = h.now \/ \E u \in LastSlotStarts(r) : lower = u + SlotDuration
        BY <3>1, LowerBound
      <3>3. \A u \in Times : u + SlotDuration \in Int
        BY ConstantsAssumption DEF Times
      <3>. QED  BY <1>2, <3>1, <3>2, <3>3, ConstantsAssumption
    <2>2. rules \in SUBSET schedules /\ \A row \in rules : row.room = r
      BY <1>3
    <2>3. t \in generateForRoom(rules, lower, h.now + RollingWindow)
      BY <1>1
    <2>. HIDE DEF rules, lower, h
    <2>. QED  BY <2>1, <2>2, <2>3, PlanIsExpected DEF TypeOK
  <1>5. ASSUME CreatedOnce(r), NEW t \in Expected(r), clock <= t, t < h.now + RollingWindow
        PROVE  <<r, t>> \in slots \/ t \in plan
    <2>1. RowsOf(r) \subseteq rules
      BY <1>3, <1>5 DEF RowsOf
    <2>. HIDE DEF rules
    <2>2. \/ <<r, t>> \in slots
          \/ t \in generateForRoom(rules, computeLowerBound(h.now, LastSlotStarts(r)),
                                   h.now + RollingWindow)
      BY <1>2, <1>3, <1>5, <2>1, PlanIsComplete
    <2>. QED  BY <1>1, <2>2 DEF rules
  <1>6. \A x \in h.rooms \ h.left : CreatedOnce(x) => \A t \in Expected(x) :
          clock <= t /\ t < h.now + RollingWindow => <<x, t>> \in slots
    BY <1>1 DEF RunOK, IsComing
  <1>7. \A x : /\ RowsOf(x)' = RowsOf(x) /\ Expected(x)' = Expected(x)
               /\ CreatedOnce(x)' <=> CreatedOnce(x)
    BY <1>2 DEF RowsOf, Expected, CreatedOnce
  <1>. HIDE DEF h
  <1>8. ASSUME NEW x \in g.rooms \ g.left, CreatedOnce(x), NEW t \in Expected(x), clock <= t,
               t < g.now + RollingWindow
        PROVE  IsComing(i, x, t)'
    BY <1>1, <1>2, <1>5, <1>6, <1>8 DEF IsComing, h
  <1>. QED  BY <1>1, <1>2, <1>3, <1>4, <1>7, <1>8 DEF RunOK, h

\* A batch leaves the plan for the table.
LEMMA RunOfInsert ==
    ASSUME TypeOK, NEW i \in Instances, RunOK(i), InsertBatchIgnoreConflicts(i)
    PROVE  RunOK(i)'
  <1>1. PICK g \in Locals :
          /\ generator' = [generator EXCEPT ![i] = g]
          /\ generator[i].at = "insert"
          /\ g.now = generator[i].now /\ g.rooms = generator[i].rooms
          /\ g.rules = generator[i].rules /\ g.left = generator[i].left
          /\ g.plan = generator[i].plan \ NextBatch(generator[i].plan)
          /\ \/ g.plan = {} /\ g.at = "room"
             \/ g.at = "insert" /\ g.room = generator[i].room
    BY InsertLocals
  <1>. DEFINE h == generator[i]
  <1>2. /\ generator'[i] = g /\ UNCHANGED <<schedules, clock>>
        /\ slots' = slots \union {<<h.room, t>> : t \in NextBatch(h.plan)}
    BY <1>1, LocalsStep DEF InsertBatchIgnoreConflicts, TypeOK
  <1>3. \A x : /\ RowsOf(x)' = RowsOf(x) /\ Expected(x)' = Expected(x)
               /\ CreatedOnce(x)' <=> CreatedOnce(x)
    BY <1>2 DEF RowsOf, Expected, CreatedOnce
  <1>4. ASSUME NEW x, NEW t, IsComing(i, x, t)  PROVE IsComing(i, x, t)'
    BY <1>1, <1>2, <1>4 DEF IsComing
  <1>. QED  BY <1>1, <1>2, <1>3, <1>4 DEF RunOK

\* Every step of a process keeps RunOK for itself and for all the others.
LEMMA NextRunOK ==
    ASSUME GenInv, [Next]_vars
    PROVE  \A j \in Instances : RunOK(j)'
  <1>. USE DEF GenInv
  <1>1. /\ generator \in [Instances -> Locals] /\ slots \subseteq slots'
        /\ clock \in Nat /\ clock' \in Nat /\ clock <= clock'
        /\ \A j \in Instances : generator[j] \in Locals /\ generator[j].now \in Nat
    BY SlotsStep, ClockStep DEF TypeOK, Locals
  <1>2. ASSUME NEW q \in Requests, CreateBatch(q)  PROVE \A j \in Instances : RunOK(j)'
    BY <1>2, RunAfterCreate
  <1>3. ASSUME \/ Tick \/ UNCHANGED vars
               \/ \E q \in Requests, r \in Rooms, input \in Inputs : CheckSchedule(q, r, input)
        PROVE  \A j \in Instances : RunOK(j)'
    <2>1. schedules' = schedules /\ generator' = generator
      BY <1>3 DEF Tick, vars, CheckSchedule
    <2>. QED  BY <1>1, <2>1, RunKept
  <1>4. ASSUME NEW i \in Instances, GeneratorStep(i) \/ FailGenerate(i) \/ Restart(i), RunOK(i)'
        PROVE  \A j \in Instances : RunOK(j)'
    <2>1. schedules' = schedules /\ \A j \in Instances \ {i} : generator'[j] = generator[j]
      BY <1>1, <1>4 DEF GeneratorStep, StartGenerate, ListByRoomIDs, StartRoom,
                  InsertBatchIgnoreConflicts, EndGenerate, FailGenerate, Restart
    <2>2. \A j \in Instances \ {i} : RunOK(j)'
      BY <1>1, <2>1, RunKept
    <2>. QED  BY <1>4, <2>2
  <1>5. ASSUME NEW i \in Instances, NEW r \in Rooms, StartRoom(i, r)  PROVE RunOK(i)'
    BY <1>5, RunOfRoom
  <1>6. ASSUME NEW i \in Instances, InsertBatchIgnoreConflicts(i)  PROVE RunOK(i)'
    BY <1>6, RunOfInsert
  <1>7. ASSUME NEW i \in Instances, StartGenerate(i)  PROVE RunOK(i)'
    <2>1. PICK g \in Locals :
            /\ generator' = [generator EXCEPT ![i] = g]
            /\ g.now = generator[i].now /\ g.left = g.rooms
            /\ g.rooms = {row.room : row \in schedules}
            /\ g.at = IF g.rooms = {} THEN "done" ELSE "rules"
      BY <1>7, GenerateLocals
    <2>2. generator'[i] = g /\ UNCHANGED <<schedules, clock>>
      BY <1>1, <1>7, <2>1, LocalsStep DEF StartGenerate
    <2>3. \A r \in g.rooms : RowsOf(r)' # {}
      BY <2>1, <2>2 DEF RowsOf
    <2>4. g.now <= clock'
      BY <2>1, <2>2 DEF RunOK
    <2>5. g.at \in {"rules", "done"} /\ (g.at = "done" => g.left = {}) /\ g.left = g.rooms
      BY <2>1
    <2>. QED  BY <2>2, <2>3, <2>4, <2>5, RunBegins
  <1>8. ASSUME NEW i \in Instances, FailGenerate(i) \/ Restart(i)  PROVE RunOK(i)'
    <2>1. PICK now \in Nat : /\ generator' = [generator EXCEPT ![i] = NewGenerator(now)]
                             /\ now <= clock /\ clock' = clock
      BY <1>1, <1>8 DEF FailGenerate, Restart, RunOK
    <2>2. NewGenerator(now) \in Locals
      BY NewGeneratorTyped
    <2>3. generator'[i] = NewGenerator(now)
      BY <1>1, <2>1, <2>2, LocalsStep
    <2>4. /\ generator'[i].at = "idle" /\ generator'[i].rooms = {} /\ generator'[i].left = {}
          /\ generator'[i].now <= clock'
      BY <2>1, <2>3, NewGeneratorTyped
    <2>5. \A r \in generator'[i].rooms : RowsOf(r)' # {}
      BY <2>4
    <2>6. /\ generator'[i].at \in {"idle", "rules", "room", "done"}
          /\ generator'[i].at # "done" /\ generator'[i].at # "room"
          /\ generator'[i].left = generator'[i].rooms /\ generator'[i].now <= clock'
      BY <2>4
    <2>. QED  BY <2>5, <2>6, RunBegins
  <1>9. ASSUME NEW i \in Instances, ListByRoomIDs(i)  PROVE RunOK(i)'
    <2>. DEFINE h == generator[i]
    <2>1. PICK g \in Locals :
            /\ generator' = [generator EXCEPT ![i] = g]
            /\ g = [h EXCEPT !.at = "room", !.rules = {row \in schedules : row.room \in h.rooms}]
      BY <1>9, GenerateLocals
    <2>2. /\ generator'[i] = g /\ UNCHANGED <<schedules, slots, clock>> /\ h.at = "rules"
      BY <1>1, <1>9, <2>1, LocalsStep DEF ListByRoomIDs
    <2>3. /\ g.at = "room" /\ g.now = h.now /\ g.rooms = h.rooms /\ g.left = h.left
          /\ g.rules = {row \in schedules : row.room \in h.rooms}
      BY <1>1, <2>1 DEF Locals
    <2>4. g.left = g.rooms
      BY <2>2, <2>3 DEF RunOK
    <2>5. \A x : RowsOf(x)' = RowsOf(x)
      BY <2>2 DEF RowsOf
    <2>6. \A r \in g.rooms : RowsOf(r)' \subseteq g.rules
      BY <2>3, <2>5 DEF RowsOf
    <2>7. g.now <= clock' /\ \A r \in g.rooms : RowsOf(r)' # {}
      BY <2>2, <2>3, <2>5 DEF RunOK
    <2>8. /\ g.rules \subseteq schedules'
          /\ g.at \in {"idle", "rules", "room", "done"} /\ g.at # "done"
      BY <2>2, <2>3
    <2>. HIDE DEF h
    <2>. QED  BY <2>2, <2>4, <2>6, <2>7, <2>8, RunBegins
  <1>10. ASSUME NEW i \in Instances, EndGenerate(i)  PROVE RunOK(i)'
    <2>. DEFINE h == generator[i]
    <2>1. PICK g \in Locals :
            /\ generator' = [generator EXCEPT ![i] = g]
            /\ g = [h EXCEPT !.at = "done", !.rules = {}]
      BY <1>10, GenerateLocals
    <2>2. /\ generator'[i] = g /\ UNCHANGED <<schedules, slots, clock>> /\ h.at = "room"
          /\ h.left = {}
      BY <1>1, <1>10, <2>1, LocalsStep DEF EndGenerate
    <2>3. /\ g.at = "done" /\ g.now = h.now /\ g.rooms = h.rooms /\ g.left = h.left
      BY <1>1, <2>1 DEF Locals
    <2>4. \A x : /\ RowsOf(x)' = RowsOf(x) /\ Expected(x)' = Expected(x)
                 /\ CreatedOnce(x)' <=> CreatedOnce(x)
      BY <2>2 DEF RowsOf, Expected, CreatedOnce
    <2>5. \A x, t : IsComing(i, x, t) => IsComing(i, x, t)'
      BY <2>2 DEF IsComing
    <2>. QED  BY <2>2, <2>3, <2>4, <2>5 DEF RunOK
  <1>11. ASSUME NEW i \in Instances, GeneratorStep(i) \/ FailGenerate(i) \/ Restart(i)
         PROVE  RunOK(i)'
    BY <1>5, <1>6, <1>7, <1>8, <1>9, <1>10, <1>11 DEF GeneratorStep
  <1>. QED  BY <1>2, <1>3, <1>4, <1>11 DEF Next

-----------------------------------------------------------------------------
(* What holds in every reachable state. *)

\* No rows, no slots, idle processes.
LEMMA InitGenInv == Init => GenInv
  <1>. SUFFICES ASSUME Init  PROVE GenInv
    OBVIOUS
  <1>1. \A i \in Instances : generator[i] = NewGenerator(0)
    BY DEF Init
  <1>2. TypeOK
    <2>1. generator \in [Instances -> Locals]
      BY NewGeneratorTyped DEF Init
    <2>2. request \in [Requests -> [at : {"new", "insert", "done"}, room : Rooms \union {None},
                                    input : Inputs \union {None}]]
      BY DEF Init
    <2>. QED  BY <2>1, <2>2 DEF Init, TypeOK
  <1>3. RequestsChecked /\ OneRowPerDay /\ OnlyScheduledSlots /\ NoGaps
    BY DEF Init, RequestsChecked, OneRowPerDay, OnlyScheduledSlots, NoGaps
  <1>4. \A i \in Instances : RunOK(i)
    <2>1. \A i \in Instances :
            /\ generator[i].at = "idle" /\ generator[i].now = 0
            /\ generator[i].rooms = {} /\ generator[i].left = {}
      BY <1>1, NewGeneratorTyped
    <2>2. clock = 0
      BY DEF Init
    <2>3. \A i \in Instances : generator[i].now <= clock
      BY <2>1, <2>2
    <2>. QED  BY <2>1, <2>3 DEF RunOK
  <1>. QED  BY <1>2, <1>3, <1>4 DEF GenInv

\* GenInv always holds.
LEMMA AlwaysGenInv == Spec => []GenInv
  <1>1. GenInv /\ [Next]_vars => GenInv'
    <2>. SUFFICES ASSUME GenInv, [Next]_vars  PROVE GenInv'
      OBVIOUS
    <2>1. TypeOK' /\ RequestsChecked' /\ OneRowPerDay'
      BY NextTypeOK, NextRequestsChecked, NextOneRowPerDay DEF GenInv
    <2>2. OnlyScheduledSlots' /\ NoGaps'
      BY NextOnlyScheduledSlots, NextNoGaps DEF GenInv
    <2>. QED  BY <2>1, <2>2, NextRunOK DEF GenInv
  <1>. QED  BY <1>1, InitGenInv, PTL DEF Spec

\* The tables, the requests and the locals of Generate keep their types; in
\* particular a slot is inserted for a room that exists.
THEOREM GeneratorTypeCorrect == Spec => []TypeOK
  <1>1. GenInv => TypeOK
    BY DEF GenInv
  <1>. QED  BY <1>1, AlwaysGenInv, PTL

\* Every slot is a whole slot of the opening hours of its room, for any lengths of
\* slots and days, on or off the grid, wherever a run of Generate was interrupted
\* and however many processes insert: what generateForRoom finds day by day from a
\* lower bound that may be anywhere is what the schedule promises.
THEOREM SlotsAreScheduled == Spec => []OnlyScheduledSlots
  <1>1. GenInv => OnlyScheduledSlots
    BY DEF GenInv
  <1>. QED  BY <1>1, AlwaysGenInv, PTL

\* When Generate returns without an error, every slot of its rooms in the window
\* exists, although it looks only after the last slot of a room, and although other
\* processes with other windows insert, fail and restart between its batches.
THEOREM WindowsAreComplete == Spec => []WindowComplete
  <1>1. ASSUME GenInv  PROVE WindowComplete
    <2>. SUFFICES ASSUME NEW i \in Instances, generator[i].at = "done",
                         NEW r \in generator[i].rooms, CreatedOnce(r), NEW t \in Expected(r),
                         clock <= t, t < generator[i].now + RollingWindow
                  PROVE  <<r, t>> \in slots
      BY DEF WindowComplete
    <2>1. RunOK(i)
      BY <1>1 DEF GenInv
    <2>2. IsComing(i, r, t)
      BY <2>1 DEF RunOK
    <2>. QED  BY <2>2 DEF IsComing
  <1>. QED  BY <1>1, AlwaysGenInv, PTL

\* The hours of a day, once written, stay as they are and get no
\* second entry.
DaysAreFixed ==
    [][\A row \in schedules :
          /\ row \in schedules'
          /\ \A other \in schedules' :
                other.room = row.room /\ other.day_of_week = row.day_of_week =>
                    other = row]_vars

\* What is left of "created only once per room", which ScheduleCreatedOnce states
\* and two concurrent requests break: they can only add days to each other's.  Rows
\* are never removed, and CreateBatch adds no second row for a day, whatever
\* ExistsByRoomID has told its request.
THEOREM HoursAreFixed == Spec => DaysAreFixed
  <1>1. ASSUME GenInv, [Next]_vars
        PROVE  [\A row \in schedules :
                  /\ row \in schedules'
                  /\ \A other \in schedules' :
                        other.room = row.room /\ other.day_of_week = row.day_of_week =>
                            other = row]_vars
    <2>1. schedules \subseteq schedules' /\ OneRowPerDay'
      BY <1>1, SchedulesGrow, NextOneRowPerDay DEF GenInv
    <2>. QED  BY <2>1 DEF OneRowPerDay
  <1>. QED  BY <1>1, AlwaysGenInv, PTL DEF Spec, DaysAreFixed
=============================================================================
