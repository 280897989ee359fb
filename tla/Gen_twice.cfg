SPECIFICATION Spec
CONSTANTS
    Rooms = {r1}
    Requests = {q1, q2}
    Inputs <- SomeInputs
    Instances = {i1}
    SlotDuration = 2
    DayLength = 6
    WeekLength = 2
    RollingWindow = 12
    MaxBatch = 1
    MaxClock = 0
    None = None
CHECK_DEADLOCK FALSE
INVARIANT ScheduleCreatedOnce
