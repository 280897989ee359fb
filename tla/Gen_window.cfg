SPECIFICATION FairSpec
CONSTANTS
    Rooms = {r1}
    Requests = {q1, q2}
    Inputs <- SomeInputs
    Instances = {i1, i2}
    SlotDuration = 2
    DayLength = 6
    WeekLength = 2
    RollingWindow = 12
    MaxBatch = 1
    MaxClock = 1
    None = None
CHECK_DEADLOCK FALSE
INVARIANTS
    TypeOK
    OnlyScheduledSlots
    WindowComplete
PROPERTIES
    WindowFilled
