SPECIFICATION Spec
CONSTANTS
    s1 = s1
    s2 = s2
    None = None
    Users = {u1, u2, u3}
    Slots <- TwoSlots
    SlotStart <- StartOfTwo
    Handlers = {p}
    Workers = {p}
    BookingIds = {1, 2}
    EntryIds = {1, 2, 3}
    ReservationIds = {1, 2}
    TTL = 1
    BatchLimit = 2
    MaxPosition = 4
    MaxClock = 1
SYMMETRY UsersAndSlots
INVARIANTS
    ReservedExcludesBooked
    ReleasedOnce
    EveryWaiterHasTurn
PROPERTIES
    FirstComeFirstNotified
    AvailableCanBeBooked
    ListedCanBeConfirmed
