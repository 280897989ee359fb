SPECIFICATION Spec
CONSTANTS
    s1 = s1
    s2 = s2
    None = None
    Users = {u1, u2}
    Slots <- OneSlot
    SlotStart <- StartOfOne
    Handlers = {h1, h2}
    Workers = {}
    BookingIds = {1, 2}
    EntryIds = {1, 2}
    ReservationIds = {1, 2}
    TTL = 1
    BatchLimit = 1
    MaxPosition = 3
    MaxClock = 0
SYMMETRY UsersAndHandlers
INVARIANTS
    TypeOK
    OneActiveBookingPerSlot
    OneActiveReservationPerSlot
    IndexesProtected
    NoDeadlock
PROPERTIES
    ImplementsLedger
    ConfirmIsAtomic
CHECK_DEADLOCK FALSE
