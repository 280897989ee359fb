SPECIFICATION FairSpecFromTwoReserved
CONSTANTS
    s1 = s1
    s2 = s2
    u1 = u1
    u2 = u2
    u3 = u3
    None = None
    Users = {u1, u2, u3}
    Slots <- TwoSlots
    SlotStart <- StartBeforeAndNow
    Handlers = {h1}
    Workers = {w}
    BookingIds = {1, 2, 3}
    EntryIds = {1, 2, 3}
    ReservationIds = {1, 2, 3}
    TTL = 1
    BatchLimit = 1
    MaxPosition = 3
    MaxClock = 2
INVARIANTS
    NoStrandedWaiter
    EntryClaimedOnce
PROPERTIES
    TerminalStatusesFinal
    CommitsAreLedgerSteps
    ConfirmIsAtomic
    OverdueExpires
