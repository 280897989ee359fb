SPECIFICATION FairSpec
CONSTANTS
    c1 = c1  c2 = c2  u1 = u1
    Clients = {c1}
    Rooms = {r1, r2}
    Users = {u1}
    UserOf <- OneClient
    OutboundQueueSize = 2
    MaxSubscriptions = 1
    MaxEvents = 2
    None = None
CHECK_DEADLOCK FALSE
INVARIANTS
    LeftBehindOnlyIfLate
PROPERTY
    ClosedClientEnds
