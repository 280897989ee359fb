SPECIFICATION Spec
CONSTANTS
    c1 = c1  c2 = c2  u1 = u1 
    Clients = {c1, c2}
    Rooms = {r1}
    Users = {u1}
    UserOf <- OneUser
    OutboundQueueSize = 1
    MaxSubscriptions = 1
    MaxEvents = 1
    None = None
SYMMETRY ClientPermutations
CHECK_DEADLOCK FALSE
INVARIANTS
    TypeOK
    NoGap
    HubAgreesWithClient
    ClosedIsUnregistered
