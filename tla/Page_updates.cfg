SPECIFICATION FairSpec
CONSTANTS
    Servers = {p1}
    UseCases = {"CreateBooking", "CancelBooking+", "ExpireDue"}
    MaxFetches = 2
    MaxVersion = 1
    MaxQueue = 1
    None = None
INVARIANTS
    TypeOK
    StaleOnlyWhenMissed
    SubscriptionAgrees
PROPERTIES
    SubscribedAgain
