CONSTANTS
    Bids = {1, 2}
    Amounts = {1, 2}
    Events = {1, 2}
    MaxFailures = 1
    Payload = "expected"
    Faults = {"early", "lost_event", "redis", "auction", "mongo", "transfer", "reply", "slow", "crash"}
    NoLeader = NoLeader
    Nobody = Nobody
    NoBid = NoBid
    NoLock = NoLock
SPECIFICATION MCSpec
INVARIANTS
    TypeOK
    PaidOnce
    PaidFromEscrow
    WonIsSettled
PROPERTIES
    SellerIsPaid
CHECK_DEADLOCK FALSE
