CONSTANTS
    Bids = {1, 2}
    Amounts = {1, 2}
    Events = {1}
    MaxFailures = 0
    Payload = "published"
    Faults = {}
    NoLeader = NoLeader
    Nobody = Nobody
    NoBid = NoBid
    NoLock = NoLock
SPECIFICATION MCSpec
PROPERTIES
    EndedIsSettled
CHECK_DEADLOCK FALSE
