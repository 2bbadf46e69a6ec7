CONSTANTS
    Requests = {1, 2, 3}
    Users = {seller, ann, bob}
    Seller = seller
    Amounts = {1, 2, 3}
    StartingPrice = 0
    InitialBalance = 3
    Faults = {"expiry", "mongo_prev", "cas_reply"}
    NoLock = NoLock
    NoBid = NoBid
    seller = seller
    ann = ann
    bob = bob
SPECIFICATION MCContentionSpec
INVARIANTS
    LeaderHeld
    HistoryFollowsRedis
PROPERTIES
    LeaderRises
SYMMETRY AccountSymmetry
CHECK_DEADLOCK FALSE
