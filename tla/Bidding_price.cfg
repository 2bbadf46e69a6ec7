CONSTANTS
    Requests = {1, 2}
    Users = {seller, ann, bob}
    Seller = seller
    Amounts = {1, 2, 3}
    StartingPrice = 0
    InitialBalance = 3
    Faults = {}
    NoLock = NoLock
    NoBid = NoBid
    seller = seller
    ann = ann
    bob = bob
SPECIFICATION MCSpec
INVARIANTS
    PriceIsHighestBid
SYMMETRY AccountSymmetry
CHECK_DEADLOCK FALSE
