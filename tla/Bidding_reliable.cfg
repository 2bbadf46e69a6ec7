CONSTANTS
    Requests = {1, 2, 3}
    Users = {seller, ann, bob}
    Seller = seller
    Amounts = {1, 2, 3}
    StartingPrice = 0
    InitialBalance = 3
    Faults = {"rpc", "cancel"}
    NoLock = NoLock
    NoBid = NoBid
    seller = seller
    ann = ann
    bob = bob
SPECIFICATION MCFairSpec
INVARIANTS
    TypeOK
    MoneyConserved
    NoStrandedMoney
    PriceCoversLeader
PROPERTIES
    MoneyComesToRest
CHECK_DEADLOCK FALSE
