CONSTANTS
    Requests = {1, 2, 3}
    Users = {seller, ann, bob, cid}
    Seller = seller
    Amounts = {1, 2, 3}
    StartingPrice = 0
    InitialBalance = 3
    Faults = {"cancel", "rpc", "nil_prev", "debit_reply", "refund", "lost_event", "crash"}
    NoLock = NoLock
    NoBid = NoBid
    seller = seller
    ann = ann
    bob = bob
    cid = cid
SPECIFICATION MCSpec
INVARIANTS
    MutualExclusion
    AtMostOneRefund
    NoMoneyCreated
    NeverRefused
    OutbidNamesOneBid
PROPERTIES
    ImplementsEscrow
SYMMETRY AccountSymmetry
CHECK_DEADLOCK FALSE
