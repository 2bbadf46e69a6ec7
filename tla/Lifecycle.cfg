CONSTANTS
    Auctions = {a1, a2}
    Calls = {v1}
    Edits = {e1}
    Prices = {2}
    Offers = {1, 3}
    Starts = {1}
    Ends = {2}
    Window = 2
    Extension = 1
    MaxTime = 3
    Faults = {"mongo","crash"}
    Unborn = Unborn
    Deleted = Deleted
SPECIFICATION FairSpec
INVARIANTS
    TypeOK
    OnSchedule
    EndsAnnounced
PROPERTIES
    PriceRises
    AuctionsEnd
CHECK_DEADLOCK FALSE
