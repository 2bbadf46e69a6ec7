CONSTANTS
    Auctions = {a1}
    Calls = {v1}
    Edits = {}
    Prices = {1}
    Offers = {2}
    Starts = {1}
    Ends = {1, 2}
    Window = 2
    Extension = 1
    MaxTime = 3
    Faults = {}
    Unborn = Unborn
    Deleted = Deleted
SPECIFICATION Spec
PROPERTIES
    AnnouncedHasEnded
CHECK_DEADLOCK FALSE
