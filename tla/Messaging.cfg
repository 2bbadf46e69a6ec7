CONSTANTS
    Questions = {q1, q2}
    Models = 2
    MaxChunks = 2
    NoThread = NoThread
    Events = {e1}
    Faults = {"mongo", "redis", "nats", "user", "crash"}
    MaxFaults = 1
    MaxInbox = 1
    MaxText = 3
    MaxTrouble = 1
SPECIFICATION MCSpec
INVARIANTS
    TypeOK
    AnswerIsWhole
    OneAnswer
    RacingThreads
    ToldIsStored
    ShownIsStored
PROPERTIES
    DeletedForGood
    QuestionsClose
CHECK_DEADLOCK FALSE
