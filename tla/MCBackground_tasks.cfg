SPECIFICATION MCSpec
CONSTANTS
    Mailbox = {"a", "b"}
    Mail = {"m1", "own"}
    AccountOf <- MCAccountOf
    Ignored = {"own"}
    SeenCap = 1
    RecentCap = 1
    Faults = {"token", "history", "aged", "forward", "save", "stop"}
    MaxFaults = 1
    MaxRevokes = 1
    Company = {"c1", "c2"}
    Report <- MCReport
    Owner <- MCOwner
    Pieces <- MCPieces
    Runner = {"w", "x"}
    BatchSize = 1
    RefreshMax = 1
    WaveSize = 2
    MaxPerJob = 2
    ParentGroup = 3
    Stride = 1000
    Dim = 1
    OtherDim = 2
    IndexPlans <- MCIndexPlans
    Scopes = {{}, {"c1", "c2"}}
INVARIANTS
    MCTypeOK
    AcceptedOnce
    NothingPassedOver
    MarksAreTrue
PROPERTIES
    EveryAccountServed
    EverythingEmbedded
CHECK_DEADLOCK FALSE
