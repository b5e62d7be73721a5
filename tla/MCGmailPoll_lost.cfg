SPECIFICATION GmailSpec
CONSTANTS
    Mailbox = {"a"}
    Mail = {"m1", "m2"}
    AccountOf <- MCAccountOf
    Ignored = {}
    SeenCap = 2
    RecentCap = 2
    Faults <- ApiDown
    MaxFaults = 1
    MaxRevokes = 0
INVARIANTS
    HistoryIsProcessed
CHECK_DEADLOCK FALSE
