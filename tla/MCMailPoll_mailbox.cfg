SPECIFICATION FairSpec
CONSTANTS
    Mail = {"poison", "plain"}
    MaxAttempts = 2
    Limits = {0, 1}
    AnswersOf <- MCAnswersOf
    MaxFaults = 2
    MaxValidity = 2
INVARIANTS
    NothingPassedOver
PROPERTIES
    EveryMessageSettled
CHECK_DEADLOCK FALSE
