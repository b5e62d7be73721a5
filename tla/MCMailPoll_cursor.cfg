SPECIFICATION Spec
CONSTANTS
    Mail = {"bad", "plain"}
    MaxAttempts = 2
    Limits = {0}
    AnswersOf <- MCAnswersOf
    MaxFaults = 0
    MaxValidity = 1
PROPERTIES
    CursorNeverMovesBack
CHECK_DEADLOCK FALSE
