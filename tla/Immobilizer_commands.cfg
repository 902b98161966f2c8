SPECIFICATION ConnectionSpec
CONSTANTS
    MaxCommands = 3
    MaxBreaks = 2
    MaxBuffered = 1
INVARIANTS
    ObeyedInOrder
    AllAckedInForce
PROPERTIES
    ReleaseIsSent
CHECK_DEADLOCK FALSE
