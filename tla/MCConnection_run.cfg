SPECIFICATION FairSpec
CONSTANTS
    MaxConnectAttempts = 2
    Parts = 2
    MaxFaults = 3
INVARIANTS
    TypeOK
    NoLostWakeup
    DialsAreBounded
    OneDialAfterTerminal
    AckedIsAdmitted
PROPERTIES
    TerminalEndsRun
    Recovers
CHECK_DEADLOCK FALSE
