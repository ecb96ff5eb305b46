SPECIFICATION FairSpec
CONSTANTS
    w1 = w1
    w2 = w2
    a = a
    b = b
    Nobody = Nobody
    Worker <- TwoWorkers
    Part <- TwoParts
    MaxEdits = 2
    MaxCommands = 2
    MaxFaults = 3
INVARIANTS
    TypeOK
    RevokedOnce
    
    OnlyItsVersion
PROPERTY DueIsSettled
CHECK_DEADLOCK FALSE
