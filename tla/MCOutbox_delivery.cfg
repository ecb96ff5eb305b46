SPECIFICATION Spec
CONSTANTS
    w1 = w1
    w2 = w2
    m1 = m1
    m2 = m2
    Nobody = Nobody
    Workers <- TwoWorkers
    Message <- OneMessage
    MaxRows = 3
    MaxChunks = 2
    MaxOutboxCount = 2
    MaxFaults = 2
    MutationHooks = TRUE
SYMMETRY Symmetry
INVARIANTS
    TypeOK
    AtMostOnce
    NoOvertaking
    UnsentMeansUnsent
    DeliveredInFull
    LostIsNotForgotten
    LatestIntentOnly
    LastRevokeIsValid
PROPERTIES
    SettledForGood
    ImplementsCourier
\* Once every message of the instance is planned and settled, nothing is left to do.
CHECK_DEADLOCK FALSE
