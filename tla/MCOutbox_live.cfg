SPECIFICATION FairSpec
CONSTANTS
    w1 = w1
    w2 = w2
    m1 = m1
    m2 = m2
    Nobody = Nobody
    Workers <- OneWorker
    Message <- TwoMessages
    MaxRows = 3
    MaxChunks = 1
    MaxOutboxCount = 2
    MaxFaults = 1
    MutationHooks = TRUE
PROPERTY Progress
\* Once every message of the instance is planned and settled, nothing is left to do.
CHECK_DEADLOCK FALSE
