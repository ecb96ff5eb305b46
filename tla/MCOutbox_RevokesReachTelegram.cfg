SPECIFICATION Spec
CONSTANTS
    w1 = w1
    w2 = w2
    m1 = m1
    m2 = m2
    Nobody = Nobody
    Workers <- OneWorker
    Message <- OneMessage
    MaxRows = 2
    MaxChunks = 1
    MaxOutboxCount = 2
    MaxFaults = 0
    MutationHooks = FALSE
INVARIANT RevokesReachTelegram
\* Once every message of the instance is planned and settled, nothing is left to do.
CHECK_DEADLOCK FALSE
