SPECIFICATION FairSpec
CONSTANTS
    p1 = p1
    p2 = p2
    e1 = e1
    e2 = e2
    e3 = e3
    NoEpoch = NoEpoch
    Process <- TwoProcesses
    Epoch <- Epochs
    MaxUpdates = 3
    BatchLimit = 2
    MaxInboxCount = 2
    MaxFaults = 1
INVARIANTS
    TypeOK
    NothingLost
    CursorMatchesInbox
    AdmittedOnce
PROPERTIES
    CursorOnlyAdvances
    EventuallyAdmitted
