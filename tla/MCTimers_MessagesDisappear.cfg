SPECIFICATION FairSpec
CONSTANTS
    w1 = w1
    w2 = w2
    a = a
    b = b
    Nobody = Nobody
    Worker <- OneWorker
    Part <- OnePart
    MaxEdits = 1
    MaxCommands = 1
    MaxFaults = 0
PROPERTY MessagesDisappear
CHECK_DEADLOCK FALSE
