SPECIFICATION FairSpec
CONSTANTS
    p1 = p1
    p2 = p2
    a = a
    b = b
    m1 = m1
    m2 = m2
    x = x
    y = y
    Nobody = Nobody
    Process <- OneProcess
    Chat <- Chats
    FirstTopics <- TopicOfA
    MaxTopics = 1
    MaxFaults = 0
    Tie <- Ties
    Message <- OneMessage
    Origin <- OneOrigin
    Event <- Clashes
    MaxRows = 3
PROPERTY EveryRowEnds
\* The model ends when every event has been admitted and handled.
CHECK_DEADLOCK FALSE
