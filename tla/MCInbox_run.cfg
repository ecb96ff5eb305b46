SPECIFICATION Spec
CONSTANTS
    p1 = p1
    p2 = p2
    a = a
    b = b
    m1 = m1
    m2 = m2
    x = x
    y = y
    Nobody = Nobody
    Process <- TwoProcesses
    Chat <- Chats
    FirstTopics <- TopicOfA
    MaxTopics = 4
    MaxFaults = 1
    Tie <- Ties
    Message <- Messages
    Origin <- Origins
    Event <- TwoSides
    MaxRows = 3
INVARIANTS
    InboxTypeOK
    PlannedOnce
    
PROPERTIES
    
    EchoStopsHere
    WalksAsTopics
\* The model ends when every event has been admitted and handled.
CHECK_DEADLOCK FALSE
