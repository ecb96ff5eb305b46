SPECIFICATION FairSpec
CONSTANTS
    p1 = p1
    p2 = p2
    a = a
    b = b
    m1 = m1
    m2 = m2
    x = x
    y = y
    Nobody = Nobody
    Process <- OneProcess
    Chat <- Chats
    FirstTopics <- AndByHand
    MaxTopics = 4
    MaxFaults = 1
    Tie <- Ties
    Message <- Messages
    Origin <- Origins
    Event <- AllKinds
    MaxRows = 3
PROPERTY EventsSettle
\* The model ends when every event has been admitted and handled.
CHECK_DEADLOCK FALSE
