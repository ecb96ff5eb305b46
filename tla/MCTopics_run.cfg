SPECIFICATION TopicsSpec
CONSTANTS
    p1 = p1
    p2 = p2
    a = a
    b = b
    Nobody = Nobody
    Process <- TwoProcesses
    Chat <- TwoChats
    FirstTopics <- ByHand
    MaxTopics = 4
    MaxFaults = 1
INVARIANTS
    TopicsTypeOK
    
    CardsAreAccountedFor
PROPERTY ActiveStaysPut
\* The model ends when the topics and the faults of the instance are used up.
CHECK_DEADLOCK FALSE
