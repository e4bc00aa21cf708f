SPECIFICATION FairSpec
CONSTANTS
    m1 = m1  m2 = m2
    p1 = p1  p2 = p2
    c1 = c1  c2 = c2
    Nil = Nil
    Messages <- TwoMessages
    Pollers <- TwoPollers
    Clients <- TwoClients
    DueBatchLimit = 2
    MaxFaults = 2
INVARIANTS
    
    CancelHolds
    OrphansAreFaults
PROPERTIES
    DueIsSettled
    KeepsPromise
CHECK_DEADLOCK FALSE
