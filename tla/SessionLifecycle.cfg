SPECIFICATION Spec
CONSTANTS
    c1 = c1  c2 = c2  r1 = r1  r2 = r2
    Requests <- TwoRequests
    Mixes <- AnyTwo
    Clients <- TwoClients
    MaxRuntimes = 2
    FlapThreshold = 2
    MaxEvents = 2
    MaxFaults = 0
SYMMETRY Symmetry
INVARIANTS
    RuntimeHasOwner
    OneClientPerStart
    StoppedStaysStopped
CHECK_DEADLOCK FALSE
