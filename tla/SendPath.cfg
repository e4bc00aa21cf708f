SPECIFICATION Spec
CONSTANTS
    s1 = s1
    Sends <- OneSend
    MaxMoves = 2
INVARIANTS
    ReplayedByItsCore
    AnsweredTruly
    
CHECK_DEADLOCK FALSE
