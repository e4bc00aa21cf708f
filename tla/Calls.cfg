SPECIFICATION LiveSpec
CONSTANTS
    k1 = k1  k2 = k2  r1 = r1  r2 = r2
    Calls <- TwoCalls
    Requests <- TwoRequests
    Mixes <- AnyTwo
    MaxOffers = 2
INVARIANTS
    AnsweredOnce
    
PROPERTIES
    CallsEnd
CHECK_DEADLOCK FALSE
