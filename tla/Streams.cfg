SPECIFICATION FlowsLive
CONSTANTS
    k1 = k1  k2 = k2  p1 = p1  p2 = p2
    Commands <- TwoCommands
    MaxDeliver = 2
    MaxCrashes = 1
    MaxFlaps = 1
    MaxFaults = 1
    Pushers <- TwoPushers
    RingSize = 2
    Backlog = 1
    Capacity = 1
    TailEvents = 4
    MaxTime = 3
    SkipHistorySync = FALSE
    ChannelCapacity = 2
    WaitEvents = 5
INVARIANTS
    CommandsAreTrue
    TailIsTrue
    WaitIsTrue
PROPERTIES
    WaitTimeout
    FlowsEnd
CHECK_DEADLOCK FALSE
