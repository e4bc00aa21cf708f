SPECIFICATION LiveSpec
CONSTANTS
    e1 = e1  e2 = e2  e3 = e3  h1 = h1  s1 = s1  u1 = u1
    Events <- TwoEvents
    Hooks <- OneHook
    Sessions <- OneSession
    Urls <- OneUrl
    SessionOf <- Alone
    UrlOf <- AloneUrl
    MaxAttempts = 2
    RetryOn4xx = TRUE
    Capacity = 1
    OpenThreshold = 2
    HardDisableThreshold = 3
    MaxFaults = 1
INVARIANTS
    DeadLettersKept
PROPERTIES
    DisablesAfterStreak
    KeepsPromise
    TaskEnds
CHECK_DEADLOCK FALSE
