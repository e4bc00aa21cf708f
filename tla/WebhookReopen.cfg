SPECIFICATION Spec
CONSTANTS
    e1 = e1  e2 = e2  e3 = e3  h1 = h1  s1 = s1  u1 = u1
    Events <- ThreeEvents
    Hooks <- OneHook
    Sessions <- OneSession
    Urls <- OneUrl
    SessionOf <- Alone
    UrlOf <- AloneUrl
    MaxAttempts = 1
    RetryOn4xx = TRUE
    Capacity = 1
    OpenThreshold = 2
    HardDisableThreshold = 4
    MaxFaults = 1
PROPERTIES
    FailingUrlIsMuted
CHECK_DEADLOCK FALSE
