SPECIFICATION PartsSpec
CONSTANTS
    p1 = p1  p2 = p2  p3 = p3  s1 = s1  s2 = s2  t1 = t1  t2 = t2
    r1 = r1  r2 = r2  r3 = r3  k1 = k1  c1 = c1  u1 = u1  u2 = u2
    h1 = h1  h2 = h2  url = url
    Procs <- ThreeProcs
    Pids <- ThreePids
    MaxStarts = 4
    MaxOthers = 1
    Sessions <- TwoSessions
    Tags <- TwoTags
    Requests <- ThreeRequests
    MaxCrashes = 1
    Tokens <- OneToken
    Lookups <- OneLookup
    Revokes <- TwoRevokes
    MaxLives = 2
    Hooks <- TwoHooks
    Urls <- OneUrl
    UrlOf <- Shared
    MaxFaults = 2
SYMMETRY Symmetry

    
PROPERTIES
    LockHolds
    
    TokensHold
CHECK_DEADLOCK FALSE
