SPECIFICATION FairSpec
CONSTANTS
    j1 = j1  j2 = j2
    r1 = r1  r2 = r2  r3 = r3
    c1 = c1  c2 = c2
    main = main
    Nil = Nil
    Jobs <- TwoJobs
    Recipients <- OneRecipient
    Clients <- OneClient
    Sessions <- OneSession
    SessionOf <- AllMain
    MaxAttempts = 2
    BatchSize = 2
    MaxRetries = 1
    MaxFaults = 1
INVARIANTS
    OneRunningJob
    SkipJustified
PROPERTIES
    KeepsLedger
    DueJobEnds
