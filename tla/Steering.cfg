\* One caller among others, two calls, three activities on up to three pages.
SPECIFICATION FairSpec
CONSTANTS
    Caller = {c1}
    Reader = {c1}
    Session = {s1, s2}
    Resource <- MCResources
    PageSize = 1
    MaxPages = 3
    ReadAttempts = 2
    MaxCalls = 2
    MaxPlans = 2
    Lag = TRUE
INVARIANTS
    TypeOK
    CompleteRead
    YieldedOnce
    EvidenceIsNew
    ApprovedMovesOn
    DeliveredOnce
    CompletedWasDesired
PROPERTIES
    CallsEnd
    
CONSTRAINT MCConstraint
CHECK_DEADLOCK FALSE
