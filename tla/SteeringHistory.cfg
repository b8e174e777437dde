\* One caller, three activities; an activity may be listed after it is written.
SPECIFICATION FairSpec
CONSTANTS
    Caller = {c1}
    Reader = {c1}
    Session = {s1}
    Resource <- MCResources
    PageSize = 1
    MaxPages = 3
    ReadAttempts = 1
    MaxCalls = 1
    MaxPlans = 1
    Lag = TRUE
INVARIANTS
    HistoryProvesNothing
CONSTRAINT MCConstraint
CHECK_DEADLOCK FALSE
