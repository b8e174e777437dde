\* Two watchers, two activities, the overlap one second more than the lag.
SPECIFICATION FairSpec
CONSTANTS
    Watcher = {w1, w2}
    Activity <- MCActivities
    MaxTime = 3
    Overlap = 2
    Lag = 1
    Events = {"quit", "crash"}
INVARIANTS
    TypeOK
    EmittedOnce
    NothingBehindCursor
    FinalReadComplete
PROPERTIES
    VisibleIsRecorded
    WatchEnds
    ImplementsOnceFeed
CHECK_DEADLOCK FALSE
