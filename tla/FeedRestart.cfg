\* Two watchers, two activities, the overlap one second more than the lag.
SPECIFICATION Spec
CONSTANTS
    Watcher = {w1, w2}
    Activity <- MCActivities
    MaxTime = 3
    Overlap = 2
    Lag = 1
    Events = {"quit", "crash"}
INVARIANTS
    RestartSafe
CHECK_DEADLOCK FALSE
