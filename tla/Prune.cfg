\* Two processes, three passes, a session that appears before or after the plan.
SPECIFICATION FairSpec
CONSTANTS
    Session = {s1, s2}
    Old = {s1}
    Applier = {p1, p2}
    Passes = 3
    Attempts = 2
INVARIANTS
    TypeOK
    OnlyStoredTargets
    MarkedIsGone
    CompletedMeansGone
    DeletedOnce
PROPERTIES
    ApplyEnds
CONSTRAINT MCConstraint
CHECK_DEADLOCK FALSE
