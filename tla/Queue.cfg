\* Two workers of different policies, two candidates, every kind of event.
CONSTANTS
  w1 = w1
  w2 = w2
  a1 = a1
  a2 = a2
  s1 = s1
  s2 = s2
  None = None
  Worker = {w1, w2}
  Key = {1, 2, 3}
  Shape = {x}
  Attempt = {a1, a2}
  Session = {s1, s2}
  Allowed <- MCAllowed
  Unreadable <- MCUnreadable
  MaxItems = 2
  MaxOccupancy = 2
  StartLimit = 2
  MaxGeneration = 2
  Events = {"crash", "failure", "fence", "expire"}
SPECIFICATION FairSpec
INVARIANTS TypeOK CompletedIsBound
PROPERTIES ResultIsFinal KeepsPromise ClaimsEnd
CONSTRAINT MCConstraint
