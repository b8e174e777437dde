CONSTANTS
  k1 = k1
  k2 = k2
  x = x
  y = y
  p1 = p1
  p2 = p2
  a1 = a1
  a2 = a2
  s1 = s1
  s2 = s2
  None = None
  Proc = {p1, p2}
  Shape = {x, y}
  Key = {k1}
  Attempt = {a1}
  Session = {s1}
  Requests <- MCReuse
  ForeignShapes = {x}
  Scans = 2
  MaxGeneration = 2
  MaxOccupancy = 2
  StartLimit = 1
  Events = {"dispatch", "list", "adopt", "crash"}
SPECIFICATION FairSpec
INVARIANTS TypeOK WorkMirrorsAttempt AtMostOnePost FreezeLeavesNoReservation
PROPERTIES FencedNeverSent CallsEnd
