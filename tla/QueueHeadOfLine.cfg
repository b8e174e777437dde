CONSTANTS
  w1 = w1
  w2 = w2
  a1 = a1
  a2 = a2
  s1 = s1
  s2 = s2
  None = None
  Worker = {w1}
  Key = {1, 2}
  Shape = {x}
  Attempt = {a1, a2}
  Session = {s1, s2}
  Allowed <- MCAllAllowed
  Unreadable <- MCReadable
  MaxItems = 1
  MaxOccupancy = 2
  StartLimit = 2
  MaxGeneration = 1
  Events = {"fence"}
SPECIFICATION FairSpec
PROPERTIES EveryCandidateSettles
