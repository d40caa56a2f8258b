SPECIFICATION Spec
CONSTANTS
  r1 = r1
  r2 = r2
  a = a
  b = b
  q1 = q1
  q2 = q2
  Requests = {q1, q2}
  NoRequest = NoRequest
  Repos = {r1, r2}
  NoRepo = NoRepo
  Ids = {a, b}
  Lists <- ListsOneEach
  MaxTime = 2
  MaxChanges = 1
  MaxOverlaps = 1
  MaxEvents = 0
PROPERTIES
  SuccessMeansStored
