SPECIFICATION FairSpec
CONSTANTS
  r1 = r1
  r2 = r2
  a = a
  b = b
  c = c
  s1 = s1
  s2 = s2
  Repos = {r1, r2}
  NoRepo = NoRepo
  Ids = {a, b, c}
  Sets = {s1}
  Pages <- PagesShared
  Statuses = {"live", "deleted"}
  MaxTime = 2
  MaxChanges = 2
  MaxFails = 1
INVARIANTS
  NothingBehindCursorIsMissed
  OwnersServe
PROPERTIES
  AlwaysMirroredAgain
