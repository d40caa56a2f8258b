SPECIFICATION Spec
CONSTANTS
  r1 = r1
  r2 = r2
  a = a
  b = b
  c = c
  s1 = s1
  s2 = s2
  Repos = {r1}
  NoRepo = NoRepo
  Ids = {a, b}
  Sets = {s1}
  Pages <- PagesResumed
  Statuses = {"live", "deleted"}
  MaxTime = 3
  MaxChanges = 3
  MaxFails = 0
INVARIANT NothingBehindCursorIsMissed
