SPECIFICATION Spec
CONSTANTS
  r1 = r1
  r2 = r2
  a = a
  b = b
  c = c
  s1 = s1
  s2 = s2
  Repos = {r1}
  NoRepo = NoRepo
  Ids = {a, b}
  Sets = {s1, s2}
  Pages <- PagesOverlapping
  Statuses = {"live", "broken", "deleted"}
  MaxTime = 2
  MaxChanges = 3
  MaxFails = 1
INVARIANTS
  TypeOK
  OnlySlippedAreMissed
PROPERTIES
  ImplementsMirror
  NeverRegresses
