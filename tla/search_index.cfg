SPECIFICATION FairSpec
CONSTANTS
  a = a
  b = b
  c = c
  Ids = {a, b, c}
  Loaded <- ThreeLoaded
  Admins = {admin}
  Robot = Robot
  NoOne = NoOne
  numMaxDoc = 2
  MaxWrites = 2
  MaxRebuilds = 1
  MaxFails = 1
INVARIANTS
  TypeOK
  IndexIsTheTable
PROPERTIES
  IndexCatchesUp
