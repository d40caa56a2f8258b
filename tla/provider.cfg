SPECIFICATION FairSpec
CONSTANTS
  a = a
  b = b
  c = c
  Ids = {a, b, c}
  Repositories <- TwoRepositories
  Loaded <- ThreeLoaded
  maxListSize = 2
  Second = 2
  FirstTick = 4
  MaxTime = 6
  MaxImports = 2
  MaxWipes = 1
INVARIANTS
  TypeOK
PROPERTIES
  LossesAreAccountedFor
  ListEnds
