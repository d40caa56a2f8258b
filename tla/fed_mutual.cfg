SPECIFICATION FairSpec
CONSTANTS
  A = A
  B = B
  C = C
  ra = ra
  rb = rb
  rc = rc
  nx = nx
  ny = ny
  nz = nz
  a = a
  b = b
  NoServer = NoServer
  NoSet = NoSet
  Servers = {A, B}
  Reps = {ra, rb}
  Names = {nx, ny}
  Ids = {a, b}
  MaxTime = 2
  MaxChanges = 2
  MaxRenames = 0
  MaxFails = 0
  Peers <- Mutual
  At <- RepsAt
  InitNames <- NamedApart
  RepOf <- FromAB
PROPERTIES
  AlwaysFederatedAgain
