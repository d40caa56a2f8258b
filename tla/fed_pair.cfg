SPECIFICATION FairSpec
CONSTANTS
  A = A
  B = B
  C = C
  ra = ra
  rb = rb
  rc = rc
  nx = nx
  ny = ny
  nz = nz
  a = a
  b = b
  NoServer = NoServer
  NoSet = NoSet
  Servers = {A, B}
  Reps = {rb}
  Names = {nx, ny}
  Ids = {a, b}
  MaxTime = 2
  MaxChanges = 2
  MaxRenames = 1
  MaxFails = 1
  Peers <- Pair
  At <- RepsAt
  InitNames <- NamedApart
  RepOf <- FromB
INVARIANTS
  TypeOK
  OnlySlippedAreMissed
  SubRepositoriesExist
PROPERTIES
  AlwaysFederatedAgain
