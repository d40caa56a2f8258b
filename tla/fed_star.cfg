SPECIFICATION Spec
CONSTANTS
  A = A
  B = B
  C = C
  ra = ra
  rb = rb
  rc = rc
  nx = nx
  ny = ny
  nz = nz
  a = a
  b = b
  NoServer = NoServer
  NoSet = NoSet
  Servers = {A, B, C}
  Reps = {rb, rc}
  Names = {ny, nz}
  Ids = {a, b}
  MaxTime = 2
  MaxChanges = 1
  MaxRenames = 0
  MaxFails = 1
  Peers <- Star
  At <- RepsAt
  InitNames <- NamedApart
  RepOf <- FromBC
INVARIANTS
  OnlySlippedAreMissed
