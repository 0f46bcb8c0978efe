SPECIFICATION Spec
CONSTANTS
  c1 = c1
  c2 = c2
  c3 = c3
  NoBlock = NoBlock
  Clients = {c1, c2}
  MapSize = 8
  Reserved <- ReservedLow
  VMBase = 1000
  WrapPages = 1048576
  MaxRange = 4
  MaxWild = 2
SYMMETRY ClientSymmetry
INVARIANTS
  KfreeFindsCache
