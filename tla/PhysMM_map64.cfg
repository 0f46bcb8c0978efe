SPECIFICATION Spec
CONSTANTS
  c1 = c1
  c2 = c2
  c3 = c3
  NoBlock = NoBlock
  Clients = {c1, c2, c3}
  MapSize = 8
  Reserved <- Reserved64
  VMBase = 1000
  WrapPages = 1048576
  MaxRange = 4
  MaxWild = 2
SYMMETRY ClientSymmetry
INVARIANTS
  TypeOK
  UsedCountExact
  Accounting
  BlocksDisjoint
  AtMostOnePast
  NoSpuriousFailure
