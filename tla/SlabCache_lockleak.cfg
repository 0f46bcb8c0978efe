SPECIFICATION Spec
CONSTANTS
  cpu1 = cpu1
  cpu2 = cpu2
  slabs = slabs
  bufctls = bufctls
  small = small
  large = large
  huge = huge
  odd = odd
  f1 = f1
  f2 = f2
  f3 = f3
  f4 = f4
  Nobody = Nobody
  NoBuild = NoBuild
  CPUs = {cpu1, cpu2}
  SlabPool = slabs
  BufctlPool = bufctls
  Compact = {small}
  External = {large, huge, odd}
  Cap <- CapMixed
  Frames = {f1, f2, f3, f4}
  MaxHeld = 2
SYMMETRY Symmetry
CHECK_DEADLOCK FALSE
INVARIANTS
  NoLockLeak
