SPECIFICATION Spec
CONSTANTS
  Unmapped = Unmapped
  Idle = Idle
  Width = 2
  Frames = {1, 2, 3, 4, 5, 6}
  Root = 1
  Offset = 100
  Device = {20}
  Starts = {6, 8}
  MaxPages = 3
INVARIANTS
  TablesExclusive
  BacktrackOneShort
PROPERTIES
  ImplementsFlatMap
CHECK_DEADLOCK FALSE
