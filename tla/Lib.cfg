SPECIFICATION Spec
CONSTANTS
  Heads = {h1, h2}
  Elems = {e1, e2, e3}
  Null = Null
  Sizes = {2, 4, 8}
  Compact = {2}
  Objects = {1, 2}
  Requests = {0, 2, 3, 8, 9}
  Top = 5
  Bytes = {0, 1, 255}
  Chars = {0, 1, 2, 511}
  FillSize = 3
  CharBits = 4
  ShortBits = 5
  IntBits = 6
  LongBits = 8
  Jobs <- AllJobs
INVARIANTS
  BackLinks
  LoopVisits
  MovedBlocksLost
  BlocksFit
  CallsExact
  CountExact
  FormatsAsC
PROPERTIES
  ImplementsLists
CHECK_DEADLOCK FALSE
