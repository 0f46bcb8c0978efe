SPECIFICATION Spec
CONSTANTS
  mem = mem
  port = port
  c1 = c1
  c2 = c2
  c3 = c3
  s1 = s1
  s2 = s2
  s3 = s3
  s4 = s4
  None = None
  Clients = {c1, c2}
  Slots = {s1, s2}
  MemRoot = mem
  PortRoot = port
  Limit <- LimitBoth
  Requests <- RequestsWindow
  PageSize = 2
SYMMETRY Symmetry
CHECK_DEADLOCK FALSE
INVARIANT NestedKept
