SPECIFICATION ListSpec
CONSTANTS
  Heads = {h1}
  Elems = {e1, e2}
  Null = Null
CHECK_DEADLOCK FALSE
INVARIANT TailInserted
