SPECIFICATION Spec
CONSTANTS
  Handlers = {h1, h2}
  Main = x
  Dev = xdev
  First = first
  Nobody = nobody
  Faults = {}
  MaxFaults = 0
SYMMETRY Interchangeable
CHECK_DEADLOCK FALSE
INVARIANTS
  OneActiveKey
