SPECIFICATION Spec
CONSTANTS
  Handlers = {h1, h2}
  Main = x
  Dev = xdev
  First = first
  Nobody = nobody
  Faults = {"busy"}
  MaxFaults = 1
SYMMETRY Interchangeable
CHECK_DEADLOCK FALSE
INVARIANTS
  Deletable
