SPECIFICATION Spec
CONSTANTS
  Handlers = {h1, h2, h3}
  Main = x
  Dev = xdev
  First = first
  Nobody = nobody
  Faults = {"github", "pdb", "coolify", "busy", "host", "sql", "crash"}
  MaxFaults = 2
SYMMETRY Interchangeable
CHECK_DEADLOCK FALSE
INVARIANTS
  TypeOK
  AcknowledgedKept
  FailedLeavesNothing
  ClaimsDatabase
