SPECIFICATION Spec
CONSTANTS
  Handlers = {h1}
  Requests = {"on"}
  Sweep = TRUE
  AutoEnroll = TRUE
  LabelAttempts = 2
  Faults = {}
  MaxFaults = 0
CHECK_DEADLOCK FALSE
INVARIANTS
  FrontedFirst
