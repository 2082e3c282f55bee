SPECIFICATION Spec
CONSTANTS
  Handlers = {h1, h2}
  Requests = {"on", "publish", "deploy"}
  Sweep = FALSE
  AutoEnroll = TRUE
  LabelAttempts = 2
  Faults = {"restart", "lost"}
  MaxFaults = 1
CHECK_DEADLOCK FALSE
INVARIANTS
  TypeOK
  FrontedFirst
