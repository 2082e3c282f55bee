SPECIFICATION FairSpec
CONSTANTS
  Handlers = {h1, h2}
  Requests = {"off", "deploy"}
  Sweep = TRUE
  AutoEnroll = TRUE
  LabelAttempts = 2
  Faults = {}
  MaxFaults = 0
CHECK_DEADLOCK FALSE
PROPERTIES
  OffRunsContinuously
