SPECIFICATION Spec
CONSTANTS
  DownAfter = 2
  Threshold = 1
  HealCooldown = 1
  Varies = {"sleep", "routers"}
  MaxErrors = 1
  MaxFaults = 1
  DockerMayFail = TRUE
CHECK_DEADLOCK FALSE
INVARIANTS
  TypeOK
  MissingDebounced
  OnlyEdges
  ReportedOnce
