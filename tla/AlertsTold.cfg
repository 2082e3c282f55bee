SPECIFICATION FairSpec
CONSTANTS
  DownAfter = 2
  Threshold = 1
  HealCooldown = 2
  Varies = {"container", "reach", "plugin"}
  MaxErrors = 0
  MaxFaults = 0
  DockerMayFail = FALSE
CHECK_DEADLOCK FALSE
PROPERTIES
  MissingReported
  UnreachableReported
  HealsSpaced
  PluginHeals
