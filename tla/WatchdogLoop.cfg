\* Not a run of the project: a file that cannot be written brings a strike
\* back, and a container is started in two runs one after the other.
SPECIFICATION Spec
CONSTANTS
  Loops = {"autoupdate_sweep"}
  Period <- PeriodDef
  StaleAfter <- StaleDef
  SweepMinDelay = 1
  MaxPass = 0
  MinUp = 2
  Faults = {"write"}
  MaxFaults = 1
  Apps = {"a"}
  AlwaysOn = {}
  Restarts = TRUE
  RestartCooldownRuns = 2
PROPERTIES
  StartsSpaced
