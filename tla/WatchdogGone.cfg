\* Not a run of the project: a recovery is announced of what has not
\* recovered (paas-watchdog:400), even without a fault.
SPECIFICATION Spec
CONSTANTS
  Loops = {"autoupdate_sweep"}
  Period <- PeriodDef
  StaleAfter <- StaleDef
  SweepMinDelay = 1
  MaxPass = 0
  MinUp = 2
  Faults = {}
  MaxFaults = 1
  Apps = {"a"}
  AlwaysOn = {}
  Restarts = TRUE
  RestartCooldownRuns = 2
PROPERTIES
  GoneIsGone
