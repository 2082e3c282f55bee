\* Not a run of the project: a message that is lost, a dry run, and a file
\* that cannot be written each hide a problem for good (paas-watchdog:394-409).
SPECIFICATION Spec
CONSTANTS
  Loops = {"autoupdate_sweep"}
  Period <- PeriodDef
  StaleAfter <- StaleDef
  SweepMinDelay = 1
  MaxPass = 0
  MinUp = 2
  Faults = {"send", "dry", "write"}
  MaxFaults = 1
  Apps = {"a"}
  AlwaysOn = {}
  Restarts = TRUE
  RestartCooldownRuns = 2
INVARIANTS
  NobodyInTheDark
