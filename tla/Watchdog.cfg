\* One app that may be put to sleep, the sweep and the dispatcher, and every
\* fault but a lost message, a dry run and a file that cannot be written.
SPECIFICATION Spec
CONSTANTS
  Loops = {"autoupdate_sweep"}
  Period <- PeriodDef
  StaleAfter <- StaleDef
  SweepMinDelay = 1
  MaxPass = 0
  MinUp = 2
  Faults = {"register", "lookup", "beat", "work", "hang", "apps", "beats", "state"}
  MaxFaults = 1
  Apps = {"a"}
  AlwaysOn = {}
  Restarts = TRUE
  RestartCooldownRuns = 2
INVARIANTS
  TypeOK
  NobodyInTheDark
  OnTime
PROPERTIES
  StartsSpaced
