\* Not a run of the project: the redeploys of a sweep fail and its repairs
\* beat all the same (main.py:428, against main.py:440).
SPECIFICATION Spec
CONSTANTS
  Loops = {"autoupdate_sweep"}
  Period <- PeriodDef
  StaleAfter <- StaleDef
  SweepMinDelay = 1
  MaxPass = 0
  MinUp = 2
  Faults = {"work"}
  MaxFaults = 1
  Apps = {"a"}
  AlwaysOn = {}
  Restarts = TRUE
  RestartCooldownRuns = 2
PROPERTIES
  BeatIsWhole
