\* Not a run of the project: two kills between the renames of two uploads, and
\* the third upload removes the last whole bundle (app/frontends.py:97, 124).
SPECIFICATION Spec
CONSTANTS
  Requests = {}
  Editors = {}
  MaxUploads = 3
  MaxEdits = 0
  MaxCrashes = 2
  WakeTries = 2
  GatewayTries = 1
CHECK_DEADLOCK FALSE
INVARIANTS
  NeverLost
