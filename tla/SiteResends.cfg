\* Not a run of the project: a hop that fails after the app has carried the
\* request out, which is then sent again (web/server.py:424).
SPECIFICATION Spec
CONSTANTS
  Requests = {r1}
  Editors = {}
  MaxUploads = 0
  MaxEdits = 0
  MaxCrashes = 0
  WakeTries = 2
  GatewayTries = 1
CHECK_DEADLOCK FALSE
PROPERTIES
  AppliedOnce
