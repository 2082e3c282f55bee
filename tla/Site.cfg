SPECIFICATION Spec
CONSTANTS
  Requests = {r1}
  Editors = {e1}
  MaxUploads = 2
  MaxEdits = 1
  MaxCrashes = 1
  WakeTries = 1
  GatewayTries = 1
CHECK_DEADLOCK FALSE
INVARIANTS
  NeverLost
  RepeatedOnlyInDoubt
PROPERTIES
  SettingsSettle
  KeepsPromise
