SPECIFICATION Spec
CONSTANTS
  Refreshes = {}
  Updates = {u1}
  Sweeps = {s1}
  Tags = {latest, sha}
  NoTag = NoTag
  Free = Free
  LatestTag = latest
  MaxImage = 2
  MaxFaults = 0
  MaxRestarts = 0
  InspectMayFail = FALSE
  AutoEnroll = FALSE
PROPERTIES
  SweepKeepsImage
CHECK_DEADLOCK FALSE
