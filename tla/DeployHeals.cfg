SPECIFICATION HealSpec
CONSTANTS
  Refreshes = {}
  Updates = {}
  Sweeps = {s1}
  Tags = {latest}
  NoTag = NoTag
  Free = Free
  LatestTag = latest
  MaxImage = 2
  MaxFaults = 2
  MaxRestarts = 1
  InspectMayFail = TRUE
  AutoEnroll = TRUE
PROPERTIES
  Heals
CHECK_DEADLOCK FALSE
