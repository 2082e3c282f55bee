SPECIFICATION FairSpec
CONSTANTS
  Refreshes = {r1}
  Updates = {u1}
  Sweeps = {}
  Tags = {latest}
  NoTag = NoTag
  Free = Free
  LatestTag = latest
  MaxImage = 1
  MaxFaults = 1
  MaxRestarts = 0
  InspectMayFail = FALSE
  AutoEnroll = FALSE
INVARIANTS
  RequestsDoNotOverlap
PROPERTIES
  Answered
CHECK_DEADLOCK FALSE
