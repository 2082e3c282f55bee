SPECIFICATION Spec
CONSTANTS
  Refreshes = {r1}
  Updates = {}
  Sweeps = {s1}
  Tags = {latest}
  NoTag = NoTag
  Free = Free
  LatestTag = latest
  MaxImage = 2
  MaxFaults = 1
  MaxRestarts = 1
  InspectMayFail = FALSE
  AutoEnroll = FALSE
INVARIANTS
  TypeOK
  SuccessIsLive
  DigestNeverAhead
CHECK_DEADLOCK FALSE
