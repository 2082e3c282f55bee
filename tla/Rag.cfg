SPECIFICATION FairSpec
CONSTANTS
  Docs = {d1, d2, d3}
  Hashes = {h1, h2}
  None = None
  MaxFaults = 2
  MaxRestarts = 1
CHECK_DEADLOCK FALSE
INVARIANTS
  TypeOK
  Counted
  ReadyHasContent
  NothingLeft
PROPERTIES
  Resolved
  KeepsPromise
