SPECIFICATION Spec
CONSTANTS
  Tasks = {t1, t2, t3, t4, t5}
  Apps = {a1, web}
  Web = web
  Routing = Routing
  PoolSize = 5
  Conn = Conn
  Nothing = Nothing
  Exit = Exit
  Handlers = {"env"}
  AutoEnroll = FALSE
INVARIANTS
  RecordNeverStops
SYMMETRY Symmetry
CHECK_DEADLOCK FALSE
