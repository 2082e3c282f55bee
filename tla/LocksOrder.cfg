SPECIFICATION Spec
CONSTANTS
  Tasks = {t1, t2}
  Apps = {a1, web}
  Web = web
  Routing = Routing
  PoolSize = 3
  Conn = Conn
  Nothing = Nothing
  Exit = Exit
  Handlers = {"refresh", "code", "frontend", "env", "sleep", "domains", "redirects", "routes", "delete", "db", "sweep", "reconcile"}
  AutoEnroll = TRUE
INVARIANTS
  TypeOK
  NeverStuck
PROPERTIES
  KeepsOrder
SYMMETRY Symmetry
CHECK_DEADLOCK FALSE
