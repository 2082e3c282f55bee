SPECIFICATION FairSpec
CONSTANTS
  Handlers = {h1}
  Requests = {"on", "off", "publish", "clear", "deploy"}
  Sweep = TRUE
  AutoEnroll = TRUE
  LabelAttempts = 2
  Faults = {"drift", "foreign", "lost", "fail", "unread", "restart"}
  MaxFaults = 1
CHECK_DEADLOCK FALSE
PROPERTIES
  RoutesHeal
  Quiet
