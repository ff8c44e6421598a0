SPECIFICATION Spec
CONSTANTS
  Messages = {m1, m2}
  Instances = {i1}
  Sockets = {s1}
  Pulls = {p1, p2}
  None = None
  MaxQueueDepth = 1
  PullLimits = {1}
  MaxCrashes = 0
  MaxFlushes = 0
PROPERTIES FlushDrains CapRestored
CHECK_DEADLOCK FALSE
