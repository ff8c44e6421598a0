SPECIFICATION Spec
CONSTANTS
  Messages = {m1}
  Instances = {i1}
  Sockets = {s1}
  Pulls = {p1}
  None = None
  MaxQueueDepth = 2
  PullLimits = {2}
  MaxCrashes = 1
  MaxFlushes = 0
INVARIANT AtLeastOnce
CHECK_DEADLOCK FALSE
