SPECIFICATION Spec
CONSTANTS
  Messages = {m1, m2}
  Instances = {i1}
  Sockets = {s1}
  Pulls = {p1}
  None = None
  MaxQueueDepth = 1
  PullLimits = {2}
  MaxCrashes = 1
  MaxFlushes = 1
SYMMETRY Symmetric
VIEW WithoutDepth
INVARIANTS TypeOK SingleCopy NothingLost ProcessingOwned OnceUntilReplay OverflowBounded
PROPERTY ImplementsMailbox
CHECK_DEADLOCK FALSE
