SPECIFICATION Spec
CONSTANTS
  Instances = {i1}
  Sockets = {s1, s2}
  Updates = {}
  Removals = {}
  None = None
INVARIANT ConnectedIsOnline
CHECK_DEADLOCK FALSE
