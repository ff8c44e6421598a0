SPECIFICATION Spec
CONSTANTS
  Instances = {i1, i2}
  Sockets = {s1, s2}
  Updates = {u1}
  Removals = {r1}
  None = None
SYMMETRY Symmetric
INVARIANTS TypeOK  OnlineIsShown
CHECK_DEADLOCK FALSE
