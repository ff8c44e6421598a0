SPECIFICATION Spec
CONSTANTS
  Messages = {m1}
  Instances = {i1, i2}
  Initial = i1
  Updates = {u1, u2}
  Drains = {}
  MayGiveUp = TRUE
  None = None
PROPERTY UpdateAnswered
CHECK_DEADLOCK FALSE
