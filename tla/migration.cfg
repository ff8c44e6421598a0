SPECIFICATION Spec
CONSTANTS
  Messages = {m1, m2, m3}
  Instances = {i1, i2}
  Initial = i1
  Updates = {u1, u2}
  Drains = {d1}
  MayGiveUp = FALSE
  None = None
INVARIANTS TypeOK NoneLostOrCopied
PROPERTIES MigratesAll MigrationEnds
CHECK_DEADLOCK FALSE
