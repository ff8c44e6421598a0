SPECIFICATION MCSpec
CONSTANTS
  Sessions = {s1, s2, s3}
  Malformed = {s3}
  Conns = {c1, c2, c3}
  Requests = {r1, r2}
  MaxChanges = 2
  MaxDrops = 1
  None = None
  Instances = {i1, i2}
  Namesakes = {i1, i2}
  System = System
  Calls = {k1}
  Sockets = 2
  NoOne = NoOne
  Frames = 2
  Window = 2
  MapMax = 2
  Ids = {1, 2, 3}
  MaxArrivals = 5
  MaxClock = 5
SYMMETRY Symmetric
INVARIANTS TypeOK OneLiveConnection SessionFollowsFile HubKnowsIdentity
           DeliveryTypeOK EveryRecipientOnce CountsAgree LimiterBounds
CHECK_DEADLOCK FALSE
