SPECIFICATION MCSpec
CONSTANTS
  Instances = {i1, i2}
  Tasks = {t1}
  Fetches = {f1}
  MaxOps = 3
  MaxCloses = 1
  None = None
  Peers = {"a", "b", "c"}
  Routes <- SomeRoutes
  MaxFeedSize = 3
  Window = 2
  MaxMessages = 4
  Nobody = Nobody
SYMMETRY Symmetric
INVARIANTS TypeOK UpToDate NoneHangs ViewsAgree GesturesEnd
CHECK_DEADLOCK FALSE
