SPECIFICATION SpecLimiter
CONSTANTS
  Frames = 2
  Window = 2
  MapMax = 1
  Ids = {1}
  MaxArrivals = 4
  MaxClock = 5
INVARIANT AtMostPerWindow
CHECK_DEADLOCK FALSE
