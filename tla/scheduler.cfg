SPECIFICATION Spec
CONSTANTS
  Schedules = {s1, s2}
  Polls = {p1}
  Requests = {q1}
  Startup = Startup
  Templates <- Twice
  Values = {1}
  None = None
  MaxTime = 2
  MaxMishaps = 1
INVARIANTS TypeOK ListedArePending CountsFires
PROPERTIES FiresWhenDue DueIsHandled
CHECK_DEADLOCK FALSE
