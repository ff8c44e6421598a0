SPECIFICATION Spec
CONSTANTS
  TopicNames = {t1}
  ProjectTopic = t1
  Instances = {i1, i2}
  Requests = {q1, q2}
  Startup = Startup
  None = None
INVARIANTS TypeOK IndexesAgree NoTimerWhileSubscribed
PROPERTIES TimerSparesSubscribers LastLeaverExpires
CHECK_DEADLOCK FALSE
