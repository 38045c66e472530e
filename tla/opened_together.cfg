SPECIFICATION Spec
CONSTANTS
  m = m
  Conns = {1, 2}
  None = None
  Ids = {m}
  Field = Field
  MaxVersion = 2
  QueueMax = 1
  MaxPerSession = 2
  MaxFails = 0
INVARIANT NothingLost
CHECK_DEADLOCK FALSE
