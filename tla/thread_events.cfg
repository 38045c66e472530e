SPECIFICATION FairSpec
CONSTANTS
  m = m
  Conns = {1, 2, 3}
  None = None
  Ids = {m}
  Field = Field
  MaxVersion = 2
  QueueMax = 1
  MaxPerSession = 2
  MaxFails = 1
INVARIANTS TypeOK ServedByOne InStep
PROPERTIES NoGap CatchesUp
CHECK_DEADLOCK FALSE
