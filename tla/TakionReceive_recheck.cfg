SPECIFICATION Spec
CONSTANTS
  Size = 4
  PostponeSize = 1
  LastData = 2
  Bang = 0
  AvMax = 1
  QueueMax = 1
CHECK_DEADLOCK FALSE
INVARIANT RecheckGoesThrough
