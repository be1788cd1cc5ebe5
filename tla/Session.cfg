SPECIFICATION MCSpec
CONSTANTS
  Kinds = {"local", "psn", "regist", "cloud"}
  MaxMessages = 3
  MaxCalls = 2
  Addresses = 2
  MtuMin = 3
  MtuMax = 7
  PathMtus = {2, 3, 6, 7}
  Retries = 2
  Pings = 1
  PsnWrapper = 1
CHECK_DEADLOCK FALSE
INVARIANTS QuitIsLast PinsAnswerRequests MtuIsExact
PROPERTIES StopEndsSession QueueIsSent
