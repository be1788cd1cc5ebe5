SPECIFICATION FairSpec
CONSTANTS
  NumberSpace = 8
  AddWraps = TRUE
  Capacity = 2
  TriesMax = 1
  DueAge = 1
  FirstPos = 6
  LastPos = 7
  Senders = {s1}
CHECK_DEADLOCK FALSE
PROPERTY FiniReturns
