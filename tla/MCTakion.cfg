SPECIFICATION MCSpec
CONSTANTS
  Size = 2
  PostponeSize = 1
  LastData = 3
  Bang = 1
  AvMax = 3
  QueueMax = 2
  NumberSpace = 16
  AddWraps = TRUE
  SizeExp = 2
  MaxPos = 20
  StartPos = 13
  Strategies = {"BEGIN", "END"}
  NoPacket = NoPacket
  Packets = {p1, p2, p3}
  Senders = {s1, s2}
  Capacity = 2
  TriesMax = 1
  DueAge = 1
  FirstPos = 14
  LastPos = 16
  Length = 8
CHECK_DEADLOCK FALSE
INVARIANTS DrainedBeforeLeaving QueueIsSound NothingVanishes
PROPERTIES AvInArrivalOrder EveryCloseReturns ImplementsWindow Drains
