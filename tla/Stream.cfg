SPECIFICATION MCSpec
CONSTANTS
  Reasons = {shutdown, other}
  NoReason = NoReason
  VideoSpace = 6
  VideoLayouts <- MCVideoLayouts
  AudioLayouts <- MCAudioLayouts
  AudioStart <- MCAudioStart
  MaxFrame = 7
  RefSize = 2
  CounterSpace = 1000
  AudioSpace = 16
  PlainLast = 18
  PlainFec = 2
  AudioLosses = 3
  Buttons = {"cross", "l2"}
  HistorySize = 3
  ChangesMax = 3
  LossesMax = 2
  StatsSpace = 6
  StatsLast = 3
  DiffSpace = 1000
  LossMax = 1
  LossScale = 2
  Generations <- MCGenerations
  GenerationsMax = 1
  ReportsMax = 2
INVARIANTS LifetimesHold InfoIsNotMissed SendersStopFirst FramesInOrder LostFramesAreReported ReferencesWereKept FramesArePlayed LossAddsUp
PROPERTIES StopEndsRun ConsoleFollows
CHECK_DEADLOCK FALSE
