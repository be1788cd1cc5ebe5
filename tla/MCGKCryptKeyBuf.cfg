SPECIFICATION MCSpec
CONSTANTS
  ChunkSize = 2
  Chunks = 2
  Readers = {r1, r2}
  MaxPos = 6
  MaxRead = 2
  Junk = Junk
  NumberSpace = 8
  AddWraps = TRUE
  LastPos = 40
INVARIANTS ReadsAreKeyStream NoMissedWakeup AcceptsNearPackets
PROPERTIES GeneratorAnswers
CHECK_DEADLOCK FALSE
