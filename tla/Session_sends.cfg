SPECIFICATION Spec
CONSTANTS
  Kinds = {"local"}
  MaxMessages = 3
  MaxCalls = 2
  Addresses = 1
CHECK_DEADLOCK FALSE
INVARIANT NoConcurrentSends
