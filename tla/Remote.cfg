SPECIFICATION MCSpec
CONSTANTS
  Repeats = 1
  ComingMax = 2
  Cancels = 1
  Offered = {lan, wan}
  RandomSocks = {"r1"}
  Extras = 1
  Tries = 1
  Arrivals = 3
  Ports = {2000, 65522}
  Senders = {"session", "ctrl"}
  Room = 2
  TriesMax = 2
  MessagesMax = 3
  RegistTries = 3
  AddressesMax = 3
  ReadsMax = 2
  Hosts = {"a", "b", "c"}
  HostsMax = 3
  DropPings = 1
  PingsMax = 4
INVARIANTS
  OffersUsedOnce
  OneSocketIsLeft
  ListIsCurrent
PROPERTIES
  EveryCallReturns
CHECK_DEADLOCK FALSE
