SPECIFICATION MCSpec
CONSTANTS
  Parts = {"pacing", "cloud", "catalog", "backend", "hosts", "sync", "controls", "outputs", "send", "video", "audio", "native", "app"}
  Period = 4
  Slack = 1
  Refill = 1
  Gaps = {0, 4, 30}
  Cushions = {0, 20}
  Intervals = {2, 11}
  Centers = {"a", "b"}
  Rtts = {10, 60, 90}
  RttMax = 80
  LockTries = 2
  WaitDefault = 3
  WaitMax = 5
  Estimates = {0, 1, 2, 4}
  CatalogCalls = {1, 2, 3}
  CallsFor <- CatalogKindsOfCalls
  Categories = 2
  Pages = 2
  Products = {1}
  Locales = {1, 2}
  Sessions = {1, 2}
  BackConsoles = {"a", "b"}
  TriesMax = 1
  HostConsoles = {"a", "b"}
  Ps4s = {"b"}
  Addresses <- HostAddresses
  HostAt <- HostPlaces
  Reports <- HostReports
  Entered = {"b1"}
  HostDevices <- HostDevicesListed
  IdsMax = 2
  QueueMax = 1
  ActsMax = 2
  Switches <- HostProfiles
  SyncDevices = {"a", "b"}
  TimeMax = 3
  EditsMax = 2
  Tolerance = 1
  Retention = 1
  Keys = {"left", "l2"}
  PadButtons = {"right", "mic"}
  Fingers = {1}
  Shortcut = {"right"}
  CtlIncrement = 2
  Width = 3
  IdSpace = 128
  GrabsMax = 2
  EventsMax = 6
  MicSize = 2
  MicReads = {1, 5}
  BufferSize = 2
  FrameSize = 2
  Unmuted = {TRUE, FALSE}
  Strengths = {0, 4}
  MinStrength = 1
  PerRumble = 3
  StepsMax = 5
  Tries = 3
  Threads = {"feedback", "congestion"}
  Sizes = {3, 16}
  PlainSize = 3
  Block = 8
  PacketsMax = 3
  FrameQueueCapacity = 2
  CodecsMax = 2
  FramesMax = 2
  ChunksCount = 2
  ChunkSize = 2
  BytesMax = 9
  NativeCalls = {"session", "cloud", "service", "regist", "ping"}
  CallsMax = 2
  AppKinds = {"psn", "local"}
  ResumesMax = 2
  ShutdownsMax = 2
INVARIANTS
  FastestIsChosen
  CatalogIsSound
  ShownInOrder
  DesktopIsSound
  ActsOnWhatIsShown
  ControlsAndOutputs
  AndroidGivesBack
  AndroidPlays
  PacketsAreAcceptable
PROPERTIES
  EveryFlowEnds
CHECK_DEADLOCK FALSE
