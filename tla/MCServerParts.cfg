SPECIFICATION Spec
CONSTANTS
  PacketBackup = 3
  Margin = 1
  RingSize <- RingSizes
  Shown <- OneIsShown
  OthersShown <- OthersAreShown
  Recorded = TRUE
  SnapshotMessages = 6
  Others = {"p"}
  Self = "self"
  CacheSize = 2
  MaxSequence = 4
  Address = {"a", "b", "c"}
  Hash <- OneHash
  MaxBuckets = 2
  Bursts = {2, 4}
  Period = 2
  IntRange = 30
  CharRange = 16
  Steps = {6, 9}
  QueryTime = 16
  FloodLimit = 2
  Quiet = 2
  CommandRing = 2
  MaxIssued = 4
  CommandTime = 4
  File = {"a", "b", "empty", "old"}
  SizeOf <- FileSize
  Active = {"a", "b", "empty"}
  BlockSizes = {1, 2}
  Redirects = TRUE
  MaxInt = 4
  HeadSize = 2
  FragmentSize = 3
  DefaultSize = 4
  RxWindow = 2
  Lengths = {0, 2, 6}
  Misread = 3
  FramingMessages = 3
  WireCap = 1
  MaxLevel = 2
INVARIANTS
  TypeOK
  ShownIsBuilt
  BaseAgrees
  NamesCurrent
  AcknowledgeBacked
  ChainsSound
  AnswersLimited
  CommandsInOrder
  FloodLimited
  HandleKept
  PartSent
  MessagesWhole
PROPERTIES
  PatientAnswered
  EventuallyUpToDate
CHECK_DEADLOCK FALSE
