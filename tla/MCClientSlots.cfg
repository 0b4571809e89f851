SPECIFICATION FairSpec
CONSTANTS
  p1 = p1
  p2 = p2
  p3 = p3
  Players = {p1, p2, p3}
  NobodyYet = NobodyYet
  Bot = Bot
  Address <- SharedAddress
  Ports = {1, 2}
  FirstPort <- OnePortEach
  Privileged = {p2, p3}
  Old = {p3}
  MaxClients = 2
  PrivateClients = 1
  QueueSize = 2
  ZombieTime = 1
  QueueTime = 1
  UpdateTime = 3
  SilentTime <- SilentTicks
  TimeoutFrames = 1
  AgeCap = 4
INVARIANTS
  TypeOK
  PacketsReachOwner
  Equipped
  ReservedKept
PROPERTIES
  KeepsItsSlot
  FairQueue
  SilentFreed
