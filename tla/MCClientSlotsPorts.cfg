SPECIFICATION MovingSpec
CONSTANTS
  p1 = p1
  p2 = p2
  p3 = p3
  Players = {p1}
  NobodyYet = NobodyYet
  Bot = Bot
  Address <- SharedAddress
  Ports = {1, 2}
  FirstPort <- OnePortEach
  Privileged = {}
  Old = {}
  MaxClients = 1
  PrivateClients = 0
  QueueSize = 2
  ZombieTime = 1
  QueueTime = 1
  UpdateTime = 3
  SilentTime <- SilentTicks
  TimeoutFrames = 1
  AgeCap = 4
INVARIANT
  OnePort
