SPECIFICATION DownloadSpec
CONSTANTS
  Others = {p}
  Self = self
  CacheSize = 2
  WireCap = 1
  MaxSequence = 4
  MaxLevel = 2
INVARIANTS GameStateReceived
CHECK_DEADLOCK FALSE
