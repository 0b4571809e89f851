SPECIFICATION FairSpec
CONSTANTS
  Payload <- Payloads
  Stream <- StreamEven
  TxWindow = 3
  RxWindow = 2
  DefaultBuffer = 3
  MaxMessage = 2
  WireCap = 1
  Garbage = Garbage
INVARIANTS
  Counters
  NoStandoff
PROPERTIES
  ImplementsStream
  EventuallyConfirmed
