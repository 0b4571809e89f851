SPECIFICATION Spec
CONSTANTS
  Payload <- Payloads
  Stream <- StreamServer
  TxWindow = 2
  RxWindow = 2
  DefaultBuffer = 2
  MaxMessage = 3
  WireCap = 2
  Garbage = Garbage
INVARIANTS
  TypeOK
  IInv
  TransmitRing
  StreamIntegrity
PROPERTIES
  KnowledgeKept
