SPECIFICATION Spec
CONSTANTS
  FragmentSize = 2
  FragmentBufferSize = 5
  Lengths = {1, 3, 4, 6}
  MaxMessages = 3
  WireCap = 3
INVARIANTS
  TypeOK
  WholeMessages
  NothingSwallowed
PROPERTIES
  ImplementsMessageStream
CHECK_DEADLOCK FALSE
