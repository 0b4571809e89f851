SPECIFICATION CollidingSpec
CONSTANTS
  FragmentSize = 2
  FragmentBufferSize = 5
  Lengths = {1, 3, 4}
  MaxMessages = 3
  WireCap = 3
INVARIANTS
  WholeMessages
CHECK_DEADLOCK FALSE
