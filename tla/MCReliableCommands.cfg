SPECIFICATION FairSpec
CONSTANTS
  MaxCommands = 2
  Issues <- MixedIssues
  Replaced <- DvarReplaced
  MaxIssued = 3
  MaxLevel = 2
  WireCap = 1
INVARIANTS
  TypeOK
  Agreement
  KeyAgrees
  PledgesKept
  CommandsBeforeSnapshotInRange
PROPERTIES
  EventuallyAcknowledged
CHECK_DEADLOCK FALSE
