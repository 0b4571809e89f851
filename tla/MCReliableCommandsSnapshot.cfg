SPECIFICATION Spec
CONSTANTS
  MaxCommands = 3
  Issues <- FirmIssues
  Replaced <- DvarReplaced
  MaxIssued = 4
  MaxLevel = 2
  WireCap = 1
INVARIANTS
  CommandsBeforeSnapshot
CHECK_DEADLOCK FALSE
