SPECIFICATION ContentSpec
CONSTANTS
  Others = {}
  ApproveCount = 0
  DisableRetry = FALSE
  MaxCommands = 1
  MaxAsks = 2
PROPERTIES
  NoStaleSnapshot
