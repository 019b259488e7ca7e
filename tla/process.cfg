SPECIFICATION ProcessSpec
CONSTANTS
  Confirmations = 2
  BatchSize = 2
  WordRange = 32
  MaxReorg = 1
  MaxHeight = 3
  MaxBranches = 1
  MaxFaults = 2
  Limit = 2
  DropCount = 1
  MaxLogs = 3
  LogRequests = {2}
PROPERTIES BchBlocksInOrder SbchEventsInOrder ScansCatchUp
INVARIANTS TypeOK HandledBlocksAreFinal NewestLogsKept
