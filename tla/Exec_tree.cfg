SPECIFICATION LiveSpec
CONSTANTS
  Nodes <- MCNodes
  Lines <- MCLines
  Codes = {0, 1}
  Statuses <- MCStatuses
  MaxFd = 5
  MaxLines = 2
INVARIANTS TypeOK Restored SeesLastElsewhere RunsAsWritten
PROPERTIES Returns
CHECK_DEADLOCK FALSE
