\* Expected to fail: $? on the right of &&.
SPECIFICATION Spec
CONSTANTS
  Nodes <- MCNodes
  Lines <- MCLines
  Codes = {0, 1}
  Statuses <- MCStatuses
  MaxFd = 5
  MaxLines = 1
INVARIANT SeesLast
CHECK_DEADLOCK FALSE
