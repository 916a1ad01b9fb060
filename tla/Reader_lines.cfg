SPECIFICATION LiveSpec
CONSTANTS
  Lines <- MCLines
  ExecCodes = {0, 130}
  MaxReads = 5
  MaxSigs = 1
INVARIANTS TypeOK BufferIsRead InterruptCancels OnlyInterruptCancels InputSplit
PROPERTIES EofEnds
CHECK_DEADLOCK FALSE
