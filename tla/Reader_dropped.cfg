\* Expected to fail: a body without lines, a command killed before.
SPECIFICATION Spec
CONSTANTS
  Lines <- HeredocLines
  ExecCodes = {0, 130}
  MaxReads = 3
  MaxSigs = 0
PROPERTY DroppedByUser
CHECK_DEADLOCK FALSE
