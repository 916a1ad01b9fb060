\* Expected to fail: a backslash in front of a quote or a blank.
SPECIFICATION Spec
CONSTANTS
  Alphabet <- EscapeAlphabet
  MaxLen = 4
  MaxLines = 2
INVARIANT ContextsTell
CHECK_DEADLOCK FALSE
