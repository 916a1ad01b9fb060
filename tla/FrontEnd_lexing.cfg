SPECIFICATION Spec
CONSTANTS
  Alphabet <- LexingAlphabet
  MaxLen = 5
  MaxLines = 3
INVARIANTS TypeOK AtEndOfBuffer QuoteIsInnermost CompleteIsNormal ContextsTell NothingLost
CHECK_DEADLOCK FALSE
