\* Expected to fail: a quoted word followed by an operator.
SPECIFICATION Spec
CONSTANTS
  Alphabet <- QuoteAlphabet
  MaxLen = 4
  MaxLines = 2
INVARIANT QuotesAreExact
CHECK_DEADLOCK FALSE
