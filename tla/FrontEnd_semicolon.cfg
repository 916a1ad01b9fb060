\* Expected to fail: a semicolon followed by an operator.
SPECIFICATION Spec
CONSTANTS
  Alphabet <- GrammarAlphabet
  MaxLen = 4
  MaxLines = 2
INVARIANT OnlyGrammarIsAccepted
CHECK_DEADLOCK FALSE
