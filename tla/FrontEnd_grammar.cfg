SPECIFICATION Spec
CONSTANTS
  Alphabet <- GrammarAlphabet
  MaxLen = 6
  MaxLines = 1
INVARIANTS GrammarIsParsed AcceptedIsGrammar
CHECK_DEADLOCK FALSE
