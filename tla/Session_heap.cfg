SPECIFICATION Spec
CONSTANTS
  Names <- MCNames
  Rank <- MCRank
  BufStep = 2
  Letters <- MCLetters
  Digits = {"1"}
  Garbage <- MCGarbage
  Commands <- MCEscapes
  Environments <- MCEnvironments
  Users <- MCUsers
  Arguments <- NoArguments
  Directories <- MCDirectories
  FilesIn <- MCFilesIn
  PatternDirs <- MCPatternDirs
  NewNames <- MCNewNames
  MaxMoves = 0
INVARIANT HeapSound
CHECK_DEADLOCK FALSE
