SPECIFICATION Spec
CONSTANTS
  Names <- MCNames
  Rank <- MCRank
  BufStep = 2
  Letters <- MCLetters
  Digits = {"1"}
  Garbage <- MCGarbage
  Commands <- MCCommands
  Environments <- MCEnvironments
  Users <- MCUsers
  Arguments <- NoArguments
  Directories <- MCDirectories
  FilesIn <- MCFilesIn
  PatternDirs <- MCPatternDirs
  NewNames <- MCNewNames
  MaxMoves = 1
INVARIANTS TypeOK HeapSound NothingLeft FieldsAsRead SourcesAsRead
PROPERTIES PwdTrue CdBack EnvironmentFollows
CHECK_DEADLOCK FALSE
