CONSTANTS
  file1 = file1
  file2 = file2
  Files = {file1, file2}
  Tracked = {file1}
  PathsAgree = TRUE
  MaxRetries = 1
  MaxEdits = 2
  MaxForeign = 1
  MaxTroubles = 1
SPECIFICATION Spec
INVARIANTS
  TypeOK
  EditsKept
  RemoteKept
  CleanIsPushed
  RebaseIsFinished
PROPERTIES
  
  SyncAnswers
CHECK_DEADLOCK FALSE
