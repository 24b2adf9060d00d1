SPECIFICATION Spec
CHECK_DEADLOCK FALSE
CONSTANTS
  file2 = file2
  file1 = file1
  c2 = c2
  c1 = c1
  Clients = {c1, c2}
  Paths = {file1, file2}
  Opens <- OwnFile
  Operations <- CreatesAndUnlinks
  Refreshes = TRUE
  Pressure = FALSE
  MaxWrites = 3
  MaxBuffers = 4
  MaxClock = 3
INVARIANTS
  TypeOK
  ClosedMeansSaved
