SPECIFICATION Spec
CHECK_DEADLOCK FALSE
CONSTANTS
  file2 = file2
  file1 = file1
  c2 = c2
  c1 = c1
  Clients = {c1, c2}
  Paths = {file1, file2}
  Opens <- OneShared
  Operations <- RenamesAndTruncates
  Refreshes = FALSE
  Pressure = TRUE
  MaxWrites = 1
  MaxBuffers = 2
  MaxClock = 2
INVARIANTS
  UnsavedIsExplained
