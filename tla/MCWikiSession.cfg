CONSTANTS
  page1 = page1
  Pages = {page1}
  Present = {page1}
  PathsAgree = TRUE
  MaxEdits = 2
  MaxForeign = 1
  MaxRemovals = 1
  MaxFailures = 1
  MaxCrashes = 1
SPECIFICATION Spec
INVARIANTS
  TypeOK
  
  KnownIsLocal
PROPERTIES
  EditsKept
  RemoteKept
CHECK_DEADLOCK FALSE
