CONSTANTS
  page1 = page1
  Pages = {page1}
  Present = {page1}
  PathsAgree = FALSE
  MaxEdits = 1
  MaxForeign = 1
  MaxRemovals = 0
  MaxFailures = 0
  MaxCrashes = 0
SPECIFICATION Spec
PROPERTIES
  EditsKept
CHECK_DEADLOCK FALSE
