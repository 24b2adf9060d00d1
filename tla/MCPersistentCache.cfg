CONSTANTS
  process1 = process1
  process2 = process2
  key1 = key1
  key2 = key2
  bytes1 = bytes1
  Processes <- MCProcesses
  Keys = {key1, key2}
  Bytes = {bytes1}
  MaxBlobs = 1
  Interval = 2
  MaxPuts = 3
  MaxCrashes = 1
SPECIFICATION Spec
INVARIANTS
  BlobsAreWhole
  MarkerMeansWiped
PROPERTIES
  EvictsOldestOverBudget
  OpenTrims
CHECK_DEADLOCK FALSE
