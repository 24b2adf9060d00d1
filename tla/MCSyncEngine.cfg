CONSTANTS
  a = a
  Paths = {a}
  Tracked = {a}
  Capacity = 2
  MaxVersion = 2
  RemoteFiles = {a}
  Outcomes = {"success", "conflict", "offline", "error"}
  MountEnds = {"unmount", "failure"}
SPECIFICATION FairSpec
INVARIANTS TypeOK EditsAccountedFor ProtectionExact FinalSyncLeavesNothing
PROPERTIES
  ImplementsWriteBack
  ProtectionReleasedByUpload
  WorkerTerminates
  
CHECK_DEADLOCK FALSE
