CONSTANTS
  o1 = o1
  o2 = o2
  Absent = Absent
  Objects <- OneObject
  Text <- OneObject
  Present <- OneObject
  Cached = FALSE
  Operations = {"edit", "remove", "foreign", "revert", "delete", "resolve", "lose", "refresh", "crash"}
  MaxChanges = 3
  MAX_PUT_RETRIES = 2
SPECIFICATION Spec
INVARIANT TypeOK
PROPERTY AgreementIsNoConflict
CHECK_DEADLOCK FALSE
