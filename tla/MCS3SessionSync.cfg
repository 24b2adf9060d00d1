CONSTANTS
  o1 = o1
  o2 = o2
  Absent = Absent
  Objects <- TwoObjects
  Text <- OneObject
  Present <- TwoObjects
  Cached = FALSE
  Operations = {"edit", "foreign", "revert", "resolve", "lose", "crash"}
  MaxChanges = 4
  MAX_PUT_RETRIES = 3
SPECIFICATION Spec
INVARIANT EditsKept
PROPERTY NothingClobbered
CHECK_DEADLOCK FALSE
