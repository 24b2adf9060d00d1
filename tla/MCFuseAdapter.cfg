CONSTANTS
  name1 = name1
  name2 = name2
  request1 = request1
  request2 = request2
  Names <- MCNames
  Tasks <- MCTasks
  MaxDepth = 2
  MaxChanges = 3
  MaxRemote = 1
SPECIFICATION Spec
SYMMETRY MCSymmetry
INVARIANTS
  MapsAgree
  NamesResolve
CHECK_DEADLOCK FALSE
