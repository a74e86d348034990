SPECIFICATION MCSpec
CONSTANTS
  Commands = {1}
  Packets = {p1, p2}
  Loops = {l1, l2}
  Posts = {h1}
  Calls = {k1, k2}
  MaxCalls = 3
  Busy = 2
INVARIANTS
  RowsWellFormed
  ExecutedOncePerLoop
  OneVerdictPerLoop
PROPERTIES
  DeletedStaysDeleted
  NoLateDelivery
  TasksEnd
CHECK_DEADLOCK FALSE
