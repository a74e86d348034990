SPECIFICATION FairSpec
CONSTANTS
  Commands = {1, 2}
  Packets = {p1, p2}
  Loops = {l1}
  Posts = {}
  Calls = {k1}
  MaxCalls = 1
PROPERTIES
  QueuedCommandsAreDelivered
CHECK_DEADLOCK FALSE
