SPECIFICATION Spec
CONSTANTS
  Requests = {r1, r2}
  Twins = {}
  Packets <- SmallPackets
  Rejected <- BadPackets
  NoMsgId = NoMsgId
  Commands = {1, 2}
  NoCommand = NoCommand
  Operator = Operator
INVARIANTS
  LoggedCommandsWereDelivered
CHECK_DEADLOCK FALSE
