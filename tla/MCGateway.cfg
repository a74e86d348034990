SPECIFICATION MCSpec
CONSTANTS
  Requests = {r1, r2}
  Twins = {r2}
  Packets <- SmallPackets
  Rejected <- BadPackets
  NoMsgId = NoMsgId
  Commands = {1, 2}
  NoCommand = NoCommand
  Operator = Operator
  Clients = {c1, c2}
  Topics = {"fleet"}
  Publishers = {p1}
  Heartbeat = heartbeat
  Routes = {"route"}
  Marks <- MCMarks
  OwnPath = "own"
  CustomPath = "custom"
  LoopRoute = {FALSE}
  Cruising = {1}
  Accel = 1
  Brake = 1
  ParkTicks = {1}
  SupplyTicks = {4}
  CutTicks = {1}
  Progresses <- MCProgresses
  Clerks = {s1}
  Nothing = Nothing
  MaxAssigned = 1
  MaxIncidents = 1
INVARIANTS
  TypeOK
  AnswersAreTrue
  NoLateDuplicate
  RegisteredOnce
  CommandsLeaveInOrder
PROPERTIES
  ImplementsLedger
  RequestsSettle
  HubKeepsMoving
  RoutesGetDriven
CHECK_DEADLOCK FALSE
