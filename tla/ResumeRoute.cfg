SPECIFICATION DriveSpec
CONSTANTS
  Routes = {"route"}
  Marks <- MCMarks
  OwnPath = "own"
  CustomPath = "custom"
  LoopRoute = {TRUE, FALSE}
  Cruising = {1}
  Accel = 1
  Brake = 1
  ParkTicks = {1}
  SupplyTicks = {4}
  CutTicks = {1}
  Progresses <- MCProgresses
  Clerks = {s1}
  Nothing = Nothing
  MaxAssigned = 1
  MaxIncidents = 1
CHECK_DEADLOCK FALSE
INVARIANT TwinsResumeTheirRoute
