SPECIFICATION MCSpec
CONSTANTS
  Vehicles = {1, 2}
  Drivers = {"d1", "d2"}
  Packets <- MCPackets
  Assignments <- MCAssignments
  OnTrip = {1}
  Clock = {643}
  Registered <- MCRegistered
  MaxJobs = 2
  MaxFailures = 1
  Cars = {1, 2}
  Staff = {"d1", "d2"}
  Desks = {k1, k2}
  NoTime = NoTime
  MaxDuties = 3
  MaxDrivers = 2
  MaxReleases = 1
  Routes = {"route"}
  Marks <- MCShortMarks
  OwnPath = "own"
  CustomPath = "custom"
  LoopRoute = {TRUE, FALSE}
  Cruising = {1}
  Accel = 1
  Brake = 1
  ParkTicks = {1}
  SupplyTicks = {1}
  CutTicks = {1}
  Progresses <- MCProgresses
  Clerks = {s1, s2}
  Nothing = Nothing
  MaxAssigned = 2
  MaxIncidents = 1
CHECK_DEADLOCK FALSE
INVARIANTS MCTypeOK FiguresAddUp DutiesDisjoint RoutesStayApart
