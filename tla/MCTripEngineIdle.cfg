SPECIFICATION Spec
CONSTANTS
  Times <- SmallTimes
  Speeds <- SmallSpeeds
  Positions <- SmallPositions
  IdleSpeed = 0
  StartSpeed = 5
  SpeedLimit = 4
  EndTimeout = 2
  GapTimeout = 3
  MinTripTime = 2
  MinTripDist = 1
  DriftDist = 2
  RouteReports = {FALSE}
  MaxLocations = 4
PROPERTIES
  MovingVehicleKeepsItsTrip
CHECK_DEADLOCK FALSE
