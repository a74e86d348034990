SPECIFICATION Spec
CONSTANTS
  Times <- SmallTimes
  Speeds <- FastSpeeds
  Positions <- SmallPositions
  IdleSpeed = 0
  StartSpeed = 5
  SpeedLimit = 4
  EndTimeout = 2
  GapTimeout = 3
  MinTripTime = 2
  MinTripDist = 1
  DriftDist = 2
  MaxLocations = 3
PROPERTIES
  SpeedStartsTrip
CHECK_DEADLOCK FALSE
