SPECIFICATION MCSpec
CONSTANTS
  Times <- SmallTimes
  Speeds <- SmallSpeeds
  Positions <- SmallPositions
  IdleSpeed = 0
  StartSpeed = 5
  SpeedLimit = 4
  EndTimeout = 2
  GapTimeout = 3
  MinTripTime = 2
  MinTripDist = 1
  DriftDist = 2
  MaxLocations = 4
  Jobs = {j1, j2}
  Arrivals <- MCArrivals
  MaxPackets = 3
  Observed <- MCObserved
  StopSpeed = 3
  StopTime = 1
  StableDist = 2
  LongIdle = 2
  ScoreStart = 100
  ScoreMin = 0
  OverspeedPenalty = 5
  IdlePenalty = 2
  Multipliers = {1, 2, 4, 8}
  MaxPoints = 2
  MaxTrack = 4
INVARIANTS
  NothingLeftOpen
  RebuiltHistory
  RebuildMergesLive
  SummariesAgree
PROPERTIES
  JobsRespectTheEngine
CHECK_DEADLOCK FALSE
