SPECIFICATION MCSpec
CONSTANTS
  Jobs = {j1, j2, j3}
  Times <- MCTimes
  Packets <- MCPackets
  Configs <- MCConfigs
  NoConfig = NoConfig
  NoReading = NoReading
  MaxRunning = 2
  MaxOps = 1
  Requests = {r1, r2, r3}
  Asks <- MCAsks
  Trips = {"t1", "t2"}
  NoTrip = NoTrip
  MaxAttempts = 2
  MaxRestarts = 1
CHECK_DEADLOCK FALSE
SYMMETRY Sym
INVARIANTS MCTypeOK EverythingReported EngineEventsAreNotified SpacedWhenOrderly
  NoStampede
