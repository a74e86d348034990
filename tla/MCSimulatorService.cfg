SPECIFICATION FairSpec
CONSTANTS
  u1 = u1
  l1 = l1
  Uids <- OneUid
  FirstLoops <- OneLoop
  FirstMonitor = m1
  Calls = {k1, k2}
  Monitors = {m1, m2}
  Loops = {l1, l2, l3, l4}
  None = None
  MaxCalls = 2
  MaxStuck = 1
INVARIANTS
  RunningTwinHasALoop
PROPERTIES
  StoppedLoopsEnd
  MonitorsEnd
  StopReturns
CHECK_DEADLOCK FALSE
