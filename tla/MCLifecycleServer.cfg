SPECIFICATION FairSpec
CONSTANTS
  Keys = {k1, k2}
  Pids = {p1, p2}
  NoKey = NoKey
  Free = Free
  RestoreJob = RestoreJob
INVARIANTS
  OneServer
PROPERTIES
  LaunchIsSafe
  ForceStopIsBound
  OperationsEnd
