SPECIFICATION FairSpec
CONSTANTS
  v1 = v1
  v2 = v2
  Versions = {v1, v2}
  GameWorlds <- MCTwoWorlds
  Torn = Torn
  Absent = Absent
  NoTree = NoTree
  MaxCopies = 2
  MaxCrashes = 2
  MaxFaults = 1
  MaxMeddles = 1
INVARIANTS
  UntouchedUntilSafe
  NothingLost
PROPERTIES
  CompletedIsSource
  RestoreIsOver
