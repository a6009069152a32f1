SPECIFICATION Spec
CONSTANTS
  v1 = v1
  v2 = v2
  Versions = {v1, v2}
  GameWorlds <- MCTwoWorlds
  Torn = Torn
  Absent = Absent
  NoTree = NoTree
  MaxCopies = 2
  MaxCrashes = 1
  MaxFaults = 0
  MaxMeddles = 0
INVARIANTS
  SafetyIsOrigin
