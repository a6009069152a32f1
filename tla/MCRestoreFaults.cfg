SPECIFICATION Spec
CONSTANTS
  v1 = v1
  v2 = v2
  Versions = {v1, v2}
  GameWorlds <- MCGameWorlds
  Torn = Torn
  Absent = Absent
  NoTree = NoTree
  MaxCopies = 3
  MaxCrashes = 0
  MaxFaults = 2
  MaxMeddles = 0
PROPERTIES
  RestoreIsAtomic
