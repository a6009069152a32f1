SPECIFICATION FairSpec
CONSTANTS
  Consoles = {c1}
  Manual = Manual
  Nobody = Nobody
  NoLock = NoLock
  Missing = Missing
  MaxUpdates = 1
  MaxEvents = 0
PROPERTY UpdateRestarts
CHECK_DEADLOCK FALSE
