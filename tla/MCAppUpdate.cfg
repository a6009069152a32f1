SPECIFICATION FairSpec
CONSTANTS
  Consoles = {c1, c2}
  Manual = Manual
  Nobody = Nobody
  NoLock = NoLock
  Missing = Missing
  MaxUpdates = 2
  MaxEvents = 2
INVARIANTS
  NoConsoleWhileMoving
  InstalledIsWhole
  PreviousIsKept
PROPERTIES
  InterruptedIsOver
  CompletedRuns
  ConsoleReturns
CHECK_DEADLOCK FALSE
