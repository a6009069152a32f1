SPECIFICATION MCFairSpec
CONSTANTS
  a = a
  b = b
  Password = pw
  Fields = {pw, port}
  Values = {a, b}
  Worlds = {w1, w2}
  NoValue = NoValue
  NoFile = NoFile
  NoRow = NoRow
  NoWorld = NoWorld
  MaxSaves = 2
  MaxEdits = 1
  MaxCrashes = 1
  MaxFaults = 1
  MaxEvents = 1
  MaxSessions = 1
INVARIANTS
  DraftIsAccepted
  OldSessionsEnd
PROPERTIES
  OnlyOwnEdits
  ReplacedWhenSafe
  ClearedWhenApplied
  DraftIsApplied
