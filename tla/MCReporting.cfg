SPECIFICATION Spec
CONSTANTS
  None = None
  MaxLines = 3
  MaxRotations = 1
  Callers = {c1, c2}
  MaxNotices = 3
  Players = {p1}
  Pages = {g1}
  MaxChanges = 2
  MaxFailures = 1
  MaxCuts = 2
  a = a
  b = b
  c = c
  d = d
  e = e
  Pals = {a, b, c, d, e}
  Filters = {f1, f2}
  f1 = f1
  f2 = f2
  DefaultFilter = f1
  Listings <- MCListings
  PageSize = 2
  MaxSnapshots = 2
INVARIANTS RecordedOnce RosterIsWhole
PROPERTIES LinesArrive NoticesAreHandled PagesFollow
CHECK_DEADLOCK FALSE
