SPECIFICATION Spec
CONSTANTS
  Keys = {k1, k2, k3}
  Pids = {p1}
  NoKey = NoKey
  Free = Free
  RestoreJob = RestoreJob
SYMMETRY Symmetry
PROPERTIES
  ExpiredStopsNothing
