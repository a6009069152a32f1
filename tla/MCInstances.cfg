SPECIFICATION Spec
CONSTANTS
  e1 = e1
  e2 = e2
  w1 = w1
  w2 = w2
  c1 = c1
  c2 = c2
  Consoles <- MCConsoles
  Targets <- MCTargets
  Installs = {e1, e2}
  Install <- MCInstall
  Ports <- MCPorts
  Arguments <- MCArguments
  None = None
  MaxEvents = 3
INVARIANTS
  ClaimsStand
  NoSharedServer
SYMMETRY MCSymmetry
CHECK_DEADLOCK FALSE
