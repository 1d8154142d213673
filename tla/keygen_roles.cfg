CONSTANTS
  Peers = {p1, p2, p3}
  NoPeer = NoPeer
  N = 2
  MaxEvents = 1
  FaultKinds = {}
  MaxFaults = 0
  ProfilesAgree = FALSE
SPECIFICATION Spec
CHECK_DEADLOCK FALSE
SYMMETRY Symmetry

INVARIANTS
  OneRole
