CONSTANTS
  Peers = {p1, p2, p3}
  NoPeer = NoPeer
  N = 2
  MaxEvents = 2
  FaultKinds = {}
  MaxFaults = 0
  ProfilesAgree = TRUE
SPECIFICATION Spec
CHECK_DEADLOCK FALSE
SYMMETRY Symmetry
CONSTRAINT FewUnderWay
PROPERTIES
  RunsOut
INVARIANTS
  
  SlicesOnlyToAttested
