CONSTANTS
  Delegates = {e1, e2}
  Pinners = {p1, p2}
  DeploymentIds = {d1, d2}
  NoPeer = NoPeer
  MaxEvents = 1
  FaultKinds = {"send"}
  MaxFaults = 1
SPECIFICATION Spec
CHECK_DEADLOCK FALSE
SYMMETRY Symmetry
INVARIANTS
  DeferredIsDealtWith
