CONSTANTS
  Delegates = {e1, e2}
  Pinners = {p1}
  DeploymentIds = {d1}
  NoPeer = NoPeer
  MaxEvents = 2
  FaultKinds = {"loss", "send", "expire"}
  MaxFaults = 1
SPECIFICATION Spec
CHECK_DEADLOCK FALSE
SYMMETRY Symmetry
PROPERTIES
  RunsOut
INVARIANTS
  OnlyForAttested
