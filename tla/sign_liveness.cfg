CONSTANTS
  Delegates = {e1, e2}
  Pinners = {p1, p2}
  DeploymentIds = {d1, d2}
  NoPeer = NoPeer
  MaxEvents = 1
  FaultKinds = {}
  MaxFaults = 0
SPECIFICATION FairSpec
CHECK_DEADLOCK FALSE
PROPERTIES
  SignedForGood
  FoundIsCollected
