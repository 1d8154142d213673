CONSTANTS
  Peers = {p1, p2, p3, p4}
  NoPeer = NoPeer
  N = 2
  MaxEvents = 1
  FaultKinds = {}
  MaxFaults = 0
  ProfilesAgree = TRUE
SPECIFICATION FairSpec
CHECK_DEADLOCK FALSE
PROPERTIES
  EnoughIsPublished
  PublishedIsCommitted
