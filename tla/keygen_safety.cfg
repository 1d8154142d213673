CONSTANTS
  Peers = {p1, p2, p3, p4}
  NoPeer = NoPeer
  N = 2
  MaxEvents = 1
  FaultKinds = {"loss", "send", "expire"}
  MaxFaults = 3
  ProfilesAgree = TRUE
SPECIFICATION Spec
CHECK_DEADLOCK FALSE
SYMMETRY Symmetry
PROPERTIES
  ItemProgresses
  KeepsPromise
INVARIANTS
  TypeOK
  SlicesOnlyToAttested
  MembersHaveItems
  NobodyWaitsInVain
  OneRole
  MembersDistinct
  PublishedComplete
  PublishedOnce
  CommitsMatch
  ClosedWhenDone
  RestsOnlyWhenDone
