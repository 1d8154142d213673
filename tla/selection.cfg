CONSTANT Cases <- MCCases
SPECIFICATION FairSpec
CHECK_DEADLOCK FALSE
INVARIANTS
  EnoughAccept
  NearestAreInvited
  RingsBounded
  AgreesWithTest
PROPERTY
  SelectionEnds
