CONSTANTS
  N = 255
  MaxCandidates = 2
  MaxSendFailures = 0
SPECIFICATION Spec
CHECK_DEADLOCK FALSE
INVARIANT ReadyIsEssential
