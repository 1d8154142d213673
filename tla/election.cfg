CONSTANTS
  N = 3
  MaxCandidates = 7
  MaxSendFailures = 3
SPECIFICATION Spec
CHECK_DEADLOCK FALSE
INVARIANTS
  TypeOK
  LoopComputesElection
  ElectionPartitions
  FirstElectionIsExact
  OvershootOnlyWithSpareExecutor
  LoopNeverStalls
PROPERTY ElectionReturns
