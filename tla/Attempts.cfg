SPECIFICATION FairSpec
CONSTANTS
  Executors = {"husker", "process", "build"}
  MaxAttempts = 2
  RetryLimit = 2
  Provision = 1
  Runtime = 1
  Cleanup = 1
  Grace = 1
  MaxSends = 2
  Takings <- MCTakings
  MaxFaults = 1
  MaxLosses = 1
INVARIANTS
  OneExecution
  VMsAccounted
  OutcomeTrue
PROPERTIES
  AttemptsEnd
CHECK_DEADLOCK FALSE
