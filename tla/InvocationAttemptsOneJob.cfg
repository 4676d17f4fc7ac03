CONSTANTS
  Jobs = {2}
  Workers = {w1, w2}
  Results = {r1}
  Priority <- MCPriority
  MaxAttempts <- MCMaxAttempts
  Leases = {1, 2}
  Requests = {None, 1}
  Retries = {0, 3}
  Skew = 1
  SweepLimit = 1
  MaxTime = 4
  MaxTokens = 2
  None = None
SYMMETRY WorkerSymmetry
SPECIFICATION Spec
INVARIANTS TypeOK RecoveryAccepts StartedAtMostOnce LeaseExclusive PromisedLeaseRespected ReportedOutcomeDurable
PROPERTIES DurableTimeMonotone EndedAttemptFrozen ImplementsContract
