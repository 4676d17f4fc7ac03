CONSTANTS
  Jobs = {1, 2}
  Workers = {w1, w2}
  Results = {}
  Priority <- MCPriority
  MaxAttempts <- MCMaxAttempts
  Leases = {1}
  Requests = {None}
  Retries = {0}
  Skew = 0
  SweepLimit = 1
  MaxTime = 2
  MaxTokens = 2
  None = None
SPECIFICATION FairSpec
PROPERTIES RunningReleased
