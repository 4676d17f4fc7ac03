CONSTANTS
  Messages = {1, 2}
  Publishers = {p1}
  LeaseTime = 2
  PublishTime = 1
  MaxAttempts = 1
  BatchSize = 2
  MaxCallbacks = 2
  RetryDelays = {0}
  MaxTime = 2
  MaxTokens = 2
  None = None
SPECIFICATION FairSpec
PROPERTIES AttemptEnds
