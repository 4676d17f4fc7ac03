CONSTANTS
  Messages = {1}
  Publishers = {p1, p2}
  LeaseTime = 2
  PublishTime = 1
  MaxAttempts = 2
  BatchSize = 1
  MaxCallbacks = 1
  RetryDelays = {0}
  MaxTime = 4
  MaxTokens = 2
  None = None
SYMMETRY PublisherSymmetry
SPECIFICATION Spec
PROPERTIES UncertainNotRetried
