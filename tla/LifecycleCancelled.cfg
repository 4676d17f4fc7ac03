CONSTANTS
  Callers = {c1}
  Stoppers = {s1}
  Loop = Loop
  MaxCallbacks = 1
  MaxRunCancels = 1
  MaxCancels = 0
SPECIFICATION FairSpec
PROPERTIES StopCloses
