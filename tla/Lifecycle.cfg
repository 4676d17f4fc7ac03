CONSTANTS
  Callers = {c1}
  Stoppers = {s1, s2}
  Loop = Loop
  MaxCallbacks = 2
  MaxRunCancels = 2
  MaxCancels = 2
SPECIFICATION FairSpec
INVARIANTS ClosedIsQuiet CleanIsTruthful
PROPERTIES AcceptedCycleEnds StopClosesUncancelled
