CONSTANTS
  Order <- MCOrder
  Plans <- MCPlans
  MaxConcurrency = 2
  None = None
SPECIFICATION FairSpec
INVARIANTS InvokedOnce RecoveryExplains MemoryNeverAhead EffectsAuthorised DependenciesRespected
PROPERTIES RunReturns
