CONSTANTS
  Kids = {"k"}
  KeyOf <- SmallKeys
  Envelopes <- SmallEnvelopes
  Snapshots <- SmallSnapshots
  Skew = 1
  MaxAge = 1
  MaxTtl = 1
  MaxDepth = 2
  Role = Role
  None = None
  Threads = {t1, t2}
  Contexts = {c1}
  Operations = {o1}
  Requests <- SmallRequests
  Members <- SmallMembers
  Rings <- SmallRings
  ContextTtl = 1
  OperationTtl = 1
  StateAge = 1
  MaxContexts = 1
  MaxOperations = 1
  MaxTime = 1
SYMMETRY ThreadSymmetry
SPECIFICATION Spec
INVARIANTS UsedAsAuthorized DecisionsAgree
PROPERTIES UseIsCurrent AllowedByAuthority
