CONSTANTS
  DomainEvents <- SmallEvents
  Messages = {m1}
  Deliveries = {d1}
  MaxEvents = 5
  Snapshots = {1}
  Wanted = {None, 0, 1, 2, 3, 4, 5}
  None = None
  Requests <- SmallRequests
  Others <- SmallOthers
  Scopes = {"c"}
  Stores = {s1, s2}
  Workers = {w1, w2}
SYMMETRY StoreSymmetry
SPECIFICATION Spec
INVARIANTS AdmissionProvable StartAuthority
PROPERTIES RecoveryHonest
