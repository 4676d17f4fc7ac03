CONSTANTS
  Migrators = {p1, p2}
  LastVersion = 3
  DependsOn <- SmallDependsOn
  Targets = {2, 3}
  Adopted = {3}
  NoPlan = NoPlan
SPECIFICATION Spec
INVARIANTS LedgerDescribed
