CONSTANTS
  DomainEvents <- SmallEvents
  Messages = {m1}
  Deliveries = {d1}
  MaxEvents = 3
  Snapshots = {1}
  Wanted = {None, 1}
  None = None
  Ledgers = {1, 2}
  Outputs <- SmallOutputs
  OtherEvents <- SmallStrangers
  RecordAttempts = 2
  MaxArtifacts = 2
  Writes <- SmallWrites
  Heads = {Null, 0, 1}
  Null = Null
  MaxVersions = 2
  Workers = {p1, p2}
  Owners = {o1, o2}
  MaxVersion = 2
  BatchLimit = 2
  MaxEpoch = 2
  Creates = {p1, p2}
  Restores = {r1}
  Migrators = {p1, p2}
  LastVersion = 3
  DependsOn <- SmallDependsOn
  Targets = {2, 3}
  Adopted = {3}
  NoPlan = NoPlan
SYMMETRY ProcessSymmetry
SPECIFICATION Spec
INVARIANTS AnswersHold LedgersReplay ReadModelIsPrefix VersionsHold BackupsHold SchemaExplained
PROPERTIES HistoryFixed FencedForGood
