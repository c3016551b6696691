SPECIFICATION Spec
CONSTANTS
  Word = 8
  DomainIds = {d1}
INVARIANTS
  TypeOK
  PoolCoherent
  HoldsCanCommit
PROPERTY CapacityChangesOnlyWhenIdle
