SPECIFICATION Spec
CONSTANTS
  Scans = {s1, s2}
  Readers = {r1}
  Targets = {t1, t2}
  PoolSize = 2
  NModules = 2
  MaxRestarts = 1
SYMMETRY Symmetry
INVARIANTS
  TypeOK
  PoolConserved
  OutcomeAtomic
  ReplyMatchesRow
  PersistedFlagHonest
  WholeAnswer
PROPERTIES
  FoundOnceSaved
  ImplementsScanRecord
