SPECIFICATION MigrationSpec
CHECK_DEADLOCK FALSE
CONSTANTS
    m1 = m1
    m2 = m2
    Runners <- MCRunners
    NFiles = 3
    MaxStarts = 2
SYMMETRY Symmetry
INVARIANT MigratedInOrder
PROPERTY
  ImplementsSchemaVersion
