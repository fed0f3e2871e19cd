SPECIFICATION Spec
CHECK_DEADLOCK FALSE
CONSTANTS
    owner = owner
    note = note
    Columns <- MCColumns
    Keys <- MCKeys
    TextColumn = note
    Tables <- MCTables
    MaxChanges = 2
INVARIANTS
    NotRunLeavesIssue
    OkIsEarned
    VerdictsAgree
    VisibilityIsTrue
    DefectIsReported
    WhitespaceIsSeen
    UuidCastIsReported
    PartialViewIsDisclosed
    FixturesAreDiagnosed
