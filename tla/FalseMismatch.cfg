SPECIFICATION Spec
CHECK_DEADLOCK FALSE
CONSTANTS
    owner = owner
    note = note
    Columns <- MCColumns
    Keys <- MCKeys
    TextColumn = note
    Tables <- MCTables
    MaxChanges = 0
INVARIANT MismatchIsReal
