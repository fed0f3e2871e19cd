SPECIFICATION Spec
CHECK_DEADLOCK FALSE
CONSTANTS
    Targets <- MCTargets
    MaxChanges = 1
INVARIANTS
    OkIsTrue
    ConfirmedOutranksHidden
    ListingWasRead
    ReasonIsTrue
PROPERTIES
    ImplementsScanReport
