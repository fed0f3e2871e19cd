SPECIFICATION Spec
CHECK_DEADLOCK FALSE
CONSTANTS
    Targets <- MCTargets
    MaxChanges = 0
INVARIANT CauseIsObserved
