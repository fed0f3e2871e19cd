SPECIFICATION FairToggleSpec
CHECK_DEADLOCK FALSE
CONSTANTS
    Order <- MCOrder
    MaxSwitches = 2
    MaxPicks = 2
INVARIANTS
    NarrationIsSigned
    VerdictStands
    PageAgrees
PROPERTIES
    EveryModuleIsNarratedOrHangs
    ImplementsProviderChain
