SPECIFICATION FairSpec
CHECK_DEADLOCK FALSE
CONSTANTS
    c1 = c1
    Chats <- MCChats
    MaxToolTurns = 3
    MaxCalls = 2
    MaxSwitches = 2
INVARIANTS
    AnswererIsHonest
    FallbackIsLast
    OfflineMeansUnreachable
    BudgetKept
PROPERTIES
    EveryChatEndsOrHangs
    ImplementsProviderChain
