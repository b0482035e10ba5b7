SPECIFICATION FairSpec
CONSTANTS
    c1 = c1
    c2 = c2
    k1 = k1
    none = none
    Calls <- TwoCalls
    Requests <- MCRequests
    Listed <- TwoListed
    Fallbacks <- StripeFallback
    NoKey = none
    Parts <- MCParts
    Faults <- AllFaults
    MaxHooks = 2
INVARIANTS
    TypeOK
    ChargedOnce
    EventsAreTrue
PROPERTIES
    EveryCallEnds
CHECK_DEADLOCK FALSE
