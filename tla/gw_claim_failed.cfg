SPECIFICATION Spec
CONSTANTS
    c1 = c1
    c2 = c2
    k1 = k1
    none = none
    Calls <- TwoCalls
    Requests <- PlainRequests
    Listed <- DefaultListed
    Fallbacks <- DefaultFallbacks
    NoKey = none
    Parts <- MCParts
    Faults <- PublishOnly
    MaxHooks = 0
INVARIANTS
    FailedIsUncharged
CHECK_DEADLOCK FALSE
