SPECIFICATION FairSpec
CONSTANTS
    p = p
    q = q
    g1 = g1
    g2 = g2
    g3 = g3
    c = c
    e1 = e1
    e2 = e2
    Procs <- MCProcs
    Handlers <- MCHandlers
    Home <- MCHome
    Initial <- MCInitial
    Calls <- OneCall
    From <- OneFrom
    Batch <- OneBatch
    Leavers <- Leaver
    Rejecting = TRUE
    Unstable <- Other
INVARIANTS
    TypeOK
    HeardOnceWithoutGaps
    HeardInOrder
PROPERTIES
    EventuallyHeard
    KeepsDelivery
CHECK_DEADLOCK FALSE
