SPECIFICATION SerialSpec
CONSTANTS
    r1 = r1
    r2 = r2
    r3 = r3
    r4 = r4
    r5 = r5
    n1 = n1
    None = None
    Requests <- FiveRequests
    Numbers <- OneNumber
    Lines <- OneLine
PROPERTIES KeepsLifecycle
SYMMETRY Symmetry
CHECK_DEADLOCK FALSE
