SPECIFICATION SerialSpec
CONSTANTS
    r1 = r1
    r2 = r2
    r3 = r3
    r4 = r4
    n1 = n1
    n2 = n2
    None = None
    Requests <- TwoRequests
    Numbers <- OneNumber
    Lines <- OneLine
INVARIANTS CustomerIsRequired
CHECK_DEADLOCK FALSE
