SPECIFICATION Spec
CONSTANTS
    r1 = r1
    r2 = r2
    r3 = r3
    r4 = r4
    n1 = n1
    n2 = n2
    None = None
    Requests <- MCRequests
    PaymentIds <- MCPaymentIds
    Statuses <- AskedStatuses
INVARIANTS
    TypeOK
    UniquePaymentIds
    StoredIsSound
SYMMETRY Symmetry
CHECK_DEADLOCK FALSE
