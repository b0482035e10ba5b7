SPECIFICATION Spec
CONSTANTS
    Amounts <- DecimalAmounts
    RefundAmounts <- DecimalRefunds
    Ulp = 1
    MaxFailures = 3
INVARIANTS TypeOK ProcessedOnce RefundsAreSound
PROPERTIES NoMoneyAfterFailure
CHECK_DEADLOCK FALSE
