SPECIFICATION FairSpec
CONSTANTS
    x1 = x1
    Executions <- OneExecution
    Workflows <- MCWorkflows
    BuiltIn <- TwoBuiltIn
    Later <- MCLater
    Faults <- AllFaults
    MaxRetries = 2
INVARIANTS
    TypeOK
    OverIsSettled
    DependenciesRespected
    JobsAreAccounted
PROPERTIES
    EveryExecutionEnds
CHECK_DEADLOCK FALSE
