SPECIFICATION Spec
CONSTANTS
    a = a
    b = b
    c = c
    Nodes = {a, b, c}
    Preds <- JoinPreds
    AutoNodes = {b}
    Cost <- JoinCost
    ResolveCost = 1
    Capped = TRUE
    CostCap = 3
    RecursionLimits = {1, 2}
    HasMcpNode = TRUE
    TimerEnabled = TRUE
    SweeperEnabled = TRUE
    MaxStoreFailures = 2
INVARIANTS
    SuccessMeansStepsSucceeded
    SuccessWithinCap
    VerdictNamesTheCause
    CatalogOutlivesHandlers
    NothingLeftBehind
    NoStepLeftRunning
    NoSpendLost
PROPERTIES
    NoNewWorkOnceOver
    ImplementsLifecycle
CHECK_DEADLOCK FALSE
