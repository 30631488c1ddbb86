SPECIFICATION FairSpec
CONSTANTS
    a = a
    b = b
    c = c
    Nodes = {a, b, c}
    Preds <- JoinPreds
    AutoNodes = {b}
    Cost <- JoinCost
    ResolveCost = 1
    Capped = TRUE
    CostCap = 3
    RecursionLimits = {1, 2}
    HasMcpNode = TRUE
    TimerEnabled = TRUE
    SweeperEnabled = FALSE
    MaxStoreFailures = 1
PROPERTIES
    StoppedRunsSettle
    AbortSticks
    StepsEnd
CHECK_DEADLOCK FALSE
