SPECIFICATION MCFairSpec
CONSTANTS
    a = a
    b = b
    listener = listener
    post = post
    get = get
    Nodes = {a, b}
    Preds <- NoPreds
    AutoNodes = {}
    Cost <- NoCost
    ResolveCost = 0
    Capped = FALSE
    CostCap = 0
    RecursionLimits = {1}
    HasMcpNode = TRUE
    TimerEnabled = FALSE
    SweeperEnabled = FALSE
    MaxStoreFailures = 0
    OnEvent = {listener}
    Posts = {post}
    Gets = {}
INVARIANTS
    CallerMissesNothing
    CompleteClosesNodes
    NoLateListener
PROPERTIES
    EarlyStreamsEnd
CHECK_DEADLOCK FALSE
