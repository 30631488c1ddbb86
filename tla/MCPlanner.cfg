SPECIFICATION FairSpec
CONSTANTS
    x = x
    y = y
    s = s
    m = m
    n = n
    ShortIds = {x, y}
    Keys = {s, m, n}
    StaticKeys = {s}
    McpKeys = {m, n}
    Offers <- SmallOffers
    Answers <- SmallAnswers
    MaxAttempts = 3
INVARIANTS
    WithinRecursionLimit
    IssuesTellAll
PROPERTIES
    ImplementsPromise
    RoundsBuildOn
    AbortWins
    PlanSettles
CHECK_DEADLOCK FALSE
