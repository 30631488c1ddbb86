SPECIFICATION FairSpec
CONSTANTS
    None = None
    a = a
    b = b
    c = c
    Calls = {a, b, c}
    Adapters = {"memory", "prisma"}
INVARIANTS
    NumberedInCallOrder
    NeverCollides
    QueueIsReleased
PROPERTIES
    CallsEnd
CHECK_DEADLOCK FALSE
