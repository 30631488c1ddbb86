SPECIFICATION FairRunSpec
CONSTANTS
    None = None
    Graphs <- AllGraphs
INVARIANTS
    CycleExact
    UnreachableExact
    RefsExact
PROPERTIES
    RunsOnceAfterParents
    ReadersFindOutputs
    CompilesAndEnds
CHECK_DEADLOCK FALSE
