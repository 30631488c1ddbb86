SPECIFICATION RunSpec
CONSTANTS
    None = None
    Graphs <- Dags
INVARIANTS
    RunsOnce
CHECK_DEADLOCK FALSE
