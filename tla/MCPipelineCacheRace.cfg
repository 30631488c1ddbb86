SPECIFICATION Spec
CONSTANTS
    None = None
    p = p
    q = q
    s = s
    t = t
    x = x
    y = y
    z = z
    Pipelines = {p, q}
    McpPipelines = {q}
    Saves = {s, t}
    Compiles = {x, y, z}
    Capacity = 2
    Times = {0, 2}
    Adapters = {"prisma"}
SYMMETRY Symmetry
INVARIANTS
    AlwaysServesWhatWasLoaded
CHECK_DEADLOCK FALSE
