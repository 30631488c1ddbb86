SPECIFICATION Spec
CONSTANTS
    None = None
    p = p
    q = q
    s = s
    t = t
    x = x
    y = y
    z = z
    Pipelines = {p, q}
    McpPipelines = {q}
    Saves = {s, t}
    Compiles = {x, y, z}
    Capacity = 2
    Times = {0, 2}
    Adapters = {"memory", "prisma"}
SYMMETRY Symmetry
INVARIANTS
    ServesWhatWasLoaded
PROPERTIES
    UpdatedAtGrows
CHECK_DEADLOCK FALSE
