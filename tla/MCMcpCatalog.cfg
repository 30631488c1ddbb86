SPECIFICATION FairSpec
CONSTANTS
    p = p
    q = q
    r = r
    s = s
    t = t
    Servers <- ThreeServers
    Pages = 2
    Calls = {1, 2}
INVARIANTS
    NoClientLeaks
    KeysMeanOneTool
PROPERTIES
    EverythingSettles
CHECK_DEADLOCK FALSE
