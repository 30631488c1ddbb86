SPECIFICATION Spec
CONSTANTS
    a = a
    ab = ab
    c = c
    slot = slot
    None = None
    Ids = {a, ab, c}
    Longer <- Prefixes
    EdgeIds = {1, 2}
    Labels = {"null"}
    Slots = {slot}
    Drafts <- HostDrafts
    Saves = {1, 2}
    MaxBound = 1
    MaxMarked = 1
CONSTRAINT SmallWhileSaving
INVARIANTS
    NothingDangles
    DirtyIsHonest
PROPERTIES
    RemovalIsExact
