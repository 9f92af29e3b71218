CONSTANTS
    Keys = {k1, k2}
    Settings = {x1}
    Requests = {r1, r2}
    Admins = {a1}
    CacheSize = 1
    TTL = 2
    Patience = 1
    None = None
SPECIFICATION SafetySpec
SYMMETRY Symmetry
INVARIANTS TypeOK
PROPERTIES StalenessBounded
CHECK_DEADLOCK FALSE
