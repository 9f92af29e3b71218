CONSTANTS
    u1 = u1
    u2 = u2
    Requests = {r1, r2}
    Upstreams = {u1, u2}
    Pools <- TwoUpstreams
    Unknown = "x"
    Threshold = 1
    SickAfter = 1
    None = None
SPECIFICATION SafetySpec
SYMMETRY Symmetry
INVARIANTS TypeOK NoUpstreamStranded
PROPERTIES KeepsPromise
CHECK_DEADLOCK FALSE
