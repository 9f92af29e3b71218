CONSTANTS
    u1 = u1
    u2 = u2
    Requests = {r1, r2}
    Upstreams = {u1}
    Pools <- ListedTwice
    Unknown = "x"
    Threshold = 2
    SickAfter = 3
    None = None
SPECIFICATION LiveSpec
PROPERTIES EveryRequestEnds ServiceRecovers
CHECK_DEADLOCK FALSE
