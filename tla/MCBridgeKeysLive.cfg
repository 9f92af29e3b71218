CONSTANTS
    Keys = {k1}
    Settings = {x1, x2}
    Requests = {r1, r2}
    Admins = {a1}
    CacheSize = 1
    TTL = 1
    Patience = 1
    None = None
SPECIFICATION Spec
PROPERTIES SettingsTakeHold RevocationTakesHold
CHECK_DEADLOCK FALSE
