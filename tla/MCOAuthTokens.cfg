SPECIFICATION Spec
CONSTANTS
    None = None
    MaxOps = 3
    MaxLogins = 1
    MaxFaults = 1
INVARIANTS TypeOK CodeIsSentOnce DeletedStaysDeleted
PROPERTIES ValidRefreshTokenIsKept DeviceLoginEnds
CHECK_DEADLOCK FALSE
