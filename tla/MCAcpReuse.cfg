SPECIFICATION Spec
CONSTANTS
    Requests = {1, 2}
    None = None
    MaxStarts = 2
    MaxFaults = 0
    CanClose = TRUE

PROPERTY IdleProcessIsKept
CHECK_DEADLOCK FALSE
