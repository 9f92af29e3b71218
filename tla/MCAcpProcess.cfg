SPECIFICATION Spec
CONSTANTS
    Requests = {1, 2}
    None = None
    MaxStarts = 2
    MaxFaults = 1
    CanClose = TRUE
INVARIANTS TypeOK TextIsTheRequests
PROPERTIES RetryWaitsForTheFirst PoolForgetsOnlyTheDead EveryRequestReturns OrphansEnd
CHECK_DEADLOCK FALSE
