SPECIFICATION Spec
CONSTANTS
    a = a
    b = b
    Pools = {a, b}
    None = None
    MaxHandlers = 2
    MaxFaults = 1
    MaxSignals = 2
INVARIANTS TypeOK
PROPERTIES SuccessIsEverywhere PersistsWhatItRouted SignalIsServed
CHECK_DEADLOCK FALSE
