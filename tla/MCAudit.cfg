SPECIFICATION Spec
CONSTANTS
    MaxRecords = 3
    None = None
    Cap = 1
    CompressAfter = 1
    Retention = 2
    MaxDay = 3
    MaxFaults = 1
INVARIANTS TypeOK NoSendOnClosed NothingLeftAtExit RowsReadTheirRecord
PROPERTIES KeepsTheTrail RecordsSettle ShutdownEnds
CHECK_DEADLOCK FALSE
