CONSTANTS
    Requests = {r1, r2}
    RPM = 2
    TPM = 2
    DailyCents = 1
    MonthlyCents = 2
    HardCap = TRUE
    Tokens = {1, 2}
    Costs = {2}
    MaxClock = 2
    Day <- DayOf
    Month <- MonthOf
    MaxArrivals = 4
SPECIFICATION Spec
SYMMETRY Symmetry
INVARIANTS TypeOK RateHolds OverspendBounded MonthlyMatchesDaily
CHECK_DEADLOCK FALSE
