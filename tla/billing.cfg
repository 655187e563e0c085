SPECIFICATION BillingSpec
CONSTANTS
    Hours = 3
    HourLength = 2
    Files <- MCFiles
    Zones = {0, 1}
    Junk = {0, 9}
    MaxTicks = 4
    MaxTime = 8
INVARIANTS BilledByTariff
PROPERTIES BillGrows
CHECK_DEADLOCK FALSE
