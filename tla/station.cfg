SPECIFICATION FairStationSpec
CONSTANTS
    main = main
    refresher = refresher
    Callers = {main, refresher}
    Modes = {"LOOP"}
    Intervals = {1}
    RepeatCounts <- Unlimited
    Delays = {0}
    SpawnResults = {"SUCCESS", "THREAD_ERROR"}
    MaxCount = 0
    MaxLag = 0
    MaxLead = 1
    SelfCheckResults = {0, 1}
    MaxCommands = 3
    MaxEnergy = 2
INVARIANTS BusyMeansStarted NoLockInversion SilenceMeansStarted
PROPERTIES HandledOrCycle NoReportAfterStop ReportsCount
