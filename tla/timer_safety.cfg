SPECIFICATION SharedSpec
CONSTANTS
    c1 = c1
    c2 = c2
    Callers = {c1, c2}
    Modes = {"ONESHOT", "REPEAT", "LOOP"}
    Intervals = {1}
    RepeatCounts = {2}
    Delays = {0, 1}
    SpawnResults = {"SUCCESS", "THREAD_ERROR"}
    MaxCount = 2
    MaxLag = 0
    MaxLead = 1
INVARIANTS FlagsAgree CallbackOnlyWhileRunning ActiveHasWorker StopIsCollected
PROPERTIES ContractSafety Spacing StopReturns
