SPECIFICATION FairSpec
CONSTANTS
    c1 = c1
    c2 = c2
    Callers = {c1}
    Modes = {"ONESHOT", "REPEAT", "LOOP", "FIXED_RATE"}
    Intervals = {1, 2}
    RepeatCounts = {2}
    Delays = {0, 1}
    SpawnResults = {"SUCCESS"}
    MaxCount = 2
    MaxLag = 1
    MaxLead = 3
PROPERTIES RestartSucceeds ContractHolds
