SPECIFICATION UtilSpec
CONSTANTS
    self = self
    Callers = {self}
    Modes = {"ONESHOT", "REPEAT", "LOOP"}
    Intervals = {1, 2}
    RepeatCounts = {2}
    Delays = {0}
    SpawnResults = {"SUCCESS", "THREAD_ERROR"}
    MaxCount = 2
    MaxLag = 1
    MaxLead = 2
PROPERTIES PeriodicRuns
