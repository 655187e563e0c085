SPECIFICATION FairSpec
CONSTANTS
    Topics = {t1, t2}
    t1 = t1
    t2 = t2
    MaxAttempts = 2
INVARIANTS ConnectingIsOwned ConnectedHasSocket DestroyedClean
PROPERTIES CallsReturn LostIsRecovered
CHECK_DEADLOCK FALSE
