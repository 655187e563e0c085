SPECIFICATION FairStationSpec
CONSTANTS
    main = main
    refresher = refresher
    Callers = {main, refresher}
    Modes = {"LOOP"}
    Intervals = {1}
    RepeatCounts <- Unlimited
    Delays = {0}
    SpawnResults = {"SUCCESS"}
    MaxCount = 0
    MaxLag = 0
    MaxLead = 1
    SelfCheckResults = {0}
    MaxCommands = 2
    MaxEnergy = 1
PROPERTIES CommandHandled
