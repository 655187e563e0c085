SPECIFICATION FairLinkSpec
CONSTANTS
    Topics = {cmd, beat}
    Command = cmd
    Beat = beat
    cmd = cmd
    beat = beat
    MaxAttempts = 1
    MaxMessages = 2
INVARIANTS OnlineServes InOrder ChargingIsHeard
PROPERTIES QueueDrains ExitCompletes
CHECK_DEADLOCK FALSE
