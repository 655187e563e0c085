SPECIFICATION FairLinkSpec
CONSTANTS
    Topics = {cmd, beat}
    Command = cmd
    Beat = beat
    cmd = cmd
    beat = beat
    MaxAttempts = 1
    MaxMessages = 1
PROPERTIES ConnectedIsOnline
CHECK_DEADLOCK FALSE
