SPECIFICATION FairElogSpec
CONSTANTS
    Tags = {wifi, tcp, ip}
    wifi = wifi
    tcp = tcp
    ip = ip
    NoTag = NoTag
    Slots = 2
    Lowest = 1
    BufSize = 3
    PollSize = 2
    NoByte = NoByte
    Threads = {a, b}
    a = a
    b = b
    OutputLvl = 1
    Sizes = {3}
    MaxLogs = 3
INVARIANTS ElogTypeOK Fifo NoLostNotice
PROPERTIES ImplementsTagLevels LogsComeOut DeinitReturns
CHECK_DEADLOCK FALSE
