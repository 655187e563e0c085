SPECIFICATION FairSpec
CONSTANTS
    p = p
    q = q
    app = app
    reader = reader
    Processes <- MCProcesses
    Threads <- MCThreads
    Rotations = 2
    MaxSize = 0
    NoFile = NoFile
    MaxLines = 3
    MaxFaults = 1
INVARIANTS Exclusive SizeBounded ArchiveIsSuffix KeepsFiles
PROPERTIES LockIsGranted
CHECK_DEADLOCK FALSE
