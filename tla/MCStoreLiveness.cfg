CONSTANTS
    p1 = p1
    p2 = p2
    NoProc = NoProc
    Procs <- MCProcs
    DriveMaxFileLimit = 1
    MaxFiles = 3
    MaxDrives = 2

SPECIFICATION FairSpec

PROPERTY GateEventuallyGranted
