SPECIFICATION FairSpec
CONSTANTS
    f1 = f1
    f2 = f2
    None = None
    N = 3
    MinShift = 1
    Frames <- OneFrame
    Budget = 3
    RefillAt = 2
    Early = TRUE
    Snapshots = TRUE
    MaxFails = 0
PROPERTIES ReceiveEnds
