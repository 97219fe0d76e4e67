SPECIFICATION FairSpec
CONSTANTS
    f1 = f1
    f2 = f2
    None = None
    N = 5
    MinShift = 1
    Frames <- TwoFrames
    Budget = 3
    RefillAt = 2
    Early = FALSE
    Snapshots = FALSE
    MaxFails = 4
INVARIANTS TypeOK NoOverwrite Lossless
PROPERTIES FrameServed Reopens
