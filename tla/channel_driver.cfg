SPECIFICATION FairSpec
CONSTANTS
    v1 = v1
    v2 = v2
    bad = bad
    Commands <- DriverCommands
    Data <- MCData
    Garbled = bad
    Garbage <- NoGarbage
    GarbageLens <- NoGarbage
    ShortReads = FALSE
    Timeout = 10
    MaxBacklog = 4
INVARIANTS NoStaleAnswer NoMutualWait
PROPERTIES Service CommandCompletes
