SPECIFICATION Spec
CONSTANTS
    v1 = v1
    v2 = v2
    bad = bad
    Commands <- EchoCommands
    Data <- OneDatum
    Garbled = bad
    Garbage <- SomeGarbage
    GarbageLens <- SomeLens
    ShortReads = TRUE
    Timeout = 10
    MaxBacklog = 2
PROPERTIES EchoReturnsBuffer
