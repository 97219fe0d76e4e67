SPECIFICATION FairSpec
CONSTANTS
    N = 5
    Packets <- SomePackets
    Tags <- TwoTags
    MaxOwed = 5
INVARIANTS Faithful
PROPERTIES Served
