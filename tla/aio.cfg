SPECIFICATION FairSpec
CONSTANTS
    r1 = r1
    r2 = r2
    t1 = t1
    t2 = t2
    None = None
    Reqs <- TwoReqs
    Threads <- TwoThreads
    max_threads = 1
    MaxDepth = 2
    MaxChain = 0
INVARIANTS TypeOK Accounting SomeoneComes WorksOnItsOwn NoLostCompletion NoneLeftBehind
PROPERTIES Completes
