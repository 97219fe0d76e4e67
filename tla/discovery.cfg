SPECIFICATION FairSpec
CONSTANTS
    c1 = c1
    c2 = c2
    None = None
    NumIfs = 2
    Clients <- TwoClients
    Backlog = 1
    Options <- Settings
INVARIANTS TypeOK NoDoubleFree NoOrphan AnnounceReleases OnlyTimeoutLeaks
PROPERTIES Rendezvous SomeoneServed LocateEnds
CHECK_DEADLOCK FALSE
