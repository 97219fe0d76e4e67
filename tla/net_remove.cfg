SPECIFICATION FairSpec
CONSTANTS
    nic = nic
    user = user
    t1 = t1
    t2 = t2
    NoOne = NoOne
    Tap = {t1, t2}
    Nic = nic
    User = user
    Networks <- Hub
    Room = 1
PROPERTIES ReadsAgain
