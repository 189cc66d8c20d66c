SPECIFICATION FairSpec
CONSTANTS
    Runs = {r1, r2}
    NoRun = NoRun
    Etags = {1, 2, 3, 4}
    Lease = 4
    RenewAfter = 1
    LockWait = 5
    Skew <- OneFast
    MaxSkew = 1
    MaxStep = 1
    LastStart = 1
    MaxClock = 9
INVARIANTS
    OneWriterAtATime
PROPERTIES
    OthersNeverTouchLiveLock
    ImplementsSerial
    AcquireEnds
CHECK_DEADLOCK FALSE
