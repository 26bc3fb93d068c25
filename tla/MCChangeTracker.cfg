SPECIFICATION FairSpec
CONSTANTS
    t1 = t1
    t2 = t2
    Threads <- MCThreads
    NoThread = NoThread
    MaxChanges = 4
    BatchSize = 2
    QueueLimit = 3
INVARIANTS
    OnlyOwnThread
    CallbackWithinSleep
    StopNoticed
CHECK_DEADLOCK FALSE
PROPERTIES
    OwnerReturns
    ChangesReported
