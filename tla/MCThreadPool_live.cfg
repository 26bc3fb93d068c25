SPECIFICATION FairSpec
CONSTANTS
    w1 = w1
    w2 = w2
    p1 = p1
    p2 = p2
    owner = owner
    other = other
    Workers <- MCWorkers
    Producers = {p1}
    Owner = owner
    LongTasks <- MCLongTasks
    Interrupters <- MCOneController
    MaxTasks = 3
PROPERTIES
    EveryTaskStarts
    StopReturns
    StopTasksReturns
