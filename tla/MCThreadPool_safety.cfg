SPECIFICATION Spec
CONSTANTS
    w1 = w1
    w2 = w2
    p1 = p1
    p2 = p2
    owner = owner
    other = other
    Workers <- MCWorkers
    Producers <- MCProducers
    Owner = owner
    LongTasks <- MCLongTasks
    Interrupters <- MCTwoControllers
    MaxTasks = 3
SYMMETRY Symmetry
INVARIANTS
    TasksConserved
    NoLostWakeup
    StopTasksWaits
    StopDrains
PROPERTY Promise
