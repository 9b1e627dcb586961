SPECIFICATION FairSpec
CONSTANTS
    Conns = {a, b}
    Runners = {k1, k2}
    Tasks = {t1, t2, t3}
    NoTask = NoTask
    TaskQueueCap = 2
INVARIANTS
    TypeOK
    DoneIsFinal
    TasksInOrder
PROPERTIES
    StopEnds
    AcceptedTasksRun
CHECK_DEADLOCK FALSE
