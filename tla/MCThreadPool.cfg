SPECIFICATION Spec
CONSTANTS
    Task = {t1, t2, t3, t4}
    Destroyer = {d1, d2}
    thread_count = 3
    queue_size = 2
    NULL = NULL
INVARIANTS
    TypeOK
    TaskConserved
    FreedWhenDone
PROPERTIES
    ImplementsTaskQueue
    AcceptedRuns
    ShutdownEnds
CHECK_DEADLOCK FALSE
