CONSTANTS
    Task = {t1, t2}
    Request = {r1, r2, r3}
    NoTask = NoTask
SPECIFICATION SerialSpec
INVARIANTS
    CountedOnce
    QueueIsTheLiveTasks
PROPERTY
    ImplementsLifecycle
CHECK_DEADLOCK FALSE
