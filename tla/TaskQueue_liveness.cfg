CONSTANTS
    Task = {t1, t2}
    Request = {r1, r2}
    NoTask = NoTask
SPECIFICATION FairSpec
PROPERTIES
    CallsReturn
    CompletionDequeues
    SweepClearsOverdue
CHECK_DEADLOCK FALSE
