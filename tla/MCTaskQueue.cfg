CONSTANTS
    Task = {1, 2}
    Request = {r1, r2}
    NoTask = NoTask
    Limits = {0, 1}
SPECIFICATION ListingSpec
SYMMETRY AlikeCalls
INVARIANTS
    FinishedLeavesQueue
    UnstartedStaysQueued
    CancelledOnlyOverdue
    CompletionIsCounted
    AnnouncedIsStarted
    StayedIsListed
PROPERTY
    StartedIsRemembered
CHECK_DEADLOCK FALSE
