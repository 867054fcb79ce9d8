CONSTANTS
    Socket = {s1, s2}
    Broadcast = {b1, b2}
SPECIFICATION FairSpec
INVARIANTS
    DeliveredOnce
    RegisteredIsServed
PROPERTY
    LeaversAreDropped
CHECK_DEADLOCK FALSE
