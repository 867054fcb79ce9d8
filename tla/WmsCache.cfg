CONSTANTS
    Pieces = 2
    Reader = {r1, r2}
    Ttl = 2
    Lag = 1
    MaxVersion = 2
SPECIFICATION FairCacheSpec
INVARIANTS
    CacheIsRecent
PROPERTY
    RestIsNoticed
CHECK_DEADLOCK FALSE
