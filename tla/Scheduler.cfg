CONSTANTS
    Sku = {s1, s2}
    Loop = loop
    Trigger = {trigger}
    MaxCandidates = 2
    BatchSize = 1
SPECIFICATION FairSpec
INVARIANTS
    SuppressedThroughoutIsNotSent
    StatusIsOfOneCycle
PROPERTY
    LoopGoesOn
CHECK_DEADLOCK FALSE
