SPECIFICATION EnvSpec
CONSTANTS
    a = a
    b = b
    c = c
    Bulk = bulk
    Sku = {a, b}
    Door = {1, 2}
    Plans <- MCPlans
    Forklifts = 2
    LoadTime = 2
    FastTime = 1
    Shift = 9
    MaxRuns = 2
    Ordered = {a, b}
    Stray = c
    Far <- MCFar
    Handling = 1
    CandidateLists <- MCCandidateLists
    MaxCandidates = 2
    EpisodeSteps = 3
    MaxSteps = 4
INVARIANTS
    EnvTypeOK
    ForkliftsAreShared
    DeparturesAddUp
    ShapingTelescopes
CHECK_DEADLOCK FALSE
