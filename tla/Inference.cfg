CONSTANTS
    Features = {f1, f2}
    Threshold = 3
    Recovery = 3
    Ttl = 2
    Weights = {w1, w2}
    Configured = w1
    Default = w2
SPECIFICATION FairInferenceSpec
INVARIANTS
    FailingModelIsLeftAlone
PROPERTY
    Recovers
