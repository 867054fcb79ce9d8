CONSTANTS
    m1 = m1
    m2 = m2
    m3 = m3
    a = a
    b = b
    Move = {m1, m2}
    Sku = {a, b}
    NoSku = NoSku
    SkuOf <- SkuOfMove
    Window = 3
    MaxHistory = 2
    Clearer = {c1, c2}
SPECIFICATION FairSpec
INVARIANTS
    SuppressedUnlessLifted
PROPERTY
    SuppressionEnds
