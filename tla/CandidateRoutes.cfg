CONSTANTS
    Sku = {s1, s2}
    MaxIds = 6
SPECIFICATION Spec
PROPERTY ApprovalIsNotRefused
CHECK_DEADLOCK FALSE
