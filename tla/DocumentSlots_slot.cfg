SPECIFICATION Spec
CONSTANTS
    b1 = b1
    b2 = b2
    a1 = a1
    a2 = a2
    a3 = a3
    n1 = n1
    n2 = n2
    Uploads = {a1, a2, a3}
    Base = {}
    Name <- MCName
    Deleters = {x1}
    MaxAmendments = 2
    MaxActive = 1
PROPERTY LosersTakeFreeOrder
CHECK_DEADLOCK FALSE
