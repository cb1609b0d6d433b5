SPECIFICATION Spec
CONSTANTS
    o1 = o1
    o2 = o2
    o3 = o3
    o4 = o4
    Objects <- MCObjects
    Numbers <- MCNumbers
    Invalid = Invalid
    NoClose = NoClose
    InTreeUse = TRUE
SYMMETRY MCSymmetry
INVARIANTS
    TypeOK
    OwnershipExact
    SelectReturnsWatchedReady
