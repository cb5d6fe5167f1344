SPECIFICATION Spec
CONSTANTS
    Keys = {k1, k2, k3, k4, k5}
    Vals = {l1, l2}
    Tags = {1}
    Homes = {0, 6, 7}
    LiveMax = 4
    MinCapacity = 4
    RemovesRange = 5
SYMMETRY KeySymmetry
INVARIANTS
    TypeOK
    LenIsOccupancy
    EntriesReachable
    ChainsBrokenOnlyAtHole
    HeldIndexValid
PROPERTIES
    ActsAsMap
