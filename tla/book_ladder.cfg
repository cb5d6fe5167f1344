SPECIFICATION Spec
CONSTANTS
    OrderIds = {o1, o2, o3, o4}
    Prices = {0, 1, 2}
    Qtys = {0, 1, 2}
    Index = "ladder"
    PriceMin = 1
    PriceMax = 2
    MaxOrders = 3
    TreeCap = 9
    QtyMod = 4
    SeqRange = 1
SYMMETRY IdSymmetry
INVARIANTS
    TypeOK
    NoCross
    QueuesMatchOrders
    IdsReserved
    IndexMatchesLevels
    CrossState
    CountMatches
    TotalsMatch
    FokAllOrNothing
    PostOnlyNeverTakes
PROPERTIES
    PriorityStable
