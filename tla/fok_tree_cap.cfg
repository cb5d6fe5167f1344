SPECIFICATION Spec
CONSTANTS
    OrderIds = {o1, o2, o3}
    Prices = {1, 2, 3}
    Qtys = {1, 2}
    Index = "tree"
    PriceMin = 0
    PriceMax = 0
    MaxOrders = 3
    TreeCap = 2
    QtyMod = 100
    SeqRange = 1
INVARIANTS
    FokRejectJustified
