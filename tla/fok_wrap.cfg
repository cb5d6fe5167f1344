SPECIFICATION Spec
CONSTANTS
    OrderIds = {o1, o2, o3}
    Prices = {1, 2}
    Qtys = {1, 2, 3}
    Index = "ladder"
    PriceMin = 1
    PriceMax = 2
    MaxOrders = 3
    TreeCap = 9
    QtyMod = 4
    SeqRange = 1
INVARIANTS
    FokRejectJustified
