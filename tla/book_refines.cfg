SPECIFICATION HSpec
CONSTANTS
    OrderIds = {o1, o2, o3}
    Prices = {0, 1, 2}
    Qtys = {1, 2}
    Index = "tree"
    PriceMin = 0
    PriceMax = 0
    MaxOrders = 3
    TreeCap = 9
    QtyMod = 100
    SeqRange = 1
SYMMETRY IdSymmetry
PROPERTIES
    ImplementsBookSpec
