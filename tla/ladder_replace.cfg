SPECIFICATION BookSpec
CONSTANTS
    OrderIds = {o1, o2, o3}
    Levels <- MCLevels
    Qtys = {1, 2}
    MaxOrders = 3
    ChunkSlots = 2
    TouchStride = 2
    QtyMod = 8
    Span = 3
    WordBits = 2
VIEW BookView
SYMMETRY IdSymmetry
INVARIANTS
    LaddersMatchStore
PROPERTIES
    FastPathIsGeneric
