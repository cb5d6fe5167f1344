SPECIFICATION Spec
CONSTANTS
    OrderIds = {o1, o2, o3, o4}
    Levels = {l1, l2}
    Qtys = {1, 2}
    MaxOrders = 3
    ChunkSlots = 2
    TouchStride = 2
    QtyMod = 4
SYMMETRY IdAndLevelSymmetry
INVARIANTS
    TypeOK
    ListsPartitionChunks
    ChunksWithinLiveOrders
    SlotsMatchLocs
    TotalsMatch
PROPERTIES
    ActsAsQueues
