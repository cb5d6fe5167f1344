SPECIFICATION Spec
CONSTANTS
    Span = 9
    WordBits = 2
    Totals = {1, 2}
INVARIANTS
    TypeOK
    OccupancyMatches
    BestIsBest
    RangeSumsExact
    DepthIsBestFirst
