SPECIFICATION Spec
CONSTANTS
    Prices = {1, 2, 4, 5, 7}
    Bounds = {0, 1, 2, 3, 4, 5, 6, 7, 8}
    Totals = {1, 2}
INVARIANTS
    TypeOK
    LevelsAtTheirKeys
    RangeSumsExact
    DepthIsBestFirst
