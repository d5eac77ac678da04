SPECIFICATION MCSpec
CONSTANTS
    Keys = {1, 2, 3, 4, 5, 6, 7, 8, 9, 10}
    Values <- MCValues
    First <- MCFirst
    leaf_max_size = 4
    internal_max_size = 4
    Names = {1, 2, 3, 4, 5, 6, 7, 8, 9, 10}
INVARIANTS
    PagesAreLinked
    SearchFindsEverything
    ScanIsComplete
    IterationIsComplete
    PoolHasItsEntries
    MapIsRedBlack
