SPECIFICATION Spec
CONSTANTS
    Keys = {1, 2, 3, 4, 5, 6, 7, 8, 9, 10}
    Values <- MCValues
    First <- MCFirst
    leaf_max_size = 4
    internal_max_size = 4
    MaxPages = 11
    Threads = {t1, t2, t3}
    None = None
    Starts <- RootStarts
INVARIANT
    NothingIsLost
SYMMETRY Symmetry
CHECK_DEADLOCK FALSE
