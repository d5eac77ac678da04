SPECIFICATION Spec
CONSTANTS
    Clients = {c1, c2}
    PoolSize = 3
    MaxPages = 4
    Data = {zero, d1}
    Zero = zero
    Records = d1
    None = none
    ExitAfterClean = FALSE
SYMMETRY Symmetry
INVARIANTS
    FramesAreAccountedFor
    PinsAreCounted
PROPERTIES
    PinnedPagesStay
    ImplementsPageStore
