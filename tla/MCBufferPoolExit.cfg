SPECIFICATION Spec
CONSTANTS
    Clients = {c1}
    PoolSize = 3
    MaxPages = 5
    Data = {zero, d1}
    Zero = zero
    Records = d1
    None = none
    ExitAfterClean = TRUE
INVARIANT FlushAllPagesKeepsThePages
