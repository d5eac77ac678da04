SPECIFICATION FairSpec
CONSTANTS
    Workers = {w1, w2, w3}
    MaxTasks = 3
    None = none
INVARIANTS
    TasksEnterInOrder
    LockIsOwn
PROPERTIES
    TasksFinish
    DestructorReturns
CHECK_DEADLOCK FALSE
