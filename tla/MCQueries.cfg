SPECIFICATION Spec
CONSTANTS
    Lines <- MCLines
    TrainIDs = {1, 2, 3, 4}
    Purchases <- MCPurchases
    Users = {1, 2}
    Names = {1, 2, 3, 4}
    Dates <- MCDates
    Arrays <- MCArrays
    MaxOrders = 3
INVARIANTS
    TicketsAreRight
    TransfersAreBest
    TimetableIsRight
    OrdersAreListed
    DatesAreKept
    SortSorts
