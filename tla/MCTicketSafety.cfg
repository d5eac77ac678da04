SPECIFICATION Spec
CONSTANTS
    Users = {alice, bob}
    Passwords = {pw}
    Privileges = {0, 1, 10}
    TrainIDs = {g1, g2}
    Stations <- MCStations
    Timetables <- TwoLines
    Dates <- MCDates
    MaxTickets = 2
    MaxOrders = 2
    maxn = 3
SYMMETRY Symmetry
INVARIANTS
    LoggedInUsersExist
    AtMostOneRoot
    TypeOK
    LookupsFind
    PendingMatchesOrders
    OrderIDsAreUnique
    NeverOversold
