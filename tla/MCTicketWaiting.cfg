SPECIFICATION Spec
CONSTANTS
    Users = {alice, bob}
    Passwords = {pw}
    Privileges = {0}
    TrainIDs = {g1}
    Stations <- MCStations
    Timetables <- OneLine
    Dates <- MCDates
    MaxTickets = 2
    MaxOrders = 3
    maxn = 3
INVARIANT NobodyWaitsForFreeSeats
