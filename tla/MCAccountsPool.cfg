SPECIFICATION AccountSpec
CONSTANTS
    Users = {alice, bob, carol}
    Passwords = {pw1, pw2}
    Privileges = {0, 1, 5, 9, 10}
SYMMETRY Symmetry
INVARIANT PoolIsUpToDate
