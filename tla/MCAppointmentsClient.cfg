\* SQLite: two first bookings of one customer.
CONSTANTS
    p1 = p1
    p2 = p2
    short = short
    long = long
    Requests = {r1, r2}
    ApptIds = {a1, a2}
    Providers = {p1}
    Types = {short, long}
    Offers <- OneProvider
    Duration <- Lengths
    Starts = {1, 2}
    Now = 1
    Users = {u1}
    Guest = guest
    Admin = admin
    RowLocks = FALSE
SPECIFICATION Spec
SYMMETRY Symmetry
INVARIANTS
    OneClientPerUser
