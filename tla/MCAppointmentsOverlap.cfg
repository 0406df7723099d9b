\* SQLite: two bookings of one provider whose starts differ.
CONSTANTS
    p1 = p1
    p2 = p2
    short = short
    long = long
    Requests = {r1, r2}
    ApptIds = {a1, a2}
    Providers = {p1}
    Types = {short, long}
    Offers <- OneProvider
    Duration <- Lengths
    Starts = {1, 2}
    Now = 2
    Users = {}
    Guest = guest
    Admin = admin
    RowLocks = FALSE
SPECIFICATION Spec
SYMMETRY Symmetry
INVARIANTS
    NoDoubleBooking
