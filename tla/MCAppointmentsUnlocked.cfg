\* SQLite: two providers; admins, a customer and guests.
CONSTANTS
    p1 = p1
    p2 = p2
    short = short
    long = long
    Requests = {r1, r2}
    ApptIds = {a1, a2}
    Providers = {p1, p2}
    Types = {short, long}
    Offers <- AllOffers
    Duration <- Lengths
    Starts = {1, 2}
    Now = 2
    Users = {u1}
    Guest = guest
    Admin = admin
    RowLocks = FALSE
SPECIFICATION Spec
SYMMETRY Symmetry
INVARIANTS
    LiveStartsDiffer
PROPERTIES
    GuestLandsOnFreeSlot
    ClosedStaysClosed
