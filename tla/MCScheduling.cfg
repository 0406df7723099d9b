\* PostgreSQL: three appointments of one provider, booked by admins and guests; and the
\* open slots of two days, with every row that fits.
CONSTANTS
    p1 = p1
    p2 = p2
    short = short
    long = long
    Requests = {r1, r2}
    ApptIds = {a1, a2, a3}
    Providers = {p1}
    Types = {short, long}
    Offers <- OneProvider
    Duration <- Lengths
    Starts = {1, 2}
    Now = 2
    Users = {}
    Guest = guest
    Admin = admin
    RowLocks = TRUE
    Days <- TwoDays
    Weekday <- DayOfWeek
    Times = {0, 4, 5, 8, 11}
    Durations = {1, 2}
    Moments <- SomeMoments
    Minute = 2
    DayLength = 6
    MaxWindows = 1
    MaxExceptions = 2
SPECIFICATION SchedulingSpec
SYMMETRY Symmetry
INVARIANTS
    TypeOK
    NoDoubleBooking
    SlotsTypeOK
    OffersExactlyTheFreeSteps
    OfferedSlotsAreBookable
PROPERTIES
    ImplementsCalendar
