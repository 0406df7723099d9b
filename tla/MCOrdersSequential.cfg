\* One request at a time, every payment method, two orders.
CONSTANTS
    u1 = u1
    guest = guest
    a = a
    b = b
    Requests = {r1}
    OrderIds = {o1, o2}
    Users = {u1}
    NoUser = guest
    Skus = {a, b}
    CheckoutRequests <- AllMethods
    InitStock <- TwoOfAOneOfB
    InitPoints = 2
    EarnRate = 1
    CreditLimit = 1
    MaxUses = 1
    RowIds = {0, 1}
    LedgerBound = 10
SPECIFICATION FairSpec
INVARIANTS
    StockConserved
    CreditConserved
    CouponHeldByLiveOrders
    PointsNeverLost
    NoSilentCharge
    ImmediateCouponLimits
PROPERTIES
    ImplementsReservation
    CapturedPaymentRecorded
CHECK_DEADLOCK FALSE
