\* Two requests in flight, card and credit orders, two orders.
CONSTANTS
    u1 = u1
    guest = guest
    a = a
    b = b
    Requests = {r1, r2}
    OrderIds = {o1, o2}
    Users = {u1}
    NoUser = guest
    Skus = {a, b}
    CheckoutRequests <- CardCreditAndTransfer
    InitStock <- TwoOfAOneOfB
    InitPoints = 3
    EarnRate = 1
    CreditLimit = 1
    MaxUses = 2
    RowIds = {0, 1}
    LedgerBound = 3
SPECIFICATION Spec
INVARIANTS
    TypeOK
    NoOverdraft
    CouponCountMatchesRows
    UnpaidConsumesNothing
    NoPhantomRefund
PROPERTIES
    PaidIsPermanent
SYMMETRY Symmetry
CHECK_DEADLOCK FALSE
