\* Two deliveries of one webhook event in flight together, with stock and points for both.
CONSTANTS
    u1 = u1
    guest = guest
    a = a
    b = b
    Requests = {r1, r2}
    OrderIds = {o1, o2}
    Users = {u1}
    NoUser = guest
    Skus = {a, b}
    CheckoutRequests <- CardCreditAndTransfer
    InitStock <- TwoOfEach
    InitPoints = 5
    EarnRate = 1
    CreditLimit = 1
    MaxUses = 2
    RowIds = {0, 1}
    LedgerBound = 5
SPECIFICATION Spec
INVARIANTS
    EffectsAppliedOnce
CHECK_DEADLOCK FALSE
