------------------------------ MODULE MCOrders ------------------------------
(* Small instances of Orders for TLC: two stock cells, one customer and     *)
(* guests, and the checkouts that make the side effects collide.            *)
EXTENDS OrdersLedger, OrdersReservation, TLC

CONSTANTS u1, guest, a, b

OneOfA == [s \in {a, b} |-> IF s = a THEN 1 ELSE 0]
OneOfEach == [s \in {a, b} |-> 1]
TwoOfEach == [s \in {a, b} |-> 2]

TwoOfAOneOfB == [s \in {a, b} |-> IF s = a THEN 2 ELSE 1]

Order(user, method, basket, coupon, redeem) ==
    [user |-> user, method |-> method, basket |-> basket, total |-> 1,
     coupon |-> coupon, redeem |-> redeem]

\* Every way of paying; both card orders compete for the one unit of b.
AllMethods ==
    {Order(guest, "cash", OneOfA, TRUE, 0),
     Order(u1, "credit_limit", OneOfA, TRUE, 2),
     Order(u1, "stripe", OneOfEach, TRUE, 2),
     Order(guest, "stripe", OneOfEach, TRUE, 0),
     Order(u1, "bank_transfer", OneOfA, TRUE, 0)}

\* One order of each way of being paid: by webhook, at checkout, by an admin.  All
\* compete for stock, and the first two for the same points.
CardCreditAndTransfer ==
    {Order(u1, "stripe", OneOfEach, TRUE, 3),
     Order(u1, "credit_limit", OneOfA, TRUE, 3),
     Order(guest, "bank_transfer", OneOfEach, FALSE, 0)}

Symmetry == Permutations(OrderIds) \cup Permutations(Requests)
=============================================================================
