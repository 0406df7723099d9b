---------------------------- MODULE OrdersLedger ----------------------------
(***************************************************************************)
(* What the accounts must add up to when one request is served at a time:   *)
(* every unit of stock, credit, coupon use and point is held by exactly the *)
(* orders that are paid and not cancelled.  The properties sum over the     *)
(* orders, so they are checked by TLC on runs with one request slot.        *)
(***************************************************************************)
EXTENDS Orders, Functions

ASSUME OrdersAreFinite == IsFiniteSet(OrderIds)

Live(o) == payment[o] = "paid" /\ status[o] # "cancelled"

\* What every order holds of a stock cell and of a customer's credit, and what
\* it brought a customer's loyalty account.
stock_held(s) == [o \in OrderIds |-> IF Live(o) THEN info[o].basket[s] ELSE 0]

credit_held(u) ==
    [o \in OrderIds |->
        IF Live(o) /\ info[o].method = "credit_limit" /\ info[o].user = u THEN info[o].total ELSE 0]

points_brought(u) ==
    [o \in OrderIds |->
        IF Live(o) /\ o \notin reconcile /\ info[o].user = u
        THEN earned(info[o]) - info[o].redeem
        ELSE 0]

\* Stock is exactly the initial stock less what the live orders hold; only an
\* order logged for manual reconciliation may leave a discrepancy behind.
StockConserved ==
    \A s \in Skus :
        (\A o \in reconcile : info[o].basket[s] = 0) => stock[s] = InitStock[s] - SumFunction(stock_held(s))

\* used_credit is exactly what the live credit orders cost, so cancelling
\* frees the whole amount and the floor at zero never hides a loss.
CreditConserved == \A u \in Users : usedCredit[u] = SumFunction(credit_held(u))

\* A coupon use is held by exactly the live orders that carried the coupon:
\* a cancelled order does not burn a use, an unpaid one does not take one.
CouponHeldByLiveOrders ==
    \A o \in OrderIds \ reconcile :
        Cardinality(RowsOf(o)) = IF info[o].coupon /\ Live(o) THEN 1 ELSE 0

\* A customer never has fewer points than those they started with, plus what
\* the live orders earned, less what those redeemed (more is possible: a
\* reversal stops at zero).
PointsNeverLost == \A u \in Users : balance[u] >= InitPoints + SumFunction(points_brought(u))

\* Nobody is charged in silence: a card order that was paid and is cancelled
\* was refunded, or its refund was logged as a manual task.
NoSilentCharge ==
    \A o \in OrderIds :
        payment[o] = "paid" /\ info[o].method = "stripe" /\ status[o] = "cancelled"
            => o \in refunded \cup manualRefund

\* The limits of the coupon hold for the orders that are paid at checkout, also
\* when deferred orders take uses in between.
ImmediateCouponLimits ==
    LET rows == {row \in usages : info[row[1]].method \in Immediate}
    IN /\ Cardinality(rows) <= MaxUses
       /\ \A u \in Users : Cardinality({row \in rows : info[row[1]].user = u}) <= 1

\* A captured card payment is eventually recorded on its order, whatever
\* cancellations, failed effects and rolled back requests come between.
CapturedPaymentRecorded ==
    \A o \in OrderIds : intent[o] = "succeeded" ~> payment[o] = "paid"
=============================================================================
