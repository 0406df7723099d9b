------------------------------- MODULE Orders -------------------------------
(***************************************************************************)
(* The life of an order in CommerceForce: checkout, payment confirmation    *)
(* (Stripe webhook, mark_paid), fulfilment and cancellation, together with  *)
(* the side effects those operations have on stock, the coupon, the loyalty *)
(* account, the credit account and the card.                                *)
(*                                                                          *)
(* Every request runs in one database transaction (core/database.py,        *)
(* get_db).  The rows a handler loads before its first write are read       *)
(* without a lock and may be stale when they are used; the first flush      *)
(* takes SQLite's write lock, which is kept until commit, so everything the *)
(* handler does from there on sees the current rows.  A request is          *)
(* therefore two steps: Begin... loads and checks, Commit... writes.        *)
(* Between them any other request may commit.  Rollback is the exception    *)
(* path: nothing the request did to the database persists.                  *)
(***************************************************************************)
EXTENDS Integers, FiniteSets

CONSTANTS
    Requests,         \* request slots: the requests in flight at one time
    OrderIds,         \* the orders that can be created
    Users,            \* registered customers
    NoUser,           \* the user_id of a guest order
    Skus,             \* the stock cells: a product, or an option-linked variant
    CheckoutRequests, \* the checkouts customers may submit
    InitStock,        \* [Skus -> Nat]
    InitPoints,       \* points every loyalty account starts with
    EarnRate,         \* LoyaltyConfig.points_per_dollar
    CreditLimit,      \* CreditAccount.credit_limit
    MaxUses,          \* Coupon.max_uses of the one coupon
    RowIds,           \* names for the CouponUsage rows of an order
    LedgerBound       \* a request is admitted while no stock cell or points
                      \* balance exceeds it: racing cancellations can raise
                      \* both without limit

\* PaymentMethod: paid at once, by card, or confirmed by hand.
Immediate == {"cash", "credit_limit"}
Manual    == {"bank_transfer", "paypal"}
Methods   == Immediate \cup Manual \cup {"stripe"}

\* OrderStatus; an order id that has not been created yet is "absent".
OrderStatus == {"pending", "confirmed", "processing", "shipped", "delivered", "cancelled"}
Statuses    == OrderStatus \cup {"absent"}

\* PaymentStatus: "failed" and "refunded" are declared but never assigned.
PaymentStatus == {"pending", "paid"}

\* What an order remembers from its checkout: none of it is written again.
\* redeem is the points_to_redeem that _resolve_discount returns, total the
\* priced and discounted order.total.
Info == [user : Users \cup {NoUser}, method : Methods, basket : [Skus -> Nat],
         total : Nat, coupon : BOOLEAN, redeem : Nat]

ASSUME OrdersAssumption ==
    /\ NoUser \notin Users
    /\ CheckoutRequests \subseteq Info
    /\ \A i \in CheckoutRequests : i.user = NoUser => i.redeem = 0
    /\ InitStock \in [Skus -> Nat]
    /\ InitPoints \in Nat
    /\ EarnRate \in Nat
    /\ CreditLimit \in Nat
    /\ MaxUses \in Nat
    /\ RowIds \subseteq Nat
    /\ LedgerBound \in Nat

VARIABLES
    status,      \* Order.status
    payment,     \* Order.payment_status
    info,        \* the immutable columns of the order
    intent,      \* Stripe's side: the order's PaymentIntent
    refunded,    \* Stripe's side: orders whose charge was refunded
    stock,       \* stock_quantity of every cell
    usedCredit,  \* CreditAccount.used_credit
    balance,     \* LoyaltyAccount.points_balance
    pointsTx,    \* redeem-and-earn transaction pairs recorded for the order
    usages,      \* CouponUsage rows, as <<order, row>>
    usedCount,   \* Coupon.used_count
    reconcile,   \* orders logged for "manual reconciliation needed"
    manualRefund,\* orders logged for "manual refund required"
    req          \* what each request in flight has loaded

orderVars  == <<status, payment, info>>
stripeVars == <<intent, refunded>>
pointsVars == <<balance, pointsTx>>
couponVars == <<usages, usedCount>>
logVars    == <<reconcile, manualRefund>>
ledgerVars == <<stock, usedCredit, pointsVars, couponVars>>
vars       == <<orderVars, stripeVars, ledgerVars, logVars, req>>

Idle == [op |-> "idle"]

OrderOps == {"webhook", "mark_paid", "cancel", "write"}

\* An operation on an existing order holds the row it loaded (status, payment)
\* and the status it is going to assign.
Request ==
    {Idle}
    \cup [op : {"checkout"}, info : Info]
    \cup [op : OrderOps, order : OrderIds, status : OrderStatus,
          payment : PaymentStatus, to : OrderStatus]

NoInfo == [user |-> NoUser, method |-> "cash", basket |-> [s \in Skus |-> 0],
           total |-> 0, coupon |-> FALSE, redeem |-> 0]

Init ==
    /\ status = [o \in OrderIds |-> "absent"]
    /\ payment = [o \in OrderIds |-> "pending"]
    /\ info = [o \in OrderIds |-> NoInfo]
    /\ intent = [o \in OrderIds |-> "none"]
    /\ refunded = {}
    /\ stock = InitStock
    /\ usedCredit = [u \in Users |-> 0]
    /\ balance = [u \in Users |-> InitPoints]
    /\ pointsTx = [o \in OrderIds |-> 0]
    /\ usages = {}
    /\ usedCount = 0
    /\ reconcile = {}
    /\ manualRefund = {}
    /\ req = [r \in Requests |-> Idle]

-----------------------------------------------------------------------------
(* The rules of the side effects.                                           *)

\* Definitions marked "Fault" are seeded bugs: each replaces the definition after
\* it to show that a property would notice.

\* Fault: the floor at zero is missing.
NonNegFault(n) == n

NonNeg(n) == IF n < 0 THEN 0 ELSE n

RowsOf(o) == {row \in usages : row[1] = o}

in_stock(basket) == \A s \in Skus : basket[s] <= stock[s]

can_redeem(i) == i.redeem > 0 => i.redeem <= balance[i.user]

earned(i) == EarnRate * i.total

\* Fault: the cap is compared with <=.
validate_couponFault(u) ==
    /\ usedCount <= MaxUses
    /\ u \in Users => ~ \E row \in usages : info[row[1]].user = u

\* The checks of a checkout before it writes: a use must be left, and a
\* registered customer must not have used the coupon before.
validate_coupon(u) ==
    /\ usedCount < MaxUses
    /\ u \in Users => ~ \E row \in usages : info[row[1]].user = u

check_credit(i) ==
    /\ i.user \in Users
    /\ usedCredit[i.user] + i.total <= CreditLimit

deduct_stock(basket) == stock' = [s \in Skus |-> stock[s] - basket[s]]

restore_stock(basket) == stock' = [s \in Skus |-> stock[s] + basket[s]]

\* A usage row gets the first free name of its order.
record_usage(o, i) ==
    IF i.coupon
    THEN /\ usedCount' = usedCount + 1
         /\ \E n \in RowIds :
               /\ <<o, n>> \notin usages
               /\ \A m \in RowIds : m < n => <<o, m>> \in usages
               /\ usages' = usages \cup {<<o, n>>}
    ELSE UNCHANGED couponVars

\* Fault: the counter drops by one whether or not the order used the coupon.
reverse_usageFault(o) ==
    /\ usages' = usages \ RowsOf(o)
    /\ usedCount' = NonNeg(usedCount - 1)

\* Fault: a cancelled order keeps its use.
reverse_usageForgotten(o) == UNCHANGED couponVars

reverse_usage(o) ==
    /\ usages' = usages \ RowsOf(o)
    /\ usedCount' = NonNeg(usedCount - Cardinality(RowsOf(o)))

redeem_and_earn(o, i) ==
    IF i.user \in Users
    THEN /\ balance' = [balance EXCEPT ![i.user] = @ - i.redeem + earned(i)]
         /\ pointsTx' = [pointsTx EXCEPT ![o] = @ + 1]
    ELSE UNCHANGED pointsVars

\* Fault: the redeemed points are not given back.
reverse_order_pointsFault(o) ==
    LET i == info[o]
    IN /\ balance' = IF i.user \in Users
                     THEN [balance EXCEPT ![i.user] = NonNeg(@ - pointsTx[o] * earned(i))]
                     ELSE balance
       /\ UNCHANGED pointsTx

\* Each recorded pair gives the redeemed points back and then takes the earned
\* ones, stopping at zero; the transactions themselves stay.
reverse_order_points(o) ==
    LET i == info[o]
    IN /\ balance' = IF i.user \in Users
                     THEN [balance EXCEPT ![i.user] =
                              NonNeg(@ + pointsTx[o] * (i.redeem - earned(i)))]
                     ELSE balance
       /\ UNCHANGED pointsTx

within_bound ==
    /\ \A s \in Skus : stock[s] <= LedgerBound
    /\ \A u \in Users : balance[u] <= LedgerBound

\* Fault: the stock check of the first step is trusted under the lock.
can_applyFault(i) == can_redeem(i)

can_apply(i) == in_stock(i.basket) /\ can_redeem(i)

apply_paid_order_effects(o, i) ==
    /\ can_apply(i)
    /\ deduct_stock(i.basket)
    /\ record_usage(o, i)
    /\ redeem_and_earn(o, i)

\* The effects when one of them raises: some lines may already be deducted, or
\* all of them and the coupon recorded when the points are short.
apply_effects_until_error(o, i) ==
    \/ /\ \E done \in SUBSET {s \in Skus : i.basket[s] > 0} :
             /\ \A s \in done : i.basket[s] <= stock[s]
             /\ \E s \in Skus \ done : i.basket[s] > stock[s]
             /\ stock' = [s \in Skus |-> IF s \in done THEN stock[s] - i.basket[s]
                                                       ELSE stock[s]]
       /\ UNCHANGED <<couponVars, pointsVars>>
    \/ /\ in_stock(i.basket) /\ ~can_redeem(i)
       /\ deduct_stock(i.basket)
       /\ record_usage(o, i)
       /\ UNCHANGED pointsVars

-----------------------------------------------------------------------------
(* Checkout.                                                                *)

BeginCheckout(r) ==
    /\ req[r] = Idle
    /\ \E i \in CheckoutRequests :
          /\ in_stock(i.basket)
          /\ i.method = "credit_limit" => i.user # NoUser
          /\ i.coupon => validate_coupon(i.user)
          /\ can_redeem(i)
          /\ req' = [req EXCEPT ![r] = [op |-> "checkout", info |-> i]]
    /\ UNCHANGED <<orderVars, stripeVars, ledgerVars, logVars>>

\* create_order: the order row, pending and not paid.
create_order(o, i, pay) ==
    /\ status[o] = "absent"
    /\ status' = [status EXCEPT ![o] = "pending"]
    /\ payment' = [payment EXCEPT ![o] = pay]
    /\ info' = [info EXCEPT ![o] = i]

\* Cash and credit orders are paid, with their effects, in the same transaction.
CommitPaidCheckout(r, o) ==
    LET i == req[r].info
    IN /\ req[r].op = "checkout"
       /\ i.method \in Immediate
       /\ create_order(o, i, "paid")
       /\ \/ /\ i.method = "cash"
             /\ UNCHANGED usedCredit
          \/ /\ i.method = "credit_limit"
             /\ check_credit(i)
             /\ usedCredit' = [usedCredit EXCEPT ![i.user] = @ + i.total]
       /\ apply_paid_order_effects(o, i)
       /\ req' = [req EXCEPT ![r] = Idle]
       /\ UNCHANGED <<stripeVars, logVars>>

\* The other methods leave the order unpaid and defer every effect.
CommitDeferredCheckout(r, o) ==
    LET i == req[r].info
    IN /\ req[r].op = "checkout"
       /\ i.method \notin Immediate
       /\ create_order(o, i, "pending")
       /\ intent' = IF i.method = "stripe" THEN [intent EXCEPT ![o] = "open"] ELSE intent
       /\ req' = [req EXCEPT ![r] = Idle]
       /\ UNCHANGED <<refunded, ledgerVars, logVars>>

-----------------------------------------------------------------------------
(* Operations on an order: the first step loads the row and checks it.      *)

Load(r, o, op, to) ==
    /\ req[r] = Idle
    /\ within_bound
    /\ status[o] # "absent"
    /\ req' = [req EXCEPT ![r] = [op |-> op, order |-> o, status |-> status[o],
                                  payment |-> payment[o], to |-> to]]
    /\ UNCHANGED <<orderVars, stripeVars, ledgerVars, logVars>>

\* Fault: an event for a cancelled order is dropped.
BeginWebhookFault(r, o) ==
    /\ intent[o] = "succeeded"
    /\ payment[o] # "paid"
    /\ status[o] # "cancelled"
    /\ Load(r, o, "webhook", "confirmed")

\* payment_intent.succeeded, delivered any number of times; an order that is
\* already paid is left alone.
BeginWebhook(r, o) ==
    /\ intent[o] = "succeeded"
    /\ payment[o] # "paid"
    /\ Load(r, o, "webhook", "confirmed")

\* Fault: any payment method can be confirmed by hand.
BeginMarkPaidFault(r, o) ==
    /\ status[o] # "cancelled"
    /\ payment[o] # "paid"
    /\ Load(r, o, "mark_paid", "confirmed")

\* Fault: an order that is already paid can be confirmed again.
BeginMarkPaidTwice(r, o) ==
    /\ info[o].method \in Manual
    /\ status[o] # "cancelled"
    /\ Load(r, o, "mark_paid", "confirmed")

BeginMarkPaid(r, o) ==
    /\ info[o].method \in Manual
    /\ status[o] # "cancelled"
    /\ payment[o] # "paid"
    /\ Load(r, o, "mark_paid", "confirmed")

\* A customer cancels an order of their own that is not being processed yet.
BeginCancelOrder(r, o) ==
    /\ info[o].user \in Users
    /\ status[o] \in {"pending", "confirmed"}
    /\ Load(r, o, "cancel", "cancelled")

\* Fault: a cancelled order can be confirmed again.
AllowedTransitionsFault ==
    [absent     |-> {},
     pending    |-> {"confirmed", "processing", "shipped", "delivered", "cancelled"},
     confirmed  |-> {"processing", "shipped", "delivered", "cancelled"},
     processing |-> {"shipped", "delivered", "cancelled"},
     shipped    |-> {"delivered", "cancelled"},
     delivered  |-> {},
     cancelled  |-> {"confirmed"}]

\* _ALLOWED_TRANSITIONS
AllowedTransitions ==
    [absent     |-> {},
     pending    |-> {"confirmed", "processing", "shipped", "delivered", "cancelled"},
     confirmed  |-> {"processing", "shipped", "delivered", "cancelled"},
     processing |-> {"shipped", "delivered", "cancelled"},
     shipped    |-> {"delivered", "cancelled"},
     delivered  |-> {},
     cancelled  |-> {}]

\* Assigning the status the order already has is accepted and changes nothing.
BeginUpdateStatus(r, o) ==
    \E to \in AllowedTransitions[status[o]] :
        Load(r, o, IF to = "cancelled" THEN "cancel" ELSE "write", to)

BeginFulfilOrder(r, o) ==
    /\ status[o] # "cancelled"
    /\ Load(r, o, "write", "shipped")

-----------------------------------------------------------------------------
(* The second step writes what differs from the row that was loaded.        *)

\* The UPDATE carries the status column only when the assigned value is not
\* the one the request loaded.
flush_status(r, new) ==
    status' = IF req[r].status = new THEN status
              ELSE [status EXCEPT ![req[r].order] = new]

\* Fault: the whole loaded row is written back.
CommitStatusFault(r) ==
    /\ req[r].op = "write"
    /\ flush_status(r, req[r].to)
    /\ payment' = [payment EXCEPT ![req[r].order] = req[r].payment]
    /\ req' = [req EXCEPT ![r] = Idle]
    /\ UNCHANGED <<info, stripeVars, ledgerVars, logVars>>

CommitStatus(r) ==
    /\ req[r].op = "write"
    /\ flush_status(r, req[r].to)
    /\ req' = [req EXCEPT ![r] = Idle]
    /\ UNCHANGED <<payment, info, stripeVars, ledgerVars, logVars>>

CommitWebhook(r) ==
    /\ req[r].op = "webhook"
    /\ flush_status(r, "confirmed")
    /\ payment' = [payment EXCEPT ![req[r].order] = "paid"]
    /\ apply_paid_order_effects(req[r].order, info[req[r].order])
    /\ req' = [req EXCEPT ![r] = Idle]
    /\ UNCHANGED <<info, stripeVars, usedCredit, logVars>>

\* The exception is caught and logged: what was flushed before it is committed.
CommitWebhookPartly(r) ==
    /\ req[r].op = "webhook"
    /\ flush_status(r, "confirmed")
    /\ payment' = [payment EXCEPT ![req[r].order] = "paid"]
    /\ apply_effects_until_error(req[r].order, info[req[r].order])
    /\ reconcile' = reconcile \cup {req[r].order}
    /\ req' = [req EXCEPT ![r] = Idle]
    /\ UNCHANGED <<info, stripeVars, usedCredit, manualRefund>>

CommitMarkPaid(r) ==
    /\ req[r].op = "mark_paid"
    /\ IF req[r].status = "pending" THEN flush_status(r, "confirmed") ELSE UNCHANGED status
    /\ payment' = [payment EXCEPT ![req[r].order] = "paid"]
    /\ apply_paid_order_effects(req[r].order, info[req[r].order])
    /\ req' = [req EXCEPT ![r] = Idle]
    /\ UNCHANGED <<info, stripeVars, usedCredit, logVars>>

\* Fault: an unpaid order is reversed like a paid one.
loaded_paidFault(r) == TRUE

\* Stock, card and credit are given back only when the loaded row was paid.
loaded_paid(r) == req[r].payment = "paid"

\* Fault: a failed refund leaves no trace.
issue_stripe_refundFault(o) ==
    \/ /\ o \notin refunded
       /\ refunded' = refunded \cup {o}
       /\ UNCHANGED manualRefund
    \/ UNCHANGED <<refunded, manualRefund>>

\* Stripe refuses a second refund; any failure is logged for a manual one.
issue_stripe_refund(o) ==
    \/ /\ o \notin refunded
       /\ refunded' = refunded \cup {o}
       /\ UNCHANGED manualRefund
    \/ /\ manualRefund' = manualRefund \cup {o}
       /\ UNCHANGED refunded

\* Fault: the credit of a cancelled order stays drawn.
restore_creditFault(i) == UNCHANGED usedCredit

restore_credit(i) ==
    usedCredit' = [usedCredit EXCEPT ![i.user] = NonNeg(@ - i.total)]

apply_cancellation_effects(r, o) ==
    /\ IF loaded_paid(r) THEN restore_stock(info[o].basket) ELSE UNCHANGED stock
    /\ IF loaded_paid(r) /\ info[o].method = "stripe"
       THEN issue_stripe_refund(o)
       ELSE UNCHANGED <<refunded, manualRefund>>
    /\ IF loaded_paid(r) /\ info[o].method = "credit_limit"
       THEN restore_credit(info[o])
       ELSE UNCHANGED usedCredit
    /\ reverse_order_points(o)
    /\ reverse_usage(o)

CommitCancel(r) ==
    /\ req[r].op = "cancel"
    /\ flush_status(r, "cancelled")
    /\ apply_cancellation_effects(r, req[r].order)
    /\ req' = [req EXCEPT ![r] = Idle]
    /\ UNCHANGED <<payment, info, intent, reconcile>>

\* The request dies after Stripe made the refund and before the commit.
CrashAfterRefund(r) ==
    /\ req[r].op = "cancel"
    /\ loaded_paid(r)
    /\ info[req[r].order].method = "stripe"
    /\ refunded' = refunded \cup {req[r].order}
    /\ req' = [req EXCEPT ![r] = Idle]
    /\ UNCHANGED <<orderVars, intent, ledgerVars, logVars>>

\* get_db: any exception, a failed check included, undoes the transaction.
Rollback(r) ==
    /\ req[r] # Idle
    /\ req' = [req EXCEPT ![r] = Idle]
    /\ UNCHANGED <<orderVars, stripeVars, ledgerVars, logVars>>

\* The customer pays the PaymentIntent with Stripe.
ConfirmPayment(o) ==
    /\ intent[o] = "open"
    /\ intent' = [intent EXCEPT ![o] = "succeeded"]
    /\ UNCHANGED <<orderVars, refunded, ledgerVars, logVars, req>>

-----------------------------------------------------------------------------
Begin(r) ==
    \/ BeginCheckout(r)
    \/ \E o \in OrderIds :
          \/ BeginWebhook(r, o)
          \/ BeginMarkPaid(r, o)
          \/ BeginCancelOrder(r, o)
          \/ BeginUpdateStatus(r, o)
          \/ BeginFulfilOrder(r, o)

Finish(r) ==
    \/ \E o \in OrderIds : CommitPaidCheckout(r, o) \/ CommitDeferredCheckout(r, o)
    \/ CommitStatus(r)
    \/ CommitWebhook(r)
    \/ CommitWebhookPartly(r)
    \/ CommitMarkPaid(r)
    \/ CommitCancel(r)
    \/ CrashAfterRefund(r)
    \/ Rollback(r)

Next ==
    \/ \E r \in Requests : Begin(r) \/ Finish(r)
    \/ \E o \in OrderIds : ConfirmPayment(o)

Spec == Init /\ [][Next]_vars

-----------------------------------------------------------------------------
\* Every request ends; Stripe redelivers an unacknowledged event until it is
\* taken, and a redelivered webhook is not rolled back for ever.
DeliverWebhook(o) == \E r \in Requests : BeginWebhook(r, o)

AcknowledgeWebhook(o) ==
    \E r \in Requests :
        /\ req[r] # Idle /\ req[r].op = "webhook" /\ req[r].order = o
        /\ CommitWebhook(r) \/ CommitWebhookPartly(r)

Fairness ==
    /\ \A r \in Requests : WF_vars(Finish(r))
    /\ \A o \in OrderIds : SF_vars(DeliverWebhook(o)) /\ SF_vars(AcknowledgeWebhook(o))

FairSpec == Spec /\ Fairness

-----------------------------------------------------------------------------
(* What holds under every interleaving of the requests.                     *)

\* The rows keep their types and the clamped counters never go below zero.
TypeOK ==
    /\ status \in [OrderIds -> Statuses]
    /\ payment \in [OrderIds -> PaymentStatus]
    /\ info \in [OrderIds -> Info]
    /\ intent \in [OrderIds -> {"none", "open", "succeeded"}]
    /\ refunded \subseteq OrderIds
    /\ stock \in [Skus -> Int]
    /\ usedCredit \in [Users -> Nat]
    /\ balance \in [Users -> Int]
    /\ pointsTx \in [OrderIds -> Nat]
    /\ usages \subseteq OrderIds \X RowIds
    /\ usedCount \in Nat
    /\ reconcile \subseteq OrderIds
    /\ manualRefund \subseteq OrderIds
    /\ req \in [Requests -> Request]

\* However checkouts, webhooks and cancellations interleave, no stock is sold
\* that is not there, no customer redeems points or draws credit they do not
\* have: the stale checks of the first step are repeated under the write lock.
NoOverdraft ==
    /\ \A s \in Skus : stock[s] >= 0
    /\ \A u \in Users : balance[u] >= 0 /\ usedCredit[u] <= CreditLimit

\* Coupon.used_count, a counter maintained beside the CouponUsage table by
\* record_usage and reverse_usage, always equals the number of its rows, also
\* when two webhooks record twice or two cancellations reverse twice.
CouponCountMatchesRows == usedCount = Cardinality(usages)

\* An order that was never paid has consumed nothing: no coupon row and no
\* points transaction names it, and while no order at all is paid the stock,
\* the points and the credit stand where they started - an abandoned checkout
\* or the cancellation of an unpaid order neither takes nor returns anything.
UnpaidConsumesNothing ==
    /\ \A o \in OrderIds : payment[o] # "paid" => pointsTx[o] = 0 /\ RowsOf(o) = {}
    /\ (\A o \in OrderIds : payment[o] # "paid") =>
          /\ stock = InitStock
          /\ usedCredit = [u \in Users |-> 0]
          /\ balance = [u \in Users |-> InitPoints]

\* A card is refunded only if Stripe captured it: no cancellation, however
\* stale its row, issues a phantom refund.
NoPhantomRefund == \A o \in refunded : intent[o] = "succeeded"

\* Payment is permanent: no concurrent status write, cancellation or late
\* webhook turns a paid order back into an unpaid one.
PaidIsPermanent == [][\A o \in OrderIds : payment[o] = "paid" => payment'[o] = "paid"]_vars

(* What the sources say and the interleavings refute.                       *)

\* checkout/service.py: the payment_status check guards the effects, "so a
\* duplicate webhook won't re-apply" them.
EffectsAppliedOnce ==
    \A o \in OrderIds : pointsTx[o] <= 1 /\ Cardinality(RowsOf(o)) <= 1

\* orders/service.py: cancelled is "terminal"; no request moves an order out
\* of it.
CancelledIsTerminal ==
    [][\A o \in OrderIds : status[o] = "cancelled" => status'[o] = "cancelled"]_vars

\* coupons/service.py: "One redemption per customer".
OneRedemptionPerCustomer ==
    \A u \in Users : Cardinality({row \in usages : info[row[1]].user = u}) <= 1
=============================================================================
