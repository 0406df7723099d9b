---------------------------- MODULE OrdersProofs ----------------------------
(***************************************************************************)
(* Proofs of the safety properties of Orders, for every number of requests, *)
(* orders, customers and stock cells.                                       *)
(***************************************************************************)
EXTENDS Orders, FiniteSetTheorems, TLAPS

(* The strengthening that makes the properties inductive.                   *)

\* A request in flight holds an order that exists, and if it loaded the order
\* as paid then the order still is.
LoadedRows ==
    \A r \in Requests :
        /\ req[r] # Idle /\ req[r].op = "checkout" => req[r].info \in CheckoutRequests
        /\ req[r] # Idle /\ req[r].op \in OrderOps =>
              /\ status[req[r].order] # "absent"
              /\ req[r].payment = "paid" => payment[req[r].order] = "paid"
              /\ req[r].op = "webhook" => intent[req[r].order] = "succeeded"
              /\ req[r].op = "mark_paid" => info[req[r].order].method \in Manual

\* An order id that was not used yet is clean on both sides.
AbsentOrders ==
    \A o \in OrderIds : status[o] = "absent" => payment[o] = "pending" /\ intent[o] = "none"

\* A card order is paid only after Stripe captured the money.
PaidCardsCaptured ==
    \A o \in OrderIds :
        payment[o] = "paid" /\ info[o].method = "stripe" => intent[o] = "succeeded"

CouponCount == IsFiniteSet(usages) /\ CouponCountMatchesRows

IInv ==
    /\ TypeOK
    /\ LoadedRows
    /\ AbsentOrders
    /\ PaidCardsCaptured
    /\ NoOverdraft
    /\ UnpaidConsumesNothing
    /\ NoPhantomRefund
    /\ CouponCount

-----------------------------------------------------------------------------
(* Facts about the helper operators.                                        *)

\* A floor at zero makes any integer a natural number.
LEMMA NonNegNat == \A n \in Int : NonNeg(n) \in Nat /\ (n \in Nat => NonNeg(n) = n)
  BY DEF NonNeg

\* Points are earned in whole, non-negative numbers.
LEMMA EarnedNat == \A i \in Info : earned(i) \in Nat
  <1> TAKE i \in Info
  <1>1. i.total \in Nat /\ EarnRate \in Nat
    BY OrdersAssumption DEF Info
  <1>2. \A x, y \in Nat : x * y \in Nat
    OBVIOUS
  <1> QED BY <1>1, <1>2 DEF earned

\* What record_usage does to the coupon: at most one new row, of this order.
LEMMA RecordUsage ==
  ASSUME usages \subseteq OrderIds \X RowIds, usedCount \in Nat,
         NEW o \in OrderIds, NEW i, record_usage(o, i)
  PROVE  \/ usages' = usages /\ usedCount' = usedCount
         \/ \E n \in RowIds : /\ <<o, n>> \notin usages
                              /\ usages' = usages \cup {<<o, n>>}
                              /\ usedCount' = usedCount + 1
  <1>1. CASE i.coupon
    <2>1. usedCount' = usedCount + 1
      BY <1>1 DEF record_usage
    <2>2. PICK n \in RowIds : <<o, n>> \notin usages /\ usages' = usages \cup {<<o, n>>}
      BY <1>1 DEF record_usage
    <2> QED BY <2>1, <2>2
  <1>2. CASE ~i.coupon
    BY <1>2 DEF record_usage, couponVars
  <1> QED BY <1>1, <1>2

\* The coupon rows stay typed, and the counter keeps counting them.
LEMMA RecordUsageCounts ==
  ASSUME usages \subseteq OrderIds \X RowIds, usedCount \in Nat,
         NEW o \in OrderIds, NEW i, record_usage(o, i)
  PROVE  /\ usages' \subseteq OrderIds \X RowIds
         /\ usedCount' \in Nat
         /\ CouponCount => CouponCount'
         /\ \A p \in OrderIds \ {o} : RowsOf(p)' = RowsOf(p)
  <1>1. CASE usages' = usages /\ usedCount' = usedCount
    BY <1>1 DEF CouponCount, CouponCountMatchesRows, RowsOf
  <1>2. CASE \E n \in RowIds : /\ <<o, n>> \notin usages
                               /\ usages' = usages \cup {<<o, n>>}
                               /\ usedCount' = usedCount + 1
    <2>1. PICK n \in RowIds : /\ <<o, n>> \notin usages
                              /\ usages' = usages \cup {<<o, n>>}
                              /\ usedCount' = usedCount + 1
      BY <1>2
    <2>2. usages' \subseteq OrderIds \X RowIds /\ usedCount' \in Nat
      BY <2>1
    <2>3. CouponCount => CouponCount'
      <3> HAVE CouponCount
      <3>1. IsFiniteSet(usages) /\ usedCount = Cardinality(usages)
        BY DEF CouponCount, CouponCountMatchesRows
      <3>2. IsFiniteSet(usages') /\ Cardinality(usages') = Cardinality(usages) + 1
        BY <2>1, <3>1, FS_AddElement
      <3> QED BY <2>1, <3>1, <3>2 DEF CouponCount, CouponCountMatchesRows
    <2>4. \A p \in OrderIds \ {o} : RowsOf(p)' = RowsOf(p)
      BY <2>1 DEF RowsOf
    <2> QED BY <2>2, <2>3, <2>4
  <1> QED BY <1>1, <1>2, RecordUsage

\* Reversing drops the rows of one order and takes exactly them off the count.
LEMMA ReverseUsageCounts ==
  ASSUME usages \subseteq OrderIds \X RowIds, usedCount \in Nat, CouponCount,
         NEW o \in OrderIds, reverse_usage(o)
  PROVE  /\ usages' \subseteq usages
         /\ usedCount' \in Nat
         /\ CouponCount'
  <1>1. IsFiniteSet(usages) /\ usedCount = Cardinality(usages)
    BY DEF CouponCount, CouponCountMatchesRows
  <1>2. RowsOf(o) \subseteq usages /\ usages' = usages \ RowsOf(o)
    BY DEF RowsOf, reverse_usage
  <1>3. /\ IsFiniteSet(RowsOf(o)) /\ Cardinality(RowsOf(o)) \in Nat
        /\ Cardinality(RowsOf(o)) <= Cardinality(usages)
    BY <1>1, <1>2, FS_Subset, FS_CardinalityType
  <1>4. usages \cap RowsOf(o) = RowsOf(o)
    BY <1>2
  <1>5. /\ IsFiniteSet(usages')
        /\ Cardinality(usages') = Cardinality(usages) - Cardinality(RowsOf(o))
    <2>1. /\ IsFiniteSet(usages \ RowsOf(o))
          /\ Cardinality(usages \ RowsOf(o))
                = Cardinality(usages) - Cardinality(usages \cap RowsOf(o))
      BY <1>1, <1>3, FS_Difference
    <2> QED BY <1>2, <1>4, <2>1
  <1>6. usedCount' = usedCount - Cardinality(RowsOf(o)) /\ usedCount' \in Nat
    BY <1>1, <1>3 DEF reverse_usage, NonNeg
  <1> QED BY <1>1, <1>2, <1>5, <1>6 DEF CouponCount, CouponCountMatchesRows

\* The type of a request in flight, field by field.
LEMMA RequestShape ==
  ASSUME NEW q \in Request
  PROVE  /\ q.op = "checkout" => q.info \in Info
         /\ q.op \in OrderOps =>
               /\ q.order \in OrderIds
               /\ q.status \in OrderStatus
               /\ q.payment \in PaymentStatus
               /\ q.to \in OrderStatus
         /\ q.op = "idle" <=> q = Idle
  BY DEF Request, Idle, OrderOps

-----------------------------------------------------------------------------
(* The side effects keep the ledgers sound.                                 *)

\* What every batch of effects for the order o leaves behind: typed ledgers,
\* nothing overdrawn, and no trace on any other order.
EffectsSound(o) ==
    /\ stock' \in [Skus -> Int] /\ \A s \in Skus : stock'[s] >= 0
    /\ balance' \in [Users -> Int] /\ \A u \in Users : balance'[u] >= 0
    /\ pointsTx' \in [OrderIds -> Nat]
    /\ usages' \subseteq OrderIds \X RowIds /\ usedCount' \in Nat /\ CouponCount'
    /\ \A p \in OrderIds \ {o} : pointsTx'[p] = pointsTx[p] /\ RowsOf(p)' = RowsOf(p)

\* The full effects of a paid order, under the checks that guard them.
LEMMA ApplySound ==
  ASSUME TypeOK, NoOverdraft, CouponCount,
         NEW o \in OrderIds, NEW i \in Info, apply_paid_order_effects(o, i)
  PROVE  EffectsSound(o)
  <1> USE DEF TypeOK, NoOverdraft
  <1>1. i.basket \in [Skus -> Nat] /\ i.redeem \in Nat /\ earned(i) \in Nat
    BY EarnedNat DEF Info
  <1>2. stock' \in [Skus -> Int] /\ \A s \in Skus : stock'[s] >= 0
    BY <1>1 DEF apply_paid_order_effects, can_apply, in_stock, deduct_stock
  <1>3. /\ usages' \subseteq OrderIds \X RowIds /\ usedCount' \in Nat /\ CouponCount'
        /\ \A p \in OrderIds \ {o} : RowsOf(p)' = RowsOf(p)
    BY RecordUsageCounts DEF apply_paid_order_effects
  <1>4. CASE i.user \in Users
    <2>1. i.redeem <= balance[i.user]
      BY <1>1, <1>4 DEF apply_paid_order_effects, can_apply, can_redeem
    <2>2. /\ balance' = [balance EXCEPT ![i.user] = @ - i.redeem + earned(i)]
          /\ pointsTx' = [pointsTx EXCEPT ![o] = @ + 1]
      BY <1>4 DEF apply_paid_order_effects, redeem_and_earn
    <2>3. balance' \in [Users -> Int] /\ \A u \in Users : balance'[u] >= 0
      BY <1>1, <1>4, <2>1, <2>2
    <2>4. /\ pointsTx' \in [OrderIds -> Nat]
          /\ \A p \in OrderIds \ {o} : pointsTx'[p] = pointsTx[p]
      BY <2>2
    <2> QED BY <1>2, <1>3, <2>3, <2>4 DEF EffectsSound
  <1>5. CASE i.user \notin Users
    <2>1. balance' = balance /\ pointsTx' = pointsTx
      BY <1>5 DEF apply_paid_order_effects, redeem_and_earn, pointsVars
    <2> QED BY <1>2, <1>3, <2>1 DEF EffectsSound
  <1> QED BY <1>4, <1>5

\* The effects of a paid order that stop at an exception.
LEMMA ApplyPartlySound ==
  ASSUME TypeOK, NoOverdraft, CouponCount,
         NEW o \in OrderIds, NEW i \in Info, apply_effects_until_error(o, i)
  PROVE  EffectsSound(o)
  <1> USE DEF TypeOK, NoOverdraft
  <1>1. i.basket \in [Skus -> Nat]
    BY DEF Info
  <1>2. balance' = balance /\ pointsTx' = pointsTx
    BY DEF apply_effects_until_error, pointsVars
  <1>3. stock' \in [Skus -> Int] /\ \A s \in Skus : stock'[s] >= 0
    BY <1>1 DEF apply_effects_until_error, in_stock, deduct_stock
  <1>4. /\ usages' \subseteq OrderIds \X RowIds /\ usedCount' \in Nat /\ CouponCount'
        /\ \A p \in OrderIds \ {o} : RowsOf(p)' = RowsOf(p)
    <2>1. CASE UNCHANGED couponVars
      BY <2>1 DEF couponVars, CouponCount, CouponCountMatchesRows, RowsOf
    <2>2. CASE record_usage(o, i)
      BY <2>2, RecordUsageCounts
    <2> QED BY <2>1, <2>2 DEF apply_effects_until_error
  <1> QED BY <1>2, <1>3, <1>4 DEF EffectsSound

\* The effects of a cancellation, and the credit it gives back.
LEMMA CancelSound ==
  ASSUME TypeOK, NoOverdraft, CouponCount,
         NEW r \in Requests, NEW o \in OrderIds, apply_cancellation_effects(r, o)
  PROVE  /\ EffectsSound(o)
         /\ usedCredit' \in [Users -> Nat]
         /\ \A u \in Users : usedCredit'[u] <= usedCredit[u]
  <1> USE DEF TypeOK, NoOverdraft
  <1>1. /\ info[o] \in Info /\ info[o].basket \in [Skus -> Nat]
        /\ info[o].redeem \in Nat /\ info[o].total \in Nat /\ earned(info[o]) \in Nat
    BY EarnedNat DEF Info
  <1>2. stock' \in [Skus -> Int] /\ \A s \in Skus : stock'[s] >= 0
    BY <1>1 DEF apply_cancellation_effects, restore_stock
  <1>3. pointsTx' = pointsTx
    BY DEF apply_cancellation_effects, reverse_order_points
  <1>4. balance' \in [Users -> Int] /\ \A u \in Users : balance'[u] >= 0
    <2>1. \A x \in Int : NonNeg(x) \in Int /\ NonNeg(x) >= 0
      BY DEF NonNeg
    <2>2. pointsTx[o] * (info[o].redeem - earned(info[o])) \in Int
      <3>1. \A x \in Nat, y \in Int : x * y \in Int
        OBVIOUS
      <3>2. pointsTx[o] \in Nat /\ info[o].redeem - earned(info[o]) \in Int
        BY <1>1
      <3> QED BY <3>1, <3>2
    <2> DEFINE k == pointsTx[o] * (info[o].redeem - earned(info[o]))
    <2>3. balance' = IF info[o].user \in Users
                     THEN [balance EXCEPT ![info[o].user] = NonNeg(@ + k)]
                     ELSE balance
      BY DEF apply_cancellation_effects, reverse_order_points
    <2>4. k \in Int
      BY <2>2
    <2> HIDE DEF k
    <2> QED BY <2>1, <2>3, <2>4
  <1>5. /\ usages' \subseteq usages /\ usedCount' \in Nat /\ CouponCount'
    BY ReverseUsageCounts DEF apply_cancellation_effects
  <1>6. \A p \in OrderIds \ {o} : RowsOf(p)' = RowsOf(p)
    BY DEF apply_cancellation_effects, reverse_usage, RowsOf
  <1>7. usedCredit' \in [Users -> Nat] /\ \A u \in Users : usedCredit'[u] <= usedCredit[u]
    BY <1>1 DEF apply_cancellation_effects, restore_credit, NonNeg
  <1> QED BY <1>2, <1>3, <1>4, <1>5, <1>6, <1>7 DEF EffectsSound

-----------------------------------------------------------------------------
(* The parts of the invariant that several actions keep for one reason.     *)

\* What a request holds stays true while orders keep their identity, payments
\* stand, and requests only end.
LEMMA LoadedRowsKept ==
  ASSUME TypeOK, LoadedRows, req' \in [Requests -> Request],
         \A q \in Requests : req'[q] \in {req[q], Idle},
         \A o \in OrderIds :
            /\ status[o] # "absent" => status'[o] # "absent" /\ info'[o] = info[o]
            /\ payment[o] = "paid" => payment'[o] = "paid"
            /\ intent[o] = "succeeded" => intent'[o] = "succeeded"
  PROVE  LoadedRows'
  <1> SUFFICES ASSUME NEW q \in Requests, req'[q] # Idle
               PROVE  /\ req'[q].op = "checkout" => req'[q].info \in CheckoutRequests
                      /\ req'[q].op \in OrderOps =>
                            /\ status'[req'[q].order] # "absent"
                            /\ req'[q].payment = "paid" => payment'[req'[q].order] = "paid"
                            /\ req'[q].op = "webhook" => intent'[req'[q].order] = "succeeded"
                            /\ req'[q].op = "mark_paid" =>
                                  info'[req'[q].order].method \in Manual
    BY DEF LoadedRows
  <1>1. req'[q] = req[q] /\ req[q] \in Request
    BY DEF TypeOK
  <1>2. req[q].op \in OrderOps => req[q].order \in OrderIds
    BY <1>1, RequestShape
  <1> QED BY <1>1, <1>2 DEF LoadedRows

\* Ending a request keeps the slots typed.
LEMMA EndRequest ==
  ASSUME TypeOK, NEW r \in Requests, req' = [req EXCEPT ![r] = Idle]
  PROVE  /\ req' \in [Requests -> Request]
         /\ \A q \in Requests : req'[q] \in {req[q], Idle}
  BY DEF TypeOK, Request

\* A step that only touches the request slots keeps everything else.
LEMMA RequestOnly ==
  ASSUME IInv, UNCHANGED <<orderVars, stripeVars, ledgerVars, logVars>>,
         req' \in [Requests -> Request], LoadedRows'
  PROVE  IInv'
  BY DEF IInv, TypeOK, AbsentOrders, PaidCardsCaptured, NoOverdraft, UnpaidConsumesNothing,
         NoPhantomRefund, CouponCount, CouponCountMatchesRows, RowsOf,
         orderVars, stripeVars, ledgerVars, pointsVars, couponVars, logVars

\* A paid order may have effects: the unpaid ones still have none.
LEMMA PaidStep ==
  ASSUME TypeOK, UnpaidConsumesNothing, NEW o \in OrderIds, EffectsSound(o),
         payment' \in [OrderIds -> PaymentStatus], payment'[o] = "paid",
         \A p \in OrderIds \ {o} : payment'[p] = payment[p]
  PROVE  UnpaidConsumesNothing'
  <1>1. ASSUME NEW p \in OrderIds, payment'[p] # "paid"
        PROVE  pointsTx'[p] = 0 /\ RowsOf(p)' = {}
    <2>1. p \in OrderIds \ {o} /\ payment[p] # "paid"
      BY <1>1
    <2> QED BY <2>1 DEF EffectsSound, UnpaidConsumesNothing
  <1>2. ~ \A p \in OrderIds : payment'[p] # "paid"
    OBVIOUS
  <1> QED BY <1>1, <1>2 DEF UnpaidConsumesNothing

-----------------------------------------------------------------------------
(* The first step of every request.                                         *)

\* Loading a row remembers what is true of it now.
LEMMA LoadStep ==
  ASSUME IInv, NEW r \in Requests, NEW o \in OrderIds, NEW op \in OrderOps,
         NEW to \in OrderStatus, Load(r, o, op, to),
         op = "webhook" => intent[o] = "succeeded",
         op = "mark_paid" => info[o].method \in Manual
  PROVE  IInv'
  <1> USE DEF IInv
  <1> DEFINE new == [op |-> op, order |-> o, status |-> status[o],
                     payment |-> payment[o], to |-> to]
  <1>1. /\ status[o] # "absent" /\ req' = [req EXCEPT ![r] = new]
        /\ UNCHANGED <<orderVars, stripeVars, ledgerVars, logVars>>
    BY DEF Load
  <1>2. new \in Request
    BY <1>1 DEF Request, TypeOK, Statuses
  <1>3. req' \in [Requests -> Request] /\ req'[r] = new
    BY <1>1, <1>2 DEF TypeOK
  <1>4. LoadedRows'
    <2>1. UNCHANGED <<status, payment, info, intent>>
      BY <1>1 DEF orderVars, stripeVars
    <2> SUFFICES ASSUME NEW q \in Requests, req'[q] # Idle
                 PROVE  /\ req'[q].op = "checkout" => req'[q].info \in CheckoutRequests
                        /\ req'[q].op \in OrderOps =>
                              /\ status[req'[q].order] # "absent"
                              /\ req'[q].payment = "paid" => payment[req'[q].order] = "paid"
                              /\ req'[q].op = "webhook" => intent[req'[q].order] = "succeeded"
                              /\ req'[q].op = "mark_paid" =>
                                    info[req'[q].order].method \in Manual
      BY <2>1 DEF LoadedRows
    <2>2. CASE q = r
      BY <1>1, <1>3, <2>2 DEF OrderOps
    <2>3. CASE q # r
      <3>1. req'[q] = req[q]
        BY <1>1, <2>3 DEF TypeOK
      <3> QED BY <3>1 DEF LoadedRows
    <2> QED BY <2>2, <2>3
  <1> QED BY <1>1, <1>3, <1>4, RequestOnly

\* A checkout in flight holds one of the baskets customers may submit.
LEMMA BeginCheckoutStep ==
  ASSUME IInv, NEW r \in Requests, BeginCheckout(r)
  PROVE  IInv'
  <1> USE DEF IInv
  <1>1. PICK i \in CheckoutRequests : req' = [req EXCEPT ![r] = [op |-> "checkout", info |-> i]]
    BY DEF BeginCheckout
  <1>2. UNCHANGED <<orderVars, stripeVars, ledgerVars, logVars>>
    BY DEF BeginCheckout
  <1>3. req' \in [Requests -> Request]
    BY <1>1, OrdersAssumption DEF TypeOK, Request
  <1>4. LoadedRows'
    <2>1. UNCHANGED <<status, payment, info, intent>>
      BY <1>2 DEF orderVars, stripeVars
    <2>2. \A q \in Requests : q # r => req'[q] = req[q]
      BY <1>1 DEF TypeOK
    <2>3. req'[r] = [op |-> "checkout", info |-> i]
      BY <1>1 DEF TypeOK
    <2> QED BY <2>1, <2>2, <2>3 DEF LoadedRows, OrderOps
  <1> QED BY <1>2, <1>3, <1>4, RequestOnly

\* Whatever a request loads and checks first leaves the invariant alone.
LEMMA BeginStep ==
  ASSUME IInv, NEW r \in Requests, Begin(r)
  PROVE  IInv'
  <1>1. CASE BeginCheckout(r)
    BY <1>1, BeginCheckoutStep
  <1>2. ASSUME NEW o \in OrderIds, BeginWebhook(r, o) PROVE IInv'
    BY <1>2, LoadStep DEF BeginWebhook, OrderOps, OrderStatus
  <1>3. ASSUME NEW o \in OrderIds, BeginMarkPaid(r, o) PROVE IInv'
    BY <1>3, LoadStep DEF BeginMarkPaid, OrderOps, OrderStatus
  <1>4. ASSUME NEW o \in OrderIds, BeginCancelOrder(r, o) PROVE IInv'
    BY <1>4, LoadStep DEF BeginCancelOrder, OrderOps, OrderStatus
  <1>5. ASSUME NEW o \in OrderIds, BeginUpdateStatus(r, o) PROVE IInv'
    <2>1. PICK to \in AllowedTransitions[status[o]] :
             Load(r, o, IF to = "cancelled" THEN "cancel" ELSE "write", to)
      BY <1>5 DEF BeginUpdateStatus
    <2>2. status[o] \in Statuses
      BY DEF IInv, TypeOK
    <2>3. to \in OrderStatus
      BY <2>1, <2>2 DEF AllowedTransitions, OrderStatus, Statuses
    <2> QED BY <2>1, <2>3, LoadStep DEF OrderOps
  <1>6. ASSUME NEW o \in OrderIds, BeginFulfilOrder(r, o) PROVE IInv'
    BY <1>6, LoadStep DEF BeginFulfilOrder, OrderOps, OrderStatus
  <1> QED BY <1>1, <1>2, <1>3, <1>4, <1>5, <1>6 DEF Begin

-----------------------------------------------------------------------------
(* The second step of a checkout.                                           *)

\* An order id that is not in use has no payment, no charge and no request.
LEMMA CreateOrderFacts ==
  ASSUME IInv, NEW o \in OrderIds, NEW i \in Info, NEW pay \in PaymentStatus,
         create_order(o, i, pay)
  PROVE  /\ status' \in [OrderIds -> Statuses] /\ payment' \in [OrderIds -> PaymentStatus]
         /\ info' \in [OrderIds -> Info]
         /\ payment[o] = "pending" /\ intent[o] = "none" /\ o \notin refunded
         /\ payment'[o] = pay /\ info'[o] = i /\ status'[o] = "pending"
         /\ \A p \in OrderIds \ {o} :
               status'[p] = status[p] /\ payment'[p] = payment[p] /\ info'[p] = info[p]
         /\ \A p \in OrderIds :
               /\ status[p] # "absent" => status'[p] # "absent" /\ info'[p] = info[p]
               /\ payment[p] = "paid" => payment'[p] = "paid"
  BY DEF IInv, TypeOK, AbsentOrders, NoPhantomRefund, create_order, Statuses, OrderStatus

\* A checkout that pays at once.
LEMMA PaidCheckoutStep ==
  ASSUME IInv, NEW r \in Requests, NEW o \in OrderIds, CommitPaidCheckout(r, o)
  PROVE  IInv'
  <1> USE DEF IInv
  <1> DEFINE i == req[r].info
  <1>1. i \in Info /\ i.method \in Immediate
    BY RequestShape DEF CommitPaidCheckout, TypeOK
  <1>2. create_order(o, i, "paid")
    BY DEF CommitPaidCheckout
  <1>3. UNCHANGED <<intent, refunded, reconcile, manualRefund>>
    BY DEF CommitPaidCheckout, stripeVars, logVars
  <1>4. EffectsSound(o)
    BY <1>1, ApplySound DEF CommitPaidCheckout
  <1>5. req' \in [Requests -> Request] /\ \A q \in Requests : req'[q] \in {req[q], Idle}
    BY EndRequest DEF CommitPaidCheckout
  <1>6. /\ usedCredit' \in [Users -> Nat]
        /\ \A u \in Users : usedCredit'[u] <= CreditLimit
    <2>1. i.total \in Nat /\ CreditLimit \in Nat
      BY <1>1, OrdersAssumption DEF Info
    <2>2. CASE usedCredit' = usedCredit
      BY <2>2 DEF TypeOK, NoOverdraft
    <2>3. CASE check_credit(i) /\ usedCredit' = [usedCredit EXCEPT ![i.user] = @ + i.total]
      BY <2>1, <2>3 DEF TypeOK, NoOverdraft, check_credit
    <2> QED BY <2>2, <2>3 DEF CommitPaidCheckout
  <1>7. "paid" \in PaymentStatus
    BY DEF PaymentStatus
  <1> HIDE DEF i
  <1>8. /\ status' \in [OrderIds -> Statuses] /\ payment' \in [OrderIds -> PaymentStatus]
        /\ info' \in [OrderIds -> Info]
        /\ payment'[o] = "paid" /\ info'[o] = i /\ status'[o] = "pending"
        /\ \A p \in OrderIds \ {o} :
              status'[p] = status[p] /\ payment'[p] = payment[p] /\ info'[p] = info[p]
        /\ \A p \in OrderIds :
              /\ status[p] # "absent" => status'[p] # "absent" /\ info'[p] = info[p]
              /\ payment[p] = "paid" => payment'[p] = "paid"
    BY <1>1, <1>2, <1>7, CreateOrderFacts
  <1>9. TypeOK'
    BY <1>3, <1>4, <1>5, <1>6, <1>8 DEF TypeOK, EffectsSound
  <1>10. LoadedRows'
    BY <1>3, <1>5, <1>8, LoadedRowsKept
  <1>11. AbsentOrders'
    BY <1>3, <1>8 DEF AbsentOrders
  <1>12. PaidCardsCaptured'
    BY <1>1, <1>3, <1>8 DEF PaidCardsCaptured, Immediate
  <1>13. NoOverdraft'
    BY <1>4, <1>6 DEF NoOverdraft, EffectsSound
  <1>14. UnpaidConsumesNothing'
    BY <1>4, <1>8, PaidStep
  <1>15. NoPhantomRefund'
    BY <1>3 DEF NoPhantomRefund
  <1> QED BY <1>4, <1>9, <1>10, <1>11, <1>12, <1>13, <1>14, <1>15 DEF EffectsSound

\* A checkout that is to be paid later.
LEMMA DeferredCheckoutStep ==
  ASSUME IInv, NEW r \in Requests, NEW o \in OrderIds, CommitDeferredCheckout(r, o)
  PROVE  IInv'
  <1> USE DEF IInv
  <1> DEFINE i == req[r].info
  <1>1. i \in Info
    BY RequestShape DEF CommitDeferredCheckout, TypeOK
  <1>2. create_order(o, i, "pending") /\ "pending" \in PaymentStatus
    BY DEF CommitDeferredCheckout, PaymentStatus
  <1>3. /\ UNCHANGED <<refunded, stock, usedCredit, balance, pointsTx, usages, usedCount>>
        /\ UNCHANGED <<reconcile, manualRefund>>
    BY DEF CommitDeferredCheckout, ledgerVars, pointsVars, couponVars, logVars
  <1>4. req' \in [Requests -> Request] /\ \A q \in Requests : req'[q] \in {req[q], Idle}
    BY EndRequest DEF CommitDeferredCheckout
  <1>5. intent' \in {intent, [intent EXCEPT ![o] = "open"]}
    BY DEF CommitDeferredCheckout
  <1> HIDE DEF i
  <1>6. /\ status' \in [OrderIds -> Statuses] /\ payment' \in [OrderIds -> PaymentStatus]
        /\ info' \in [OrderIds -> Info]
        /\ payment[o] = "pending" /\ intent[o] = "none" /\ o \notin refunded
        /\ payment'[o] = "pending" /\ info'[o] = i /\ status'[o] = "pending"
        /\ \A p \in OrderIds \ {o} :
              status'[p] = status[p] /\ payment'[p] = payment[p] /\ info'[p] = info[p]
        /\ \A p \in OrderIds :
              /\ status[p] # "absent" => status'[p] # "absent" /\ info'[p] = info[p]
              /\ payment[p] = "paid" => payment'[p] = "paid"
    BY <1>1, <1>2, CreateOrderFacts
  <1>7. \A p \in OrderIds \ {o} : intent'[p] = intent[p]
    BY <1>5 DEF TypeOK
  <1>8. TypeOK'
    BY <1>3, <1>4, <1>5, <1>6 DEF TypeOK
  <1>9. LoadedRows'
    <2>1. \A p \in OrderIds : intent[p] = "succeeded" => intent'[p] = "succeeded"
      BY <1>6, <1>7
    <2> QED BY <1>4, <1>6, <2>1, LoadedRowsKept
  <1>10. AbsentOrders'
    BY <1>6, <1>7 DEF AbsentOrders
  <1>11. PaidCardsCaptured'
    BY <1>6, <1>7 DEF PaidCardsCaptured
  <1>12. NoOverdraft'
    BY <1>3 DEF NoOverdraft
  <1>13. UnpaidConsumesNothing'
    <2>1. \A p \in OrderIds : payment'[p] = payment[p]
      BY <1>6
    <2> QED BY <1>3, <2>1 DEF UnpaidConsumesNothing, RowsOf
  <1>14. NoPhantomRefund'
    BY <1>3, <1>6, <1>7 DEF NoPhantomRefund, TypeOK
  <1>15. CouponCount'
    BY <1>3 DEF CouponCount, CouponCountMatchesRows
  <1> QED BY <1>8, <1>9, <1>10, <1>11, <1>12, <1>13, <1>14, <1>15

-----------------------------------------------------------------------------
(* The second step of the operations on an existing order.                  *)

\* The order a request holds, and what the UPDATE of its status can write.
LEMMA FlushFacts ==
  ASSUME IInv, NEW r \in Requests, req[r].op \in OrderOps,
         NEW new \in OrderStatus, status' = status \/ flush_status(r, new)
  PROVE  /\ req[r] # Idle /\ req[r].order \in OrderIds /\ info[req[r].order] \in Info
         /\ status[req[r].order] # "absent"
         /\ status' \in [OrderIds -> Statuses]
         /\ \A p \in OrderIds : status[p] = "absent" <=> status'[p] = "absent"
  <1>1. req[r] \in Request /\ req[r] # Idle /\ req[r].order \in OrderIds
    BY RequestShape DEF IInv, TypeOK, OrderOps, Idle
  <1>2. status[req[r].order] # "absent"
    BY <1>1 DEF IInv, LoadedRows
  <1>3. new # "absent" /\ new \in Statuses
    BY DEF OrderStatus, Statuses
  <1> QED BY <1>1, <1>2, <1>3 DEF IInv, TypeOK, flush_status

\* A status write changes no ledger and no payment.
LEMMA StatusStep ==
  ASSUME IInv, NEW r \in Requests, CommitStatus(r)
  PROVE  IInv'
  <1> USE DEF IInv
  <1>1. req[r].op \in OrderOps /\ req[r].to \in OrderStatus
    BY RequestShape DEF CommitStatus, OrderOps, TypeOK
  <1>2. /\ status' \in [OrderIds -> Statuses]
        /\ \A p \in OrderIds : status[p] = "absent" <=> status'[p] = "absent"
    BY <1>1, FlushFacts DEF CommitStatus
  <1>3. /\ UNCHANGED <<payment, info, intent, refunded, stock, usedCredit, balance>>
        /\ UNCHANGED <<pointsTx, usages, usedCount, reconcile, manualRefund>>
    BY DEF CommitStatus, stripeVars, ledgerVars, pointsVars, couponVars, logVars
  <1>4. req' \in [Requests -> Request] /\ \A q \in Requests : req'[q] \in {req[q], Idle}
    BY EndRequest DEF CommitStatus
  <1>5. TypeOK'
    BY <1>2, <1>3, <1>4 DEF TypeOK
  <1>6. LoadedRows'
    BY <1>2, <1>3, <1>4, LoadedRowsKept
  <1>7. AbsentOrders' /\ PaidCardsCaptured'
    BY <1>2, <1>3 DEF AbsentOrders, PaidCardsCaptured
  <1>8. NoOverdraft' /\ NoPhantomRefund'
    BY <1>3 DEF NoOverdraft, NoPhantomRefund
  <1>9. UnpaidConsumesNothing'
    BY <1>3 DEF UnpaidConsumesNothing, RowsOf
  <1>10. CouponCount'
    BY <1>3 DEF CouponCount, CouponCountMatchesRows
  <1> QED BY <1>5, <1>6, <1>7, <1>8, <1>9, <1>10

\* Recording a payment: the order is paid and some of its effects are applied.
LEMMA RecordPaymentStep ==
  ASSUME IInv, NEW r \in Requests, req[r].op \in {"webhook", "mark_paid"},
         status' = status \/ flush_status(r, "confirmed"),
         payment' = [payment EXCEPT ![req[r].order] = "paid"],
         EffectsSound(req[r].order),
         req' = [req EXCEPT ![r] = Idle],
         reconcile' \in {reconcile, reconcile \cup {req[r].order}},
         UNCHANGED <<info, intent, refunded, usedCredit, manualRefund>>
  PROVE  IInv'
  <1> USE DEF IInv
  <1> DEFINE o == req[r].order
  <1>1. req[r].op \in OrderOps /\ "confirmed" \in OrderStatus
    BY DEF OrderOps, OrderStatus
  <1>2. /\ req[r] # Idle /\ o \in OrderIds /\ status[o] # "absent"
        /\ status' \in [OrderIds -> Statuses]
        /\ \A p \in OrderIds : status[p] = "absent" <=> status'[p] = "absent"
    BY <1>1, FlushFacts
  <1>3. /\ payment' \in [OrderIds -> PaymentStatus] /\ payment'[o] = "paid"
        /\ \A p \in OrderIds \ {o} : payment'[p] = payment[p]
    BY <1>2 DEF TypeOK, PaymentStatus
  <1>4. req' \in [Requests -> Request] /\ \A q \in Requests : req'[q] \in {req[q], Idle}
    BY EndRequest
  <1>5. intent[o] = "succeeded" \/ info[o].method \in Manual
    BY <1>1, <1>2 DEF LoadedRows
  <1>6. EffectsSound(o) /\ reconcile' \in {reconcile, reconcile \cup {o}}
    OBVIOUS
  <1> HIDE DEF o
  <1>7. TypeOK'
    BY <1>2, <1>3, <1>4, <1>6 DEF TypeOK, EffectsSound
  <1>8. LoadedRows'
    BY <1>2, <1>3, <1>4, LoadedRowsKept
  <1>9. AbsentOrders'
    BY <1>2, <1>3 DEF AbsentOrders
  <1>10. PaidCardsCaptured'
    BY <1>3, <1>5 DEF PaidCardsCaptured, Manual
  <1>11. NoOverdraft'
    BY <1>6 DEF NoOverdraft, EffectsSound
  <1>12. UnpaidConsumesNothing'
    BY <1>2, <1>3, <1>6, PaidStep
  <1>13. NoPhantomRefund'
    BY DEF NoPhantomRefund
  <1> QED BY <1>6, <1>7, <1>8, <1>9, <1>10, <1>11, <1>12, <1>13 DEF EffectsSound

\* The webhook, with all of its effects or with those before an exception, and
\* mark_paid record a payment.
LEMMA PaymentSteps ==
  ASSUME IInv, NEW r \in Requests,
         CommitWebhook(r) \/ CommitWebhookPartly(r) \/ CommitMarkPaid(r)
  PROVE  IInv'
  <1> USE DEF IInv
  <1>1. req[r].op \in {"webhook", "mark_paid"}
    BY DEF CommitWebhook, CommitWebhookPartly, CommitMarkPaid
  <1>2. req[r].order \in OrderIds /\ info[req[r].order] \in Info
    BY <1>1, RequestShape DEF OrderOps, TypeOK
  <1>3. CASE CommitWebhook(r)
    <2>1. EffectsSound(req[r].order)
      BY <1>2, <1>3, ApplySound DEF CommitWebhook
    <2> QED BY <1>1, <1>3, <2>1, RecordPaymentStep DEF CommitWebhook, stripeVars, logVars
  <1>4. CASE CommitWebhookPartly(r)
    <2>1. EffectsSound(req[r].order)
      BY <1>2, <1>4, ApplyPartlySound DEF CommitWebhookPartly
    <2> QED BY <1>1, <1>4, <2>1, RecordPaymentStep DEF CommitWebhookPartly, stripeVars
  <1>5. CASE CommitMarkPaid(r)
    <2>1. EffectsSound(req[r].order)
      BY <1>2, <1>5, ApplySound DEF CommitMarkPaid
    <2> QED BY <1>1, <1>5, <2>1, RecordPaymentStep DEF CommitMarkPaid, stripeVars, logVars
  <1> QED BY <1>3, <1>4, <1>5

\* A row loaded as paid by card was captured.
LEMMA LoadedCardCaptured ==
  ASSUME IInv, NEW r \in Requests, req[r].op = "cancel", loaded_paid(r),
         info[req[r].order].method = "stripe"
  PROVE  req[r].order \in OrderIds /\ intent[req[r].order] = "succeeded"
  <1>1. req[r] \in Request /\ req[r] # Idle /\ req[r].op \in OrderOps
    BY DEF IInv, TypeOK, OrderOps, Idle
  <1>2. req[r].order \in OrderIds
    BY <1>1, RequestShape
  <1>3. payment[req[r].order] = "paid"
    BY <1>1 DEF IInv, LoadedRows, loaded_paid
  <1> QED BY <1>2, <1>3 DEF IInv, PaidCardsCaptured

\* A cancellation of an unpaid order reverses nothing; one of a paid order
\* leaves every ledger sound.
LEMMA CancelStep ==
  ASSUME IInv, NEW r \in Requests, CommitCancel(r)
  PROVE  IInv'
  <1> USE DEF IInv
  <1> DEFINE o == req[r].order
  <1>1. req[r].op \in OrderOps /\ "cancelled" \in OrderStatus
    BY DEF CommitCancel, OrderOps, OrderStatus
  <1>2. /\ req[r] # Idle /\ o \in OrderIds /\ info[o] \in Info
        /\ status' \in [OrderIds -> Statuses]
        /\ \A p \in OrderIds : status[p] = "absent" <=> status'[p] = "absent"
    BY <1>1, FlushFacts DEF CommitCancel
  <1>3. UNCHANGED <<payment, info, intent, reconcile>>
    BY DEF CommitCancel
  <1>4. req' \in [Requests -> Request] /\ \A q \in Requests : req'[q] \in {req[q], Idle}
    BY EndRequest DEF CommitCancel
  <1>5. apply_cancellation_effects(r, o)
    BY DEF CommitCancel
  <1>6. /\ EffectsSound(o) /\ usedCredit' \in [Users -> Nat]
        /\ \A u \in Users : usedCredit'[u] <= usedCredit[u]
    BY <1>2, <1>5, CancelSound
  <1>7. /\ refunded' \subseteq OrderIds /\ manualRefund' \subseteq OrderIds
        /\ \A p \in refunded' \ refunded : intent[p] = "succeeded"
    <2>1. CASE loaded_paid(r) /\ info[o].method = "stripe"
      <3>1. intent[o] = "succeeded"
        BY <2>1, LoadedCardCaptured DEF CommitCancel
      <3> QED BY <1>2, <1>5, <2>1, <3>1
           DEF apply_cancellation_effects, issue_stripe_refund, TypeOK
    <2>2. CASE ~(loaded_paid(r) /\ info[o].method = "stripe")
      BY <1>5, <2>2 DEF apply_cancellation_effects, TypeOK
    <2> QED BY <2>1, <2>2
  <1>8. loaded_paid(r) => payment[o] = "paid"
    BY <1>1, <1>2 DEF LoadedRows, loaded_paid
  <1>9. TypeOK'
    BY <1>2, <1>3, <1>4, <1>6, <1>7 DEF TypeOK, EffectsSound
  <1>10. LoadedRows'
    BY <1>2, <1>3, <1>4, LoadedRowsKept
  <1>11. AbsentOrders' /\ PaidCardsCaptured'
    BY <1>2, <1>3 DEF AbsentOrders, PaidCardsCaptured
  <1>12. NoOverdraft'
    <2>1. ASSUME NEW u \in Users PROVE usedCredit'[u] <= CreditLimit
      <3>1. /\ usedCredit'[u] \in Nat /\ usedCredit[u] \in Nat /\ CreditLimit \in Nat
            /\ usedCredit'[u] <= usedCredit[u] /\ usedCredit[u] <= CreditLimit
        BY <1>6, OrdersAssumption DEF TypeOK, NoOverdraft
      <3> QED BY <3>1
    <2> QED BY <1>6, <2>1 DEF NoOverdraft, EffectsSound
  <1>13. UnpaidConsumesNothing'
    <2>1. ASSUME NEW p \in OrderIds, payment'[p] # "paid"
          PROVE  pointsTx'[p] = 0 /\ RowsOf(p)' = {}
      <3>1. pointsTx[p] = 0 /\ RowsOf(p) = {}
        BY <1>3, <2>1 DEF UnpaidConsumesNothing
      <3>2. pointsTx' = pointsTx /\ usages' \subseteq usages
        BY <1>5 DEF apply_cancellation_effects, reverse_order_points, reverse_usage
      <3> QED BY <3>1, <3>2 DEF RowsOf
    <2>2. ASSUME \A p \in OrderIds : payment'[p] # "paid"
          PROVE  /\ stock' = InitStock
                 /\ usedCredit' = [u \in Users |-> 0]
                 /\ balance' = [u \in Users |-> InitPoints]
      <3>1. /\ \A p \in OrderIds : payment[p] # "paid"
            /\ stock = InitStock /\ usedCredit = [u \in Users |-> 0]
            /\ balance = [u \in Users |-> InitPoints]
        BY <1>3, <2>2 DEF UnpaidConsumesNothing
      <3>2. ~loaded_paid(r)
        BY <1>2, <1>8, <3>1
      <3>3. stock' = stock /\ usedCredit' = usedCredit
        BY <1>5, <3>2 DEF apply_cancellation_effects
      <3>4. balance' = balance
        <4>1. pointsTx[o] = 0
          BY <1>2, <3>1 DEF UnpaidConsumesNothing
        <4>2. info[o].redeem - earned(info[o]) \in Int
          BY <1>2, EarnedNat DEF Info
        <4>3. pointsTx[o] * (info[o].redeem - earned(info[o])) = 0
          <5>1. \A x \in Int : 0 * x = 0
            OBVIOUS
          <5> QED BY <4>1, <4>2, <5>1
        <4>4. CASE info[o].user \in Users
          <5>1. balance[info[o].user] \in Int /\ balance[info[o].user] >= 0
            BY <4>4 DEF TypeOK, NoOverdraft
          <5>2. balance' = [balance EXCEPT ![info[o].user] =
                               NonNeg(balance[info[o].user] + 0)]
            BY <1>5, <4>3, <4>4 DEF apply_cancellation_effects, reverse_order_points
          <5>3. NonNeg(balance[info[o].user] + 0) = balance[info[o].user]
            BY <5>1 DEF NonNeg
          <5> QED BY <5>2, <5>3 DEF TypeOK
        <4>5. CASE info[o].user \notin Users
          BY <1>5, <4>5 DEF apply_cancellation_effects, reverse_order_points
        <4> QED BY <4>4, <4>5
      <3> QED BY <3>1, <3>3, <3>4
    <2> QED BY <2>1, <2>2 DEF UnpaidConsumesNothing
  <1>14. NoPhantomRefund'
    BY <1>3, <1>7 DEF NoPhantomRefund
  <1> QED BY <1>6, <1>9, <1>10, <1>11, <1>12, <1>13, <1>14 DEF EffectsSound

\* A crash between Stripe's refund and the commit leaves only the refund.
LEMMA CrashStep ==
  ASSUME IInv, NEW r \in Requests, CrashAfterRefund(r)
  PROVE  IInv'
  <1> USE DEF IInv
  <1>1. req[r].order \in OrderIds /\ intent[req[r].order] = "succeeded"
    BY LoadedCardCaptured DEF CrashAfterRefund
  <1>2. /\ UNCHANGED <<status, payment, info, intent, stock, usedCredit, balance>>
        /\ UNCHANGED <<pointsTx, usages, usedCount, reconcile, manualRefund>>
    BY DEF CrashAfterRefund, orderVars, ledgerVars, pointsVars, couponVars, logVars
  <1>3. req' \in [Requests -> Request] /\ \A q \in Requests : req'[q] \in {req[q], Idle}
    BY EndRequest DEF CrashAfterRefund
  <1>4. TypeOK'
    BY <1>1, <1>2, <1>3 DEF TypeOK, CrashAfterRefund
  <1>5. LoadedRows'
    BY <1>2, <1>3, LoadedRowsKept
  <1>6. NoPhantomRefund'
    BY <1>1, <1>2 DEF NoPhantomRefund, CrashAfterRefund
  <1>7. AbsentOrders' /\ PaidCardsCaptured' /\ NoOverdraft'
    BY <1>2 DEF AbsentOrders, PaidCardsCaptured, NoOverdraft
  <1>8. UnpaidConsumesNothing' /\ CouponCount'
    BY <1>2 DEF UnpaidConsumesNothing, RowsOf, CouponCount, CouponCountMatchesRows
  <1> QED BY <1>4, <1>5, <1>6, <1>7, <1>8

\* A rolled back request leaves nothing.
LEMMA RollbackStep ==
  ASSUME IInv, NEW r \in Requests, Rollback(r)
  PROVE  IInv'
  <1>1. UNCHANGED <<orderVars, stripeVars, ledgerVars, logVars>>
    BY DEF Rollback
  <1>2. req' \in [Requests -> Request] /\ \A q \in Requests : req'[q] \in {req[q], Idle}
    BY EndRequest DEF Rollback, IInv
  <1>3. LoadedRows'
    BY <1>1, <1>2, LoadedRowsKept DEF IInv, orderVars, stripeVars
  <1> QED BY <1>1, <1>2, <1>3, RequestOnly

\* Paying the PaymentIntent only touches Stripe's side.
LEMMA ConfirmPaymentStep ==
  ASSUME IInv, NEW o \in OrderIds, ConfirmPayment(o)
  PROVE  IInv'
  <1> USE DEF IInv
  <1>1. /\ intent[o] = "open" /\ intent' = [intent EXCEPT ![o] = "succeeded"]
        /\ UNCHANGED <<status, payment, info, refunded, stock, usedCredit, balance>>
        /\ UNCHANGED <<pointsTx, usages, usedCount, reconcile, manualRefund, req>>
    BY DEF ConfirmPayment, orderVars, ledgerVars, pointsVars, couponVars, logVars
  <1>2. \A p \in OrderIds : intent[p] \in {"none", "succeeded"} => intent'[p] = intent[p]
    BY <1>1 DEF TypeOK
  <1>3. TypeOK'
    BY <1>1 DEF TypeOK
  <1>4. LoadedRows'
    BY <1>1, <1>2, LoadedRowsKept DEF TypeOK
  <1>5. AbsentOrders'
    BY <1>1, <1>2 DEF AbsentOrders
  <1>6. PaidCardsCaptured' /\ NoPhantomRefund'
    BY <1>1, <1>2 DEF PaidCardsCaptured, NoPhantomRefund, TypeOK
  <1>7. NoOverdraft'
    BY <1>1 DEF NoOverdraft
  <1>8. UnpaidConsumesNothing' /\ CouponCount'
    BY <1>1 DEF UnpaidConsumesNothing, RowsOf, CouponCount, CouponCountMatchesRows
  <1> QED BY <1>3, <1>4, <1>5, <1>6, <1>7, <1>8

-----------------------------------------------------------------------------
(* The invariant.                                                           *)

\* An empty shop satisfies the invariant.
LEMMA InitInv == Init => IInv
  <1> SUFFICES ASSUME Init PROVE IInv
    OBVIOUS
  <1> USE DEF Init
  <1>1. NoInfo \in Info
    BY DEF NoInfo, Info, Methods, Immediate
  <1>2. TypeOK
    BY <1>1, OrdersAssumption DEF TypeOK, Statuses, PaymentStatus, Request
  <1>3. LoadedRows
    BY DEF LoadedRows
  <1>4. AbsentOrders /\ PaidCardsCaptured /\ NoPhantomRefund
    BY DEF AbsentOrders, PaidCardsCaptured, NoPhantomRefund
  <1>5. NoOverdraft
    BY OrdersAssumption DEF NoOverdraft
  <1>6. UnpaidConsumesNothing
    BY DEF UnpaidConsumesNothing, RowsOf
  <1>7. CouponCount
    BY FS_EmptySet DEF CouponCount, CouponCountMatchesRows
  <1> QED BY <1>2, <1>3, <1>4, <1>5, <1>6, <1>7 DEF IInv

\* Every step of every request keeps the invariant.
LEMMA NextInv == IInv /\ [Next]_vars => IInv'
  <1> SUFFICES ASSUME IInv, [Next]_vars PROVE IInv'
    OBVIOUS
  <1>1. ASSUME NEW r \in Requests, Begin(r) PROVE IInv'
    BY <1>1, BeginStep
  <1>2. ASSUME NEW r \in Requests, Finish(r) PROVE IInv'
    <2>1. ASSUME NEW o \in OrderIds, CommitPaidCheckout(r, o) PROVE IInv'
      BY <2>1, PaidCheckoutStep
    <2>2. ASSUME NEW o \in OrderIds, CommitDeferredCheckout(r, o) PROVE IInv'
      BY <2>2, DeferredCheckoutStep
    <2>3. CASE CommitStatus(r)
      BY <2>3, StatusStep
    <2>4. CASE CommitWebhook(r) \/ CommitWebhookPartly(r) \/ CommitMarkPaid(r)
      BY <2>4, PaymentSteps
    <2>5. CASE CommitCancel(r)
      BY <2>5, CancelStep
    <2>6. CASE CrashAfterRefund(r)
      BY <2>6, CrashStep
    <2>7. CASE Rollback(r)
      BY <2>7, RollbackStep
    <2> QED BY <1>2, <2>1, <2>2, <2>3, <2>4, <2>5, <2>6, <2>7 DEF Finish
  <1>3. ASSUME NEW o \in OrderIds, ConfirmPayment(o) PROVE IInv'
    BY <1>3, ConfirmPaymentStep
  <1>4. CASE UNCHANGED vars
    <2>1. UNCHANGED <<orderVars, stripeVars, ledgerVars, logVars>> /\ req' = req
      BY <1>4 DEF vars
    <2>2. req' \in [Requests -> Request] /\ \A q \in Requests : req'[q] \in {req[q], Idle}
      BY <2>1 DEF IInv, TypeOK
    <2>3. LoadedRows'
      BY <2>1, <2>2, LoadedRowsKept DEF IInv, orderVars, stripeVars
    <2> QED BY <2>1, <2>2, <2>3, RequestOnly
  <1> QED BY <1>1, <1>2, <1>3, <1>4 DEF Next

\* The inductive invariant holds of every behaviour, for any number of requests.
THEOREM Invariance == Spec => []IInv
  BY InitInv, NextInv, PTL DEF Spec

\* Type correctness.
THEOREM TypeCorrect == Spec => []TypeOK
  <1>1. IInv => TypeOK
    BY DEF IInv
  <1> QED BY Invariance, <1>1, PTL

\* However many requests interleave, no stock, points or credit is overdrawn:
\* the checks under the write lock suffice.
THEOREM NeverOverdrawn == Spec => []NoOverdraft
  <1>1. IInv => NoOverdraft
    BY DEF IInv
  <1> QED BY Invariance, <1>1, PTL

\* The coupon's counter is always the number of its usage rows; for this the
\* table must be finite, which is part of the invariant.
THEOREM CouponCounterExact == Spec => []CouponCountMatchesRows
  <1>1. IInv => CouponCountMatchesRows
    BY DEF IInv, CouponCount
  <1> QED BY Invariance, <1>1, PTL

\* An order that was never paid has consumed nothing, and its cancellation
\* returns nothing.
THEOREM NothingWithoutPayment == Spec => []UnpaidConsumesNothing
  <1>1. IInv => UnpaidConsumesNothing
    BY DEF IInv
  <1> QED BY Invariance, <1>1, PTL

\* Stripe is only asked to refund what it captured: a cancellation that loaded
\* a paid row, stale or not, holds an order whose payment was confirmed.
THEOREM RefundsWereCaptured == Spec => []NoPhantomRefund
  <1>1. IInv => NoPhantomRefund
    BY DEF IInv
  <1> QED BY Invariance, <1>1, PTL

\* No step, of any request, takes a payment back.
LEMMA PaymentStep ==
  ASSUME IInv, [Next]_vars, NEW p \in OrderIds, payment[p] = "paid"
  PROVE  payment'[p] = "paid"
  <1> USE DEF IInv
  <1>1. ASSUME NEW r \in Requests, Begin(r) PROVE payment' = payment
    BY <1>1 DEF Begin, BeginCheckout, BeginWebhook, BeginMarkPaid, BeginCancelOrder,
                BeginUpdateStatus, BeginFulfilOrder, Load, orderVars
  <1>2. ASSUME NEW r \in Requests, NEW o \in OrderIds,
               CommitPaidCheckout(r, o) \/ CommitDeferredCheckout(r, o)
        PROVE  payment'[p] = "paid"
    <2>1. payment[o] = "pending"
      BY <1>2 DEF CommitPaidCheckout, CommitDeferredCheckout, create_order, AbsentOrders
    <2> QED BY <1>2, <2>1 DEF CommitPaidCheckout, CommitDeferredCheckout, create_order, TypeOK
  <1>3. ASSUME NEW r \in Requests,
               CommitWebhook(r) \/ CommitWebhookPartly(r) \/ CommitMarkPaid(r)
        PROVE  payment'[p] = "paid"
    BY <1>3 DEF CommitWebhook, CommitWebhookPartly, CommitMarkPaid, TypeOK
  <1>4. ASSUME NEW r \in Requests,
               CommitStatus(r) \/ CommitCancel(r) \/ CrashAfterRefund(r) \/ Rollback(r)
        PROVE  payment' = payment
    BY <1>4 DEF CommitStatus, CommitCancel, CrashAfterRefund, Rollback, orderVars
  <1>5. ASSUME NEW o \in OrderIds, ConfirmPayment(o) PROVE payment' = payment
    BY <1>5 DEF ConfirmPayment, orderVars
  <1>6. CASE UNCHANGED vars
    BY <1>6 DEF vars, orderVars
  <1> QED BY <1>1, <1>2, <1>3, <1>4, <1>5, <1>6 DEF Next, Finish

\* Payment is permanent: the UPDATE of a stale status, a cancellation or a
\* second confirmation leaves payment_status at "paid".
THEOREM PaymentIsPermanent == Spec => PaidIsPermanent
  <1>1. IInv /\ [Next]_vars =>
          [\A o \in OrderIds : payment[o] = "paid" => payment'[o] = "paid"]_vars
    BY PaymentStep
  <1> QED BY <1>1, Invariance, PTL DEF Spec, PaidIsPermanent

\* Whatever Stripe holds a payment for is a card order that exists: nothing removes the
\* row, or makes it an order that is paid in another way, while the event is on its way.
CapturesHaveOrders ==
    \A o \in OrderIds : intent[o] # "none" => status[o] # "absent" /\ info[o].method = "stripe"

\* Only a checkout writes what an order is, and only of an order that is new.
LEMMA CaptureStep ==
  ASSUME IInv, CapturesHaveOrders, [Next]_vars
  PROVE  /\ CapturesHaveOrders'
         /\ \A p \in OrderIds : intent[p] = "succeeded" => intent'[p] = "succeeded"
  <1> USE DEF IInv, TypeOK
  <1>1. AbsentOrders'
    BY NextInv DEF IInv
  <1>2. CASE info' = info /\ intent' = intent
    BY <1>1, <1>2 DEF AbsentOrders, CapturesHaveOrders
  <1>3. ASSUME NEW o \in OrderIds, ConfirmPayment(o)
        PROVE  /\ CapturesHaveOrders'
               /\ \A p \in OrderIds : intent[p] = "succeeded" => intent'[p] = "succeeded"
    BY <1>1, <1>3 DEF AbsentOrders, CapturesHaveOrders, ConfirmPayment, orderVars
  <1>4. ASSUME NEW r \in Requests, NEW o \in OrderIds,
               CommitPaidCheckout(r, o) \/ CommitDeferredCheckout(r, o)
        PROVE  /\ CapturesHaveOrders'
               /\ \A p \in OrderIds : intent[p] = "succeeded" => intent'[p] = "succeeded"
    <2> DEFINE i == req[r].info
    <2>1. /\ info' = [info EXCEPT ![o] = i]
          /\ \/ intent' = intent
             \/ i.method = "stripe" /\ intent' = [intent EXCEPT ![o] = "open"]
      BY <1>4 DEF CommitPaidCheckout, CommitDeferredCheckout, create_order, stripeVars
    <2>2. intent[o] = "none"
      BY <1>4 DEF CommitPaidCheckout, CommitDeferredCheckout, create_order, AbsentOrders
    <2> HIDE DEF i
    <2> QED BY <1>1, <2>1, <2>2 DEF AbsentOrders, CapturesHaveOrders
  <1>5. ASSUME NEW r \in Requests,
               \/ Begin(r) \/ CommitStatus(r) \/ CommitWebhook(r) \/ CommitWebhookPartly(r)
               \/ CommitMarkPaid(r) \/ CommitCancel(r) \/ CrashAfterRefund(r) \/ Rollback(r)
        PROVE  info' = info /\ intent' = intent
    BY <1>5 DEF Begin, BeginCheckout, BeginWebhook, BeginMarkPaid, BeginCancelOrder,
                BeginUpdateStatus, BeginFulfilOrder, Load, CommitStatus, CommitWebhook,
                CommitWebhookPartly, CommitMarkPaid, CommitCancel, CrashAfterRefund, Rollback,
                orderVars, stripeVars
  <1>6. UNCHANGED vars => info' = info /\ intent' = intent
    BY DEF vars, orderVars, stripeVars
  <1> QED BY <1>2, <1>3, <1>4, <1>5, <1>6 DEF Next, Finish

\* A captured payment always has its card order, so that the event can be delivered again
\* however often a webhook is rolled back: the safety half of CapturedPaymentRecorded.
THEOREM CapturesAwaitTheirRecord ==
  Spec => /\ []CapturesHaveOrders
          /\ [][\A o \in OrderIds : intent[o] = "succeeded" => intent'[o] = "succeeded"]_vars
  <1> DEFINE Kept == \A o \in OrderIds : intent[o] = "succeeded" => intent'[o] = "succeeded"
  <1>1. Init => CapturesHaveOrders
    BY DEF Init, CapturesHaveOrders
  <1>2. IInv /\ CapturesHaveOrders /\ [Next]_vars => CapturesHaveOrders' /\ [Kept]_vars
    BY CaptureStep
  <1> QED BY <1>1, <1>2, Invariance, PTL DEF Spec
==============================================================================
