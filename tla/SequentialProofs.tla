--------------------------- MODULE SequentialProofs ---------------------------
(***************************************************************************)
(* What the orders guarantee when one request is served at a time, for any *)
(* number of orders, customers and stock cells: the promise of             *)
(* Reservation and the accounts of OrdersLedger, first those that need no  *)
(* sum over the orders.                                                    *)
(***************************************************************************)
EXTENDS OrdersLedger, OrdersReservation, OrdersProofs

OneAtATime == \A q, r \in Requests : q = r

\* The row that the request in flight loaded is the row as it is, and what it checked holds.
RowsCurrent ==
  \A r \in Requests : req[r] # Idle =>
    /\ req[r].op = "checkout" /\ req[r].info.coupon => validate_coupon(req[r].info.user)
    /\ req[r].op \in OrderOps =>
         req[r].status = status[req[r].order] /\ req[r].payment = payment[req[r].order]
    /\ req[r].op \in {"webhook", "mark_paid"} => req[r].payment # "paid"
    /\ req[r].op \in {"mark_paid", "write", "cancel"} => req[r].status # "cancelled"
    /\ req[r].op = "write" => req[r].to # "cancelled"

\* Only card orders have a PaymentIntent, and only paid orders are left to a person.
CardIntents == \A o \in OrderIds : intent[o] # "none" => info[o].method = "stripe"
PaidIfReconciled == \A o \in reconcile : payment[o] = "paid"

SeqInv == RowsCurrent /\ CardIntents /\ PaidIfReconciled
-----------------------------------------------------------------------------
(* The steps, by what they do to the orders.                                *)

Rests ==
  /\ UNCHANGED <<status, payment, info, usages, usedCount, stock, reconcile, manualRefund>>
  /\ UNCHANGED <<usedCredit, pointsVars>>
  /\ refunded \subseteq refunded'

draw_credit(i) ==
  usedCredit' = IF i.method = "credit_limit" THEN [usedCredit EXCEPT ![i.user] = @ + i.total] ELSE usedCredit

Sells(o) ==
  /\ \E i \in Info :
       /\ i.method \in Immediate /\ create_order(o, i, "paid")
       /\ i.coupon => validate_coupon(i.user)
       /\ in_stock(i.basket) /\ deduct_stock(i.basket) /\ record_usage(o, i)
       /\ draw_credit(i) /\ redeem_and_earn(o, i)
  /\ UNCHANGED <<refunded, reconcile, manualRefund>>

Places(o) ==
  /\ \E i \in Info : i.method \notin Immediate /\ create_order(o, i, "pending")
  /\ UNCHANGED <<refunded, usages, usedCount, stock, reconcile, manualRefund>>
  /\ UNCHANGED <<usedCredit, pointsVars>>

Moves(o, from, to) ==
  /\ o \in OrderIds /\ status[o] \notin {"absent"} \cup from
  /\ status' = [status EXCEPT ![o] = to] /\ to \in OrderStatus

Writes(o) ==
  /\ \E to \in OrderStatus \ {"cancelled"} : Moves(o, {"cancelled"}, to)
  /\ UNCHANGED <<payment, info, refunded, usages, usedCount, stock, reconcile, manualRefund>>
  /\ UNCHANGED <<usedCredit, pointsVars>>

Pays(o) ==
  /\ payment[o] # "paid" /\ info[o].method \notin Immediate
  /\ \E to \in OrderStatus \ {"cancelled"} : Moves(o, {}, to)
  /\ payment' = [payment EXCEPT ![o] = "paid"]
  /\ UNCHANGED <<info, refunded, manualRefund, usedCredit>>

PaysFully(o) ==
  /\ Pays(o) /\ UNCHANGED reconcile
  /\ in_stock(info[o].basket) /\ deduct_stock(info[o].basket) /\ record_usage(o, info[o])
  /\ redeem_and_earn(o, info[o])

PaysPartly(o) ==
  /\ Pays(o) /\ reconcile' = reconcile \cup {o}
  /\ apply_effects_until_error(o, info[o])

Cancels(o) ==
  /\ Moves(o, {"cancelled"}, "cancelled")
  /\ UNCHANGED <<payment, info, reconcile>>
  /\ IF payment[o] = "paid" THEN restore_stock(info[o].basket) ELSE UNCHANGED stock
  /\ payment[o] = "paid" /\ info[o].method = "stripe" => o \in refunded' \cup manualRefund'
  /\ refunded \subseteq refunded' /\ manualRefund \subseteq manualRefund'
  /\ IF payment[o] = "paid" /\ info[o].method = "credit_limit"
     THEN restore_credit(info[o]) ELSE UNCHANGED usedCredit
  /\ reverse_usage(o) /\ reverse_order_points(o)

Step ==
  \/ Rests
  \/ \E o \in OrderIds : Sells(o) \/ Places(o) \/ Writes(o) \/ PaysFully(o) \/ PaysPartly(o) \/ Cancels(o)
-----------------------------------------------------------------------------
\* A request that ends leaves nobody with a row.
LEMMA Ended ==
  ASSUME TypeOK, OneAtATime, NEW r \in Requests, req' = [req EXCEPT ![r] = Idle]
  PROVE  RowsCurrent'
<1>1. \A q \in Requests : req'[q] = Idle
  BY DEF OneAtATime, TypeOK
<1> QED
  BY <1>1 DEF RowsCurrent

\* The row of the request in flight, and the status that it writes.
LEMMA CurrentRow ==
  ASSUME IInv, SeqInv, NEW r \in Requests, req[r].op \in OrderOps
  PROVE  /\ req[r] # Idle /\ req[r].order \in OrderIds /\ status[req[r].order] # "absent"
         /\ req[r].status = status[req[r].order] /\ req[r].payment = payment[req[r].order]
         /\ \A new \in OrderStatus : flush_status(r, new) => status' = [status EXCEPT ![req[r].order] = new]
<1>1. req[r] # Idle /\ req[r].order \in OrderIds
  BY RequestShape DEF IInv, TypeOK, OrderOps, Idle
<1>2. status[req[r].order] # "absent"
  BY <1>1 DEF IInv, LoadedRows
<1>3. req[r].status = status[req[r].order] /\ req[r].payment = payment[req[r].order]
  BY <1>1 DEF SeqInv, RowsCurrent
<1>4. status \in [OrderIds -> Statuses]
  BY DEF IInv, TypeOK
<1>5. ASSUME NEW new \in OrderStatus, flush_status(r, new)
      PROVE  status' = [status EXCEPT ![req[r].order] = new]
  BY <1>1, <1>3, <1>4, <1>5 DEF flush_status
<1> QED
  BY <1>1, <1>2, <1>3, <1>5

LEMMA CheckoutSteps ==
  ASSUME IInv, SeqInv, NEW r \in Requests, NEW o \in OrderIds,
         CommitPaidCheckout(r, o) \/ CommitDeferredCheckout(r, o)
  PROVE  Step /\ req' = [req EXCEPT ![r] = Idle] /\ CardIntents'
<1> DEFINE i == req[r].info
<1>1. req[r].op = "checkout" /\ req[r] # Idle /\ i \in Info
  BY RequestShape DEF CommitPaidCheckout, CommitDeferredCheckout, IInv, TypeOK, Idle
<1>2. i.coupon => validate_coupon(i.user)
  BY <1>1 DEF SeqInv, RowsCurrent
<1>3. intent[o] = "none" /\ \A pay : create_order(o, i, pay) => info' = [info EXCEPT ![o] = i]
  <2>1. create_order(o, i, "paid") \/ create_order(o, i, "pending")
    BY DEF CommitPaidCheckout, CommitDeferredCheckout
  <2>2. status[o] = "absent"
    BY <2>1 DEF create_order
  <2> QED
    BY <2>2 DEF create_order, IInv, AbsentOrders
<1> HIDE DEF i
<1>4. CASE CommitPaidCheckout(r, o)
  <2>1. /\ i.method \in Immediate /\ create_order(o, i, "paid") /\ apply_paid_order_effects(o, i)
        /\ req' = [req EXCEPT ![r] = Idle] /\ UNCHANGED <<stripeVars, logVars>>
    BY <1>4 DEF CommitPaidCheckout, i
  <2>2. in_stock(i.basket) /\ deduct_stock(i.basket) /\ record_usage(o, i) /\ redeem_and_earn(o, i)
    BY <2>1 DEF apply_paid_order_effects, can_apply
  <2>6. draw_credit(i)
    BY <1>4 DEF CommitPaidCheckout, draw_credit, i
  <2>3. UNCHANGED <<intent, refunded, reconcile, manualRefund>>
    BY <2>1 DEF stripeVars, logVars
  <2>4. Sells(o)
    BY <1>1, <1>2, <2>1, <2>2, <2>3, <2>6 DEF Sells, i
  <2>5. CardIntents'
    BY <1>3, <2>1, <2>3 DEF SeqInv, CardIntents, IInv, TypeOK
  <2> QED
    BY <2>1, <2>4, <2>5 DEF Step
<1>5. CASE CommitDeferredCheckout(r, o)
  <2>1. /\ i.method \notin Immediate /\ create_order(o, i, "pending")
        /\ intent' = (IF i.method = "stripe" THEN [intent EXCEPT ![o] = "open"] ELSE intent)
        /\ req' = [req EXCEPT ![r] = Idle] /\ UNCHANGED <<refunded, ledgerVars, logVars>>
    BY <1>5 DEF CommitDeferredCheckout, i
  <2>2. UNCHANGED <<refunded, usages, usedCount, stock, reconcile, manualRefund, usedCredit, pointsVars>>
    BY <2>1 DEF ledgerVars, couponVars, logVars
  <2>3. Places(o)
    BY <1>1, <2>1, <2>2 DEF Places, i
  <2>4. CardIntents'
    BY <1>3, <2>1 DEF SeqInv, CardIntents, IInv, TypeOK
  <2> QED
    BY <2>1, <2>3, <2>4 DEF Step
<1> QED
  BY <1>4, <1>5

LEMMA PaymentRequestSteps ==
  ASSUME IInv, SeqInv, NEW r \in Requests,
         CommitWebhook(r) \/ CommitWebhookPartly(r) \/ CommitMarkPaid(r)
  PROVE  Step /\ req' = [req EXCEPT ![r] = Idle] /\ CardIntents'
<1> DEFINE o == req[r].order
<1>1. req[r].op \in {"webhook", "mark_paid"} /\ req[r].op \in OrderOps
  BY DEF CommitWebhook, CommitWebhookPartly, CommitMarkPaid, OrderOps
<1>2. /\ req[r] # Idle /\ o \in OrderIds /\ status[o] # "absent"
      /\ req[r].status = status[o] /\ payment[o] # "paid"
  BY <1>1, CurrentRow DEF SeqInv, RowsCurrent
<1>3. info[o].method \notin Immediate
  <2>1. CASE req[r].op = "webhook"
    BY <1>2, <2>1 DEF IInv, LoadedRows, SeqInv, CardIntents, Immediate, OrderOps
  <2>2. CASE req[r].op = "mark_paid"
    BY <1>2, <2>2 DEF IInv, LoadedRows, Immediate, Manual, OrderOps
  <2> QED
    BY <1>1, <2>1, <2>2
<1>4. /\ UNCHANGED <<info, intent, refunded, manualRefund, usedCredit>> /\ payment' = [payment EXCEPT ![o] = "paid"]
      /\ req' = [req EXCEPT ![r] = Idle]
  BY DEF CommitWebhook, CommitWebhookPartly, CommitMarkPaid, stripeVars, logVars
<1>5. \E to \in OrderStatus \ {"cancelled"} : Moves(o, {}, to)
  <2>1. \A new \in OrderStatus : flush_status(r, new) => status' = [status EXCEPT ![o] = new]
    BY <1>1, CurrentRow
  <2>2. "confirmed" \in OrderStatus \ {"cancelled"}
    BY DEF OrderStatus
  <2>3. CASE flush_status(r, "confirmed")
    BY <1>2, <2>1, <2>2, <2>3 DEF Moves
  <2>4. CASE req[r].op = "mark_paid" /\ UNCHANGED status
    <3>1. status[o] # "cancelled"
      BY <1>2, <2>4 DEF SeqInv, RowsCurrent
    <3>2. status[o] \in OrderStatus \ {"cancelled"} /\ status \in [OrderIds -> Statuses]
      BY <1>2, <3>1 DEF IInv, TypeOK, Statuses
    <3>3. status' = [status EXCEPT ![o] = status[o]]
      BY <2>4, <3>2
    <3> QED
      BY <1>2, <3>2, <3>3 DEF Moves
  <2> QED
    BY <2>3, <2>4 DEF CommitWebhook, CommitWebhookPartly, CommitMarkPaid
<1>6. Pays(o)
  BY <1>2, <1>3, <1>4, <1>5 DEF Pays
<1>7. CardIntents'
  BY <1>4 DEF SeqInv, CardIntents
<1>8. CASE CommitWebhookPartly(r)
  <2>1. PaysPartly(o)
    BY <1>6, <1>8 DEF CommitWebhookPartly, PaysPartly
  <2> QED
    BY <1>2, <1>4, <1>7, <2>1 DEF Step
<1>9. CASE CommitWebhook(r) \/ CommitMarkPaid(r)
  <2>1. apply_paid_order_effects(o, info[o]) /\ UNCHANGED reconcile
    BY <1>9 DEF CommitWebhook, CommitMarkPaid, logVars
  <2>2. PaysFully(o)
    BY <1>6, <2>1 DEF PaysFully, apply_paid_order_effects, can_apply
  <2> QED
    BY <1>2, <1>4, <1>7, <2>2 DEF Step
<1> QED
  BY <1>8, <1>9

LEMMA OtherRequestSteps ==
  ASSUME IInv, SeqInv, NEW r \in Requests,
         CommitStatus(r) \/ CommitCancel(r) \/ CrashAfterRefund(r) \/ Rollback(r)
  PROVE  Step /\ req' = [req EXCEPT ![r] = Idle] /\ CardIntents'
<1> DEFINE o == req[r].order
<1>1. req' = [req EXCEPT ![r] = Idle] /\ UNCHANGED <<info, intent>>
  BY DEF CommitStatus, CommitCancel, CrashAfterRefund, Rollback, stripeVars, orderVars
<1>2. CardIntents'
  BY <1>1 DEF SeqInv, CardIntents
<1>3. CASE CrashAfterRefund(r) \/ Rollback(r)
  <2>1. Rests
    BY <1>3 DEF CrashAfterRefund, Rollback, Rests, orderVars, ledgerVars, couponVars, stripeVars, logVars
  <2> QED
    BY <1>1, <1>2, <2>1 DEF Step
<1>4. CASE CommitStatus(r)
  <2>1. req[r].op = "write" /\ req[r].op \in OrderOps /\ flush_status(r, req[r].to)
    BY <1>4 DEF CommitStatus, OrderOps
  <2>2. req[r] # Idle /\ o \in OrderIds /\ status[o] # "absent" /\ req[r].status = status[o]
    BY <2>1, CurrentRow
  <2>3. req[r].to \in OrderStatus \ {"cancelled"} /\ status[o] # "cancelled"
    BY <2>1, <2>2, RequestShape DEF SeqInv, RowsCurrent, IInv, TypeOK
  <2>4. status' = [status EXCEPT ![o] = req[r].to]
    BY <2>1, <2>3, CurrentRow
  <2>5. UNCHANGED <<payment, info, refunded, usages, usedCount, stock, reconcile, manualRefund, usedCredit, pointsVars>>
    BY <1>4 DEF CommitStatus, stripeVars, ledgerVars, couponVars, logVars
  <2>6. Writes(o)
    BY <2>2, <2>3, <2>4, <2>5 DEF Writes, Moves
  <2> QED
    BY <1>1, <1>2, <2>2, <2>6 DEF Step
<1>5. CASE CommitCancel(r)
  <2>1. req[r].op = "cancel" /\ req[r].op \in OrderOps /\ flush_status(r, "cancelled")
    BY <1>5 DEF CommitCancel, OrderOps
  <2>2. /\ req[r] # Idle /\ o \in OrderIds /\ status[o] # "absent"
        /\ req[r].status = status[o] /\ req[r].payment = payment[o]
    BY <2>1, CurrentRow
  <2>3. status[o] # "cancelled" /\ "cancelled" \in OrderStatus
    BY <2>1, <2>2 DEF SeqInv, RowsCurrent, OrderStatus
  <2>4. Moves(o, {"cancelled"}, "cancelled")
    BY <2>1, <2>2, <2>3, CurrentRow DEF Moves
  <2>5. apply_cancellation_effects(r, o) /\ UNCHANGED <<payment, info, reconcile>>
    BY <1>5 DEF CommitCancel
  <2>6. IF payment[o] = "paid" THEN restore_stock(info[o].basket) ELSE UNCHANGED stock
    BY <2>2, <2>5 DEF apply_cancellation_effects, loaded_paid
  <2>7. /\ payment[o] = "paid" /\ info[o].method = "stripe" => o \in refunded' \cup manualRefund'
        /\ refunded \subseteq refunded' /\ manualRefund \subseteq manualRefund'
    BY <2>2, <2>5 DEF apply_cancellation_effects, loaded_paid, issue_stripe_refund
  <2>8. reverse_usage(o) /\ reverse_order_points(o)
    BY <2>5 DEF apply_cancellation_effects
  <2>10. IF payment[o] = "paid" /\ info[o].method = "credit_limit"
         THEN restore_credit(info[o]) ELSE UNCHANGED usedCredit
    BY <2>2, <2>5 DEF apply_cancellation_effects, loaded_paid
  <2>9. Cancels(o)
    BY <2>4, <2>5, <2>6, <2>7, <2>8, <2>10 DEF Cancels
  <2> QED
    BY <1>1, <1>2, <2>2, <2>9 DEF Step
<1> QED
  BY <1>3, <1>4, <1>5

\* What a request loads and checks is so.
LEMMA LoadedNow ==
  ASSUME IInv, SeqInv, OneAtATime, NEW r \in Requests, NEW o \in OrderIds, NEW op \in OrderOps, NEW to,
         Load(r, o, op, to),
         op \in {"webhook", "mark_paid"} => payment[o] # "paid",
         op \in {"mark_paid", "write", "cancel"} => status[o] # "cancelled",
         op = "write" => to # "cancelled"
  PROVE  Step /\ RowsCurrent' /\ CardIntents'
<1> DEFINE new == [op |-> op, order |-> o, status |-> status[o], payment |-> payment[o], to |-> to]
<1>1. req' = [req EXCEPT ![r] = new] /\ UNCHANGED <<orderVars, stripeVars, ledgerVars, logVars>>
  BY DEF Load
<1>2. \A q \in Requests : req'[q] = new
  BY <1>1 DEF OneAtATime, IInv, TypeOK
<1>3. UNCHANGED <<status, payment, info, usages, usedCount, stock, reconcile, manualRefund, refunded, intent, usedCredit, pointsVars>>
  BY <1>1 DEF orderVars, stripeVars, ledgerVars, couponVars, logVars
<1>4. RowsCurrent'
  BY <1>2, <1>3 DEF RowsCurrent, OrderOps
<1>5. Rests /\ CardIntents'
  BY <1>3 DEF Rests, SeqInv, CardIntents
<1> QED
  BY <1>4, <1>5 DEF Step

LEMMA BeginSteps ==
  ASSUME IInv, SeqInv, OneAtATime, NEW r \in Requests, Begin(r)
  PROVE  Step /\ RowsCurrent' /\ CardIntents'
<1> DEFINE Parts == Step /\ RowsCurrent' /\ CardIntents'
<1>1. CASE BeginCheckout(r)
  <2>1. PICK i \in CheckoutRequests :
          (i.coupon => validate_coupon(i.user)) /\ req' = [req EXCEPT ![r] = [op |-> "checkout", info |-> i]]
    BY <1>1 DEF BeginCheckout
  <2>2. UNCHANGED <<status, payment, info, usages, usedCount, stock, reconcile, manualRefund, refunded, intent, usedCredit, pointsVars>>
    BY <1>1 DEF BeginCheckout, orderVars, stripeVars, ledgerVars, couponVars, logVars
  <2>3. \A q \in Requests : req'[q] = [op |-> "checkout", info |-> i]
    BY <2>1 DEF OneAtATime, IInv, TypeOK
  <2>4. (i.coupon => validate_coupon(i.user))'
    BY <2>1, <2>2 DEF validate_coupon
  <2>5. RowsCurrent'
    BY <2>3, <2>4 DEF RowsCurrent, OrderOps
  <2>6. Rests /\ CardIntents'
    BY <2>2 DEF Rests, SeqInv, CardIntents
  <2> QED
    BY <2>5, <2>6 DEF Step
<1>2. ASSUME NEW o \in OrderIds, BeginWebhook(r, o) PROVE Parts
  BY <1>2, LoadedNow DEF BeginWebhook, OrderOps
<1>3. ASSUME NEW o \in OrderIds, BeginMarkPaid(r, o) PROVE Parts
  BY <1>3, LoadedNow DEF BeginMarkPaid, OrderOps
<1>4. ASSUME NEW o \in OrderIds, BeginCancelOrder(r, o) PROVE Parts
  <2>1. status[o] # "cancelled"
    BY <1>4 DEF BeginCancelOrder
  <2> QED
    BY <1>4, <2>1, LoadedNow DEF BeginCancelOrder, OrderOps
<1>5. ASSUME NEW o \in OrderIds, BeginUpdateStatus(r, o) PROVE Parts
  <2>1. PICK to \in AllowedTransitions[status[o]] :
           Load(r, o, IF to = "cancelled" THEN "cancel" ELSE "write", to)
    BY <1>5 DEF BeginUpdateStatus
  <2>2. status[o] # "cancelled"
    BY <2>1 DEF AllowedTransitions
  <2> QED
    BY <2>1, <2>2, LoadedNow DEF OrderOps
<1>6. ASSUME NEW o \in OrderIds, BeginFulfilOrder(r, o) PROVE Parts
  BY <1>6, LoadedNow DEF BeginFulfilOrder, OrderOps
<1> QED
  BY <1>1, <1>2, <1>3, <1>4, <1>5, <1>6 DEF Begin

\* A step leaves the orders that it is not about alone, whose coupon rows are their own.
LEMMA OtherOrders ==
  ASSUME IInv, NEW o \in OrderIds,
         Sells(o) \/ Places(o) \/ Writes(o) \/ PaysFully(o) \/ PaysPartly(o) \/ Cancels(o)
  PROVE  /\ PaidIfReconciled => PaidIfReconciled'
         /\ \A p \in OrderIds \ {o} :
              status'[p] = status[p] /\ payment'[p] = payment[p] /\ info'[p] = info[p] /\ RowsOf(p)' = RowsOf(p)
<1> USE DEF IInv, TypeOK
<1>1. ASSUME NEW i, NEW pay, create_order(o, i, pay)
      PROVE  /\ payment[o] = "pending"
             /\ \A p \in OrderIds \ {o} : status'[p] = status[p] /\ payment'[p] = payment[p] /\ info'[p] = info[p]
  BY <1>1 DEF create_order, AbsentOrders
<1>2. (\E i : record_usage(o, i)) \/ reverse_usage(o) \/ UNCHANGED couponVars
         => \A p \in OrderIds \ {o} : RowsOf(p)' = RowsOf(p)
  <2>1. ASSUME NEW i, record_usage(o, i)
        PROVE  \A p \in OrderIds \ {o} : RowsOf(p)' = RowsOf(p)
    BY <2>1, RecordUsageCounts
  <2>2. ASSUME reverse_usage(o)
        PROVE  \A p \in OrderIds \ {o} : RowsOf(p)' = RowsOf(p)
    BY <2>2 DEF reverse_usage, RowsOf
  <2> QED
    BY <2>1, <2>2 DEF couponVars, RowsOf
<1>3. CASE Sells(o)
  <2>1. PICK i \in Info : create_order(o, i, "paid") /\ record_usage(o, i) /\ reconcile' = reconcile
    BY <1>3 DEF Sells
  <2> QED
    BY <1>1, <1>2, <2>1 DEF PaidIfReconciled
<1>4. CASE Places(o)
  <2>1. PICK i \in Info : create_order(o, i, "pending") /\ UNCHANGED couponVars /\ reconcile' = reconcile
    BY <1>4 DEF Places, couponVars
  <2> QED
    BY <1>1, <1>2, <2>1 DEF PaidIfReconciled
<1>5. CASE Writes(o)
  BY <1>2, <1>5 DEF Writes, Moves, PaidIfReconciled, couponVars
<1>6. CASE PaysFully(o)
  BY <1>2, <1>6 DEF PaysFully, Pays, Moves, PaidIfReconciled
<1>7. CASE PaysPartly(o)
  <2>1. \A p \in OrderIds \ {o} : RowsOf(p)' = RowsOf(p)
    BY <1>2, <1>7 DEF PaysPartly, apply_effects_until_error
  <2> QED
    BY <1>7, <2>1 DEF PaysPartly, Pays, Moves, PaidIfReconciled
<1>8. CASE Cancels(o)
  BY <1>2, <1>8 DEF Cancels, Moves, PaidIfReconciled
<1> QED
  BY <1>3, <1>4, <1>5, <1>6, <1>7, <1>8

\* One request at a time takes such steps, and holds a current row.
LEMMA SeqStep ==
  ASSUME IInv, SeqInv, OneAtATime, [Next]_vars
  PROVE  Step /\ SeqInv'
<1>1. ASSUME NEW r \in Requests, Begin(r) \/ Finish(r)
      PROVE  Step /\ RowsCurrent' /\ CardIntents'
  <2>1. CASE Begin(r)
    BY <2>1, BeginSteps
  <2>2. CASE Finish(r)
    <3>1. Step /\ req' = [req EXCEPT ![r] = Idle] /\ CardIntents'
      BY <2>2, CheckoutSteps, PaymentRequestSteps, OtherRequestSteps DEF Finish
    <3> QED
      BY <3>1, Ended DEF IInv
  <2> QED
    BY <1>1, <2>1, <2>2
<1>2. ASSUME UNCHANGED <<status, payment, info, usages, usedCount, stock, reconcile, manualRefund, refunded, req, usedCredit, pointsVars>>,
             \A o \in OrderIds : intent'[o] # "none" => intent[o] # "none"
      PROVE  Step /\ RowsCurrent' /\ CardIntents'
  BY <1>2 DEF Step, Rests, SeqInv, CardIntents, RowsCurrent, validate_coupon
<1>3. ASSUME NEW o \in OrderIds, ConfirmPayment(o)
      PROVE  Step /\ RowsCurrent' /\ CardIntents'
  BY <1>2, <1>3 DEF ConfirmPayment, orderVars, ledgerVars, couponVars, logVars, IInv, TypeOK
<1>4. ASSUME UNCHANGED vars
      PROVE  Step /\ RowsCurrent' /\ CardIntents'
  <2>1. UNCHANGED <<orderVars, stripeVars, ledgerVars, logVars, req>>
    BY <1>4 DEF vars
  <2>2. UNCHANGED <<status, payment, info, usages, usedCount, stock, reconcile, manualRefund, refunded, req, intent, usedCredit, pointsVars>>
    BY <2>1 DEF orderVars, stripeVars, ledgerVars, couponVars, logVars
  <2> QED
    BY <1>2, <2>2
<1>5. Step /\ RowsCurrent' /\ CardIntents'
  <2>1. CASE \E r \in Requests : Begin(r) \/ Finish(r)
    BY <1>1, <2>1
  <2>2. CASE \E o \in OrderIds : ConfirmPayment(o)
    BY <1>3, <2>2
  <2> QED
    BY <1>4, <2>1, <2>2 DEF Next
<1>6. PaidIfReconciled'
  BY <1>5, OtherOrders DEF Step, Rests, SeqInv, PaidIfReconciled
<1> QED
  BY <1>5, <1>6 DEF SeqInv
-----------------------------------------------------------------------------
(* The properties.                                                          *)

\* What a created order looks like, and one that was not there before.
LEMMA Created ==
  ASSUME IInv, NEW o \in OrderIds, NEW i \in Info, NEW pay \in PaymentStatus, create_order(o, i, pay)
  PROVE  /\ status[o] = "absent" /\ status'[o] = "pending" /\ payment'[o] = pay /\ info'[o] = i
         /\ payment[o] = "pending" /\ RowsOf(o) = {}
         /\ \A p \in OrderIds \ {o} : status'[p] = status[p] /\ payment'[p] = payment[p] /\ info'[p] = info[p]
BY CreateOrderFacts DEF create_order, IInv, UnpaidConsumesNothing

\* What a step on an existing order writes into its row.
LEMMA Moved ==
  ASSUME IInv, NEW o \in OrderIds, NEW from, NEW to, Moves(o, from, to)
  PROVE  /\ status'[o] = to /\ status[o] # "absent" /\ status[o] \notin from
         /\ \A p \in OrderIds \ {o} : status'[p] = status[p]
BY DEF Moves, IInv, TypeOK

LEMMA SilentStep ==
  ASSUME IInv, NoSilentCharge, Step
  PROVE  NoSilentCharge'
<1> USE DEF NoSilentCharge
<1>1. CASE Rests
  BY <1>1 DEF Rests
<1>2. ASSUME NEW o \in OrderIds, Sells(o) \/ Places(o)
      PROVE  NoSilentCharge'
  <2>1. PICK i \in Info, pay \in PaymentStatus : create_order(o, i, pay)
    BY <1>2 DEF Sells, Places, PaymentStatus
  <2>2. UNCHANGED <<refunded, manualRefund>>
    BY <1>2 DEF Sells, Places
  <2> QED
    BY <2>1, <2>2, Created
<1>3. ASSUME NEW o \in OrderIds, Writes(o)
      PROVE  NoSilentCharge'
  <2>1. PICK to \in OrderStatus \ {"cancelled"} : Moves(o, {"cancelled"}, to)
    BY <1>3 DEF Writes
  <2> QED
    BY <1>3, <2>1, Moved DEF Writes
<1>4. ASSUME NEW o \in OrderIds, Pays(o)
      PROVE  NoSilentCharge'
  <2>1. PICK to \in OrderStatus \ {"cancelled"} : Moves(o, {}, to)
    BY <1>4 DEF Pays
  <2>2. \A p \in OrderIds \ {o} : payment'[p] = payment[p]
    BY <1>4 DEF Pays, IInv, TypeOK
  <2> QED
    BY <1>4, <2>1, <2>2, Moved DEF Pays
<1>5. ASSUME NEW o \in OrderIds, Cancels(o)
      PROVE  NoSilentCharge'
  <2>1. \A p \in OrderIds \ {o} : status'[p] = status[p]
    BY <1>5, Moved DEF Cancels
  <2> QED
    BY <1>5, <2>1 DEF Cancels
<1> QED
  BY <1>1, <1>2, <1>3, <1>4, <1>5 DEF Step, PaysFully, PaysPartly

\* The rows of an order after record_usage.
LEMMA Recorded ==
  ASSUME IInv, NEW o \in OrderIds, NEW i \in Info, RowsOf(o) = {}, record_usage(o, i)
  PROVE  Cardinality(RowsOf(o)') = IF i.coupon THEN 1 ELSE 0
<1>1. CASE i.coupon
  <2>1. PICK n \in RowIds : usages' = usages \cup {<<o, n>>}
    BY <1>1 DEF record_usage
  <2>2. RowsOf(o)' = {<<o, n>>}
    BY <2>1 DEF RowsOf
  <2> QED
    BY <1>1, <2>2, FS_Singleton
<1>2. CASE ~i.coupon
  <2>1. RowsOf(o)' = {}
    BY <1>2 DEF record_usage, couponVars, RowsOf
  <2> QED
    BY <1>2, <2>1, FS_EmptySet
<1> QED
  BY <1>1, <1>2

LEMMA HeldStep ==
  ASSUME IInv, CouponHeldByLiveOrders, Step
  PROVE  CouponHeldByLiveOrders'
<1> DEFINE Right(p) == Cardinality(RowsOf(p)) = IF info[p].coupon /\ Live(p) THEN 1 ELSE 0
<1> USE DEF CouponHeldByLiveOrders
<1>1. ASSUME NEW p \in OrderIds, p \notin reconcile, status'[p] = status[p], payment'[p] = payment[p],
             info'[p] = info[p], RowsOf(p)' = RowsOf(p)
      PROVE  Right(p)'
  BY <1>1 DEF Live
<1>2. CASE Rests
  BY <1>1, <1>2 DEF Rests, RowsOf
<1>3. ASSUME NEW o \in OrderIds, Sells(o) \/ Places(o) \/ Writes(o) \/ PaysFully(o) \/ PaysPartly(o) \/ Cancels(o),
             o \notin reconcile', o \notin reconcile
      PROVE  Right(o)'
  <2>1. CASE Sells(o)
    <3>1. PICK i \in Info : create_order(o, i, "paid") /\ record_usage(o, i)
      BY <2>1 DEF Sells
    <3>2. RowsOf(o) = {} /\ info'[o] = i /\ payment'[o] = "paid" /\ status'[o] = "pending"
      BY <3>1, Created DEF PaymentStatus
    <3>3. Live(o)'
      BY <3>2 DEF Live
    <3> QED
      BY <3>1, <3>2, <3>3, Recorded
  <2>2. CASE Places(o)
    <3>1. PICK i \in Info : create_order(o, i, "pending") /\ usages' = usages
      BY <2>2 DEF Places
    <3>2. RowsOf(o)' = {} /\ payment'[o] = "pending"
      BY <3>1, Created DEF PaymentStatus, RowsOf
    <3>3. ~Live(o)'
      BY <3>2 DEF Live
    <3> QED
      BY <3>2, <3>3, FS_EmptySet
  <2>3. CASE Writes(o)
    <3>1. status'[o] # "cancelled" /\ status[o] # "cancelled"
      BY <2>3, Moved DEF Writes
    <3>2. info'[o] = info[o] /\ RowsOf(o)' = RowsOf(o) /\ (Live(o)' <=> Live(o))
      BY <2>3, <3>1 DEF Writes, RowsOf, Live
    <3> QED
      BY <1>3, <3>2
  <2>4. CASE PaysFully(o)
    <3>1. /\ RowsOf(o) = {} /\ record_usage(o, info[o]) /\ info'[o] = info[o] /\ info[o] \in Info
          /\ payment'[o] = "paid"
      BY <2>4 DEF PaysFully, Pays, IInv, TypeOK, UnpaidConsumesNothing
    <3>2. status'[o] # "cancelled"
      BY <2>4, Moved DEF PaysFully, Pays
    <3>3. Live(o)'
      BY <3>1, <3>2 DEF Live
    <3> QED
      BY <3>1, <3>3, Recorded
  <2>5. CASE PaysPartly(o)
    BY <1>3, <2>5 DEF PaysPartly
  <2>6. CASE Cancels(o)
    <3>1. RowsOf(o)' = {}
      BY <2>6 DEF Cancels, reverse_usage, RowsOf
    <3>2. ~Live(o)'
      BY <2>6, Moved DEF Cancels, Live
    <3> QED
      BY <3>1, <3>2, FS_EmptySet
  <2> QED
    BY <1>3, <2>1, <2>2, <2>3, <2>4, <2>5, <2>6
<1>4. reconcile \subseteq reconcile'
  BY DEF Step, Rests, Sells, Places, Writes, PaysFully, PaysPartly, Pays, Cancels
<1>5. ASSUME NEW o \in OrderIds, Sells(o) \/ Places(o) \/ Writes(o) \/ PaysFully(o) \/ PaysPartly(o) \/ Cancels(o)
      PROVE  CouponHeldByLiveOrders'
  <2>1. \A p \in OrderIds \ {o} :
          status'[p] = status[p] /\ payment'[p] = payment[p] /\ info'[p] = info[p] /\ RowsOf(p)' = RowsOf(p)
    BY <1>5, OtherOrders
  <2>2. ASSUME NEW p \in OrderIds, p \notin reconcile'
        PROVE  Right(p)'
    <3>1. p \notin reconcile
      BY <1>4, <2>2
    <3>2. CASE p = o
      BY <1>3, <1>5, <2>2, <3>1, <3>2
    <3>3. CASE p # o
      BY <1>1, <2>1, <3>1, <3>3
    <3> QED
      BY <3>2, <3>3
  <2> QED
    BY <2>2
<1> QED
  BY <1>2, <1>5 DEF Step

\* The uses of the coupon by orders that were paid at checkout, and those of one customer.
ImmediateUses == {row \in usages : info[row[1]].method \in Immediate}
UsesBy(u) == {row \in ImmediateUses : info[row[1]].user = u}

LEMMA UsesFinite ==
  ASSUME IInv
  PROVE  /\ IsFiniteSet(ImmediateUses) /\ Cardinality(ImmediateUses) \in Nat
         /\ Cardinality(ImmediateUses) <= usedCount /\ usedCount \in Nat
         /\ \A u : IsFiniteSet(UsesBy(u)) /\ Cardinality(UsesBy(u)) \in Nat
<1>1. IsFiniteSet(usages) /\ usedCount = Cardinality(usages) /\ usedCount \in Nat
  BY DEF IInv, CouponCount, CouponCountMatchesRows, TypeOK
<1>2. /\ IsFiniteSet(ImmediateUses) /\ Cardinality(ImmediateUses) \in Nat
      /\ Cardinality(ImmediateUses) <= Cardinality(usages)
  BY <1>1, FS_Subset, FS_CardinalityType DEF ImmediateUses
<1>3. ASSUME NEW u
      PROVE  IsFiniteSet(UsesBy(u)) /\ Cardinality(UsesBy(u)) \in Nat
  BY <1>2, FS_Subset, FS_CardinalityType DEF UsesBy
<1> QED
  BY <1>1, <1>2, <1>3

LEMMA LimitsSplit ==
  ImmediateCouponLimits <=> /\ Cardinality(ImmediateUses) <= MaxUses
                            /\ \A u \in Users : Cardinality(UsesBy(u)) <= 1
BY DEF ImmediateCouponLimits, ImmediateUses, UsesBy

\* Uses that are given back, or taken by other orders, break no limit.
LEMMA FewerUses ==
  ASSUME IInv, ImmediateCouponLimits, ImmediateUses' \subseteq ImmediateUses,
         \A row \in ImmediateUses' : info'[row[1]] = info[row[1]]
  PROVE  ImmediateCouponLimits'
<1>1. /\ Cardinality(ImmediateUses') <= Cardinality(ImmediateUses) /\ Cardinality(ImmediateUses') \in Nat
  BY UsesFinite, FS_Subset, FS_CardinalityType
<1>2. ASSUME NEW u \in Users
      PROVE  Cardinality(UsesBy(u)') <= 1
  <2>1. UsesBy(u)' \subseteq UsesBy(u)
    BY DEF UsesBy
  <2>2. Cardinality(UsesBy(u)') <= Cardinality(UsesBy(u)) /\ Cardinality(UsesBy(u)') \in Nat
    BY <2>1, UsesFinite, FS_Subset, FS_CardinalityType
  <2> QED
    BY <2>2, UsesFinite, LimitsSplit
<1>3. Cardinality(ImmediateUses') <= MaxUses
  BY <1>1, UsesFinite, LimitsSplit, OrdersAssumption
<1> QED
  BY <1>2, <1>3 DEF ImmediateCouponLimits, ImmediateUses, UsesBy

LEMMA LimitsStep ==
  ASSUME IInv, ImmediateCouponLimits, Step
  PROVE  ImmediateCouponLimits'
<1>0. usages \subseteq OrderIds \X RowIds /\ usedCount \in Nat
  BY DEF IInv, TypeOK
<1>1. CASE Rests
  BY <1>1, FewerUses DEF Rests, ImmediateUses
<1>2. ASSUME NEW o \in OrderIds, Sells(o)
      PROVE  ImmediateCouponLimits'
  <2>1. PICK i \in Info :
          /\ create_order(o, i, "paid") /\ record_usage(o, i)
          /\ i.coupon => validate_coupon(i.user)
    BY <1>2 DEF Sells
  <2>2. create_order(o, i, "paid") /\ record_usage(o, i)
    BY <2>1
  <2>3. create_order(o, i, "paid")
    BY <2>2
  <2>4. RowsOf(o) = {} /\ info'[o] = i /\ \A p \in OrderIds \ {o} : info'[p] = info[p]
    BY <2>3, Created DEF PaymentStatus
  <2>5. \A row \in usages : row[1] \in OrderIds \ {o} /\ info'[row[1]] = info[row[1]]
    BY <1>0, <2>4 DEF RowsOf
  <2>6. ASSUME usages' = usages
        PROVE  ImmediateCouponLimits'
    <3>1. ImmediateUses' = ImmediateUses
      BY <2>5, <2>6 DEF ImmediateUses
    <3> QED
      BY <2>5, <3>1, FewerUses DEF ImmediateUses
  <2>7. CASE ~i.coupon
    BY <2>2, <2>6, <2>7 DEF record_usage, couponVars
  <2>8. CASE i.coupon
    <3>1. PICK n \in RowIds : usages' = usages \cup {<<o, n>>}
      BY <2>2, <2>8 DEF record_usage
    <3> DEFINE row == <<o, n>>
    <3>2. validate_coupon(i.user)
      BY <2>1, <2>8
    <3>3. row[1] = o
      OBVIOUS
    <3> HIDE DEF row
    <3>4. usages' = usages \cup {row}
      BY <3>1 DEF row
    <3>5. ImmediateUses' \subseteq ImmediateUses \cup {row}
      BY <2>5, <3>4 DEF ImmediateUses
    <3>6. /\ IsFiniteSet(ImmediateUses \cup {row})
          /\ Cardinality(ImmediateUses \cup {row}) <= Cardinality(ImmediateUses) + 1
          /\ Cardinality(ImmediateUses \cup {row}) \in Nat
      <4>1. IsFiniteSet(ImmediateUses) /\ Cardinality(ImmediateUses) \in Nat
        BY UsesFinite
      <4>2. /\ IsFiniteSet(ImmediateUses \cup {row})
            /\ Cardinality(ImmediateUses \cup {row})
                  = IF row \in ImmediateUses THEN Cardinality(ImmediateUses) ELSE Cardinality(ImmediateUses) + 1
        BY <4>1, FS_AddElement
      <4> QED
        BY <4>1, <4>2
    <3>7. Cardinality(ImmediateUses') <= Cardinality(ImmediateUses \cup {row}) /\ Cardinality(ImmediateUses') \in Nat
      BY <3>5, <3>6, FS_Subset, FS_CardinalityType
    <3>8. Cardinality(ImmediateUses') <= MaxUses
      BY <3>2, <3>6, <3>7, UsesFinite, OrdersAssumption DEF validate_coupon
    <3>9. ASSUME NEW u \in Users
          PROVE  Cardinality(UsesBy(u)') <= 1
      <4>1. CASE u = i.user
        <5>1. \A other \in usages : info[other[1]].user # u
          BY <3>2, <4>1 DEF validate_coupon
        <5>2. UsesBy(u)' \subseteq {row}
          BY <2>5, <3>5, <5>1 DEF UsesBy, ImmediateUses
        <5>3. IsFiniteSet({row}) /\ Cardinality({row}) = 1
          BY FS_Singleton
        <5> QED
          BY <5>2, <5>3, FS_Subset, FS_CardinalityType
      <4>2. CASE u # i.user
        <5>1. UsesBy(u)' \subseteq UsesBy(u)
          BY <2>4, <2>5, <3>3, <3>5, <4>2 DEF UsesBy, ImmediateUses
        <5>2. Cardinality(UsesBy(u)') <= Cardinality(UsesBy(u)) /\ Cardinality(UsesBy(u)') \in Nat
          BY <5>1, UsesFinite, FS_Subset, FS_CardinalityType
        <5> QED
          BY <5>2, UsesFinite, LimitsSplit
      <4> QED
        BY <4>1, <4>2
    <3> QED
      BY <3>8, <3>9 DEF ImmediateCouponLimits, ImmediateUses, UsesBy
  <2> QED
    BY <2>7, <2>8
<1>3. ASSUME NEW o \in OrderIds, Places(o)
      PROVE  ImmediateCouponLimits'
  <2>1. PICK i \in Info : create_order(o, i, "pending") /\ usages' = usages
    BY <1>3 DEF Places
  <2>2. RowsOf(o) = {} /\ \A p \in OrderIds \ {o} : info'[p] = info[p]
    BY <2>1, Created DEF PaymentStatus
  <2>3. \A row \in usages : info'[row[1]] = info[row[1]]
    BY <1>0, <2>2 DEF RowsOf
  <2>4. ImmediateUses' = ImmediateUses
    BY <2>1, <2>3 DEF ImmediateUses
  <2> QED
    BY <2>3, <2>4, FewerUses DEF ImmediateUses
<1>4. ASSUME NEW o \in OrderIds, PaysFully(o) \/ PaysPartly(o)
      PROVE  ImmediateCouponLimits'
  <2>1. info' = info /\ info[o].method \notin Immediate
    BY <1>4 DEF PaysFully, PaysPartly, Pays
  <2>2. UNCHANGED couponVars \/ record_usage(o, info[o])
    BY <1>4 DEF PaysFully, PaysPartly, apply_effects_until_error
  <2>3. \A row \in usages' : row \in usages \/ row[1] = o
    <3>1. CASE UNCHANGED couponVars
      BY <3>1 DEF couponVars
    <3>2. CASE record_usage(o, info[o])
      <4>1. usages' = usages \/ \E n \in RowIds : usages' = usages \cup {<<o, n>>}
        BY <1>0, <3>2, RecordUsage
      <4> QED
        BY <4>1
    <3> QED
      BY <2>2, <3>1, <3>2
  <2>4. ImmediateUses' \subseteq ImmediateUses
    BY <2>1, <2>3 DEF ImmediateUses
  <2> QED
    BY <2>1, <2>4, FewerUses
<1>5. ASSUME NEW o \in OrderIds, Writes(o) \/ Cancels(o)
      PROVE  ImmediateCouponLimits'
  <2>1. info' = info /\ usages' \subseteq usages
    BY <1>5 DEF Writes, Cancels, reverse_usage
  <2> QED
    BY <2>1, FewerUses DEF ImmediateUses
<1> QED
  BY <1>1, <1>2, <1>3, <1>4, <1>5 DEF Step
-----------------------------------------------------------------------------
(* The promise.                                                             *)

\* Only the order that a step is about moves.
LEMMA PhaseMoves ==
  ASSUME NEW o \in OrderIds, NEW to, PhaseOf(o)' = to,
         \A p \in OrderIds \ {o} : status'[p] = status[p] /\ payment'[p] = payment[p],
         \A p \in OrderIds \ {o} : p \in reconcile' <=> p \in reconcile
  PROVE  Phase' = [Phase EXCEPT ![o] = to] /\ Phase[o] = PhaseOf(o)
<1>1. \A p \in OrderIds \ {o} : PhaseOf(p)' = PhaseOf(p)
  BY DEF PhaseOf
<1> QED
  BY <1>1 DEF Phase

LEMMA PromiseStep ==
  ASSUME IInv, SeqInv, Step
  PROVE  [Promise!Next]_Promise!vars
<1> USE DEF IInv, TypeOK
<1>1. ASSUME NEW o \in OrderIds, Sells(o) \/ Places(o)
      PROVE  Promise!Place(o) \/ Promise!Sell(o)
  <2>1. PICK i \in Info, pay \in PaymentStatus :
          /\ create_order(o, i, pay)
          /\ \/ pay = "paid" /\ in_stock(i.basket) /\ deduct_stock(i.basket)
             \/ pay = "pending" /\ UNCHANGED stock
    BY <1>1 DEF Sells, Places, PaymentStatus
  <2>2. reconcile' = reconcile /\ o \notin reconcile /\ payment[o] # "paid"
    <3>1. payment[o] # "paid"
      BY <2>1, Created
    <3> QED
      BY <1>1, <3>1 DEF Sells, Places, SeqInv, PaidIfReconciled
  <2>3. /\ status[o] = "absent" /\ status'[o] = "pending" /\ payment'[o] = pay /\ info'[o] = i
        /\ \A p \in OrderIds \ {o} : status'[p] = status[p] /\ payment'[p] = payment[p] /\ info'[p] = info[p]
    BY <2>1, Created
  <2>4. BasketOf'[o] = i.basket /\ BasketOf' = [BasketOf EXCEPT ![o] = BasketOf'[o]]
    BY <2>3 DEF BasketOf
  <2>5. i.basket \in [Skus -> Nat]
    BY DEF Info
  <2>6. PhaseOf(o) = "unplaced" /\ PhaseOf(o)' = IF pay = "paid" THEN "held" ELSE "open"
    <3>1. PhaseOf(o) = "unplaced"
      BY <2>2, <2>3 DEF PhaseOf
    <3>2. PhaseOf(o)' = IF pay = "paid" THEN "held" ELSE "open"
      BY <2>2, <2>3 DEF PhaseOf
    <3> QED
      BY <3>1, <3>2
  <2>7. Phase' = [Phase EXCEPT ![o] = PhaseOf(o)'] /\ Phase[o] = "unplaced"
    BY <2>2, <2>3, <2>6, PhaseMoves
  <2>8. CASE pay = "paid" /\ in_stock(i.basket) /\ deduct_stock(i.basket)
    BY <2>4, <2>5, <2>6, <2>7, <2>8
       DEF Promise!Sell, Promise!Move, Promise!Ask, Promise!Fits, Promise!Less, in_stock, deduct_stock
  <2>9. CASE pay = "pending" /\ UNCHANGED stock
    BY <2>4, <2>5, <2>6, <2>7, <2>9 DEF Promise!Place, Promise!Move, Promise!Ask
  <2> QED
    BY <2>1, <2>8, <2>9
<1>2. ASSUME Rests \/ \E o \in OrderIds : Writes(o)
      PROVE  UNCHANGED Promise!vars
  <2>1. UNCHANGED <<payment, info, stock, reconcile>>
    BY <1>2 DEF Rests, Writes
  <2>2. \A p \in OrderIds : (status'[p] = "absent" <=> status[p] = "absent") /\ (status'[p] = "cancelled" <=> status[p] = "cancelled")
    <3>1. ASSUME NEW o \in OrderIds, Writes(o)
          PROVE  /\ status'[o] \notin {"absent", "cancelled"} /\ status[o] \notin {"absent", "cancelled"}
                 /\ \A p \in OrderIds \ {o} : status'[p] = status[p]
      BY <3>1, Moved DEF Writes, OrderStatus
    <3> QED
      BY <1>2, <3>1 DEF Rests
  <2>3. \A p \in OrderIds : PhaseOf(p)' = PhaseOf(p)
    BY <2>1, <2>2 DEF PhaseOf
  <2>4. Phase' = Phase /\ BasketOf' = BasketOf
    BY <2>1, <2>3 DEF Phase, BasketOf
  <2> QED
    BY <2>1, <2>4 DEF Promise!vars
<1>3. ASSUME NEW o \in OrderIds, PaysFully(o) \/ PaysPartly(o)
      PROVE  Promise!Take(o) \/ Promise!TakePartly(o)
  <2>1. PICK to \in OrderStatus \ {"cancelled"} : Moves(o, {}, to)
    BY <1>3 DEF PaysFully, PaysPartly, Pays
  <2>2. /\ payment[o] # "paid" /\ payment' = [payment EXCEPT ![o] = "paid"] /\ info' = info
        /\ BasketOf' = BasketOf /\ BasketOf[o] = info[o].basket /\ info[o].basket \in [Skus -> Nat]
    BY <1>3 DEF PaysFully, PaysPartly, Pays, BasketOf, Info
  <2>3. status'[o] \notin {"absent", "cancelled"} /\ status[o] # "absent" /\ \A p \in OrderIds \ {o} : status'[p] = status[p]
    BY <2>1, Moved DEF OrderStatus
  <2>4. o \notin reconcile
    BY <2>2 DEF SeqInv, PaidIfReconciled
  <2>5. PhaseOf(o) \in {"open", "void"}
    <3>1. payment[o] # "paid" /\ status[o] # "absent"
      BY <2>2, <2>3
    <3> QED
      BY <3>1 DEF PhaseOf
  <2>6. payment'[o] = "paid" /\ \A p \in OrderIds \ {o} : payment'[p] = payment[p]
    BY <2>2
  <2>7. CASE PaysFully(o)
    <3>1. reconcile' = reconcile /\ PhaseOf(o)' = "held"
      BY <2>3, <2>4, <2>6, <2>7 DEF PaysFully, PhaseOf
    <3>2. Phase' = [Phase EXCEPT ![o] = "held"] /\ Phase[o] \in {"open", "void"}
      BY <2>3, <2>5, <2>6, <3>1, PhaseMoves
    <3>3. in_stock(info[o].basket) /\ deduct_stock(info[o].basket)
      BY <2>7 DEF PaysFully
    <3> QED
      BY <2>2, <3>2, <3>3 DEF Promise!Take, Promise!Move, Promise!Fits, Promise!Less, in_stock, deduct_stock
  <2>8. CASE PaysPartly(o)
    <3>1. reconcile' = reconcile \cup {o} /\ PhaseOf(o)' = "disputed"
      BY <2>3, <2>4, <2>6, <2>8 DEF PaysPartly, PhaseOf
    <3>2. Phase' = [Phase EXCEPT ![o] = "disputed"] /\ Phase[o] \in {"open", "void"}
      BY <2>3, <2>5, <2>6, <3>1, PhaseMoves
    <3>3. /\ \A s \in Skus : stock'[s] \in {stock[s], stock[s] - info[o].basket[s]} /\ stock'[s] >= 0
          /\ stock' = [s \in Skus |-> stock'[s]]
      <4>1. apply_effects_until_error(o, info[o])
        BY <2>8 DEF PaysPartly
      <4>2. \A s \in Skus : stock[s] \in Int /\ stock[s] >= 0
        BY DEF NoOverdraft
      <4>3. CASE in_stock(info[o].basket) /\ deduct_stock(info[o].basket)
        BY <2>2, <4>2, <4>3 DEF in_stock, deduct_stock
      <4>4. ASSUME NEW done \in SUBSET {s \in Skus : info[o].basket[s] > 0},
                   \A s \in done : info[o].basket[s] <= stock[s],
                   stock' = [s \in Skus |-> IF s \in done THEN stock[s] - info[o].basket[s] ELSE stock[s]]
            PROVE  /\ \A s \in Skus : stock'[s] \in {stock[s], stock[s] - info[o].basket[s]} /\ stock'[s] >= 0
                   /\ stock' = [s \in Skus |-> stock'[s]]
        BY <2>2, <4>2, <4>4
      <4> QED
        BY <4>1, <4>3, <4>4 DEF apply_effects_until_error
    <3> QED
      BY <2>2, <3>2, <3>3 DEF Promise!TakePartly, Promise!Move
  <2> QED
    BY <1>3, <2>7, <2>8
<1>4. ASSUME NEW o \in OrderIds, Cancels(o)
      PROVE  Promise!Void(o) \/ Promise!Return(o) \/ Promise!Settle(o)
  <2>1. status'[o] = "cancelled" /\ status[o] \notin {"absent", "cancelled"} /\ \A p \in OrderIds \ {o} : status'[p] = status[p]
    BY <1>4, Moved DEF Cancels
  <2>2. UNCHANGED <<payment, info, reconcile>> /\ BasketOf' = BasketOf /\ BasketOf[o] = info[o].basket
    BY <1>4 DEF Cancels, BasketOf
  <2>3. Phase' = [Phase EXCEPT ![o] = PhaseOf(o)'] /\ Phase[o] = PhaseOf(o)
    BY <2>1, <2>2, PhaseMoves
  <2>4. CASE payment[o] # "paid"
    <3>1. PhaseOf(o) = "open" /\ PhaseOf(o)' = "void"
      BY <2>1, <2>2, <2>4 DEF PhaseOf
    <3>2. stock' = stock
      BY <1>4, <2>4 DEF Cancels
    <3> QED
      BY <2>2, <2>3, <3>1, <3>2 DEF Promise!Void, Promise!Move
  <2>5. CASE payment[o] = "paid"
    <3>1. restore_stock(info[o].basket)
      BY <1>4, <2>5 DEF Cancels
    <3>2. \/ PhaseOf(o) = "held" /\ PhaseOf(o)' = "returned"
          \/ PhaseOf(o) = "disputed" /\ PhaseOf(o)' = "settled"
      BY <2>1, <2>2, <2>5 DEF PhaseOf
    <3> QED
      BY <2>2, <2>3, <3>1, <3>2 DEF Promise!Return, Promise!Settle, Promise!Move, Promise!More, restore_stock
  <2> QED
    BY <2>4, <2>5
<1> QED
  BY <1>1, <1>2, <1>3, <1>4 DEF Step, Promise!Next

LEMMA PromiseStart == Init => Promise!Init
<1> SUFFICES ASSUME Init PROVE Promise!Init
  OBVIOUS
<1>1. \A o \in OrderIds : PhaseOf(o) = "unplaced"
  BY DEF Init, PhaseOf
<1>2. BasketOf = [o \in OrderIds |-> [s \in Skus |-> 0]]
  BY DEF Init, BasketOf, NoInfo
<1> QED
  BY <1>1, <1>2 DEF Promise!Init, Phase, Init

LEMMA SequentialStart == Init => SeqInv /\ NoSilentCharge /\ CouponHeldByLiveOrders /\ ImmediateCouponLimits
<1> SUFFICES ASSUME Init PROVE SeqInv /\ NoSilentCharge /\ CouponHeldByLiveOrders /\ ImmediateCouponLimits
  OBVIOUS
<1>1. SeqInv
  BY DEF Init, SeqInv, RowsCurrent, CardIntents, PaidIfReconciled
<1>2. NoSilentCharge
  BY DEF Init, NoSilentCharge
<1>3. \A o \in OrderIds : RowsOf(o) = {} /\ ~Live(o)
  BY DEF Init, RowsOf, Live
<1>4. CouponHeldByLiveOrders
  BY <1>3, FS_EmptySet DEF CouponHeldByLiveOrders
<1>5. ImmediateUses = {} /\ \A u : UsesBy(u) = {}
  BY DEF Init, ImmediateUses, UsesBy
<1>6. ImmediateCouponLimits
  BY <1>5, FS_EmptySet, LimitsSplit, OrdersAssumption
<1> QED
  BY <1>1, <1>2, <1>4, <1>6

\* While one request is served at a time, its row is current and its checks hold.
THEOREM SequentialInvariance ==
  ASSUME OneAtATime
  PROVE  Spec => [](IInv /\ SeqInv)
<1>1. IInv /\ SeqInv /\ [Next]_vars => (IInv /\ SeqInv)'
  BY SeqStep, NextInv
<1>2. Init => IInv /\ SeqInv
  BY InitInv, SequentialStart
<1> QED
  BY <1>1, <1>2, PTL DEF Spec

\* The card of an order that was paid and is cancelled was refunded, or a person was told
\* (cancel_order, update_order_status and apply_cancellation_effects).
THEOREM CardsAreRefunded ==
  ASSUME OneAtATime
  PROVE  Spec => []NoSilentCharge
<1>1. IInv /\ SeqInv /\ NoSilentCharge /\ [Next]_vars => NoSilentCharge'
  BY SeqStep, SilentStep
<1>2. Init => NoSilentCharge
  BY SequentialStart
<1> QED
  BY <1>1, <1>2, SequentialInvariance, PTL DEF Spec

\* The uses of the coupon are held by the orders that are paid and not cancelled
\* (record_usage and reverse_usage, from whichever handler).
THEOREM CouponsAreHeld ==
  ASSUME OneAtATime
  PROVE  Spec => []CouponHeldByLiveOrders
<1>1. IInv /\ SeqInv /\ CouponHeldByLiveOrders /\ [Next]_vars => CouponHeldByLiveOrders'
  BY SeqStep, HeldStep
<1>2. Init => CouponHeldByLiveOrders
  BY SequentialStart
<1> QED
  BY <1>1, <1>2, SequentialInvariance, PTL DEF Spec

\* Orders that are paid at checkout keep to the coupon's limits (validate_coupon).
THEOREM CouponLimitsAreKept ==
  ASSUME OneAtATime
  PROVE  Spec => []ImmediateCouponLimits
<1>1. IInv /\ SeqInv /\ ImmediateCouponLimits /\ [Next]_vars => ImmediateCouponLimits'
  BY SeqStep, LimitsStep
<1>2. Init => ImmediateCouponLimits
  BY SequentialStart
<1> QED
  BY <1>1, <1>2, SequentialInvariance, PTL DEF Spec

\* The handlers implement the promise about stock: every order takes its basket once and
\* returns it once, whoever pays and cancels it.
THEOREM OrdersKeepThePromise ==
  ASSUME OneAtATime
  PROVE  Spec => ImplementsReservation
<1>1. IInv /\ SeqInv /\ [Next]_vars => [Promise!Next]_Promise!vars
  BY SeqStep, PromiseStep
<1> QED
  BY <1>1, PromiseStart, SequentialInvariance, PTL DEF Spec, ImplementsReservation, Promise!Spec
-----------------------------------------------------------------------------
(* Sums.  SumFunction adds the values one by one, in an order that CHOOSE   *)
(* picks; the partial sums of the subsets are the solution of a recursion.  *)

one(T) == CHOOSE x \in T : TRUE

added(sum, f, T) == IF T = {} THEN 0 ELSE f[one(T)] + sum[T \ {one(T)}]

AddsUp(sum, f) == sum = [T \in SUBSET DOMAIN f |-> added(sum, f, T)]

Sums(f) == CHOOSE sum : AddsUp(sum, f)

\* SumFunction is the partial sum of all.
LEMMA SumUnfolded == \A f : SumFunction(f) = Sums(f)[DOMAIN f]
  BY DEF SumFunction, SumFunctionOnSet, FoldFunctionOnSet, MapThenFoldSet, Sums, AddsUp, added, one

\* Among the subsets of a finite set that have some property, one is smallest.
LEMMA Smallest ==
  ASSUME NEW D, IsFiniteSet(D), NEW W \in SUBSET SUBSET D, W # {}
  PROVE  \E T \in W : \A U \in W : ~(Cardinality(U) < Cardinality(T))
<1> DEFINE R == {p \in Nat \X Nat : p[1] < p[2]}
           C == {Cardinality(T) : T \in W}
<1>1. IsWellFoundedOn(R, Nat)
  <2>1. R = OpToRel(<, Nat)
    BY DEF OpToRel
  <2> QED
    BY <2>1, NatLessThanWellFounded, Zenon
<1>2. C \subseteq Nat /\ C # {}
  <2>1. \A T \in W : Cardinality(T) \in Nat
    BY FS_Subset, FS_CardinalityType
  <2> QED
    BY <2>1
<1>3. PICK n \in C : \A m \in C : ~(<<m, n>> \in R)
  <2> HIDE DEF R, C
  <2> QED
    BY <1>1, <1>2, WFMin
<1> QED
  BY <1>2, <1>3

\* Taking one element out makes a set smaller.
LEMMA OneLess ==
  ASSUME NEW D, IsFiniteSet(D), NEW T \in SUBSET D, NEW x \in T
  PROVE  /\ T \ {x} \in SUBSET D /\ Cardinality(T \ {x}) < Cardinality(T)
         /\ Cardinality(T) \in Nat /\ Cardinality(T \ {x}) = Cardinality(T) - 1
<1>1. IsFiniteSet(T)
  BY FS_Subset
<1>2. Cardinality(T) \in Nat /\ Cardinality(T \ {x}) = Cardinality(T) - 1
  BY <1>1, FS_RemoveElement, FS_CardinalityType
<1> QED
  BY <1>2

\* A set that is not empty contains the element that is picked from it.
LEMMA OneOf == \A T : T # {} => one(T) \in T
  BY DEF one

\* The recursion has a solution: the sums of the sets of up to n elements give
\* those of the sets of n + 1.
LEMMA SumsExist ==
  ASSUME NEW f, IsFiniteSet(DOMAIN f)
  PROVE  AddsUp(Sums(f), f)
<1> DEFINE D == DOMAIN f
           UpTo(n) == {T \in SUBSET D : Cardinality(T) <= n}
           Solved(n) == \E sum : sum = [T \in UpTo(n) |-> added(sum, f, T)]
           Wrong == {S \in SUBSET D : ~Solved(Cardinality(S))}
<1>1. \A T \in SUBSET D : IsFiniteSet(T) /\ Cardinality(T) \in Nat
  BY FS_Subset, FS_CardinalityType
<1>2. Wrong = {}
  <2>1. SUFFICES ASSUME Wrong # {} PROVE FALSE
    OBVIOUS
  <2>2. PICK S \in Wrong : \A U \in Wrong : ~(Cardinality(U) < Cardinality(S))
    <3>1. Wrong \in SUBSET SUBSET D
      OBVIOUS
    <3> HIDE DEF Wrong
    <3> QED
      BY <2>1, <3>1, Smallest
  <2>3. CASE S = {}
    <3>1. UpTo(Cardinality(S)) = {{}}
      BY <1>1, <2>3, FS_EmptySet
    <3> DEFINE none == [T \in {{}} |-> 0]
    <3>2. none = [T \in UpTo(Cardinality(S)) |-> added(none, f, T)]
      BY <3>1 DEF added
    <3> QED
      BY <2>2, <3>2
  <2>4. CASE S # {}
    <3> DEFINE L == S \ {one(S)}
    <3>1. L \in SUBSET D /\ Cardinality(L) = Cardinality(S) - 1 /\ Cardinality(S) \in Nat
      BY <2>4, OneOf, OneLess
    <3>2. PICK sum : sum = [T \in UpTo(Cardinality(L)) |-> added(sum, f, T)]
      <4>1. L \notin Wrong
        <5>1. Cardinality(L) < Cardinality(S)
          BY <3>1
        <5> HIDE DEF Wrong, L
        <5> QED
          BY <2>2, <5>1
      <4>2. Solved(Cardinality(L))
        <5> HIDE DEF Solved, L
        <5> QED
          BY <3>1, <4>1
      <4> QED
        BY <4>2
    <3> DEFINE more == [T \in UpTo(Cardinality(S)) |-> added(sum, f, T)]
    <3>3. ASSUME NEW T \in UpTo(Cardinality(S))
          PROVE  added(more, f, T) = added(sum, f, T)
      <4>1. CASE T = {}
        BY <4>1 DEF added
      <4>2. CASE T # {}
        <5> DEFINE U == T \ {one(T)}
        <5>1. U \in SUBSET D /\ Cardinality(U) = Cardinality(T) - 1 /\ Cardinality(T) \in Nat
          BY <4>2, OneOf, OneLess
        <5>2. U \in UpTo(Cardinality(L)) /\ U \in UpTo(Cardinality(S))
          BY <3>1, <5>1
        <5>3. sum[U] = added(sum, f, U)
          <6> HIDE DEF UpTo, U
          <6> QED
            BY <3>2, <5>2
        <5>4. more[U] = added(sum, f, U)
          <6> HIDE DEF UpTo, U
          <6> QED
            BY <5>2
        <5> QED
          BY <4>2, <5>3, <5>4 DEF added
      <4> QED
        BY <4>1, <4>2
    <3>4. more = [T \in UpTo(Cardinality(S)) |-> added(more, f, T)]
      <4> HIDE DEF UpTo
      <4> QED
        BY <3>3
    <3> QED
      BY <2>2, <3>4
  <2> QED
    BY <2>3, <2>4
<1>3. UpTo(Cardinality(D)) = SUBSET D
  BY FS_Subset
<1>4. \E sum : AddsUp(sum, f)
  <2>1. Solved(Cardinality(D))
    BY <1>2
  <2> QED
    BY <1>3, <2>1 DEF AddsUp
<1> QED
  BY <1>4 DEF Sums

\* The partial sums of integers are integers, and none is negative when no value is.
LEMMA SumsTyped ==
  ASSUME NEW f, IsFiniteSet(DOMAIN f), \A x \in DOMAIN f : f[x] \in Int
  PROVE  \A T \in SUBSET DOMAIN f :
            Sums(f)[T] \in Int /\ ((\A x \in DOMAIN f : f[x] >= 0) => Sums(f)[T] >= 0)
<1> DEFINE D == DOMAIN f
           sum == Sums(f)
           Fine(T) == sum[T] \in Int /\ ((\A x \in D : f[x] >= 0) => sum[T] >= 0)
           Wrong == {T \in SUBSET D : ~Fine(T)}
<1>1. \A T \in SUBSET D : sum[T] = added(sum, f, T)
  <2>1. AddsUp(sum, f)
    BY SumsExist
  <2> QED
    BY <2>1 DEF AddsUp
<1>2. SUFFICES ASSUME Wrong # {} PROVE FALSE
  OBVIOUS
<1> HIDE DEF sum
<1>3. PICK T \in Wrong : \A U \in Wrong : ~(Cardinality(U) < Cardinality(T))
  <2>1. Wrong \in SUBSET SUBSET D
    OBVIOUS
  <2> HIDE DEF Wrong
  <2> QED
    BY <1>2, <2>1, Smallest
<1>4. T # {}
  <2>1. sum[{}] = 0
    BY <1>1 DEF added
  <2>2. Fine({})
    BY <2>1
  <2> HIDE DEF Fine
  <2> QED
    BY <1>3, <2>2
<1> DEFINE x == one(T)
<1>5. x \in T /\ T \ {x} \in SUBSET D /\ Cardinality(T \ {x}) < Cardinality(T)
  BY <1>4, OneOf, OneLess
<1>6. Fine(T \ {x})
  BY <1>3, <1>5
<1>7. sum[T] = f[x] + sum[T \ {x}]
  BY <1>1, <1>4 DEF added
<1> HIDE DEF x
<1> QED
  BY <1>3, <1>5, <1>6, <1>7

\* The order of the addition does not matter: any element can be the last one.
LEMMA AnyLast ==
  ASSUME NEW f, IsFiniteSet(DOMAIN f), \A x \in DOMAIN f : f[x] \in Int
  PROVE  \A T \in SUBSET DOMAIN f : \A x \in T : Sums(f)[T] = f[x] + Sums(f)[T \ {x}]
<1> DEFINE D == DOMAIN f
           sum == Sums(f)
           Fine(T) == \A x \in T : sum[T] = f[x] + sum[T \ {x}]
           Wrong == {T \in SUBSET D : ~Fine(T)}
<1>1. \A T \in SUBSET D : sum[T] = added(sum, f, T) /\ sum[T] \in Int
  <2>1. AddsUp(sum, f)
    BY SumsExist
  <2> QED
    BY <2>1, SumsTyped DEF AddsUp
<1>2. SUFFICES ASSUME Wrong # {} PROVE FALSE
  OBVIOUS
<1> HIDE DEF sum
<1>3. PICK T \in Wrong : \A U \in Wrong : ~(Cardinality(U) < Cardinality(T))
  <2>1. Wrong \in SUBSET SUBSET D
    OBVIOUS
  <2> HIDE DEF Wrong
  <2> QED
    BY <1>2, <2>1, Smallest
<1>4. PICK x \in T : sum[T] # f[x] + sum[T \ {x}]
  BY <1>3
<1> DEFINE c == one(T)
<1>5. c \in T /\ sum[T] = f[c] + sum[T \ {c}]
  BY <1>1, <1>3, <1>4, OneOf DEF added
<1> HIDE DEF c
<1>6. x # c
  BY <1>4, <1>5
<1>7. sum[T \ {c}] = f[x] + sum[(T \ {c}) \ {x}]
  <2>1. T \ {c} \in SUBSET D /\ Cardinality(T \ {c}) < Cardinality(T)
    BY <1>5, OneLess
  <2>2. Fine(T \ {c})
    BY <1>3, <2>1
  <2> QED
    BY <1>6, <2>2
<1>8. sum[T \ {x}] = f[c] + sum[(T \ {c}) \ {x}]
  <2>1. T \ {x} \in SUBSET D /\ Cardinality(T \ {x}) < Cardinality(T)
    BY <1>4, OneLess
  <2>2. Fine(T \ {x})
    BY <1>3, <2>1
  <2>3. (T \ {c}) \ {x} = (T \ {x}) \ {c}
    OBVIOUS
  <2> QED
    BY <1>5, <1>6, <2>2, <2>3
<1>9. f[x] \in Int /\ f[c] \in Int /\ sum[(T \ {c}) \ {x}] \in Int
  BY <1>1, <1>4, <1>5
<1> QED
  BY <1>4, <1>5, <1>7, <1>8, <1>9

\* Functions that agree on a set have the same sum over it.
LEMMA SameSum ==
  ASSUME NEW f, NEW g, DOMAIN g = DOMAIN f, IsFiniteSet(DOMAIN f),
         NEW S \in SUBSET DOMAIN f, \A x \in S : f[x] = g[x]
  PROVE  Sums(f)[S] = Sums(g)[S]
<1> DEFINE D == DOMAIN f
           sum == Sums(f)
           other == Sums(g)
           Wrong == {T \in SUBSET S : sum[T] # other[T]}
<1>1. \A T \in SUBSET D : sum[T] = added(sum, f, T) /\ other[T] = added(other, g, T)
  <2>1. AddsUp(sum, f) /\ AddsUp(other, g)
    BY SumsExist
  <2> QED
    BY <2>1 DEF AddsUp
<1>2. SUFFICES ASSUME Wrong # {} PROVE FALSE
  OBVIOUS
<1> HIDE DEF sum, other
<1>3. PICK T \in Wrong : \A U \in Wrong : ~(Cardinality(U) < Cardinality(T))
  <2>1. Wrong \in SUBSET SUBSET D
    OBVIOUS
  <2> HIDE DEF Wrong
  <2> QED
    BY <1>2, <2>1, Smallest
<1>4. T # {} /\ T \in SUBSET D
  BY <1>1, <1>3 DEF added
<1> DEFINE x == one(T)
<1>5. x \in T /\ Cardinality(T \ {x}) < Cardinality(T) /\ T \ {x} \in SUBSET S
  BY <1>3, <1>4, OneOf, OneLess
<1>6. sum[T \ {x}] = other[T \ {x}]
  BY <1>3, <1>5
<1>7. sum[T] = f[x] + sum[T \ {x}] /\ other[T] = g[x] + other[T \ {x}]
  BY <1>1, <1>4 DEF added
<1> HIDE DEF x
<1> QED
  BY <1>3, <1>5, <1>6, <1>7

\* Changing one value changes the sum by as much.
LEMMA SumChanges ==
  ASSUME NEW D, IsFiniteSet(D), NEW f \in [D -> Int], NEW g \in [D -> Int], NEW x \in D,
         \A y \in D \ {x} : g[y] = f[y]
  PROVE  /\ SumFunction(f) \in Int
         /\ SumFunction(g) = SumFunction(f) - f[x] + g[x]
<1>1. D \ {x} \in SUBSET D /\ D \in SUBSET D /\ DOMAIN f = D /\ DOMAIN g = D
  OBVIOUS
<1>2. Sums(f)[D \ {x}] = Sums(g)[D \ {x}]
  BY <1>1, SameSum
<1>3. Sums(f)[D] = f[x] + Sums(f)[D \ {x}] /\ Sums(g)[D] = g[x] + Sums(g)[D \ {x}]
  BY <1>1, AnyLast
<1>4. Sums(f)[D \ {x}] \in Int /\ Sums(f)[D] \in Int
  BY <1>1, SumsTyped
<1>5. SumFunction(f) = Sums(f)[D] /\ SumFunction(g) = Sums(g)[D]
  BY <1>1, SumUnfolded
<1>6. f[x] \in Int /\ g[x] \in Int
  OBVIOUS
<1> QED
  BY <1>2, <1>3, <1>4, <1>5, <1>6

\* A sum of naturals is at least each of them.
LEMMA SumBounds ==
  ASSUME NEW D, IsFiniteSet(D), NEW f \in [D -> Nat], NEW x \in D
  PROVE  f[x] <= SumFunction(f)
<1>1. D \ {x} \in SUBSET D /\ D \in SUBSET D /\ DOMAIN f = D /\ \A y \in D : f[y] \in Int /\ f[y] >= 0
  OBVIOUS
<1>2. Sums(f)[D] = f[x] + Sums(f)[D \ {x}]
  BY <1>1, AnyLast
<1>3. Sums(f)[D \ {x}] \in Int /\ Sums(f)[D \ {x}] >= 0
  BY <1>1, SumsTyped
<1>4. SumFunction(f) = Sums(f)[D]
  BY <1>1, SumUnfolded
<1> QED
  BY <1>1, <1>2, <1>3, <1>4

\* A sum of zeros is zero.
LEMMA SumOfZeros ==
  ASSUME NEW D, IsFiniteSet(D), NEW f \in [D -> Int], \A x \in D : f[x] = 0
  PROVE  SumFunction(f) = 0
<1> DEFINE Wrong == {T \in SUBSET D : Sums(f)[T] # 0}
<1>1. \A T \in SUBSET D : Sums(f)[T] = added(Sums(f), f, T)
  <2>1. AddsUp(Sums(f), f) /\ DOMAIN f = D
    BY SumsExist
  <2> QED
    BY <2>1 DEF AddsUp
<1>2. Wrong = {}
  <2>1. SUFFICES ASSUME Wrong # {} PROVE FALSE
    OBVIOUS
  <2>2. PICK T \in Wrong : \A U \in Wrong : ~(Cardinality(U) < Cardinality(T))
    <3>1. Wrong \in SUBSET SUBSET D
      OBVIOUS
    <3> HIDE DEF Wrong
    <3> QED
      BY <2>1, <3>1, Smallest
  <2>3. T # {}
    BY <1>1, <2>2 DEF added
  <2>4. one(T) \in T /\ T \ {one(T)} \in SUBSET D /\ Cardinality(T \ {one(T)}) < Cardinality(T)
    BY <2>3, OneOf, OneLess
  <2>5. Sums(f)[T \ {one(T)}] = 0 /\ f[one(T)] = 0
    BY <2>2, <2>4
  <2>6. Sums(f)[T] = f[one(T)] + Sums(f)[T \ {one(T)}]
    BY <1>1, <2>2, <2>3 DEF added
  <2> QED
    BY <2>2, <2>5, <2>6
<1>3. Sums(f)[D] = 0
  BY <1>2
<1> QED
  BY <1>3, SumUnfolded
-----------------------------------------------------------------------------
(* The accounts.                                                            *)

\* A points pair is recorded for exactly the orders whose effects were all applied.
PointsOnce ==
  \A o \in OrderIds :
    pointsTx[o] = IF payment[o] = "paid" /\ o \notin reconcile /\ info[o].user \in Users THEN 1 ELSE 0

\* The types of the fields of an order that the accounts read.
LEMMA InfoFields ==
  \A i \in Info : /\ i.user \in Users \cup {NoUser} /\ i.method \in Methods /\ i.basket \in [Skus -> Nat]
                  /\ i.total \in Nat /\ i.redeem \in Nat /\ earned(i) \in Nat
  BY EarnedNat DEF Info

\* What an order holds is a number, and what it holds of stock and credit is not negative.
HoldingsOK ==
  /\ \A s \in Skus : stock_held(s) \in [OrderIds -> Nat]
  /\ \A u \in Users : credit_held(u) \in [OrderIds -> Nat] /\ points_brought(u) \in [OrderIds -> Int]

\* What each order holds is a number, so that the sums exist.
LEMMA HoldingsTyped == TypeOK => HoldingsOK
<1> SUFFICES ASSUME TypeOK PROVE HoldingsOK
  OBVIOUS
<1>1. \A o \in OrderIds : info[o] \in Info
  BY DEF TypeOK
<1>2. ASSUME NEW s \in Skus PROVE stock_held(s) \in [OrderIds -> Nat]
  <2>1. \A o \in OrderIds : info[o].basket[s] \in Nat
    BY <1>1, InfoFields
  <2> QED
    BY <2>1 DEF stock_held
<1>3. ASSUME NEW u \in Users PROVE credit_held(u) \in [OrderIds -> Nat]
  <2>1. \A o \in OrderIds : info[o].total \in Nat
    BY <1>1, InfoFields
  <2> QED
    BY <2>1 DEF credit_held
<1>4. ASSUME NEW u \in Users PROVE points_brought(u) \in [OrderIds -> Int]
  <2>1. \A o \in OrderIds : earned(info[o]) - info[o].redeem \in Int
    BY <1>1, InfoFields
  <2> QED
    BY <2>1 DEF points_brought
<1> QED
  BY <1>2, <1>3, <1>4 DEF HoldingsOK

\* A step about one order moves the sums by what that order takes or gives back.
LEMMA OneOrderMoves ==
  ASSUME TypeOK, TypeOK', NEW o \in OrderIds,
         \A p \in OrderIds \ {o} : status'[p] = status[p] /\ payment'[p] = payment[p] /\ info'[p] = info[p],
         \A p \in OrderIds \ {o} : p \in reconcile' <=> p \in reconcile
  PROVE  /\ \A s \in Skus :
              /\ SumFunction(stock_held(s)) \in Int
              /\ SumFunction(stock_held(s))' = SumFunction(stock_held(s)) - stock_held(s)[o] + stock_held(s)'[o]
         /\ \A u \in Users :
              /\ SumFunction(credit_held(u)) \in Int /\ credit_held(u)[o] <= SumFunction(credit_held(u))
              /\ SumFunction(credit_held(u))' = SumFunction(credit_held(u)) - credit_held(u)[o] + credit_held(u)'[o]
         /\ \A u \in Users :
              /\ SumFunction(points_brought(u)) \in Int
              /\ SumFunction(points_brought(u))'
                    = SumFunction(points_brought(u)) - points_brought(u)[o] + points_brought(u)'[o]
<1>1. \A p \in OrderIds \ {o} : Live(p)' = Live(p)
  BY DEF Live
<1>2. ASSUME NEW s \in Skus
      PROVE  \A p \in OrderIds \ {o} : stock_held(s)'[p] = stock_held(s)[p]
  BY <1>1 DEF stock_held
<1>3. ASSUME NEW u \in Users
      PROVE  \A p \in OrderIds \ {o} : credit_held(u)'[p] = credit_held(u)[p]
  BY <1>1 DEF credit_held
<1>4. ASSUME NEW u \in Users
      PROVE  \A p \in OrderIds \ {o} : points_brought(u)'[p] = points_brought(u)[p]
  BY <1>1 DEF points_brought
<1>5. HoldingsOK /\ HoldingsOK'
  BY HoldingsTyped, PTL
<1>6. [OrderIds -> Nat] \subseteq [OrderIds -> Int]
  OBVIOUS
<1>7. ASSUME NEW s \in Skus
      PROVE  /\ SumFunction(stock_held(s)) \in Int
             /\ SumFunction(stock_held(s))' = SumFunction(stock_held(s)) - stock_held(s)[o] + stock_held(s)'[o]
  BY <1>2, <1>5, <1>6, OrdersAreFinite, SumChanges DEF HoldingsOK
<1>8. ASSUME NEW u \in Users
      PROVE  /\ SumFunction(credit_held(u)) \in Int /\ credit_held(u)[o] <= SumFunction(credit_held(u))
             /\ SumFunction(credit_held(u))' = SumFunction(credit_held(u)) - credit_held(u)[o] + credit_held(u)'[o]
  BY <1>3, <1>5, <1>6, OrdersAreFinite, SumChanges, SumBounds DEF HoldingsOK
<1>9. ASSUME NEW u \in Users
      PROVE  /\ SumFunction(points_brought(u)) \in Int
             /\ SumFunction(points_brought(u))'
                   = SumFunction(points_brought(u)) - points_brought(u)[o] + points_brought(u)'[o]
  BY <1>4, <1>5, OrdersAreFinite, SumChanges DEF HoldingsOK
<1> QED
  BY <1>7, <1>8, <1>9

About(o) == Sells(o) \/ Places(o) \/ Writes(o) \/ PaysFully(o) \/ PaysPartly(o) \/ Cancels(o)

\* A step about one order leaves every other order, and with it what that order
\* holds, as it is.
LEMMA Frame ==
  ASSUME IInv, NEW o \in OrderIds, About(o)
  PROVE  /\ \A p \in OrderIds \ {o} : status'[p] = status[p] /\ payment'[p] = payment[p] /\ info'[p] = info[p]
         /\ \A p \in OrderIds \ {o} : p \in reconcile' <=> p \in reconcile
         /\ reconcile \subseteq reconcile'
         /\ SeqInv => \A p \in reconcile : info'[p] = info[p]
<1>1. \A p \in OrderIds \ {o} : status'[p] = status[p] /\ payment'[p] = payment[p] /\ info'[p] = info[p]
  BY OtherOrders DEF About
<1>2. reconcile' \in {reconcile, reconcile \cup {o}}
  BY DEF About, Sells, Places, Writes, PaysFully, PaysPartly, Cancels
<1>3. ASSUME SeqInv, o \in reconcile PROVE info'[o] = info[o]
  <2>1. payment[o] = "paid"
    BY <1>3 DEF SeqInv, PaidIfReconciled
  <2>2. ~Sells(o) /\ ~Places(o)
    BY <2>1, Created DEF Sells, Places, PaymentStatus
  <2> QED
    BY <2>2 DEF About, Writes, PaysFully, PaysPartly, Pays, Cancels
<1> QED
  BY <1>1, <1>2, <1>3 DEF IInv, TypeOK

\* Whether the order is live before and after each kind of step.
LEMMA LiveMoves ==
  ASSUME IInv, SeqInv, NEW o \in OrderIds
  PROVE  /\ \A i \in Info, pay \in PaymentStatus :
              create_order(o, i, pay) => /\ ~Live(o) /\ o \notin reconcile /\ info'[o] = i
                                         /\ (Live(o)' <=> pay = "paid")
         /\ Writes(o) => (Live(o)' <=> Live(o)) /\ info' = info /\ payment' = payment
         /\ Pays(o) => ~Live(o) /\ Live(o)' /\ o \notin reconcile /\ info' = info /\ payment'[o] = "paid"
         /\ Cancels(o) => (Live(o) <=> payment[o] = "paid") /\ ~Live(o)' /\ info' = info /\ payment' = payment
<1> USE DEF Live
<1>1. ASSUME NEW i \in Info, NEW pay \in PaymentStatus, create_order(o, i, pay)
      PROVE  /\ ~Live(o) /\ o \notin reconcile /\ info'[o] = i
             /\ (Live(o)' <=> pay = "paid")
  BY <1>1, Created DEF SeqInv, PaidIfReconciled
<1>2. ASSUME Writes(o)
      PROVE  (Live(o)' <=> Live(o)) /\ info' = info /\ payment' = payment
  BY <1>2, Moved DEF Writes
<1>3. ASSUME Pays(o)
      PROVE  ~Live(o) /\ Live(o)' /\ o \notin reconcile /\ info' = info /\ payment'[o] = "paid"
  BY <1>3, Moved DEF Pays, IInv, TypeOK, SeqInv, PaidIfReconciled
<1>4. ASSUME Cancels(o)
      PROVE  (Live(o) <=> payment[o] = "paid") /\ ~Live(o)' /\ info' = info /\ payment' = payment
  BY <1>4, Moved DEF Cancels
<1> QED
  BY <1>1, <1>2, <1>3, <1>4

\* Every step moves a stock cell by what the order that it is about begins or
\* ceases to hold of it.
LEMMA StockStep ==
  ASSUME IInv, IInv', SeqInv, StockConserved, Step
  PROVE  StockConserved'
<1>1. CASE Rests
  <2>1. \A s \in Skus : stock_held(s)' = stock_held(s)
    BY <1>1 DEF Rests, stock_held, Live
  <2> QED
    BY <1>1, <2>1 DEF Rests, StockConserved
<1>2. ASSUME NEW o \in OrderIds, About(o)
      PROVE  StockConserved'
  <2> SUFFICES ASSUME NEW s \in Skus, \A p \in reconcile' : info'[p].basket[s] = 0
               PROVE  stock'[s] = InitStock[s] - SumFunction(stock_held(s))'
    BY DEF StockConserved
  <2>1. stock[s] = InitStock[s] - SumFunction(stock_held(s))
    BY <1>2, Frame DEF StockConserved
  <2>2. /\ SumFunction(stock_held(s)) \in Int
        /\ SumFunction(stock_held(s))' = SumFunction(stock_held(s)) - stock_held(s)[o] + stock_held(s)'[o]
    BY <1>2, Frame, OneOrderMoves DEF IInv
  <2>3. /\ stock_held(s)[o] = IF Live(o) THEN info[o].basket[s] ELSE 0
        /\ stock_held(s)'[o] = IF Live(o)' THEN info'[o].basket[s] ELSE 0
    BY DEF stock_held
  <2>4. info[o].basket[s] \in Nat /\ info'[o].basket[s] \in Nat /\ stock[s] \in Int /\ InitStock[s] \in Int
    <3>1. info[o] \in Info /\ info'[o] \in Info /\ stock \in [Skus -> Int]
      BY DEF IInv, TypeOK
    <3> QED
      BY <3>1, InfoFields, OrdersAssumption
  <2>5. stock'[s] = stock[s] + stock_held(s)[o] - stock_held(s)'[o]
    <3>1. CASE Sells(o)
      <4>1. PICK i \in Info : create_order(o, i, "paid") /\ deduct_stock(i.basket)
        BY <3>1 DEF Sells
      <4>2. ~Live(o) /\ Live(o)' /\ info'[o] = i
        BY <4>1, LiveMoves DEF PaymentStatus
      <4>3. stock'[s] = stock[s] - info'[o].basket[s]
        BY <4>1, <4>2 DEF deduct_stock
      <4> QED
        BY <2>3, <2>4, <4>2, <4>3
    <3>2. CASE Places(o)
      <4>1. PICK i \in Info : create_order(o, i, "pending") /\ stock' = stock
        BY <3>2 DEF Places
      <4>2. ~Live(o) /\ ~Live(o)'
        BY <4>1, LiveMoves DEF PaymentStatus
      <4> QED
        BY <2>3, <2>4, <4>1, <4>2
    <3>3. CASE Writes(o)
      BY <2>3, <2>4, <3>3, LiveMoves DEF Writes
    <3>4. CASE PaysFully(o)
      <4>1. ~Live(o) /\ Live(o)' /\ info' = info
        BY <3>4, LiveMoves DEF PaysFully
      <4>2. stock'[s] = stock[s] - info[o].basket[s]
        BY <3>4 DEF PaysFully, deduct_stock
      <4> QED
        BY <2>3, <2>4, <4>1, <4>2
    <3>5. CASE PaysPartly(o)
      <4>1. info' = info /\ o \in reconcile'
        BY <3>5, LiveMoves DEF PaysPartly
      <4>2. info[o].basket[s] = 0
        BY <4>1
      <4>3. stock'[s] = stock[s]
        BY <2>4, <3>5, <4>2 DEF PaysPartly, apply_effects_until_error, deduct_stock
      <4> QED
        BY <2>3, <2>4, <4>1, <4>2, <4>3
    <3>6. CASE Cancels(o)
      <4>1. (Live(o) <=> payment[o] = "paid") /\ ~Live(o)'
        BY <3>6, LiveMoves
      <4>2. stock'[s] = IF payment[o] = "paid" THEN stock[s] + info[o].basket[s] ELSE stock[s]
        BY <3>6 DEF Cancels, restore_stock
      <4> QED
        BY <2>3, <2>4, <4>1, <4>2
    <3> QED
      BY <1>2, <3>1, <3>2, <3>3, <3>4, <3>5, <3>6 DEF About
  <2>6. stock_held(s)[o] \in Int /\ stock_held(s)'[o] \in Int
    BY <2>3, <2>4
  <2> QED
    BY <2>1, <2>2, <2>4, <2>5, <2>6
<1> QED
  BY <1>1, <1>2 DEF Step, About

\* Every step moves the drawn credit by what its order begins or ceases to owe.
LEMMA CreditStep ==
  ASSUME IInv, IInv', SeqInv, CreditConserved, Step
  PROVE  CreditConserved'
<1>1. CASE Rests
  <2>1. \A u \in Users : credit_held(u)' = credit_held(u)
    BY <1>1 DEF Rests, credit_held, Live
  <2> QED
    BY <1>1, <2>1 DEF Rests, CreditConserved
<1>2. ASSUME NEW o \in OrderIds, About(o)
      PROVE  CreditConserved'
  <2> SUFFICES ASSUME NEW u \in Users
               PROVE  usedCredit'[u] = SumFunction(credit_held(u))'
    BY DEF CreditConserved
  <2> DEFINE mine == info[o].method = "credit_limit" /\ info[o].user = u
             after == info'[o].method = "credit_limit" /\ info'[o].user = u
  <2>1. usedCredit[u] = SumFunction(credit_held(u))
    BY DEF CreditConserved
  <2>2. /\ SumFunction(credit_held(u)) \in Int /\ credit_held(u)[o] <= SumFunction(credit_held(u))
        /\ SumFunction(credit_held(u))' = SumFunction(credit_held(u)) - credit_held(u)[o] + credit_held(u)'[o]
    BY <1>2, Frame, OneOrderMoves DEF IInv
  <2>3. /\ credit_held(u)[o] = IF Live(o) /\ mine THEN info[o].total ELSE 0
        /\ credit_held(u)'[o] = IF Live(o)' /\ after THEN info'[o].total ELSE 0
    BY DEF credit_held
  <2>4. info[o].total \in Nat /\ info'[o].total \in Nat /\ usedCredit \in [Users -> Nat]
    <3>1. info[o] \in Info /\ info'[o] \in Info /\ usedCredit \in [Users -> Nat]
      BY DEF IInv, TypeOK
    <3> QED
      BY <3>1, InfoFields
  <2>5. usedCredit'[u] = usedCredit[u] - credit_held(u)[o] + credit_held(u)'[o]
    <3>1. CASE Sells(o)
      <4>1. PICK i \in Info : create_order(o, i, "paid") /\ draw_credit(i)
        BY <3>1 DEF Sells
      <4>2. ~Live(o) /\ Live(o)' /\ info'[o] = i
        BY <4>1, LiveMoves DEF PaymentStatus
      <4>3. CASE after
        BY <2>3, <2>4, <4>1, <4>2, <4>3 DEF draw_credit
      <4>4. CASE ~after
        <5>1. usedCredit'[u] = usedCredit[u]
          BY <2>4, <4>1, <4>2, <4>4 DEF draw_credit
        <5> QED
          BY <2>3, <2>4, <4>2, <4>4, <5>1
      <4> QED
        BY <4>3, <4>4
    <3>2. CASE Places(o)
      <4>1. PICK i \in Info : create_order(o, i, "pending") /\ usedCredit' = usedCredit
        BY <3>2 DEF Places
      <4>2. ~Live(o) /\ ~Live(o)'
        BY <4>1, LiveMoves DEF PaymentStatus
      <4> QED
        BY <2>3, <2>4, <4>1, <4>2
    <3>3. CASE Writes(o)
      <4>1. usedCredit' = usedCredit /\ credit_held(u)'[o] = credit_held(u)[o]
        BY <2>3, <3>3, LiveMoves DEF Writes
      <4> QED
        BY <2>3, <2>4, <4>1
    <3>4. CASE Pays(o)
      <4>1. ~Live(o) /\ info' = info /\ ~mine /\ usedCredit' = usedCredit
        BY <3>4, LiveMoves DEF Pays, Immediate
      <4> QED
        BY <2>3, <2>4, <4>1
    <3>5. CASE Cancels(o)
      <4>1. (Live(o) <=> payment[o] = "paid") /\ ~Live(o)'
        BY <3>5, LiveMoves
      <4>2. CASE Live(o) /\ mine
        <5>1. usedCredit' = [usedCredit EXCEPT ![u] = NonNeg(usedCredit[u] - info[o].total)]
          BY <3>5, <4>1, <4>2 DEF Cancels, restore_credit
        <5>2. info[o].total <= usedCredit[u]
          BY <2>1, <2>2, <2>3, <4>2
        <5> QED
          BY <2>3, <2>4, <4>1, <4>2, <5>1, <5>2 DEF NonNeg
      <4>3. CASE ~(Live(o) /\ mine)
        <5>1. usedCredit'[u] = usedCredit[u]
          BY <2>4, <3>5, <4>1, <4>3 DEF Cancels, restore_credit
        <5> QED
          BY <2>3, <2>4, <4>1, <4>3, <5>1
      <4> QED
        BY <4>2, <4>3
    <3> QED
      BY <1>2, <3>1, <3>2, <3>3, <3>4, <3>5 DEF About, PaysFully, PaysPartly
  <2>6. credit_held(u)[o] \in Int /\ credit_held(u)'[o] \in Int
    BY <2>3, <2>4
  <2> QED
    BY <2>1, <2>2, <2>4, <2>5, <2>6
<1> QED
  BY <1>1, <1>2 DEF Step, About

\* Every step keeps the points of an order booked once while it is paid.
LEMMA PairsStep ==
  ASSUME IInv, IInv', SeqInv, PointsOnce, Step
  PROVE  PointsOnce'
<1> DEFINE due(p) == payment[p] = "paid" /\ p \notin reconcile /\ info[p].user \in Users
<1>1. CASE Rests
  BY <1>1 DEF Rests, PointsOnce, pointsVars
<1>2. ASSUME NEW o \in OrderIds, About(o)
      PROVE  PointsOnce'
  <2>1. pointsTx \in [OrderIds -> Nat] /\ pointsTx[o] = (IF due(o) THEN 1 ELSE 0)
    BY DEF IInv, TypeOK, PointsOnce
  <2>2. \A p \in OrderIds \ {o} : (due(p)' <=> due(p)) /\ pointsTx[p] = (IF due(p) THEN 1 ELSE 0)
    BY <1>2, Frame DEF PointsOnce
  <2>3. ASSUME NEW i \in Info, redeem_and_earn(o, i), pointsTx[o] = 0
        PROVE  /\ pointsTx'[o] = IF i.user \in Users THEN 1 ELSE 0
               /\ \A p \in OrderIds \ {o} : pointsTx'[p] = pointsTx[p]
    BY <2>1, <2>3 DEF redeem_and_earn, pointsVars
  <2>4. /\ pointsTx'[o] = IF due(o)' THEN 1 ELSE 0
        /\ \A p \in OrderIds \ {o} : pointsTx'[p] = pointsTx[p]
    <3>1. CASE Sells(o)
      <4>1. PICK i \in Info : create_order(o, i, "paid") /\ redeem_and_earn(o, i)
        BY <3>1 DEF Sells
      <4>2. info'[o] = i /\ o \notin reconcile /\ payment'[o] = "paid" /\ payment[o] = "pending"
        BY <4>1, LiveMoves, Created DEF PaymentStatus
      <4>3. reconcile' = reconcile
        BY <3>1 DEF Sells
      <4>4. due(o)' <=> i.user \in Users
        BY <4>2, <4>3
      <4>5. pointsTx[o] = 0
        BY <2>1, <4>2
      <4> HIDE DEF due
      <4> QED
        BY <2>3, <4>1, <4>4, <4>5
    <3>2. CASE Places(o)
      <4>1. PICK i \in Info : create_order(o, i, "pending")
        BY <3>2 DEF Places
      <4>2. payment'[o] = "pending" /\ payment[o] = "pending"
        BY <4>1, Created DEF PaymentStatus
      <4>3. pointsTx' = pointsTx
        BY <3>2 DEF Places, pointsVars
      <4> QED
        BY <2>1, <4>2, <4>3
    <3>3. CASE Writes(o) \/ Cancels(o)
      <4>1. pointsTx' = pointsTx /\ reconcile' = reconcile /\ info' = info /\ payment' = payment
        BY <3>3 DEF Writes, Cancels, reverse_order_points, pointsVars
      <4> QED
        BY <2>1, <4>1
    <3>4. CASE PaysFully(o)
      <4>1. redeem_and_earn(o, info[o]) /\ reconcile' = reconcile /\ payment[o] # "paid"
        BY <3>4 DEF PaysFully, Pays
      <4>2. o \notin reconcile /\ info' = info /\ payment'[o] = "paid"
        BY <3>4, LiveMoves DEF PaysFully
      <4>3. due(o)' <=> info[o].user \in Users
        BY <4>1, <4>2
      <4>4. pointsTx[o] = 0 /\ info[o] \in Info
        BY <2>1, <4>1 DEF IInv, TypeOK
      <4> HIDE DEF due
      <4> QED
        BY <2>3, <4>1, <4>3, <4>4
    <3>5. CASE PaysPartly(o)
      <4>1. pointsTx' = pointsTx /\ o \in reconcile' /\ payment[o] # "paid"
        BY <3>5 DEF PaysPartly, Pays, apply_effects_until_error, pointsVars
      <4> QED
        BY <2>1, <4>1
    <3> QED
      BY <1>2, <3>1, <3>2, <3>3, <3>4, <3>5 DEF About
  <2> HIDE DEF due
  <2>5. \A p \in OrderIds : pointsTx'[p] = IF due(p)' THEN 1 ELSE 0
    BY <2>2, <2>4
  <2> QED
    BY <2>5 DEF PointsOnce, due
<1> QED
  BY <1>1, <1>2 DEF Step, About

\* Every step moves the balance of points by at least what its order brings.
LEMMA PointsStep ==
  ASSUME IInv, IInv', SeqInv, PointsOnce, PointsNeverLost, Step
  PROVE  PointsNeverLost'
<1>1. CASE Rests
  <2>1. \A u \in Users : points_brought(u)' = points_brought(u)
    BY <1>1 DEF Rests, points_brought, Live
  <2> QED
    BY <1>1, <2>1 DEF Rests, PointsNeverLost, pointsVars
<1>2. ASSUME NEW o \in OrderIds, About(o)
      PROVE  PointsNeverLost'
  <2> SUFFICES ASSUME NEW u \in Users
               PROVE  balance'[u] >= InitPoints + SumFunction(points_brought(u))'
    BY DEF PointsNeverLost
  <2> DEFINE worth == earned(info[o]) - info[o].redeem
             new == earned(info'[o]) - info'[o].redeem
             counts == Live(o) /\ o \notin reconcile /\ info[o].user = u
  <2>1. balance[u] >= InitPoints + SumFunction(points_brought(u))
    BY DEF PointsNeverLost
  <2>2. /\ SumFunction(points_brought(u)) \in Int
        /\ SumFunction(points_brought(u))'
              = SumFunction(points_brought(u)) - points_brought(u)[o] + points_brought(u)'[o]
    BY <1>2, Frame, OneOrderMoves DEF IInv
  <2>3. /\ points_brought(u)[o] = IF counts THEN worth ELSE 0
        /\ points_brought(u)'[o] = IF counts' THEN new ELSE 0
    BY DEF points_brought, earned
  <2>4. worth \in Int /\ new \in Int /\ balance \in [Users -> Int] /\ InitPoints \in Int
        /\ \A v \in Users : balance[v] >= 0
    <3>1. info[o] \in Info /\ info'[o] \in Info /\ balance \in [Users -> Int] /\ NoOverdraft
      BY DEF IInv, TypeOK
    <3>2. \A i \in Info : earned(i) - i.redeem \in Int
      BY InfoFields
    <3> QED
      BY <3>1, <3>2, OrdersAssumption DEF NoOverdraft
  <2>5. ASSUME NEW i \in Info, redeem_and_earn(o, i)
        PROVE  balance'[u] = IF i.user = u THEN balance[u] + (earned(i) - i.redeem) ELSE balance[u]
    <3>1. earned(i) \in Int /\ i.redeem \in Int
      BY InfoFields
    <3> QED
      BY <2>4, <2>5, <3>1 DEF redeem_and_earn, pointsVars
  <2>6. balance'[u] \in Int /\ balance'[u] >= balance[u] - points_brought(u)[o] + points_brought(u)'[o]
    <3>1. CASE Sells(o)
      <4>1. PICK i \in Info : create_order(o, i, "paid") /\ redeem_and_earn(o, i)
        BY <3>1 DEF Sells
      <4>2. ~Live(o) /\ Live(o)' /\ info'[o] = i /\ o \notin reconcile /\ reconcile' = reconcile
        BY <3>1, <4>1, LiveMoves DEF PaymentStatus, Sells
      <4>3. ~counts /\ (counts' <=> i.user = u) /\ new = earned(i) - i.redeem
        BY <4>2 DEF earned
      <4> HIDE DEF counts, worth, new
      <4> QED
        BY <2>3, <2>4, <2>5, <4>1, <4>3
    <3>2. CASE Places(o)
      <4>1. PICK i \in Info : create_order(o, i, "pending") /\ balance' = balance
        BY <3>2 DEF Places, pointsVars
      <4>2. ~Live(o) /\ ~Live(o)'
        BY <4>1, LiveMoves DEF PaymentStatus
      <4> QED
        BY <2>3, <2>4, <4>1, <4>2
    <3>3. CASE Writes(o)
      <4>1. balance' = balance /\ reconcile' = reconcile
        BY <3>3 DEF Writes, pointsVars
      <4>2. points_brought(u)'[o] = points_brought(u)[o]
        BY <2>3, <3>3, <4>1, LiveMoves DEF earned
      <4> HIDE DEF worth, new, counts
      <4> QED
        BY <2>3, <2>4, <4>1, <4>2
    <3>4. CASE PaysFully(o)
      <4>1. redeem_and_earn(o, info[o]) /\ reconcile' = reconcile /\ info[o] \in Info
        BY <3>4 DEF PaysFully, IInv, TypeOK
      <4>2. ~Live(o) /\ Live(o)' /\ info' = info /\ o \notin reconcile
        BY <3>4, LiveMoves DEF PaysFully
      <4>3. ~counts /\ (counts' <=> info[o].user = u) /\ new = worth
        BY <4>1, <4>2 DEF earned
      <4>4. balance'[u] = IF info[o].user = u THEN balance[u] + worth ELSE balance[u]
        BY <2>5, <4>1
      <4> HIDE DEF counts, worth, new
      <4> QED
        BY <2>3, <2>4, <4>3, <4>4
    <3>5. CASE PaysPartly(o)
      <4>1. balance' = balance /\ o \in reconcile' /\ ~Live(o)
        BY <3>5, LiveMoves DEF PaysPartly, apply_effects_until_error, pointsVars
      <4> QED
        BY <2>3, <2>4, <4>1
    <3>6. CASE Cancels(o)
      <4>1. (Live(o) <=> payment[o] = "paid") /\ ~Live(o)' /\ reverse_order_points(o)
        BY <3>6, LiveMoves DEF Cancels
      <4>2. pointsTx[o] = IF payment[o] = "paid" /\ o \notin reconcile /\ info[o].user \in Users THEN 1 ELSE 0
        BY DEF PointsOnce
      <4>3. earned(info[o]) \in Int /\ info[o].redeem \in Int
        BY InfoFields DEF IInv, TypeOK
      <4>4. CASE counts
        <5>1. pointsTx[o] = 1
          BY <4>1, <4>2, <4>4
        <5>2. balance'[u] = NonNeg(balance[u] + 1 * (info[o].redeem - earned(info[o])))
          BY <2>4, <4>1, <4>4, <5>1 DEF reverse_order_points
        <5>3. balance'[u] = NonNeg(balance[u] - worth)
          BY <2>4, <4>3, <5>2
        <5> HIDE DEF counts, worth, new
        <5>4. points_brought(u)[o] = worth /\ points_brought(u)'[o] = 0
          BY <2>3, <4>1, <4>4 DEF counts
        <5> QED
          BY <2>4, <5>3, <5>4 DEF NonNeg
      <4>5. CASE ~counts
        <5>1. balance'[u] = balance[u]
          <6>1. CASE info[o].user = u
            <7>1. pointsTx[o] = 0
              BY <4>1, <4>2, <4>5, <6>1
            <7>2. balance'[u] = NonNeg(balance[u] + 0 * (info[o].redeem - earned(info[o])))
              BY <2>4, <4>1, <6>1, <7>1 DEF reverse_order_points
            <7>3. 0 * (info[o].redeem - earned(info[o])) = 0
              BY <4>3
            <7> QED
              BY <2>4, <7>2, <7>3 DEF NonNeg
          <6>2. CASE info[o].user # u
            BY <2>4, <4>1, <6>2 DEF reverse_order_points
          <6> QED
            BY <6>1, <6>2
        <5>2. points_brought(u)[o] = 0 /\ points_brought(u)'[o] = 0
          BY <2>3, <4>1, <4>5
        <5> QED
          BY <2>4, <5>1, <5>2
      <4> QED
        BY <4>4, <4>5
    <3> QED
      BY <1>2, <3>1, <3>2, <3>3, <3>4, <3>5, <3>6 DEF About
  <2>7. points_brought(u)[o] \in Int /\ points_brought(u)'[o] \in Int
    BY <2>3, <2>4
  <2> HIDE DEF worth, new, counts
  <2> QED
    BY <2>1, <2>2, <2>4, <2>6, <2>7
<1> QED
  BY <1>1, <1>2 DEF Step, About

\* The accounts add up when there are no orders.
LEMMA LedgerStart == Init => StockConserved /\ CreditConserved /\ PointsOnce /\ PointsNeverLost
<1> SUFFICES ASSUME Init PROVE StockConserved /\ CreditConserved /\ PointsOnce /\ PointsNeverLost
  OBVIOUS
<1>1. \A o \in OrderIds : ~Live(o) /\ payment[o] = "pending"
  BY DEF Init, Live
<1>2. ASSUME NEW s \in Skus PROVE SumFunction(stock_held(s)) = 0
  BY <1>1, OrdersAreFinite, SumOfZeros DEF stock_held
<1>3. ASSUME NEW u \in Users PROVE SumFunction(credit_held(u)) = 0
  BY <1>1, OrdersAreFinite, SumOfZeros DEF credit_held
<1>4. ASSUME NEW u \in Users PROVE SumFunction(points_brought(u)) = 0
  BY <1>1, OrdersAreFinite, SumOfZeros DEF points_brought
<1>5. StockConserved
  BY <1>2, OrdersAssumption DEF Init, StockConserved
<1>6. CreditConserved
  BY <1>3 DEF Init, CreditConserved
<1>7. PointsNeverLost
  BY <1>4, OrdersAssumption DEF Init, PointsNeverLost
<1>8. PointsOnce
  BY DEF Init, PointsOnce
<1> QED
  BY <1>5, <1>6, <1>7, <1>8

\* Stock is conserved: every unit that is gone is held by an order that is paid and not
\* cancelled (deduct_stock and restore_stock, from whichever handler).
THEOREM StockIsConserved ==
  ASSUME OneAtATime
  PROVE  Spec => []StockConserved
<1>1. IInv /\ SeqInv /\ StockConserved /\ [Next]_vars => StockConserved'
  BY SeqStep, NextInv, StockStep
<1>2. Init => StockConserved
  BY LedgerStart
<1> QED
  BY <1>1, <1>2, SequentialInvariance, PTL DEF Spec

\* Drawn credit is exactly what the live credit orders cost (charge_credit at checkout,
\* restore_credit on cancellation).
THEOREM CreditIsConserved ==
  ASSUME OneAtATime
  PROVE  Spec => []CreditConserved
<1>1. IInv /\ SeqInv /\ CreditConserved /\ [Next]_vars => CreditConserved'
  BY SeqStep, NextInv, CreditStep
<1>2. Init => CreditConserved
  BY LedgerStart
<1> QED
  BY <1>1, <1>2, SequentialInvariance, PTL DEF Spec

\* No customer loses points: redeemed points come back with the cancellation, and earned
\* ones stay while the order does (redeem_points, earn_points, reverse_order_points).
THEOREM PointsAreNeverLost ==
  ASSUME OneAtATime
  PROVE  Spec => []PointsNeverLost
<1>1. IInv /\ SeqInv /\ PointsOnce /\ PointsNeverLost /\ [Next]_vars => (PointsOnce /\ PointsNeverLost)'
  BY SeqStep, NextInv, PairsStep, PointsStep
<1>2. Init => PointsOnce /\ PointsNeverLost
  BY LedgerStart
<1> QED
  BY <1>1, <1>2, SequentialInvariance, PTL DEF Spec
==============================================================================
