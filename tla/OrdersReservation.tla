------------------------- MODULE OrdersReservation -------------------------
(* The refinement mapping from Orders to Reservation.                       *)
EXTENDS Orders

\* Where an order stands, read off its row and the reconciliation log.
PhaseOf(o) ==
    CASE status[o] = "absent" -> "unplaced"
      [] payment[o] = "paid" /\ o \in reconcile ->
            IF status[o] = "cancelled" THEN "settled" ELSE "disputed"
      [] payment[o] = "paid" /\ o \notin reconcile ->
            IF status[o] = "cancelled" THEN "returned" ELSE "held"
      [] OTHER -> IF status[o] = "cancelled" THEN "void" ELSE "open"

Phase == [o \in OrderIds |-> PhaseOf(o)]

BasketOf == [o \in OrderIds |-> info[o].basket]

Promise == INSTANCE Reservation WITH phase <- Phase, basket <- BasketOf, shelf <- stock

\* While one request is served at a time, the handlers keep the promise: each
\* order takes its stock once, when it is paid, whichever of checkout, webhook
\* and mark_paid does it, and returns it once, whoever cancels it.
ImplementsReservation == Promise!Spec
=============================================================================
