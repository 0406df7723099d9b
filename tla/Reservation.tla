---------------------------- MODULE Reservation ----------------------------
(***************************************************************************)
(* What the order subsystem promises about stock, without requests, payment *)
(* methods or webhooks: an order takes its basket off the shelf at most     *)
(* once, when it becomes paid, and puts the whole basket back at most once, *)
(* when it is cancelled.  An order that could only take part of its basket  *)
(* is disputed, and left to a person.                                       *)
(***************************************************************************)
EXTENDS Integers

CONSTANTS OrderIds, Skus, InitStock

VARIABLES
    phase,   \* where the order stands
    basket,  \* what it asks for
    shelf    \* what is left to sell

vars == <<phase, basket, shelf>>

Init ==
    /\ phase = [o \in OrderIds |-> "unplaced"]
    /\ basket = [o \in OrderIds |-> [s \in Skus |-> 0]]
    /\ shelf = InitStock

Fits(b) == \A s \in Skus : b[s] <= shelf[s]

Less(b) == shelf' = [s \in Skus |-> shelf[s] - b[s]]

More(b) == shelf' = [s \in Skus |-> shelf[s] + b[s]]

Move(o, from, to) ==
    /\ phase[o] \in from
    /\ phase' = [phase EXCEPT ![o] = to]

Ask(o) ==
    /\ basket'[o] \in [Skus -> Nat]
    /\ basket' = [basket EXCEPT ![o] = basket'[o]]

\* An order that is to be paid later takes nothing.
Place(o) == Move(o, {"unplaced"}, "open") /\ Ask(o) /\ UNCHANGED shelf

\* An order paid at checkout takes its basket as it is placed.
Sell(o) == Move(o, {"unplaced"}, "held") /\ Ask(o) /\ Fits(basket'[o]) /\ Less(basket'[o])

\* A later payment takes the basket, also for an order cancelled before it.
Take(o) ==
    /\ Move(o, {"open", "void"}, "held")
    /\ Fits(basket[o]) /\ Less(basket[o])
    /\ UNCHANGED basket

\* A later payment finds the shelf short, or fails after the shelf was served.
TakePartly(o) ==
    /\ Move(o, {"open", "void"}, "disputed")
    /\ \A s \in Skus : shelf'[s] \in {shelf[s], shelf[s] - basket[o][s]} /\ shelf'[s] >= 0
    /\ shelf' = [s \in Skus |-> shelf'[s]]
    /\ UNCHANGED basket

Void(o) == Move(o, {"open"}, "void") /\ UNCHANGED <<basket, shelf>>

Return(o) == Move(o, {"held"}, "returned") /\ More(basket[o]) /\ UNCHANGED basket

\* Cancelling a disputed order returns the whole basket, taken or not.
Settle(o) == Move(o, {"disputed"}, "settled") /\ More(basket[o]) /\ UNCHANGED basket

Next == \E o \in OrderIds :
    Place(o) \/ Sell(o) \/ Take(o) \/ TakePartly(o) \/ Void(o) \/ Return(o) \/ Settle(o)

Spec == Init /\ [][Next]_vars
=============================================================================
