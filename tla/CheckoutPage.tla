------------------------------ MODULE CheckoutPage ------------------------------
(***************************************************************************)
(* The storefront's checkout page (app/checkout/page.tsx): a form, a       *)
(* coupon that is applied on demand, two quotes (delivery and tax) that    *)
(* follow the form at a distance, and an order that the backend prices by  *)
(* itself (plugins/checkout).  A sum of money is abstracted to what it is  *)
(* computed from.                                                          *)
(***************************************************************************)
EXTENDS Naturals, Sequences, FiniteSets, SequencesExt

CONSTANTS Countries, Codes, Points,  \* what is typed into the form
          NoCountry, NoCode,                     \* an empty field
          MaxEdits, MaxFlights, MaxPresses, MaxCarts

ASSUME CheckoutAssumption ==
  /\ NoCode \notin Codes /\ NoCountry \notin Countries
  /\ 0 \in Points /\ Points \subseteq Nat
  /\ MaxEdits \in Nat /\ MaxFlights \in Nat /\ MaxPresses \in Nat /\ MaxCarts \in Nat \ {0}

VARIABLES
  open,       \* the page is on display, with a cart that is not empty
  form,       \* country, code and points, as typed
  discount,   \* the code whose discount is displayed, or NoCode
  applying,   \* the code that the backend is asked about, or NoCode
  timer,      \* of each quote: what it will ask about, at most one thing
  flights,    \* of each quote: what it has asked about, the oldest first
  quote,      \* of each quote: what the sum on display was computed from
  jobs,       \* the orders that were sent, in turn
  waiting,    \* the one that the page waits for, or 0
  cart,       \* the backend's cart: 0 if empty, or the number of its contents
  contents,      \* how many contents there were
  orders,     \* the orders made
  edits,
  asked,      \* history, of each quote: what was asked about last
  lostEarly   \* history: the answer to an order was lost while the order was being made

page == <<open, form, discount, applying, timer, flights, quote, edits, asked>>
server == <<cart, contents, orders>>
checkoutVars == <<page, jobs, waiting, server, lostEarly>>

Quotes == {"shipping", "tax"}
Form == [country : Countries \cup {NoCountry}, code : Codes \cup {NoCode}, points : Points]
NoQuote == [country |-> NoCountry, code |-> NoCode, points |-> 0]

\* The form's values that a quote depends on.  The delivery is asked for with the code as it
\* is typed, if there is a discount; the tax is that of the sum with the discount.
appliedCoupon(f, d) == IF d = NoCode THEN NoCode ELSE f.code
\* Fault: the tax does not follow the points.
BasisFault(q, f, d) ==
  [country |-> f.country, code |-> IF q = "shipping" THEN appliedCoupon(f, d) ELSE d,
   points |-> IF q = "tax" THEN 0 ELSE f.points]
Basis(q, f, d) ==
  [country |-> f.country, code |-> IF q = "shipping" THEN appliedCoupon(f, d) ELSE d, points |-> f.points]
----------------------------------------------------------------------------
\* What the page does while it waits for an order cannot reach the order, whose request is
\* gone: it is left out, or comes after.
Ready == open /\ waiting = 0

\* The page's state becomes f and d: a quote that depends on what changed starts its timer
\* again.  Without a country there is nothing to ask; the tax is set to nothing at once.
Now(f, d) ==
  LET moved(q) == Basis(q, f, d) # Basis(q, form, discount)
      asks == f.country # NoCountry
  IN  /\ form' = f /\ discount' = d
      /\ timer' = [q \in Quotes |-> IF ~moved(q) THEN timer[q]
                                    ELSE IF asks THEN Basis(q, f, d) ELSE NoQuote]
      /\ quote' = IF moved("tax") /\ ~asks THEN [quote EXCEPT !["tax"] = NoQuote] ELSE quote

Edit(f, d) ==
  /\ Ready /\ edits < MaxEdits
  /\ edits' = edits + 1
  /\ Now(f, d)
  /\ UNCHANGED <<open, applying, flights, asked, jobs, waiting, server, lostEarly>>

\* A saved address that is chosen, or loaded, sets the country too.
TypeCountry(c) == c # form.country /\ Edit([form EXCEPT !.country = c], discount)
TypePoints(p) == p # form.points /\ Edit([form EXCEPT !.points = p], discount)
\* A code that is typed takes the discount of the last one away.
TypeCode(c) == c # form.code /\ Edit([form EXCEPT !.code = c], NoCode)

applyCoupon ==
  /\ Ready /\ applying = NoCode /\ form.code # NoCode
  /\ edits < MaxEdits /\ edits' = edits + 1
  /\ applying' = form.code
  /\ UNCHANGED <<open, form, discount, timer, flights, quote, asked, jobs, waiting, server, lostEarly>>

\* The answer is about the code that was sent; the page takes it to be about the typed one.
CouponAnswered ==
  /\ Ready /\ applying # NoCode
  /\ \E d \in {NoCode, applying} : Now(form, d)
  /\ applying' = NoCode
  /\ UNCHANGED <<open, flights, edits, asked, jobs, waiting, server, lostEarly>>

\* The timer runs out and the question is sent.
Ask(q) ==
  /\ Ready /\ timer[q] # NoQuote /\ Len(flights[q]) < MaxFlights
  /\ flights' = [flights EXCEPT ![q] = Append(@, timer[q])]
  /\ asked' = [asked EXCEPT ![q] = timer[q]]
  /\ timer' = [timer EXCEPT ![q] = NoQuote]
  /\ UNCHANGED <<open, form, discount, applying, quote, edits, jobs, waiting, server, lostEarly>>

\* An answer, in any order, or none, is put on display whatever was asked since.
QuoteAnswered(q, i) ==
  /\ Ready
  /\ flights' = [flights EXCEPT ![q] = RemoveAt(@, i)]
  /\ quote' \in {[quote EXCEPT ![q] = flights[q][i]], [quote EXCEPT ![q] = NoQuote]}
  /\ UNCHANGED <<open, form, discount, applying, timer, edits, asked, jobs, waiting, server, lostEarly>>
----------------------------------------------------------------------------
\* Fault: the button does not wait.
handleSubmitFault ==
  /\ open /\ Len(jobs) < MaxPresses
  /\ jobs' = Append(jobs, [phase |-> "sent", cart |-> 0])
  /\ waiting' = Len(jobs) + 1
  /\ UNCHANGED <<page, server, lostEarly>>

\* The button waits for the order that was sent.
handleSubmit ==
  /\ open /\ waiting = 0 /\ Len(jobs) < MaxPresses
  /\ jobs' = Append(jobs, [phase |-> "sent", cart |-> 0])
  /\ waiting' = Len(jobs) + 1
  /\ UNCHANGED <<page, server, lostEarly>>

\* The backend reads the cart, and refuses what it cannot sell or a code that is not good ...
ReadCart(j) ==
  /\ jobs[j].phase = "sent"
  /\ \/ /\ cart # 0
        /\ jobs' = [jobs EXCEPT ![j] = [phase |-> "read", cart |-> cart]]
     \/ jobs' = [jobs EXCEPT ![j] = [phase |-> "refused", cart |-> 0]]
  /\ UNCHANGED <<page, waiting, server, lostEarly>>

\* ... and commits the order together with an empty cart; what was put into the cart
\* meanwhile stays.
CommitOrder(j) ==
  LET job == jobs[j] IN
  /\ job.phase = "read"
  /\ orders' = Append(orders, [cart |-> job.cart, job |-> j])
  /\ cart' = IF cart = job.cart THEN 0 ELSE cart
  /\ jobs' = [jobs EXCEPT ![j] = [phase |-> "made", cart |-> 0]]
  /\ UNCHANGED <<page, waiting, contents, lostEarly>>

\* The order is made and the page is left, unless there is a card to be charged first.
Left ==
  /\ open' = FALSE
  /\ form' = NoQuote /\ discount' = NoCode /\ applying' = NoCode
  /\ timer' = [q \in Quotes |-> NoQuote] /\ flights' = [q \in Quotes |-> << >>]
  /\ quote' = [q \in Quotes |-> NoQuote] /\ asked' = [q \in Quotes |-> NoQuote]
  /\ UNCHANGED edits

OrderAnswered(card) ==
  /\ waiting # 0 /\ jobs[waiting].phase \in {"made", "refused"}
  /\ CASE jobs[waiting].phase = "refused" -> waiting' = 0 /\ UNCHANGED <<page, jobs>>
       [] jobs[waiting].phase = "made" /\ card ->
            jobs' = [jobs EXCEPT ![waiting] = [phase |-> "confirming", cart |-> 0]] /\ UNCHANGED <<page, waiting>>
       [] OTHER -> waiting' = 0 /\ Left /\ UNCHANGED jobs
  /\ UNCHANGED <<server, lostEarly>>

\* A card that is declined leaves the page as it is, with the cart that is gone.
CardAnswered(declined) ==
  /\ waiting # 0 /\ jobs[waiting].phase = "confirming"
  /\ waiting' = 0
  /\ jobs' = [jobs EXCEPT ![waiting] = [phase |-> "made", cart |-> 0]]
  /\ IF declined THEN UNCHANGED page ELSE Left
  /\ UNCHANGED <<server, lostEarly>>

OrderLost ==
  /\ waiting # 0 /\ jobs[waiting].phase \in {"sent", "read", "made"}
  /\ waiting' = 0
  /\ lostEarly' = (lostEarly \/ jobs[waiting].phase # "made")
  /\ UNCHANGED <<page, jobs, server>>

\* Another tab puts something into the cart.
ChangeElsewhere ==
  /\ contents < MaxCarts
  /\ contents' = contents + 1 /\ cart' = contents + 1
  /\ UNCHANGED <<page, jobs, waiting, orders, lostEarly>>

\* The page is loaded, and the first quotes are there.
CheckoutInit ==
  /\ open = TRUE
  /\ form \in {[country |-> c, code |-> NoCode, points |-> 0] : c \in Countries}
  /\ discount = NoCode /\ applying = NoCode
  /\ timer = [q \in Quotes |-> NoQuote]
  /\ flights = [q \in Quotes |-> << >>]
  /\ quote = [q \in Quotes |-> Basis(q, form, NoCode)] /\ asked = quote
  /\ jobs = << >> /\ waiting = 0
  /\ cart = 1 /\ contents = 1 /\ orders = << >>
  /\ edits = 0 /\ lostEarly = FALSE

CheckoutNext ==
  \/ \E c \in Countries \cup {NoCountry} : TypeCountry(c)
  \/ \E p \in Points : TypePoints(p)
  \/ \E c \in Codes \cup {NoCode} : TypeCode(c)
  \/ applyCoupon \/ CouponAnswered
  \/ \E q \in Quotes : Ask(q) \/ \E i \in DOMAIN flights[q] : QuoteAnswered(q, i)
  \/ handleSubmit \/ OrderLost
  \/ \E j \in DOMAIN jobs : ReadCart(j) \/ CommitOrder(j)
  \/ \E card, declined \in BOOLEAN : OrderAnswered(card) \/ CardAnswered(declined)
  \/ ChangeElsewhere
----------------------------------------------------------------------------
CheckoutTypeOK ==
  /\ open \in BOOLEAN /\ form \in Form
  /\ discount \in Codes \cup {NoCode} /\ applying \in Codes \cup {NoCode}
  /\ timer \in [Quotes -> Form] /\ quote \in [Quotes -> Form] /\ asked \in [Quotes -> Form]
  /\ flights \in [Quotes -> Seq(Form)]
  /\ \A q \in Quotes : Len(flights[q]) <= MaxFlights
  /\ waiting \in 0 .. Len(jobs) /\ Len(jobs) <= MaxPresses
  /\ cart \in 0 .. contents /\ contents \in 1 .. MaxCarts
  /\ edits \in 0 .. MaxEdits /\ lostEarly \in BOOLEAN

\* Whatever is typed, applied, answered, refused or lost, and in whatever order: what each
\* quote asks next, or else what it asked last, is about the country and the points of the
\* form and about the discount on display, and about no code if there is no discount.
QuotesFollowForm ==
  form.country # NoCountry => \A q \in Quotes :
    LET question == IF timer[q] = NoQuote THEN asked[q] ELSE timer[q] IN
    /\ question.country = form.country /\ question.points = form.points
    /\ IF discount = NoCode THEN question.code = NoCode ELSE question.code \in {discount, form.code}

\* What was in the cart is ordered at most once, however often the button is pressed and
\* whatever becomes of the answers and the card, unless an answer was lost while the order
\* was being made: the next press may read the cart before it is emptied.
OrderedOnce ==
  lostEarly \/ \A i, j \in DOMAIN orders : orders[i].cart = orders[j].cart => i = j
==============================================================================
