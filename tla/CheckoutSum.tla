------------------------------ MODULE CheckoutSum ------------------------------
(***************************************************************************)
(* The sum that the checkout page displays (app/checkout/page.tsx), next   *)
(* to the one that the backend charges (plugins/checkout/service.py).      *)
(***************************************************************************)
EXTENDS CheckoutPage

VARIABLES rules,  \* an automatic discount is configured
          sent    \* of each order sent: what was typed, what was shown, and whether that was settled

\* Orders and delivery quotes without a code get the automatic discount.
Automatic(code) == rules /\ code = NoCode

\* What a sum is computed from.  The delivery is priced by the backend, the rest by the page.
Displayed ==
  [discount |-> [code |-> discount, points |-> form.points, automatic |-> FALSE],
   shipping |-> [of |-> quote["shipping"], automatic |-> Automatic(quote["shipping"].code)],
   tax |-> [of |-> quote["tax"], automatic |-> FALSE]]

\* The backend prices everything by what was sent: the code as typed, applied or not.
Charged(f) ==
  LET priced == [of |-> Basis("tax", f, f.code), automatic |-> Automatic(f.code)] IN
  [discount |-> [code |-> f.code, points |-> f.points, automatic |-> Automatic(f.code)],
   shipping |-> priced, tax |-> priced]

\* Nothing is under way that would still change the sum on display.
Quiet == form.country # NoCountry /\ applying = NoCode /\ \A q \in Quotes : timer[q] = NoQuote /\ flights[q] = << >>

SumInit == CheckoutInit /\ rules \in BOOLEAN /\ sent = << >>

SumNext ==
  /\ CheckoutNext /\ UNCHANGED rules
  /\ sent' = IF Len(jobs') = Len(jobs) THEN sent
             ELSE Append(sent, [form |-> form, shown |-> Displayed, quiet |-> Quiet])

sumVars == <<checkoutVars, rules, sent>>
SumSpec == SumInit /\ [][SumNext]_sumVars

\* "Mirror the backend's discount maths so the displayed total matches what's charged"
\* (checkout/page.tsx:220): an order of the cart that the page shows is charged as the page
\* displayed it when nothing was under way.
ChargedAsShown ==
  \A i \in DOMAIN orders :
    LET order == sent[orders[i].job] IN
    orders[i].cart = 1 /\ order.quiet => order.shown = Charged(order.form)
==============================================================================
