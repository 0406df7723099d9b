------------------------------ MODULE Storefront ------------------------------
(***************************************************************************)
(* The pages of the storefront that keep state of their own, each in a tab *)
(* of its own: area names the one that a behaviour is about.               *)
(***************************************************************************)
EXTENDS PageBuilder, CartStore, CheckoutPage, BookPage, AppointmentsPage

VARIABLE area

Areas == {"builder", "cart", "checkout", "booking", "appointments"}

Init ==
  /\ area \in Areas
  /\ BuilderInit /\ CartInit /\ CheckoutInit /\ BookInit /\ ApptInit

Next ==
  /\ UNCHANGED area
  /\ \/ area = "builder" /\ BuilderNext /\ UNCHANGED <<cartVars, checkoutVars, bookVars, apptVars>>
     \/ area = "cart" /\ CartNext /\ UNCHANGED <<builderVars, checkoutVars, bookVars, apptVars>>
     \/ area = "checkout" /\ CheckoutNext /\ UNCHANGED <<builderVars, cartVars, bookVars, apptVars>>
     \/ area = "booking" /\ BookNext /\ UNCHANGED <<builderVars, cartVars, checkoutVars, apptVars>>
     \/ area = "appointments" /\ ApptNext /\ UNCHANGED <<builderVars, cartVars, checkoutVars, bookVars>>

storefrontVars == <<area, builderVars, cartVars, checkoutVars, bookVars, apptVars>>
Spec == Init /\ [][Next]_storefrontVars

StorefrontTypeOK == BuilderTypeOK /\ CartTypeOK /\ CheckoutTypeOK /\ BookTypeOK /\ ApptTypeOK

\* A choice that changes takes back what was chosen and offered for the old one, and asks
\* for what fits the new one: with answers that come before something else is asked for,
\* what a customer books, or moves an appointment to, was offered for the choice that the
\* page shows.  With answers that are overtaken it may be offered for another: the pages do not
\* guard against that.
TimelyOffersFit == BookedAsOffered /\ MovedAsOffered
==============================================================================
