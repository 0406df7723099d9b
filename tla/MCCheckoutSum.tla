----------------------------- MODULE MCCheckoutSum -----------------------------
(* A small instance of CheckoutSum for TLC.                                 *)
EXTENDS CheckoutSum
==============================================================================
