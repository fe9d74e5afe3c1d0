----------------------------- MODULE MCCheckout -----------------------------
(* Small instances of Checkout. *)
EXTENDS Checkout, TLC

CONSTANTS r1, r2, c1, c2, phone1

\* Two carts of one customer, the second of merchant products only.
OneCustomer == c1 :> phone1 @@ c2 :> phone1

OneCart == c1 :> phone1
=============================================================================
