----------------------------- MODULE MCCheckout -----------------------------
(* TLC instance of Checkout: an order whose first payment may fail, and a  *)
(* second order to reuse a key with.                                       *)
EXTENDS Checkout, TLC

CONSTANTS o1, o2, p1, p2, p3, a1, a2, a3

MCOrderOf   == (p1 :> o1) @@ (p2 :> o1) @@ (p3 :> o2)
OneOrderOf  == (p1 :> o1) @@ (p2 :> o1)
MCPaymentOf == (a1 :> p1) @@ (a2 :> p1) @@ (a3 :> p2)

(* Requests, and keys, differ in nothing but their names.                  *)
Symmetry == Permutations(Requests) \cup Permutations(Keys)

=============================================================================
