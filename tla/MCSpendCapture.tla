--------------------------- MODULE MCSpendCapture ---------------------------
(* A small instance of SpendCapture for TLC: one charge and two drains in  *)
(* one process, whose owner can be replaced while the old one still runs.  *)
EXTENDS SpendCapture, TLC

CONSTANTS p1, c1, d1, d2

OneProcess == (c1 :> p1) @@ (d1 :> p1) @@ (d2 :> p1)
TwoOwners == p1 :> 2
=============================================================================
