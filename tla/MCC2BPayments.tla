---------------------------- MODULE MCC2BPayments -----------------------------
(* A small instance of C2BPayments for TLC.                                *)
EXTENDS C2BPayments, TLC

CONSTANTS p1, b1, b2, d1, d2, w1, w2

(* Two bodies that confirm the same payment.                               *)
OneReceipt == (b1 :> p1) @@ (b2 :> p1)
===============================================================================
