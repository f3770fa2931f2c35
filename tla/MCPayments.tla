---- MODULE MCPayments ----
(***************************************************************************)
(* Instances of Payments for TLC.                                          *)
(***************************************************************************)
EXTENDS Payments

CONSTANTS e1, k1, k2, client, provider, c1, c2
====
