---- MODULE MCMessaging ----
(***************************************************************************)
(* Instances of Messaging for TLC.  The calls are interchangeable.         *)
(***************************************************************************)
EXTENDS Messaging, TLC

CONSTANTS u1, u2, k1, c1, c2

Symmetry == Permutations({c1, c2})
====
