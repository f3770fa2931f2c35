---- MODULE MCStaff ----
(***************************************************************************)
(* Instances of Staff for TLC.  The calls are interchangeable.             *)
(***************************************************************************)
EXTENDS Staff, TLC

CONSTANTS s1, s2, c1, c2

Symmetry == Permutations({c1, c2})
====
