---- MODULE MCAccounts ----
(***************************************************************************)
(* Accounts alone for TLC: two users, two numbers, interchangeable calls.  *)
(***************************************************************************)
EXTENDS Accounts, TLC
CONSTANTS u1, u2, p1, p2, c1, c2

Spec == SlotsInit /\ AccountsInit /\ [][AccountsNext]_<<accounts, call>>

Symmetry == Permutations({c1, c2}) \cup Permutations({u1, u2}) \cup Permutations({p1, p2})
====
