---- MODULE MCWorkRequests ----
(***************************************************************************)
(* Instances of WorkRequests for TLC.                                      *)
(***************************************************************************)
EXTENDS WorkRequests, TLC

CONSTANTS job, direct, l1, e1, e2, c1, c2, p1, p2, original

\* An application to the listing, and a direct request, which has none.
ListingOfAll == [r \in Requests |-> IF r = direct THEN None ELSE l1]

\* Call slots are interchangeable, and so are the identities engagements draw from.
Symmetric == Permutations(Calls) \cup Permutations(Engagements)
====
