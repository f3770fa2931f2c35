---- MODULE Relationship ----
(***************************************************************************)
(* What the connections module promises to two users, as each of them sees *)
(* it (relationshipBetween): their views always match, a connection grows  *)
(* out of one pending request and only by its recipient's answer, and it   *)
(* ends for both at once.                                                  *)
(***************************************************************************)

CONSTANTS Low, High

Users == {Low, High}

VARIABLE view

Both(v) == [u \in Users |-> v]
AskedBy(u) == [x \in Users |-> IF x = u THEN "outgoing" ELSE "incoming"]

Init == view = Both("none")

Ask(u) == view = Both("none") /\ view' = AskedBy(u)
Accept(u) == view = AskedBy(u) /\ view' = Both("connected")
Withdraw(u) == view = AskedBy(u) /\ view' = Both("none")
End == view = Both("connected") /\ view' = Both("none")

Next == End \/ \E u \in Users : Ask(u) \/ Accept(u) \/ Withdraw(u)

Spec == Init /\ [][Next]_view
====
