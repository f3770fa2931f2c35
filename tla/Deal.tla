---- MODULE Deal ----
(***************************************************************************)
(* What the marketplace promises about one work request, whatever is done  *)
(* to it concurrently: at most one deal is ever struck, on payable terms   *)
(* that never change afterwards; the deal can be called off only while     *)
(* payment is pending; once work has started it can only move through      *)
(* delivery, revision and dispute to completion.                           *)
(***************************************************************************)
EXTENDS MarketStates

CONSTANTS
  Requests,  \* work requests
  Payable,   \* terms with an amount above zero
  None       \* no terms

VARIABLE deal  \* per request: the engagement's phase and the terms agreed

NoDeal == [phase |-> "none", terms |-> None]

Init == deal = [r \in Requests |-> NoDeal]

\* The acceptance: engagement, link and terms appear together.
Strike(r, t) ==
  /\ deal[r] = NoDeal
  /\ deal' = [deal EXCEPT ![r] = [phase |-> "pending_payment", terms |-> t]]

MoveTo(r, from, to) ==
  /\ deal[r].phase = from
  /\ deal' = [deal EXCEPT ![r] = [phase |-> to, terms |-> deal[r].terms]]

\* Settlement starts the work; the sender's cancel calls it off before that.
Settle(r) == MoveTo(r, "pending_payment", "in_progress")
CallOff(r) == MoveTo(r, "pending_payment", "cancelled")

\* The parties' own moves once work has started.
Deliver(r) == MoveTo(r, "in_progress", "delivered")
Revise(r) == MoveTo(r, "delivered", "in_progress")
Confirm(r) == MoveTo(r, "delivered", "completed")
Dispute(r) == MoveTo(r, "delivered", "disputed")
Resolve(r) == MoveTo(r, "disputed", "completed")

Next ==
  \E r \in Requests :
    \/ \E t \in Payable : Strike(r, t)
    \/ Settle(r) \/ CallOff(r)
    \/ Deliver(r) \/ Revise(r) \/ Confirm(r) \/ Dispute(r) \/ Resolve(r)

Spec == Init /\ [][Next]_deal
====
