---- MODULE MarketStates ----
(***************************************************************************)
(* The status sets of the marketplace and its transition tables, as in     *)
(* modules/marketplace/state-machines.ts.  A table maps a status to the    *)
(* set of statuses it may move to.  "none" is not a status of the program: *)
(* it stands for a row that does not exist.                                *)
(***************************************************************************)

ListingStatus ==
  {"draft", "open", "archived", "closed", "in_progress", "completed", "expired"}

ApplicationStatus ==
  {"submitted", "under_review", "accepted", "rejected", "withdrawn"}

EngagementStatus ==
  {"requested", "accepted", "declined", "cancelled", "pending_payment",
   "payment_failed", "in_progress", "delivered", "disputed", "completed"}

RequestStatus ==
  {"pending", "changes_requested", "changes_declined", "pending_payment",
   "rejected", "withdrawn"}

OpenApplicationStatuses == {"submitted", "under_review"}
OpenRequestStatuses == {"pending", "changes_requested", "changes_declined"}

----
\* The tables.  A status that is missing from a table has no way out.

ListingTransitions(from) ==
  CASE from = "draft"       -> {"open"}
    [] from = "open"        -> {"archived", "closed", "in_progress", "expired"}
    [] from = "in_progress" -> {"completed", "closed"}
    [] from \in {"archived", "closed", "expired"} -> {"open"}
    [] OTHER                -> {}

ApplicationTransitions(from) ==
  CASE from = "submitted"    -> {"under_review", "accepted", "rejected", "withdrawn"}
    [] from = "under_review" -> {"accepted", "rejected", "withdrawn"}
    [] OTHER                 -> {}

EngagementTransitions(from) ==
  CASE from = "requested"       -> {"accepted", "declined", "cancelled"}
    [] from = "accepted"        -> {"pending_payment", "in_progress", "cancelled"}
    [] from = "pending_payment" -> {"in_progress", "cancelled", "payment_failed"}
    [] from = "payment_failed"  -> {"pending_payment", "cancelled"}
    [] from = "in_progress"     -> {"delivered", "cancelled"}
    [] from = "delivered"       -> {"completed", "disputed", "in_progress"}
    [] from = "disputed"        -> {"completed", "cancelled"}
    [] OTHER                    -> {}

RequestTransitions(from) ==
  CASE from = "pending"           -> {"changes_requested", "pending_payment", "rejected",
                                      "withdrawn"}
    [] from = "changes_requested" -> {"pending_payment", "changes_declined", "pending",
                                      "withdrawn"}
    [] from = "changes_declined"  -> {"changes_requested", "pending_payment", "rejected",
                                      "withdrawn"}
    [] from = "pending_payment"   -> {"withdrawn"}
    [] OTHER                      -> {}

\* What each party may ask for through the API; payment moves are the server's.
ClientEngagementTransitions(from) ==
  CASE from \in {"requested", "accepted"} -> {"cancelled"}
    [] from = "delivered" -> {"completed", "disputed", "in_progress"}
    [] from = "disputed"  -> {"completed"}
    [] OTHER              -> {}

ProviderEngagementTransitions(from) ==
  IF from = "in_progress" THEN {"delivered"} ELSE {}

PartyEngagementTransitions(from) ==
  EngagementTransitions(from)
    \cap (ClientEngagementTransitions(from) \cup ProviderEngagementTransitions(from))
====
