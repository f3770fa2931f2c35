---- MODULE WorkRequests ----
(***************************************************************************)
(* Listings, applications, work requests and the engagements they become:  *)
(* the handlers of marketplace.service.ts over the repository methods of   *)
(* prisma-marketplace.repository.ts.                                       *)
(*                                                                         *)
(* A handler first reads the rows and checks them; each later write is a   *)
(* database call of its own, after an await.  So a service action below    *)
(* takes the snapshot and leaves in call[c] what it is about to write, and *)
(* a repository action performs one write (one statement or one            *)
(* transaction), by which time the rows may have changed.  With one member *)
(* in Calls the handlers run one after the other; with more they overlap.  *)
(*                                                                         *)
(* Where two definitions stand together, the first is a slip the second    *)
(* could contain (IsOpenOrAccepted and IsOpen): nothing uses it, and each  *)
(* property is known to fail when it takes the other's place.              *)
(***************************************************************************)
EXTENDS MarketStates

CONSTANTS
  Requests,     \* identities of work requests
  Listings,     \* job listings
  Engagements,  \* identities of work engagements
  Calls,        \* slots for the API calls in flight
  ListingOf,    \* the listing a job-posting request applies to, None for others
  Legacy,       \* job applications that may predate work requests
  Original,     \* the terms a request was created with (terms_json)
  Proposals,    \* terms a change request may propose
  Payable,      \* the terms whose amount is above zero
  MayCrash,     \* whether a call may stop between two writes
  None

Terms == {Original} \cup Proposals

ASSUME ConstantsAssumption ==
  /\ None \notin Engagements
  /\ None \notin Terms
  /\ None \notin Listings
  /\ ListingOf \in [Requests -> Listings \cup {None}]
  /\ Legacy \subseteq {r \in Requests : ListingOf[r] # None}
  /\ Payable \subseteq Terms
  /\ MayCrash \in BOOLEAN

VARIABLES
  listing,       \* status of each listing
  deleted,       \* listings with deleted_at set
  application,   \* status of the application behind each job-posting request
  wrStatus,      \* status of each work request
  proposed,      \* proposed_terms_json
  agreed,        \* agreed_terms_json
  wrEngagement,  \* work_engagement_id
  revisedFrom,   \* from_status of the latest changes_requested event
  engStatus,     \* status of each engagement
  engRequest,    \* history: the request an engagement was created for
  selected,      \* history: requests whose applicant the poster has selected
  call           \* the calls in flight, with what their handlers still have to write

requestVars == <<wrStatus, proposed, agreed, wrEngagement, revisedFrom>>
listingVars == <<listing, deleted>>
engVars == <<engStatus, engRequest>>
appVars == <<application, selected>>
vars == <<requestVars, listingVars, engVars, appVars, call>>

JobRequests == {r \in Requests : ListingOf[r] # None}
IsJob(r) == ListingOf[r] # None

----
\* Calls in flight.  seen is the status of the requests the handler read ("none"
\* for those it did not), to / app the statuses it will write, terms the terms.

Nothing == [r \in Requests |-> "none"]
Idle == [step |-> "idle", req |-> None, lst |-> None, to |-> "none", app |-> "none",
         terms |-> None, seen |-> Nothing]

Seen(S) == [r \in Requests |-> IF r \in S THEN wrStatus[r] ELSE "none"]

Begin(c, k) == call[c] = Idle /\ call' = [call EXCEPT ![c] = k]
Goto(c, step) == call' = [call EXCEPT ![c].step = step]
Finish(c) == call' = [call EXCEPT ![c] = Idle]

RequestCall(r, step, to, app, terms) ==
  [step |-> step, req |-> r, lst |-> None, to |-> to, app |-> app, terms |-> terms,
   seen |-> Seen({r})]
ApplicationCall(r, step, app) ==
  [step |-> step, req |-> r, lst |-> None, to |-> "none", app |-> app, terms |-> None,
   seen |-> Nothing]
ListingCall(l, step, to) ==
  [step |-> step, req |-> None, lst |-> l, to |-> to, app |-> "none", terms |-> None,
   seen |-> Nothing]

\* isOpen
IsOpenOrAccepted(r) == wrStatus[r] \in OpenRequestStatuses \cup {"pending_payment"}
IsOpen(r) == wrStatus[r] \in OpenRequestStatuses

\* assertApplicantSelected: only job postings need the poster's selection.
ApplicantSelectedUnchecked(r) == TRUE
ApplicantSelected(r) == IsJob(r) => application[r] = "accepted"

\* syncApplicationStatus, as decided on the snapshot: the status to write, if any.
SyncedStatusOpenOnly(r, to) ==
  IF IsJob(r) /\ application[r] \in OpenApplicationStatuses THEN to ELSE "none"
SyncedStatusCopies(r, to) ==
  IF IsJob(r) /\ application[r] \in OpenApplicationStatuses THEN wrStatus[r] ELSE "none"
SyncedStatus(r, to) ==
  IF /\ IsJob(r)
     /\ \/ application[r] \in OpenApplicationStatuses
        \/ application[r] = "accepted" /\ wrEngagement[r] = None
  THEN to ELSE "none"

\* The proposal column after updateWorkRequest: set by a change request, cleared when
\* one is declined or withdrawn, otherwise not part of the update.
ProposalAfter(k) ==
  IF k.to = "changes_requested" THEN k.terms
  ELSE IF k.to \in {"pending", "changes_declined"} THEN None
  ELSE proposed[k.req]

----
Init ==
  /\ listing \in [Listings -> {"draft", "open"}]
  /\ deleted = {}
  /\ \E stored \in SUBSET Legacy :
       application = [r \in Requests |-> IF r \in stored THEN "submitted" ELSE "none"]
  /\ wrStatus = [r \in Requests |-> "none"]
  /\ proposed = [r \in Requests |-> None]
  /\ agreed = [r \in Requests |-> None]
  /\ wrEngagement = [r \in Requests |-> None]
  /\ revisedFrom = [r \in Requests |-> "none"]
  /\ engStatus = [e \in Engagements |-> "none"]
  /\ engRequest = [e \in Engagements |-> None]
  /\ selected = {}
  /\ call = [c \in Calls |-> Idle]

----
\* Applying to a listing.

\* apply: the listing is open and this applicant has not applied.
Apply(c, r) ==
  /\ IsJob(r)
  /\ ListingOf[r] \notin deleted
  /\ listing[ListingOf[r]] = "open"
  /\ application[r] = "none"
  /\ Begin(c, ApplicationCall(r, "apply", "none"))
  /\ UNCHANGED <<requestVars, listingVars, engVars, appVars>>

\* createApplicationWithWorkRequest: one transaction; the unique key on listing and
\* applicant rejects a second one.  The listing is not looked at again.
CreateApplicationWithWorkRequest(c) ==
  LET r == call[c].req IN
  /\ call[c].step = "apply"
  /\ IF application[r] = "none"
     THEN /\ application' = [application EXCEPT ![r] = "submitted"]
          /\ wrStatus' = [wrStatus EXCEPT ![r] = "pending"]
     ELSE UNCHANGED <<application, wrStatus>>
  /\ Finish(c)
  /\ UNCHANGED <<proposed, agreed, wrEngagement, revisedFrom, selected,
                 listingVars, engVars>>

\* createServiceWorkRequest, createDirectWorkRequest: nothing read belongs to this model.
CreateWorkRequest(r) ==
  /\ ~IsJob(r)
  /\ wrStatus[r] = "none"
  /\ wrStatus' = [wrStatus EXCEPT ![r] = "pending"]
  /\ UNCHANGED <<proposed, agreed, wrEngagement, revisedFrom,
                 listingVars, engVars, appVars, call>>

----
\* Reviewing an application.

\* patchApplication: the applicant withdraws, or the poster of a listing that is
\* neither archived nor closed reviews.
PatchApplication(c, r, to) ==
  /\ to \in ApplicationTransitions(application[r])
  /\ to = "withdrawn" \/ listing[ListingOf[r]] \notin {"archived", "closed"}
  /\ Begin(c, ApplicationCall(r, IF to = "under_review" THEN "application" ELSE "readRequest",
                              to))
  /\ UNCHANGED <<requestVars, listingVars, engVars, appVars>>

\* The second read of patchApplication.  Accepting needs an open request (a legacy
\* application without one gets it now, unless its listing is gone); withdrawing and
\* rejecting carry an open request along.
ReadRequestForApplication(c) ==
  LET r == call[c].req  to == call[c].app IN
  /\ call[c].step = "readRequest"
  /\ IF to = "accepted"
     THEN \/ /\ wrStatus[r] = "none" /\ ListingOf[r] \notin deleted
             /\ Goto(c, "createLegacy")
          \/ /\ IsOpen(r)
             /\ Goto(c, "application")
          \/ /\ wrStatus[r] = "none" /\ ListingOf[r] \in deleted
             /\ Finish(c)
          \/ /\ wrStatus[r] # "none" /\ ~IsOpen(r)
             /\ Finish(c)
     ELSE IF IsOpen(r)
     THEN call' = [call EXCEPT ![c] = RequestCall(r, "update", to, to, None)]
     ELSE Goto(c, "application")
  /\ UNCHANGED <<requestVars, listingVars, engVars, appVars>>

\* createWorkRequest of resolveWorkRequestForApplication: job_application_id is unique.
CreateRequestForApplication(c) ==
  LET r == call[c].req IN
  /\ call[c].step = "createLegacy"
  /\ IF wrStatus[r] = "none"
     THEN /\ wrStatus' = [wrStatus EXCEPT ![r] = "pending"]
          /\ Goto(c, "application")
     ELSE /\ UNCHANGED wrStatus
          /\ Finish(c)
  /\ UNCHANGED <<proposed, agreed, wrEngagement, revisedFrom,
                 listingVars, engVars, appVars>>

\* updateApplicationStatus: unconditional, by id.
UpdateApplicationStatus(c) ==
  LET r == call[c].req  to == call[c].app IN
  /\ call[c].step = "application"
  /\ application' = [application EXCEPT ![r] = to]
  /\ selected' = IF to = "accepted" THEN selected \cup {r} ELSE selected
  /\ Finish(c)
  /\ UNCHANGED <<requestVars, listingVars, engVars>>

----
\* Negotiating: one side proposes, the other accepts, declines or cancels.

\* requestWorkRequestChanges, by the recipient.
RequestWorkRequestChanges(c, r, p) ==
  /\ wrStatus[r] \in {"pending", "changes_declined"}
  /\ Begin(c, RequestCall(r, "update", "changes_requested", "none", p))
  /\ UNCHANGED <<requestVars, listingVars, engVars, appVars>>

\* declineWorkRequestChanges, by the sender.
DeclineWorkRequestChanges(c, r) ==
  /\ wrStatus[r] = "changes_requested"
  /\ Begin(c, RequestCall(r, "update", "changes_declined", "none", None))
  /\ UNCHANGED <<requestVars, listingVars, engVars, appVars>>

\* cancelWorkRequestChanges, by the recipient: back to the status the latest change
\* request was made from.
RestoreToPending(r) == "pending"
RestoreTo(r) ==
  IF revisedFrom[r] = "changes_declined" THEN "changes_declined" ELSE "pending"
CancelWorkRequestChanges(c, r) ==
  /\ wrStatus[r] = "changes_requested"
  /\ Begin(c, RequestCall(r, "update", RestoreTo(r), "none", None))
  /\ UNCHANGED <<requestVars, listingVars, engVars, appVars>>

\* rejectWorkRequest, by the recipient on their turn.
RejectWorkRequest(c, r) ==
  /\ wrStatus[r] \in {"pending", "changes_declined"}
  /\ Begin(c, RequestCall(r, "update", "rejected", SyncedStatus(r, "rejected"), None))
  /\ UNCHANGED <<requestVars, listingVars, engVars, appVars>>

\* updateWorkRequest: by id alone, whatever the status has become since.
UpdateWorkRequest(c) ==
  LET k == call[c] IN
  /\ k.step = "update"
  /\ wrStatus' = [wrStatus EXCEPT ![k.req] = k.to]
  /\ proposed' = [proposed EXCEPT ![k.req] = ProposalAfter(k)]
  /\ revisedFrom' = IF k.to = "changes_requested"
                    THEN [revisedFrom EXCEPT ![k.req] = k.seen[k.req]] ELSE revisedFrom
  /\ IF k.app = "none" THEN Finish(c) ELSE Goto(c, "application")
  /\ UNCHANGED <<agreed, wrEngagement, listingVars, engVars, appVars>>

----
\* Accepting: the only way an engagement comes to exist.

\* acceptRequest: no engagement yet, and an amount to charge.
BeginAccept(c, r, terms) ==
  /\ wrEngagement[r] = None
  /\ terms \in Payable
  /\ Begin(c, RequestCall(r, "accept", "pending_payment", "none", terms))
  /\ UNCHANGED <<requestVars, listingVars, engVars, appVars>>

\* acceptWorkRequest: original terms, by the selected applicant or else the recipient.
AcceptWorkRequest(c, r) ==
  /\ wrStatus[r] \in {"pending", "changes_declined"}
  /\ ApplicantSelected(r)
  /\ BeginAccept(c, r, Original)

\* acceptWorkRequestChanges: the proposal on the table, by the sender.
AcceptWorkRequestChanges(c, r) ==
  /\ wrStatus[r] = "changes_requested"
  /\ ApplicantSelected(r)
  /\ BeginAccept(c, r, IF proposed[r] # None THEN proposed[r] ELSE Original)

\* What acceptWorkRequestTransactional checks again under the row lock.
StillAcceptableAsRead(k) == k.seen[k.req] \in OpenRequestStatuses
StillAcceptable(k) ==
  /\ wrEngagement[k.req] = None
  /\ wrStatus[k.req] = k.seen[k.req]
  /\ IsOpen(k.req)

\* acceptWorkRequestTransactional: engagement, agreed terms and link in one transaction.
AcceptWorkRequestTransactional(c) ==
  LET k == call[c]  r == k.req IN
  /\ k.step = "accept"
  /\ \/ /\ StillAcceptable(k)
        /\ \E e \in Engagements :
             /\ engStatus[e] = "none"
             /\ engStatus' = [engStatus EXCEPT ![e] = "pending_payment"]
             /\ engRequest' = [engRequest EXCEPT ![e] = r]
             /\ wrEngagement' = [wrEngagement EXCEPT ![r] = e]
        /\ wrStatus' = [wrStatus EXCEPT ![r] = "pending_payment"]
        /\ agreed' = [agreed EXCEPT ![r] = k.terms]
        /\ application' = IF application[r] \in OpenApplicationStatuses
                          THEN [application EXCEPT ![r] = "accepted"] ELSE application
     \/ /\ ~StillAcceptable(k)
        /\ UNCHANGED <<engVars, wrEngagement, wrStatus, agreed, application>>
  /\ Finish(c)
  /\ UNCHANGED <<proposed, revisedFrom, selected, listingVars>>

----
\* Withdrawing: the sender cancels, until work has started.

\* withdrawWorkRequest.  With a pending engagement everything is undone together.
WithdrawWorkRequest(c, r) ==
  LET e == wrEngagement[r] IN
  /\ wrStatus[r] \in OpenRequestStatuses \cup {"pending_payment"}
  /\ \/ /\ e # None
        /\ engStatus[e] = "pending_payment"
        /\ Begin(c, RequestCall(r, "withdrawPending", "withdrawn",
                                IF application[r] \in OpenApplicationStatuses \cup {"accepted"}
                                THEN "withdrawn" ELSE "none", None))
     \/ /\ e = None
        /\ Begin(c, RequestCall(r, "update", "withdrawn", SyncedStatus(r, "withdrawn"), None))
  /\ UNCHANGED <<requestVars, listingVars, engVars, appVars>>

\* Both compare-and-set updates of withdrawPendingPaymentTransactional find their row.
StillPendingRequest(r) == wrStatus[r] = "pending_payment"
StillPending(r) ==
  engStatus[wrEngagement[r]] = "pending_payment" /\ wrStatus[r] = "pending_payment"

\* withdrawPendingPaymentTransactional: engagement, request and application, or nothing.
WithdrawPendingPaymentTransactional(c) ==
  LET k == call[c]  r == k.req  e == wrEngagement[r] IN
  /\ k.step = "withdrawPending"
  /\ IF StillPending(r)
     THEN /\ engStatus' = [engStatus EXCEPT ![e] = "cancelled"]
          /\ wrStatus' = [wrStatus EXCEPT ![r] = "withdrawn"]
          /\ application' =
               IF k.app = "withdrawn"
                    /\ application[r] \in OpenApplicationStatuses \cup {"accepted"}
               THEN [application EXCEPT ![r] = "withdrawn"] ELSE application
     ELSE UNCHANGED <<engStatus, wrStatus, application>>
  /\ Finish(c)
  /\ UNCHANGED <<proposed, agreed, wrEngagement, revisedFrom, engRequest, selected,
                 listingVars>>

----
\* Listings: publish, close, archive, delete.

\* transitionListing; its DTO admits only these three targets.
TransitionListing(c, l, to) ==
  /\ l \notin deleted
  /\ to \in {"open", "archived", "closed"} \cap ListingTransitions(listing[l])
  /\ Begin(c, ListingCall(l, "listing", to))
  /\ UNCHANGED <<requestVars, listingVars, engVars, appVars>>

\* What follows the status write: leaving the open marketplace rejects negotiations.
AfterListingUpdateClosedOnly(to) == IF to = "closed" THEN "scan" ELSE "idle"
AfterListingUpdate(to) == IF to \in {"closed", "archived"} THEN "scan" ELSE "idle"

\* updateListing: locks the row but does not compare its status.
UpdateListing(c) ==
  LET k == call[c] IN
  /\ k.step = "listing"
  /\ IF k.lst \in deleted
     THEN UNCHANGED listing /\ Finish(c)
     ELSE /\ listing' = [listing EXCEPT ![k.lst] = k.to]
          /\ IF AfterListingUpdate(k.to) = "idle" THEN Finish(c)
             ELSE Goto(c, AfterListingUpdate(k.to))
  /\ UNCHANGED <<deleted, requestVars, engVars, appVars>>

\* softDeleteListing: the negotiations first, the row last.
SoftDeleteListing(c, l) ==
  /\ l \notin deleted
  /\ Begin(c, ListingCall(l, "scan", "deleted"))
  /\ UNCHANGED <<requestVars, listingVars, engVars, appVars>>

\* rejectOpenWorkRequestsForListing reads the open requests without locking them ...
ScanOpenWorkRequests(c) ==
  LET open == {r \in Requests : ListingOf[r] = call[c].lst /\ IsOpen(r)} IN
  /\ call[c].step = "scan"
  /\ call' = [call EXCEPT ![c].step = "rejectOpen", ![c].seen = Seen(open)]
  /\ UNCHANGED <<requestVars, listingVars, engVars, appVars>>

\* ... and rejects each of them by id, with the applications still under review.
RejectOpenWorkRequestsForListing(c) ==
  LET k == call[c]  open == {r \in Requests : k.seen[r] # "none"} IN
  /\ k.step = "rejectOpen"
  /\ wrStatus' = [r \in Requests |-> IF r \in open THEN "rejected" ELSE wrStatus[r]]
  /\ application' = [r \in Requests |->
                       IF r \in open /\ application[r] \in OpenApplicationStatuses
                       THEN "rejected" ELSE application[r]]
  /\ IF k.to = "deleted" THEN Goto(c, "deleteListing") ELSE Finish(c)
  /\ UNCHANGED <<proposed, agreed, wrEngagement, revisedFrom, selected, listingVars, engVars>>

\* The last write of softDeleteListing.
DeleteListing(c) ==
  /\ call[c].step = "deleteListing"
  /\ deleted' = deleted \cup {call[c].lst}
  /\ Finish(c)
  /\ UNCHANGED <<listing, requestVars, engVars, appVars>>

----
\* Engagements.  Their status is written only by compare-and-set on the status that
\* was read, so the read and the write are one step here.

\* transitionEngagement, called by a party.
TransitionEngagement(e, to) ==
  /\ to \in PartyEngagementTransitions(engStatus[e])
  /\ engStatus' = [engStatus EXCEPT ![e] = to]
  /\ UNCHANGED <<engRequest, requestVars, listingVars, appVars, call>>

\* settleEngagementAfterSuccessfulPayment and devStartWork: work starts.
StartWork(e) ==
  /\ engStatus[e] = "pending_payment"
  /\ engStatus' = [engStatus EXCEPT ![e] = "in_progress"]
  /\ UNCHANGED <<engRequest, requestVars, listingVars, appVars, call>>

----
\* The process stops, or loses the database, before the next write of a handler.
Crash(c) ==
  /\ MayCrash
  /\ call[c] # Idle
  /\ Finish(c)
  /\ UNCHANGED <<requestVars, listingVars, engVars, appVars>>

----
ServiceStep(c) ==
  \/ \E r \in Requests :
       \/ Apply(c, r)
       \/ \E to \in ApplicationStatus : PatchApplication(c, r, to)
       \/ \E p \in Proposals : RequestWorkRequestChanges(c, r, p)
       \/ DeclineWorkRequestChanges(c, r)
       \/ CancelWorkRequestChanges(c, r)
       \/ RejectWorkRequest(c, r)
       \/ AcceptWorkRequest(c, r)
       \/ AcceptWorkRequestChanges(c, r)
       \/ WithdrawWorkRequest(c, r)
  \/ \E l \in Listings :
       \/ \E to \in ListingStatus : TransitionListing(c, l, to)
       \/ SoftDeleteListing(c, l)

RepositoryStep(c) ==
  \/ CreateApplicationWithWorkRequest(c)
  \/ ReadRequestForApplication(c)
  \/ CreateRequestForApplication(c)
  \/ UpdateApplicationStatus(c)
  \/ UpdateWorkRequest(c)
  \/ AcceptWorkRequestTransactional(c)
  \/ WithdrawPendingPaymentTransactional(c)
  \/ UpdateListing(c)
  \/ ScanOpenWorkRequests(c)
  \/ RejectOpenWorkRequestsForListing(c)
  \/ DeleteListing(c)

Next ==
  \/ \E c \in Calls : ServiceStep(c) \/ RepositoryStep(c) \/ Crash(c)
  \/ \E r \in Requests : CreateWorkRequest(r)
  \/ \E e \in Engagements :
       StartWork(e) \/ \E to \in EngagementStatus : TransitionEngagement(e, to)

Spec == Init /\ [][Next]_vars

----
Steps == {"idle", "apply", "readRequest", "createLegacy", "application", "update", "accept",
          "withdrawPending", "listing", "scan", "rejectOpen", "deleteListing"}

CallType ==
  [step : Steps, req : Requests \cup {None}, lst : Listings \cup {None},
   to : RequestStatus \cup ListingStatus \cup {"none", "deleted"},
   app : ApplicationStatus \cup {"none"}, terms : Terms \cup {None},
   seen : [Requests -> RequestStatus \cup {"none"}]]

\* Every variable holds values of its column's type.
TypeOK ==
  /\ listing \in [Listings -> ListingStatus]
  /\ deleted \subseteq Listings
  /\ application \in [Requests -> ApplicationStatus \cup {"none"}]
  /\ wrStatus \in [Requests -> RequestStatus \cup {"none"}]
  /\ proposed \in [Requests -> Terms \cup {None}]
  /\ agreed \in [Requests -> Terms \cup {None}]
  /\ wrEngagement \in [Requests -> Engagements \cup {None}]
  /\ revisedFrom \in [Requests -> RequestStatus \cup {"none"}]
  /\ engStatus \in [Engagements -> EngagementStatus \cup {"none"}]
  /\ engRequest \in [Engagements -> Requests \cup {None}]
  /\ selected \subseteq Requests
  /\ call \in [Calls -> CallType]

Quiet == \A c \in Calls : call[c] = Idle
EngagementOf(r) == IF wrEngagement[r] = None THEN "none" ELSE engStatus[wrEngagement[r]]

----
\* What holds however the handlers overlap and wherever they stop.

\* Accepting is all or nothing: an engagement exists exactly when the request it was
\* created for links to it, so that two accepts of one request (a double tap, or the
\* two parties at once) never leave two engagements to pay for, or an orphan
\* (acceptWorkRequestTransactional).
OneEngagementPerRequest ==
  /\ \A e \in Engagements : engStatus[e] # "none" =>
       engRequest[e] \in Requests /\ wrEngagement[engRequest[e]] = e
  /\ \A r \in Requests : wrEngagement[r] # None =>
       engRequest[wrEngagement[r]] = r /\ engStatus[wrEngagement[r]] # "none"

\* No job-posting engagement exists unless the poster selected its applicant, although
\* the selection is checked long before the engagement is inserted and the insert itself
\* marks an unselected application accepted (assertApplicantSelected).
SelectedBeforeWork ==
  \A r \in JobRequests : wrEngagement[r] # None => r \in selected

\* The phase of the deal a request has led to, and its terms.
DealOf == [r \in Requests |-> [phase |-> EngagementOf(r), terms |-> agreed[r]]]
D == INSTANCE Deal WITH deal <- DealOf

\* However calls overlap, each request's engagement behaves as Deal says: struck once on
\* payable terms that never change, called off only while payment is pending, moved by
\* the parties along the table once started.
DealSpec == D!Spec

----
\* What holds when the handlers run one after the other.

\* Between calls a request and its engagement agree: the request is pending_payment
\* exactly while its engagement is alive, and a called-off engagement goes with a
\* withdrawn request (withdrawWorkRequest, acceptWorkRequest).
RequestTracksEngagement ==
  Quiet => \A r \in Requests :
    /\ (wrStatus[r] = "pending_payment") <=> (EngagementOf(r) \notin {"none", "cancelled"})
    /\ EngagementOf(r) = "cancelled" => wrStatus[r] = "withdrawn"

\* Between calls an application and its request agree: withdrawn together, accepted when
\* an engagement exists, and no application still awaits an answer once its request
\* was rejected (patchApplication, syncApplicationStatus).
ApplicationTracksRequest ==
  Quiet => \A r \in JobRequests : wrStatus[r] # "none" =>
    /\ (application[r] = "withdrawn") <=> (wrStatus[r] = "withdrawn")
    /\ application[r] = "rejected" => wrStatus[r] = "rejected"
    /\ wrStatus[r] = "rejected" => application[r] \notin OpenApplicationStatuses
    /\ wrStatus[r] = "pending_payment" => application[r] = "accepted"

\* Between calls no request is open on a listing that left the open marketplace
\* (transitionListing, softDeleteListing).
NoOpenRequestOnClosedListing ==
  Quiet => \A r \in JobRequests :
    listing[ListingOf[r]] \in {"closed", "archived"} \/ ListingOf[r] \in deleted => ~IsOpen(r)

\* Withdrawing a change request hands the turn back where it was: once the changes asked
\* for last were asked after a decline, the request never again reads as freshly pending
\* (restoreTo in cancelWorkRequestChanges, from the event it searches for).
CancelRestoresTurn ==
  \A r \in Requests : revisedFrom[r] = "changes_declined" => wrStatus[r] # "pending"

\* Closing a listing answers every applicant, the selected ones included.
ClosedListingAnswersApplicants ==
  Quiet => \A r \in JobRequests : wrStatus[r] = "rejected" => application[r] = "rejected"
====
