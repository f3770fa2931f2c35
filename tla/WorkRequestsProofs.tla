---- MODULE WorkRequestsProofs ----
(***************************************************************************)
(* Proofs about WorkRequests: what holds for every number of requests,     *)
(* listings, engagements and overlapping calls, crashes included.          *)
(*                                                                         *)
(* The invariants of the specification are not inductive by themselves,    *)
(* because what a call writes was decided when it read.  CallShape says    *)
(* what kind of values each step carries, CallFacts which facts its reads  *)
(* established that nothing can undo before its write.                     *)
(***************************************************************************)
EXTENDS WorkRequests, TLAPS

RequestSteps == {"apply", "readRequest", "createLegacy", "application", "update", "accept",
                 "withdrawPending"}
ListingSteps == {"listing", "scan", "rejectOpen", "deleteListing"}

CallShape(k) ==
  /\ k.step \in RequestSteps => k.req \in Requests
  /\ k.step \in ListingSteps => k.lst \in Listings
  /\ k.step \in {"createLegacy", "application"} => k.app \in ApplicationStatus
  /\ k.step = "readRequest" => k.app \in {"accepted", "rejected", "withdrawn"}
  /\ k.step = "update" => k.to \in RequestStatus
  /\ k.step = "listing" => k.to \in ListingStatus
  /\ k.step = "accept" => k.terms \in Payable

\* A selection is never taken back and a link never removed.
CallFacts(k, chosen, link) ==
  /\ k.step = "accept" /\ IsJob(k.req) => k.req \in chosen
  /\ k.step = "withdrawPending" => link[k.req] # None

CallsOK ==
  \A c \in Calls : CallShape(call[c]) /\ CallFacts(call[c], selected, wrEngagement)

AcceptedWasSelected == \A r \in JobRequests : application[r] = "accepted" => r \in selected

IInv ==
  /\ TypeOK
  /\ CallsOK
  /\ OneEngagementPerRequest
  /\ AcceptedWasSelected
  /\ SelectedBeforeWork

----
\* Calls.

\* Every status a call can carry is a status of the tables.
LEMMA StatusSets ==
  /\ OpenRequestStatuses \subseteq RequestStatus
  /\ OpenApplicationStatuses \subseteq ApplicationStatus
  /\ "pending_payment" \in RequestStatus
BY DEF OpenRequestStatuses, OpenApplicationStatuses, RequestStatus, ApplicationStatus

\* An empty call slot is well formed.
LEMMA IdleOK ==
  Idle \in CallType /\ CallShape(Idle) /\ Idle.step = "idle"
BY DEF Idle, Nothing, CallType, Steps, CallShape, RequestSteps, ListingSteps

\* What a handler read is a status or nothing.
LEMMA SeenType ==
  ASSUME TypeOK, NEW S PROVE Seen(S) \in [Requests -> RequestStatus \cup {"none"}]
BY DEF TypeOK, Seen

\* Such a call is well typed when its parts are.
LEMMA RequestCallType ==
  ASSUME TypeOK, NEW r \in Requests, NEW step \in Steps,
         NEW to \in RequestStatus \cup {"none"},
         NEW app \in ApplicationStatus \cup {"none"}, NEW terms \in Terms \cup {None}
  PROVE  RequestCall(r, step, to, app, terms) \in CallType
BY SeenType DEF CallType, RequestCall

\* One slot changes, the others keep what they carry, and nothing their reads
\* established is undone: every call is still well formed.
LEMMA OneCallChanges ==
  ASSUME TypeOK, CallsOK, NEW c \in Calls, NEW k \in CallType,
         call' = [call EXCEPT ![c] = k],
         CallShape(k), CallFacts(k, selected', wrEngagement'),
         selected \subseteq selected',
         \A r \in Requests : wrEngagement[r] # None => wrEngagement'[r] # None
  PROVE  CallsOK' /\ call' \in [Calls -> CallType]
<1>1. call \in [Calls -> CallType]
  BY DEF TypeOK
<1>2. call' \in [Calls -> CallType]
  BY <1>1
<1>3. ASSUME NEW d \in Calls
      PROVE  CallShape(call'[d]) /\ CallFacts(call'[d], selected', wrEngagement')
  <2>1. CASE d = c
    BY <2>1, <1>1
  <2>2. CASE d # c
    <3>1. call'[d] = call[d]
      BY <2>2, <1>1
    <3>2. CallShape(call[d]) /\ CallFacts(call[d], selected, wrEngagement)
      BY DEF CallsOK
    <3>3. QED
      BY <3>1, <3>2 DEF CallFacts, CallShape, RequestSteps
  <2>3. QED
    BY <2>1, <2>2
<1>4. QED
  BY <1>2, <1>3 DEF CallsOK

----
\* A handler's first part writes nothing and leaves a well-formed call, whose facts
\* hold when it is made.
LEMMA ServiceBegins ==
  ASSUME TypeOK, AcceptedWasSelected, NEW c \in Calls, ServiceStep(c)
  PROVE  /\ UNCHANGED <<requestVars, listingVars, engVars, appVars>>
         /\ \E k \in CallType : /\ Begin(c, k)
                                /\ CallShape(k)
                                /\ CallFacts(k, selected, wrEngagement)
<1> DEFINE Goal == /\ UNCHANGED <<requestVars, listingVars, engVars, appVars>>
                   /\ \E k \in CallType : /\ Begin(c, k)
                                          /\ CallShape(k)
                                          /\ CallFacts(k, selected, wrEngagement)
<1>1. ASSUME NEW r \in Requests, NEW app \in ApplicationStatus \cup {"none"},
             NEW step \in {"apply", "application", "readRequest"},
             step = "application" => app # "none",
             step = "readRequest" => app \in {"accepted", "rejected", "withdrawn"}
      PROVE  LET k == ApplicationCall(r, step, app)
             IN  k \in CallType /\ CallShape(k) /\ CallFacts(k, selected, wrEngagement)
  BY <1>1 DEF ApplicationCall, CallType, Steps, Nothing, CallShape, CallFacts, RequestSteps,
              ListingSteps
<1>2. ASSUME NEW r \in Requests, NEW to \in RequestStatus,
             NEW app \in ApplicationStatus \cup {"none"}, NEW terms \in Terms \cup {None}
      PROVE  LET k == RequestCall(r, "update", to, app, terms)
             IN  k \in CallType /\ CallShape(k) /\ CallFacts(k, selected, wrEngagement)
  <2>1. RequestCall(r, "update", to, app, terms) \in CallType
    BY RequestCallType DEF Steps
  <2>2. QED
    BY <2>1 DEF RequestCall, CallShape, CallFacts, RequestSteps, ListingSteps
<1>3. ASSUME NEW l \in Listings, NEW step \in {"listing", "scan"},
             NEW to \in ListingStatus \cup {"deleted"}, step = "scan" \/ to \in ListingStatus
      PROVE  LET k == ListingCall(l, step, to)
             IN  k \in CallType /\ CallShape(k) /\ CallFacts(k, selected, wrEngagement)
  BY <1>3 DEF ListingCall, CallType, Steps, Nothing, CallShape, CallFacts, RequestSteps,
              ListingSteps
<1>4. ASSUME NEW r \in Requests, NEW terms, ApplicantSelected(r), BeginAccept(c, r, terms)
      PROVE  Goal
  <2>1. terms \in Payable /\ terms \in Terms
    BY <1>4, ConstantsAssumption DEF BeginAccept
  <2>2. RequestCall(r, "accept", "pending_payment", "none", terms) \in CallType
    BY <2>1, RequestCallType, StatusSets DEF Steps
  <2>3. IsJob(r) => r \in selected
    BY <1>4 DEF ApplicantSelected, AcceptedWasSelected, JobRequests, IsJob
  <2>4. QED
    BY <1>4, <2>1, <2>2, <2>3
    DEF BeginAccept, RequestCall, CallShape, CallFacts, RequestSteps, ListingSteps
<1>5. ASSUME NEW r \in Requests, NEW to, SyncedStatus(r, to) # "none"
      PROVE  SyncedStatus(r, to) = to
  BY <1>5 DEF SyncedStatus
<1>6. ASSUME NEW r \in Requests, Apply(c, r) PROVE Goal
  BY <1>6, <1>1 DEF Apply
<1>7. ASSUME NEW r \in Requests, NEW to \in ApplicationStatus, PatchApplication(c, r, to)
      PROVE  Goal
  <2>1. /\ to \in ApplicationTransitions(application[r])
        /\ application[r] \in ApplicationStatus \cup {"none"}
    BY <1>7 DEF PatchApplication, TypeOK
  <2>2. to \in {"under_review", "accepted", "rejected", "withdrawn"}
    BY <2>1 DEF ApplicationTransitions, ApplicationStatus
  <2>3. QED
    BY <1>7, <1>1, <2>2 DEF PatchApplication
<1>8. ASSUME NEW r \in Requests, NEW p \in Proposals, RequestWorkRequestChanges(c, r, p)
      PROVE  Goal
  <2>1. p \in Terms /\ "changes_requested" \in RequestStatus
    BY DEF Terms, RequestStatus
  <2>2. QED
    BY <1>8, <1>2, <2>1 DEF RequestWorkRequestChanges
<1>9. ASSUME NEW r \in Requests, DeclineWorkRequestChanges(c, r) PROVE Goal
  BY <1>9, <1>2 DEF DeclineWorkRequestChanges, RequestStatus
<1>10. ASSUME NEW r \in Requests, CancelWorkRequestChanges(c, r) PROVE Goal
  <2>1. RestoreTo(r) \in RequestStatus
    BY DEF RestoreTo, RequestStatus
  <2>2. QED
    BY <1>10, <1>2, <2>1 DEF CancelWorkRequestChanges
<1>11. ASSUME NEW r \in Requests, RejectWorkRequest(c, r) PROVE Goal
  BY <1>11, <1>2, <1>5 DEF RejectWorkRequest, RequestStatus, ApplicationStatus
<1>12. ASSUME NEW r \in Requests, AcceptWorkRequest(c, r) \/ AcceptWorkRequestChanges(c, r)
       PROVE  Goal
  BY <1>12, <1>4 DEF AcceptWorkRequest, AcceptWorkRequestChanges
<1>13. ASSUME NEW r \in Requests, WithdrawWorkRequest(c, r) PROVE Goal
  <2>1. CASE wrEngagement[r] = None
    BY <1>13, <2>1, <1>2, <1>5 DEF WithdrawWorkRequest, RequestStatus, ApplicationStatus
  <2>2. CASE wrEngagement[r] # None
    <3>1. PICK app \in {"withdrawn", "none"} :
                 Begin(c, RequestCall(r, "withdrawPending", "withdrawn", app, None))
      BY <1>13, <2>2 DEF WithdrawWorkRequest
    <3>2. RequestCall(r, "withdrawPending", "withdrawn", app, None) \in CallType
      BY RequestCallType DEF Steps, RequestStatus, ApplicationStatus
    <3>3. UNCHANGED <<requestVars, listingVars, engVars, appVars>>
      BY <1>13 DEF WithdrawWorkRequest
    <3>4. QED
      BY <2>2, <3>1, <3>2, <3>3
      DEF RequestCall, CallShape, CallFacts, RequestSteps, ListingSteps
  <2>3. QED
    BY <2>1, <2>2
<1>14. ASSUME NEW l \in Listings, NEW to \in ListingStatus, TransitionListing(c, l, to)
       PROVE  Goal
  BY <1>14, <1>3 DEF TransitionListing
<1>15. ASSUME NEW l \in Listings, SoftDeleteListing(c, l) PROVE Goal
  BY <1>15, <1>3 DEF SoftDeleteListing
<1>16. QED
  BY <1>6, <1>7, <1>8, <1>9, <1>10, <1>11, <1>12, <1>13, <1>14, <1>15 DEF ServiceStep

----
\* Nothing a call's reads established is undone: no selection, no link.
Monotone ==
  /\ selected \subseteq selected'
  /\ \A r \in Requests : wrEngagement[r] # None => wrEngagement'[r] # None

\* A call that ends leaves its slot empty.
LEMMA FinishOK ==
  ASSUME TypeOK, CallsOK, NEW c \in Calls, Finish(c), Monotone
  PROVE  CallsOK' /\ call' \in [Calls -> CallType]
BY OneCallChanges, IdleOK DEF Finish, Monotone, CallFacts

\* A call that goes on carries the same values to its next step.
LEMMA GotoOK ==
  ASSUME TypeOK, CallsOK, NEW c \in Calls, Monotone,
         NEW step \in Steps \ {"accept", "withdrawPending"}, Goto(c, step),
         CallShape([call[c] EXCEPT !.step = step])
  PROVE  CallsOK' /\ call' \in [Calls -> CallType]
<1> DEFINE k == [call[c] EXCEPT !.step = step]
<1>1. call[c] \in CallType
  BY DEF TypeOK
<1>2. k \in CallType /\ k.step = step
  BY <1>1 DEF CallType
<1>3. call' = [call EXCEPT ![c] = k]
  BY DEF Goto
<1>4. CallFacts(k, selected', wrEngagement')
  BY <1>2 DEF CallFacts
<1>5. QED
  BY <1>2, <1>3, <1>4, OneCallChanges DEF Monotone

\* Calls stay well formed when no call moves and nothing they rely on is undone.
LEMMA NoCallChanges ==
  ASSUME TypeOK, CallsOK, UNCHANGED call, Monotone
  PROVE  CallsOK' /\ call' \in [Calls -> CallType]
<1>1. call' \in [Calls -> CallType]
  BY DEF TypeOK
<1>2. ASSUME NEW c \in Calls
      PROVE  CallShape(call'[c]) /\ CallFacts(call'[c], selected', wrEngagement')
  <2>1. call'[c] = call[c] /\ CallShape(call[c]) /\ CallFacts(call[c], selected, wrEngagement)
    BY DEF CallsOK
  <2>2. QED
    BY <2>1 DEF CallFacts, CallShape, RequestSteps, Monotone
<1>3. QED
  BY <1>1, <1>2 DEF CallsOK

\* Every write of a call keeps the types and leaves the calls well formed.
LEMMA RepositoryTypeOK ==
  ASSUME TypeOK, CallsOK, NEW c \in Calls, RepositoryStep(c)
  PROVE  TypeOK' /\ CallsOK'
<1> DEFINE k == call[c]
<1>0. k \in CallType /\ CallShape(k) /\ CallFacts(k, selected, wrEngagement)
  BY DEF TypeOK, CallsOK
<1>1. CASE CreateApplicationWithWorkRequest(c)
  <2>1. Monotone
    BY <1>1 DEF CreateApplicationWithWorkRequest, Monotone
  <2>2. CallsOK' /\ call' \in [Calls -> CallType]
    BY <1>1, <2>1, FinishOK DEF CreateApplicationWithWorkRequest
  <2>3. QED
    BY <1>0, <1>1, <2>2 DEF CreateApplicationWithWorkRequest, TypeOK, ApplicationStatus,
       RequestStatus, listingVars, engVars
<1>2. CASE ReadRequestForApplication(c)
  <2>1. Monotone
    BY <1>2 DEF ReadRequestForApplication, Monotone, requestVars, appVars
  <2>2. CallsOK' /\ call' \in [Calls -> CallType]
    <3>1. k.req \in Requests /\ k.app \in ApplicationStatus
      BY <1>0, <1>2 DEF ReadRequestForApplication, CallShape, RequestSteps, ApplicationStatus
    <3>2. CASE Finish(c)
      BY <2>1, <3>2, FinishOK
    <3>3. CASE Goto(c, "application") \/ Goto(c, "createLegacy")
      <4>1. \A step \in {"application", "createLegacy"} :
              CallShape([k EXCEPT !.step = step]) /\ step \in Steps
        BY <1>0, <3>1 DEF CallShape, CallType, RequestSteps, ListingSteps, Steps
      <4>2. QED
        BY <2>1, <3>3, <4>1, GotoOK
    <3>4. CASE /\ k.app # "accepted"
               /\ IsOpen(k.req)
               /\ call' = [call EXCEPT ![c] = RequestCall(k.req, "update", k.app, k.app, None)]
      <4> DEFINE m == RequestCall(k.req, "update", k.app, k.app, None)
      <4>1. k.app \in RequestStatus
        BY <1>0, <1>2, <3>4 DEF ReadRequestForApplication, CallShape, RequestStatus
      <4>2. m \in CallType
        BY <3>1, <4>1, RequestCallType DEF Steps
      <4>3. CallShape(m) /\ CallFacts(m, selected', wrEngagement')
        BY <3>1, <4>1 DEF RequestCall, CallShape, CallFacts, RequestSteps, ListingSteps
      <4>4. QED
        BY <2>1, <3>4, <4>2, <4>3, OneCallChanges DEF Monotone
    <3>5. QED
      BY <1>2, <3>2, <3>3, <3>4 DEF ReadRequestForApplication
  <2>3. QED
    BY <1>2, <2>2 DEF ReadRequestForApplication, TypeOK, requestVars, listingVars, engVars,
       appVars
<1>3. CASE CreateRequestForApplication(c)
  <2>1. Monotone
    BY <1>3 DEF CreateRequestForApplication, Monotone, appVars
  <2>2. CallsOK' /\ call' \in [Calls -> CallType]
    <3>1. CallShape([k EXCEPT !.step = "application"])
      BY <1>0, <1>3
      DEF CreateRequestForApplication, CallShape, CallType, RequestSteps, ListingSteps
    <3>2. QED
      BY <1>3, <2>1, <3>1, FinishOK, GotoOK DEF CreateRequestForApplication, Steps
  <2>3. QED
    BY <1>0, <1>3, <2>2 DEF CreateRequestForApplication, TypeOK, RequestStatus, listingVars,
       engVars, appVars
<1>4. CASE UpdateApplicationStatus(c)
  <2>1. Monotone
    BY <1>4 DEF UpdateApplicationStatus, Monotone, requestVars
  <2>2. CallsOK' /\ call' \in [Calls -> CallType]
    BY <1>4, <2>1, FinishOK DEF UpdateApplicationStatus
  <2>3. k.app \in ApplicationStatus /\ k.req \in Requests
    BY <1>0, <1>4 DEF UpdateApplicationStatus, CallShape, RequestSteps
  <2>4. QED
    BY <1>4, <2>2, <2>3 DEF UpdateApplicationStatus, TypeOK, requestVars, listingVars, engVars
<1>5. CASE UpdateWorkRequest(c)
  <2>1. Monotone
    BY <1>5 DEF UpdateWorkRequest, Monotone, appVars
  <2>2. k.req \in Requests /\ k.to \in RequestStatus
    BY <1>0, <1>5 DEF UpdateWorkRequest, CallShape, RequestSteps
  <2>3. CallsOK' /\ call' \in [Calls -> CallType]
    <3>1. CASE k.app = "none"
      BY <1>5, <2>1, <3>1, FinishOK DEF UpdateWorkRequest
    <3>2. CASE k.app # "none"
      <4>1. k.app \in ApplicationStatus
        BY <1>0, <3>2 DEF CallType
      <4>2. CallShape([k EXCEPT !.step = "application"])
        BY <1>0, <2>2, <4>1 DEF CallShape, CallType, RequestSteps, ListingSteps
      <4>3. QED
        BY <1>5, <2>1, <3>2, <4>2, GotoOK DEF UpdateWorkRequest, Steps
    <3>3. QED
      BY <3>1, <3>2
  <2>4. ProposalAfter(k) \in Terms \cup {None}
    BY <1>0, <2>2 DEF ProposalAfter, TypeOK, CallType
  <2>5. k.seen[k.req] \in RequestStatus \cup {"none"}
    BY <1>0, <2>2 DEF CallType
  <2>6. QED
    BY <1>5, <2>2, <2>3, <2>4, <2>5
    DEF UpdateWorkRequest, TypeOK, listingVars, engVars, appVars
<1>6. CASE AcceptWorkRequestTransactional(c)
  <2>1. k.req \in Requests /\ k.terms \in Terms
    BY <1>0, <1>6, ConstantsAssumption
    DEF AcceptWorkRequestTransactional, CallShape, RequestSteps
  <2>2. Monotone
    BY <1>6, <2>1, ConstantsAssumption DEF AcceptWorkRequestTransactional, Monotone, TypeOK
  <2>3. CallsOK' /\ call' \in [Calls -> CallType]
    BY <1>6, <2>2, FinishOK DEF AcceptWorkRequestTransactional
  <2>4. QED
    BY <1>6, <2>1, <2>3
    DEF AcceptWorkRequestTransactional, TypeOK, EngagementStatus, RequestStatus,
        ApplicationStatus, listingVars, engVars
<1>7. CASE WithdrawPendingPaymentTransactional(c)
  <2>1. Monotone
    BY <1>7 DEF WithdrawPendingPaymentTransactional, Monotone
  <2>2. CallsOK' /\ call' \in [Calls -> CallType]
    BY <1>7, <2>1, FinishOK DEF WithdrawPendingPaymentTransactional
  <2>3. k.req \in Requests
    BY <1>0, <1>7 DEF WithdrawPendingPaymentTransactional, CallShape, RequestSteps
  <2>4. QED
    BY <1>7, <2>2, <2>3
    DEF WithdrawPendingPaymentTransactional, TypeOK, EngagementStatus, RequestStatus,
        ApplicationStatus, listingVars
<1>8. CASE UpdateListing(c)
  <2>1. Monotone
    BY <1>8 DEF UpdateListing, Monotone, requestVars, appVars
  <2>2. k.lst \in Listings /\ k.to \in ListingStatus
    BY <1>0, <1>8 DEF UpdateListing, CallShape, ListingSteps
  <2>3. CallsOK' /\ call' \in [Calls -> CallType]
    <3>1. CASE Finish(c)
      BY <2>1, <3>1, FinishOK
    <3>2. CASE Goto(c, "scan")
      <4>1. CallShape([k EXCEPT !.step = "scan"])
        BY <1>0, <2>2 DEF CallShape, CallType, RequestSteps, ListingSteps
      <4>2. QED
        BY <2>1, <3>2, <4>1, GotoOK DEF Steps
    <3>3. QED
      BY <1>8, <3>1, <3>2 DEF UpdateListing, AfterListingUpdate
  <2>4. QED
    BY <1>8, <2>2, <2>3 DEF UpdateListing, TypeOK, requestVars, engVars, appVars
<1>9. CASE ScanOpenWorkRequests(c)
  <2> DEFINE open == {r \in Requests : ListingOf[r] = k.lst /\ IsOpen(r)}
             m == [k EXCEPT !.step = "rejectOpen", !.seen = Seen(open)]
  <2>1. Monotone
    BY <1>9 DEF ScanOpenWorkRequests, Monotone, requestVars, appVars
  <2>2. Seen(open) \in [Requests -> RequestStatus \cup {"none"}]
    BY SeenType
  <2>3. k.lst \in Listings
    BY <1>0, <1>9 DEF ScanOpenWorkRequests, CallShape, ListingSteps
  <2>4. m \in CallType /\ m.step = "rejectOpen" /\ m.lst \in Listings
    BY <1>0, <2>2, <2>3 DEF CallType, Steps
  <2>5. m \in CallType /\ CallShape(m) /\ CallFacts(m, selected', wrEngagement')
    BY <2>4 DEF CallShape, CallFacts, RequestSteps, ListingSteps
  <2>6. call' = [call EXCEPT ![c] = m]
    BY <1>9 DEF ScanOpenWorkRequests
  <2>7. CallsOK' /\ call' \in [Calls -> CallType]
    BY <2>1, <2>5, <2>6, OneCallChanges DEF Monotone
  <2>8. QED
    BY <1>9, <2>7
    DEF ScanOpenWorkRequests, TypeOK, requestVars, listingVars, engVars, appVars
<1>10. CASE RejectOpenWorkRequestsForListing(c)
  <2>1. Monotone
    BY <1>10 DEF RejectOpenWorkRequestsForListing, Monotone
  <2>2. CallsOK' /\ call' \in [Calls -> CallType]
    <3>1. CASE Finish(c)
      BY <2>1, <3>1, FinishOK
    <3>2. CASE Goto(c, "deleteListing")
      <4>1. CallShape([k EXCEPT !.step = "deleteListing"])
        BY <1>0, <1>10
        DEF RejectOpenWorkRequestsForListing, CallShape, CallType, RequestSteps, ListingSteps
      <4>2. QED
        BY <2>1, <3>2, <4>1, GotoOK DEF Steps
    <3>3. QED
      BY <1>10, <3>1, <3>2 DEF RejectOpenWorkRequestsForListing
  <2>3. QED
    BY <1>10, <2>2
    DEF RejectOpenWorkRequestsForListing, TypeOK, RequestStatus, ApplicationStatus,
        listingVars, engVars
<1>11. CASE DeleteListing(c)
  <2>1. Monotone
    BY <1>11 DEF DeleteListing, Monotone, requestVars, appVars
  <2>2. CallsOK' /\ call' \in [Calls -> CallType]
    BY <1>11, <2>1, FinishOK DEF DeleteListing
  <2>3. k.lst \in Listings
    BY <1>0, <1>11 DEF DeleteListing, CallShape, ListingSteps
  <2>4. QED
    BY <1>11, <2>2, <2>3 DEF DeleteListing, TypeOK, requestVars, engVars, appVars
<1>12. QED
  BY <1>1, <1>2, <1>3, <1>4, <1>5, <1>6, <1>7, <1>8, <1>9, <1>10, <1>11 DEF RepositoryStep

----
\* Type correctness of the whole, together with the form of the calls in flight.

\* The steps that are not a call's own: a request posted, an engagement moved.
OtherStep ==
  \/ \E r \in Requests : CreateWorkRequest(r)
  \/ \E e \in Engagements :
       StartWork(e) \/ \E to \in EngagementStatus : TransitionEngagement(e, to)

\* Nothing that moves a stored request or engagement moves a call.
LEMMA OtherTypeOK ==
  ASSUME TypeOK, CallsOK, OtherStep PROVE TypeOK' /\ CallsOK'
<1>1. UNCHANGED <<call, wrEngagement, selected>>
  BY DEF OtherStep, CreateWorkRequest, StartWork, TransitionEngagement, requestVars, appVars
<1>2. CallsOK' /\ call' \in [Calls -> CallType]
  BY <1>1, NoCallChanges DEF Monotone
<1>3. QED
  BY <1>2
  DEF OtherStep, CreateWorkRequest, StartWork, TransitionEngagement, TypeOK, RequestStatus,
      EngagementStatus, requestVars, listingVars, engVars, appVars

\* The initial rows have their columns' types and no call is in flight.
LEMMA InitTypeOK == Init => TypeOK /\ CallsOK
<1> SUFFICES ASSUME Init PROVE TypeOK /\ CallsOK
  OBVIOUS
<1>1. TypeOK
  BY IdleOK, ConstantsAssumption DEF Init, TypeOK, ListingStatus, ApplicationStatus
<1>2. CallsOK
  BY IdleOK DEF Init, CallsOK, CallFacts
<1>3. QED
  BY <1>1, <1>2

\* A step keeps the types and the form of the calls, given that accepted applicants
\* were selected (which a call that accepts relies on).
LEMMA NextTypeOK ==
  ASSUME TypeOK, CallsOK, AcceptedWasSelected, [Next]_vars
  PROVE  TypeOK' /\ CallsOK'
<1>1. ASSUME NEW c \in Calls, ServiceStep(c) PROVE TypeOK' /\ CallsOK'
  <2>1. UNCHANGED <<requestVars, listingVars, engVars, appVars>>
    BY <1>1, ServiceBegins
  <2>2. PICK k \in CallType : /\ Begin(c, k)
                              /\ CallShape(k)
                              /\ CallFacts(k, selected, wrEngagement)
    BY <1>1, ServiceBegins
  <2>3. selected' = selected /\ wrEngagement' = wrEngagement
    BY <2>1 DEF requestVars, appVars
  <2>4. CallsOK' /\ call' \in [Calls -> CallType]
    BY <2>2, <2>3, OneCallChanges DEF Begin
  <2>5. QED
    BY <2>1, <2>4 DEF TypeOK, requestVars, listingVars, engVars, appVars
<1>2. ASSUME NEW c \in Calls, RepositoryStep(c) PROVE TypeOK' /\ CallsOK'
  BY <1>2, RepositoryTypeOK
<1>3. ASSUME NEW c \in Calls, Crash(c) PROVE TypeOK' /\ CallsOK'
  <2>1. CallsOK' /\ call' \in [Calls -> CallType]
    BY <1>3, FinishOK DEF Crash, Monotone, requestVars, appVars
  <2>2. QED
    BY <1>3, <2>1 DEF Crash, TypeOK, requestVars, listingVars, engVars, appVars
<1>4. CASE OtherStep
  BY <1>4, OtherTypeOK
<1>5. CASE UNCHANGED vars
  <2>1. CallsOK'
    BY <1>5, NoCallChanges DEF Monotone, vars, requestVars, appVars
  <2>2. QED
    BY <1>5, <2>1 DEF TypeOK, vars, requestVars, listingVars, engVars, appVars
<1>6. QED
  BY <1>1, <1>2, <1>3, <1>4, <1>5 DEF Next, OtherStep

----
\* Selection.  An application is marked accepted by the poster's review, which records
\* the selection, or by an acceptance, whose call was let through by one.

\* No step marks an unselected application accepted.
LEMMA NextSelected ==
  ASSUME TypeOK, CallsOK, AcceptedWasSelected, [Next]_vars
  PROVE  AcceptedWasSelected'
<1>1. ASSUME NEW c \in Calls, ServiceStep(c) PROVE AcceptedWasSelected'
  BY <1>1, ServiceBegins DEF AcceptedWasSelected, appVars
<1>2. ASSUME NEW c \in Calls, RepositoryStep(c) PROVE AcceptedWasSelected'
  <2>1. CASE CreateApplicationWithWorkRequest(c)
    BY <2>1 DEF CreateApplicationWithWorkRequest, AcceptedWasSelected, TypeOK, JobRequests
  <2>2. CASE UpdateApplicationStatus(c)
    BY <2>2 DEF UpdateApplicationStatus, AcceptedWasSelected, TypeOK, JobRequests
  <2>3. CASE AcceptWorkRequestTransactional(c)
    <3>1. IsJob(call[c].req) => call[c].req \in selected
      BY <2>3 DEF AcceptWorkRequestTransactional, CallsOK, CallFacts
    <3>2. QED
      BY <2>3, <3>1
      DEF AcceptWorkRequestTransactional, AcceptedWasSelected, TypeOK, JobRequests, IsJob
  <2>4. CASE WithdrawPendingPaymentTransactional(c)
    BY <2>4 DEF WithdrawPendingPaymentTransactional, AcceptedWasSelected, TypeOK, JobRequests
  <2>5. CASE RejectOpenWorkRequestsForListing(c)
    BY <2>5 DEF RejectOpenWorkRequestsForListing, AcceptedWasSelected, TypeOK, JobRequests
  <2>6. CASE UNCHANGED appVars
    BY <2>6 DEF AcceptedWasSelected, appVars
  <2>7. QED
    BY <1>2, <2>1, <2>2, <2>3, <2>4, <2>5, <2>6
    DEF RepositoryStep, ReadRequestForApplication, CreateRequestForApplication,
        UpdateWorkRequest, UpdateListing, ScanOpenWorkRequests, DeleteListing
<1>3. CASE UNCHANGED appVars
  BY <1>3 DEF AcceptedWasSelected, appVars
<1>4. QED
  BY <1>1, <1>2, <1>3
  DEF Next, Crash, CreateWorkRequest, StartWork, TransitionEngagement, vars

----
\* Type correctness, and the form of the calls and the selections it rests on.
THEOREM TypeCorrect == Spec => [](TypeOK /\ CallsOK /\ AcceptedWasSelected)
<1> DEFINE I == TypeOK /\ CallsOK /\ AcceptedWasSelected
<1>1. Init => I
  <2>1. Init => AcceptedWasSelected
    BY DEF Init, AcceptedWasSelected, JobRequests
  <2>2. QED
    BY <2>1, InitTypeOK
<1>2. I /\ [Next]_vars => I'
  BY NextTypeOK, NextSelected
<1>3. QED
  BY <1>1, <1>2, PTL DEF Spec

----
\* Links.  Only an acceptance creates an engagement, and it creates the link with it.

\* Every other step leaves the identities and links as they are.
LEMMA LinksUnchanged ==
  ASSUME TypeOK, AcceptedWasSelected, [Next]_vars,
         ~ \E c \in Calls : AcceptWorkRequestTransactional(c)
  PROVE  UNCHANGED <<engRequest, wrEngagement, agreed>>
<1>1. ASSUME NEW c \in Calls, ServiceStep(c)
      PROVE  UNCHANGED <<engRequest, wrEngagement, agreed>>
  BY <1>1, ServiceBegins DEF requestVars, engVars
<1>2. ASSUME NEW c \in Calls, RepositoryStep(c)
      PROVE  UNCHANGED <<engRequest, wrEngagement, agreed>>
  BY <1>2
  DEF RepositoryStep, CreateApplicationWithWorkRequest, ReadRequestForApplication,
      CreateRequestForApplication, UpdateApplicationStatus, UpdateWorkRequest,
      WithdrawPendingPaymentTransactional, UpdateListing, ScanOpenWorkRequests,
      RejectOpenWorkRequestsForListing, DeleteListing, requestVars, engVars
<1>3. QED
  BY <1>1, <1>2
  DEF Next, Crash, CreateWorkRequest, StartWork, TransitionEngagement, vars, requestVars,
      engVars

\* And an engagement that moves exists already.
LEMMA EngagementMoves ==
  ASSUME TypeOK, CallsOK, AcceptedWasSelected, OneEngagementPerRequest, [Next]_vars,
         ~ \E c \in Calls : AcceptWorkRequestTransactional(c)
  PROVE  \/ UNCHANGED engStatus
         \/ \E e \in Engagements, to \in EngagementStatus :
              /\ engStatus' = [engStatus EXCEPT ![e] = to]
              /\ \/ /\ engStatus[e] = "pending_payment"
                    /\ to \in {"in_progress", "cancelled"}
                 \/ to \in PartyEngagementTransitions(engStatus[e])
<1> DEFINE Moves ==
      \/ UNCHANGED engStatus
      \/ \E e \in Engagements, to \in EngagementStatus :
           /\ engStatus' = [engStatus EXCEPT ![e] = to]
           /\ \/ /\ engStatus[e] = "pending_payment"
                 /\ to \in {"in_progress", "cancelled"}
              \/ to \in PartyEngagementTransitions(engStatus[e])
<1>1. ASSUME NEW c \in Calls, ServiceStep(c) PROVE Moves
  BY <1>1, ServiceBegins DEF engVars
<1>2. ASSUME NEW c \in Calls, WithdrawPendingPaymentTransactional(c) PROVE Moves
  <2>1. /\ call[c].req \in Requests
        /\ wrEngagement[call[c].req] \in Engagements
    BY <1>2
    DEF WithdrawPendingPaymentTransactional, CallsOK, CallShape, CallFacts, RequestSteps,
        TypeOK
  <2>2. QED
    BY <1>2, <2>1
    DEF WithdrawPendingPaymentTransactional, StillPending, EngagementStatus
<1>3. ASSUME NEW c \in Calls, RepositoryStep(c), ~WithdrawPendingPaymentTransactional(c)
      PROVE  Moves
  BY <1>3
  DEF RepositoryStep, CreateApplicationWithWorkRequest, ReadRequestForApplication,
      CreateRequestForApplication, UpdateApplicationStatus, UpdateWorkRequest,
      UpdateListing, ScanOpenWorkRequests, RejectOpenWorkRequestsForListing,
      DeleteListing, engVars
<1>4. ASSUME NEW e \in Engagements, NEW to \in EngagementStatus,
             StartWork(e) \/ TransitionEngagement(e, to)
      PROVE  Moves
  BY <1>4 DEF StartWork, TransitionEngagement, EngagementStatus
<1>5. ASSUME \/ \E c \in Calls : Crash(c)
             \/ \E r \in Requests : CreateWorkRequest(r)
             \/ UNCHANGED vars
      PROVE  Moves
  BY <1>5 DEF Crash, CreateWorkRequest, vars, engVars
<1>6. QED
  BY <1>1, <1>2, <1>3, <1>4, <1>5 DEF Next, EngagementStatus

\* The party table offers no way out of a row that does not exist.
LEMMA NoMoveFromNone == PartyEngagementTransitions("none") = {}
BY DEF PartyEngagementTransitions, EngagementTransitions

\* What an acceptance writes, if it writes anything.
LEMMA AcceptWrites ==
  ASSUME TypeOK, CallsOK, NEW c \in Calls, AcceptWorkRequestTransactional(c)
  PROVE  \/ UNCHANGED <<engStatus, engRequest, wrEngagement, agreed>>
         \/ \E r \in Requests, e \in Engagements, t \in Payable :
              /\ wrEngagement[r] = None
              /\ engStatus[e] = "none"
              /\ IsJob(r) => r \in selected
              /\ engStatus' = [engStatus EXCEPT ![e] = "pending_payment"]
              /\ engRequest' = [engRequest EXCEPT ![e] = r]
              /\ wrEngagement' = [wrEngagement EXCEPT ![r] = e]
              /\ agreed' = [agreed EXCEPT ![r] = t]
<1>1. /\ call[c].req \in Requests
      /\ call[c].terms \in Payable
      /\ IsJob(call[c].req) => call[c].req \in selected
  BY DEF AcceptWorkRequestTransactional, CallsOK, CallShape, CallFacts, RequestSteps
<1>2. CASE ~StillAcceptable(call[c])
  BY <1>2 DEF AcceptWorkRequestTransactional, engVars
<1>3. CASE StillAcceptable(call[c])
  BY <1>1, <1>3 DEF AcceptWorkRequestTransactional, StillAcceptable
<1>4. QED
  BY <1>2, <1>3

\* Links and engagements stay one to one.
LEMMA NextOneEngagement ==
  ASSUME TypeOK, CallsOK, AcceptedWasSelected, OneEngagementPerRequest, [Next]_vars
  PROVE  OneEngagementPerRequest'
<1>1. CASE \E c \in Calls : AcceptWorkRequestTransactional(c)
  <2>1. CASE UNCHANGED <<engStatus, engRequest, wrEngagement, agreed>>
    BY <2>1 DEF OneEngagementPerRequest
  <2>2. CASE ~UNCHANGED <<engStatus, engRequest, wrEngagement, agreed>>
    <3>1. PICK r \in Requests, e \in Engagements :
            /\ wrEngagement[r] = None
            /\ engStatus[e] = "none"
            /\ engStatus' = [engStatus EXCEPT ![e] = "pending_payment"]
            /\ engRequest' = [engRequest EXCEPT ![e] = r]
            /\ wrEngagement' = [wrEngagement EXCEPT ![r] = e]
      BY <1>1, <2>2, AcceptWrites
    <3>2. ASSUME NEW f \in Engagements, engStatus'[f] # "none"
          PROVE  engRequest'[f] \in Requests /\ wrEngagement'[engRequest'[f]] = f
      <4>1. CASE f = e
        BY <3>1, <4>1 DEF TypeOK
      <4>2. CASE f # e
        BY <3>1, <3>2, <4>2, ConstantsAssumption DEF TypeOK, OneEngagementPerRequest
      <4>3. QED
        BY <4>1, <4>2
    <3>3. ASSUME NEW q \in Requests, wrEngagement'[q] # None
          PROVE  engRequest'[wrEngagement'[q]] = q /\ engStatus'[wrEngagement'[q]] # "none"
      <4>1. CASE q = r
        BY <3>1, <4>1 DEF TypeOK
      <4>2. CASE q # r
        BY <3>1, <3>3, <4>2 DEF TypeOK, OneEngagementPerRequest
      <4>3. QED
        BY <4>1, <4>2
    <3>4. QED
      BY <3>2, <3>3 DEF OneEngagementPerRequest
  <2>3. QED
    BY <2>1, <2>2
<1>2. CASE ~ \E c \in Calls : AcceptWorkRequestTransactional(c)
  <2>1. UNCHANGED <<engRequest, wrEngagement>>
    BY <1>2, LinksUnchanged
  <2>2. ASSUME NEW e \in Engagements PROVE (engStatus'[e] = "none") <=> (engStatus[e] = "none")
    BY <1>2, EngagementMoves, NoMoveFromNone DEF EngagementStatus, TypeOK
  <2>3. QED
    BY <2>1, <2>2 DEF OneEngagementPerRequest, TypeOK
<1>3. QED
  BY <1>1, <1>2

\* Every link of a job posting was made after its applicant was selected.
LEMMA NextSelectedBeforeWork ==
  ASSUME TypeOK, CallsOK, AcceptedWasSelected, SelectedBeforeWork, [Next]_vars
  PROVE  SelectedBeforeWork'
<1>1. selected \subseteq selected'
  <2>1. ASSUME NEW c \in Calls, ServiceStep(c) PROVE selected' = selected
    BY <2>1, ServiceBegins DEF appVars
  <2>2. QED
    BY <2>1
    DEF Next, RepositoryStep, CreateApplicationWithWorkRequest, ReadRequestForApplication,
        CreateRequestForApplication, UpdateApplicationStatus, UpdateWorkRequest,
        AcceptWorkRequestTransactional, WithdrawPendingPaymentTransactional, UpdateListing,
        ScanOpenWorkRequests, RejectOpenWorkRequestsForListing, DeleteListing, Crash,
        CreateWorkRequest, StartWork, TransitionEngagement, vars, appVars
<1>2. CASE \E c \in Calls : AcceptWorkRequestTransactional(c)
  BY <1>1, <1>2, AcceptWrites DEF SelectedBeforeWork, JobRequests, IsJob, TypeOK
<1>3. CASE ~ \E c \in Calls : AcceptWorkRequestTransactional(c)
  BY <1>1, <1>3, LinksUnchanged DEF SelectedBeforeWork, JobRequests
<1>4. QED
  BY <1>2, <1>3

\* IInv holds initially and is preserved.
LEMMA IInvInductive ==
  /\ Init => IInv
  /\ IInv /\ [Next]_vars => IInv'
<1>1. Init => IInv
  <2>1. Init => AcceptedWasSelected
    BY DEF Init, AcceptedWasSelected, JobRequests
  <2>2. Init => OneEngagementPerRequest /\ SelectedBeforeWork
    BY DEF Init, OneEngagementPerRequest, SelectedBeforeWork, JobRequests
  <2>3. QED
    BY <2>1, <2>2, InitTypeOK DEF IInv
<1>2. IInv /\ [Next]_vars => IInv'
  BY NextTypeOK, NextSelected, NextOneEngagement, NextSelectedBeforeWork DEF IInv
<1>3. QED
  BY <1>1, <1>2

\* However many accepts of one request overlap, and wherever they stop, at most one
\* engagement comes of it and the two rows point at each other.
THEOREM OneEngagement == Spec => []OneEngagementPerRequest
<1>1. IInv => OneEngagementPerRequest
  BY DEF IInv
<1>2. QED
  BY <1>1, IInvInductive, PTL DEF Spec

\* Nobody is engaged from a job posting unless the poster selected them.
THEOREM SelectionPrecedesWork == Spec => []SelectedBeforeWork
<1>1. IInv => SelectedBeforeWork
  BY DEF IInv
<1>2. QED
  BY <1>1, IInvInductive, PTL DEF Spec

----
\* The refinement of Deal.  It needs to know which statuses an engagement reaches (the
\* table has moves out of requested and accepted, which no acceptance creates) and that
\* terms are agreed exactly when the link is made.
StartedStatus ==
  {"pending_payment", "in_progress", "delivered", "disputed", "completed", "cancelled"}

DealInv ==
  /\ \A e \in Engagements : engStatus[e] \in StartedStatus \cup {"none"}
  /\ \A r \in Requests : (agreed[r] = None) <=> (wrEngagement[r] = None)

\* The parties' moves out of the statuses an engagement reaches.
LEMMA PartyMoves ==
  ASSUME NEW from \in StartedStatus, NEW to \in PartyEngagementTransitions(from)
  PROVE  \/ from = "in_progress" /\ to = "delivered"
         \/ from = "delivered" /\ to \in {"in_progress", "completed", "disputed"}
         \/ from = "disputed" /\ to = "completed"
BY DEF StartedStatus, PartyEngagementTransitions, EngagementTransitions,
       ClientEngagementTransitions, ProviderEngagementTransitions

\* No step leads an engagement to another status, or agrees terms without a link.
LEMMA NextDealInv ==
  ASSUME IInv, DealInv, [Next]_vars PROVE DealInv'
<1>1. CASE \E c \in Calls : AcceptWorkRequestTransactional(c)
  <2>1. CASE UNCHANGED <<engStatus, engRequest, wrEngagement, agreed>>
    BY <2>1 DEF DealInv
  <2>2. CASE \E r \in Requests, e \in Engagements, t \in Payable :
               /\ engStatus' = [engStatus EXCEPT ![e] = "pending_payment"]
               /\ wrEngagement' = [wrEngagement EXCEPT ![r] = e]
               /\ agreed' = [agreed EXCEPT ![r] = t]
    BY <2>2, ConstantsAssumption DEF DealInv, StartedStatus, IInv, TypeOK
  <2>3. QED
    BY <1>1, <2>1, <2>2, AcceptWrites DEF IInv
<1>2. CASE ~ \E c \in Calls : AcceptWorkRequestTransactional(c)
  <2>1. UNCHANGED <<wrEngagement, agreed>>
    BY <1>2, LinksUnchanged DEF IInv
  <2>2. ASSUME NEW e \in Engagements PROVE engStatus'[e] \in StartedStatus \cup {"none"}
    <3>1. CASE UNCHANGED engStatus
      BY <3>1 DEF DealInv
    <3>2. ASSUME NEW f \in Engagements, NEW to \in EngagementStatus,
                 engStatus' = [engStatus EXCEPT ![f] = to],
                 \/ to \in {"in_progress", "cancelled"}
                 \/ to \in PartyEngagementTransitions(engStatus[f])
          PROVE  engStatus'[e] \in StartedStatus \cup {"none"}
      <4>1. to \in StartedStatus
        BY <3>2, PartyMoves, NoMoveFromNone DEF DealInv, StartedStatus
      <4>2. QED
        BY <3>2, <4>1 DEF DealInv, IInv, TypeOK
    <3>3. QED
      BY <1>2, <3>1, <3>2, EngagementMoves DEF IInv
  <2>3. QED
    BY <2>1, <2>2 DEF DealInv
<1>3. QED
  BY <1>1, <1>2

\* Each step of the marketplace is a step of at most one deal.
LEMMA NextDeal ==
  ASSUME IInv, DealInv, [Next]_vars PROVE [D!Next]_DealOf
<1>0. DealOf' = [r \in Requests |-> [phase |-> EngagementOf(r)', terms |-> agreed'[r]]]
  BY DEF DealOf
<1>1. CASE \E c \in Calls : AcceptWorkRequestTransactional(c)
  <2>1. CASE UNCHANGED <<engStatus, engRequest, wrEngagement, agreed>>
    BY <2>1 DEF DealOf, EngagementOf
  <2>2. ASSUME NEW r \in Requests, NEW e \in Engagements, NEW t \in Payable,
               wrEngagement[r] = None,
               engStatus[e] = "none",
               engStatus' = [engStatus EXCEPT ![e] = "pending_payment"],
               wrEngagement' = [wrEngagement EXCEPT ![r] = e],
               agreed' = [agreed EXCEPT ![r] = t]
        PROVE  D!Strike(r, t)
    <3>1. DealOf[r] = D!NoDeal
      BY <2>2 DEF DealOf, EngagementOf, DealInv, D!NoDeal
    <3>2. EngagementOf(r)' = "pending_payment" /\ agreed'[r] = t
      BY <2>2, ConstantsAssumption DEF EngagementOf, IInv, TypeOK
    <3>3. ASSUME NEW q \in Requests, q # r
          PROVE  EngagementOf(q)' = EngagementOf(q) /\ agreed'[q] = agreed[q]
      <4>1. wrEngagement'[q] = wrEngagement[q] /\ agreed'[q] = agreed[q]
        BY <2>2, <3>3 DEF IInv, TypeOK
      <4>2. wrEngagement[q] # None => wrEngagement[q] # e
        BY <2>2 DEF IInv, OneEngagementPerRequest
      <4>3. QED
        BY <2>2, <4>1, <4>2 DEF EngagementOf, IInv, TypeOK
    <3>4. QED
      BY <1>0, <3>1, <3>2, <3>3 DEF D!Strike, DealOf
  <2>3. QED
    BY <1>1, <2>1, <2>2, AcceptWrites DEF IInv, D!Next
<1>2. CASE ~ \E c \in Calls : AcceptWorkRequestTransactional(c)
  <2>1. UNCHANGED <<engRequest, wrEngagement, agreed>>
    BY <1>2, LinksUnchanged DEF IInv
  <2>2. CASE UNCHANGED engStatus
    BY <2>1, <2>2 DEF DealOf, EngagementOf
  <2>3. ASSUME NEW e \in Engagements, NEW to \in EngagementStatus,
               engStatus' = [engStatus EXCEPT ![e] = to],
               \/ engStatus[e] = "pending_payment" /\ to \in {"in_progress", "cancelled"}
               \/ to \in PartyEngagementTransitions(engStatus[e])
        PROVE  D!Next
    <3>1. engStatus[e] \in StartedStatus
      BY <2>3, NoMoveFromNone DEF DealInv, StartedStatus
    <3>2. PICK r \in Requests : wrEngagement[r] = e
      BY <3>1 DEF IInv, OneEngagementPerRequest, StartedStatus
    <3>3. EngagementOf(r) = engStatus[e] /\ EngagementOf(r)' = to
      BY <2>1, <2>3, <3>2, ConstantsAssumption DEF EngagementOf, IInv, TypeOK
    <3>4. ASSUME NEW q \in Requests, q # r PROVE EngagementOf(q)' = EngagementOf(q)
      <4>1. wrEngagement[q] # None => wrEngagement[q] # e
        BY <3>2, <3>4 DEF IInv, OneEngagementPerRequest
      <4>2. QED
        BY <2>1, <2>3, <4>1 DEF EngagementOf, IInv, TypeOK
    <3>5. D!MoveTo(r, engStatus[e], to)
      BY <1>0, <2>1, <3>3, <3>4 DEF D!MoveTo, DealOf
    <3>6. D!Settle(r) \/ D!CallOff(r) \/ D!Deliver(r) \/ D!Revise(r) \/ D!Confirm(r)
            \/ D!Dispute(r) \/ D!Resolve(r)
      BY <2>3, <3>1, <3>5, PartyMoves
      DEF D!Settle, D!CallOff, D!Deliver, D!Revise, D!Confirm, D!Dispute, D!Resolve
    <3>7. QED
      BY <3>6 DEF D!Next
  <2>4. QED
    BY <1>2, <2>2, <2>3, EngagementMoves DEF IInv
<1>3. QED
  BY <1>1, <1>2

\* The marketplace implements Deal: an agreement is struck once, on payable terms that
\* never change, and goes only where the deal may go.
THEOREM MarketImplementsDeal == Spec => DealSpec
<1>1. Init => D!Init /\ DealInv
  BY DEF Init, D!Init, D!NoDeal, DealOf, EngagementOf, DealInv
<1>2. IInv /\ DealInv /\ [Next]_vars => [D!Next]_DealOf /\ DealInv'
  BY NextDeal, NextDealInv
<1>3. QED
  BY <1>1, <1>2, IInvInductive, PTL DEF Spec, DealSpec, D!Spec

----
(***************************************************************************)
(* Handlers that run one after the other.  With a single call in flight    *)
(* and no crash, what the call read stays true until it writes (StillTrue),*)
(* and rows that belong together disagree only while the write that mends  *)
(* them is the call's next one (RowsAgree).                                *)
(***************************************************************************)
HandlersRunAlone == (\E c \in Calls : Calls = {c}) /\ ~MayCrash

\* The listing is not on the open marketplace any more.
LeftMarket(l) == listing[l] \in {"closed", "archived"} \/ l \in deleted

\* What an application written now would find its request to be.
Answers(app, status) ==
  /\ app # "submitted"
  /\ app = "under_review" => status \in OpenRequestStatuses \cup {"none"}
  /\ app = "accepted" => status \in OpenRequestStatuses
  /\ app = "rejected" => status \in {"none", "rejected"}
  /\ app = "withdrawn" => status \in {"none", "withdrawn"}

\* What a handler read is still so when it writes.
StillTrue(k) ==
  /\ k.step = "apply" => IsJob(k.req) /\ ~LeftMarket(ListingOf[k.req])
  /\ k.step \in {"readRequest", "createLegacy"} =>
       /\ IsJob(k.req) /\ application[k.req] \in OpenApplicationStatuses
       /\ k.app = "accepted" => listing[ListingOf[k.req]] \notin {"closed", "archived"}
  /\ k.step = "createLegacy" => k.app = "accepted" /\ ListingOf[k.req] \notin deleted
  /\ k.step = "application" => IsJob(k.req) /\ Answers(k.app, wrStatus[k.req])
  /\ k.step = "update" =>
       /\ IsOpen(k.req) /\ k.to # "pending_payment"
       /\ k.to = "pending" => revisedFrom[k.req] # "changes_declined"
       /\ k.app = IF IsJob(k.req) /\ k.to \in {"rejected", "withdrawn"} THEN k.to ELSE "none"
  /\ k.step = "accept" /\ IsJob(k.req) => application[k.req] = "accepted"
  /\ k.step = "withdrawPending" /\ IsJob(k.req) => k.app = "withdrawn"
  /\ k.step = "listing" => k.to \in {"open", "archived", "closed"}
  /\ k.step = "rejectOpen" =>
       \A r \in Requests : k.seen[r] # "none" <=> ListingOf[r] = k.lst /\ IsOpen(r)
  /\ k.step = "deleteListing" => \A r \in Requests : ListingOf[r] = k.lst => ~IsOpen(r)

\* What the rows of one request and its application say together.
EngagementAgrees(r) ==
  /\ (wrStatus[r] = "pending_payment") <=> (EngagementOf(r) \notin {"none", "cancelled"})
  /\ EngagementOf(r) = "cancelled" => wrStatus[r] = "withdrawn"

ApplicationAgrees(r) ==
  wrStatus[r] # "none" =>
    /\ (application[r] = "withdrawn") <=> (wrStatus[r] = "withdrawn")
    /\ application[r] = "rejected" => wrStatus[r] = "rejected"
    /\ wrStatus[r] = "rejected" => application[r] \notin OpenApplicationStatuses
    /\ wrStatus[r] = "pending_payment" => application[r] = "accepted"

RowsExist(r) ==
  /\ application[r] # "none" => IsJob(r)
  /\ IsJob(r) /\ wrStatus[r] # "none" => application[r] # "none"
  /\ wrStatus[r] = "none" => revisedFrom[r] = "none"
  /\ revisedFrom[r] = "changes_declined" => wrStatus[r] # "pending"

\* Rows disagree only while the call in flight has the write to do that mends it.
JobAgrees(r, k) ==
  /\ ApplicationAgrees(r) \/ (k.step = "application" /\ k.req = r)
  /\ IsOpen(r) /\ LeftMarket(ListingOf[r]) =>
       k.step \in {"scan", "rejectOpen"} /\ k.lst = ListingOf[r]

RowsAgree(k) ==
  /\ \A r \in Requests : EngagementAgrees(r) /\ RowsExist(r)
  /\ \A r \in JobRequests : JobAgrees(r, k)

Alone(c) == Calls = {c} /\ ~MayCrash
Serially(c) == Alone(c) /\ StillTrue(call[c]) /\ RowsAgree(call[c])

\* Everything but the calls.
rows == <<requestVars, listingVars, engVars, appVars>>

----
\* The first part of a handler leaves a call that has read what is true.
LEMMA ServiceReads ==
  ASSUME IInv, NEW c \in Calls, Serially(c), ServiceStep(c)
  PROVE  /\ call[c] = Idle /\ UNCHANGED rows
         /\ StillTrue(call'[c])
<1> DEFINE Goal == call[c] = Idle /\ UNCHANGED rows /\ StillTrue(call'[c])
<1>0. ASSUME NEW k, Begin(c, k) PROVE call[c] = Idle /\ call'[c] = k
  BY <1>0 DEF Begin, IInv, TypeOK
<1>1. \A r \in JobRequests : call[c] = Idle =>
        /\ ApplicationAgrees(r)
        /\ IsOpen(r) => ~LeftMarket(ListingOf[r])
  BY IdleOK DEF Serially, RowsAgree, JobAgrees
<1>2. \A r \in Requests : EngagementAgrees(r) /\ RowsExist(r)
  BY DEF Serially, RowsAgree
<1>3. \A r \in Requests : IsOpen(r) => wrEngagement[r] = None
  BY <1>2 DEF IInv, OneEngagementPerRequest, EngagementAgrees, IsOpen, OpenRequestStatuses,
              EngagementOf
<1>4. ASSUME NEW r \in Requests, Apply(c, r) PROVE Goal
  BY <1>0, <1>4 DEF Apply, StillTrue, ApplicationCall, rows, LeftMarket
<1>5. ASSUME NEW r \in Requests, NEW to \in ApplicationStatus, PatchApplication(c, r, to)
      PROVE  Goal
  <2>1. application[r] \in OpenApplicationStatuses
    BY <1>5 DEF PatchApplication, ApplicationTransitions, OpenApplicationStatuses
  <2>2. IsJob(r) /\ r \in JobRequests
    BY <1>2, <2>1 DEF RowsExist, JobRequests, IsJob, OpenApplicationStatuses
  <2>3. call[c] = Idle /\ UNCHANGED rows
    BY <1>5, <1>0 DEF PatchApplication, rows
  <2>4. wrStatus[r] \in OpenRequestStatuses \cup {"none"}
    BY <2>1, <2>2, <2>3, <1>1
    DEF ApplicationAgrees, OpenApplicationStatuses, OpenRequestStatuses, IInv, TypeOK,
        RequestStatus
  <2>5. CASE to = "under_review"
    BY <1>5, <1>0, <2>2, <2>3, <2>4, <2>5
    DEF PatchApplication, StillTrue, ApplicationCall, Answers
  <2>6. CASE to # "under_review"
    BY <1>5, <1>0, <2>1, <2>2, <2>3, <2>6
    DEF PatchApplication, StillTrue, ApplicationCall
  <2>7. QED
    BY <2>5, <2>6
<1>6. ASSUME NEW r \in Requests, NEW to \in {"changes_requested", "changes_declined", "pending"},
             NEW terms, IsOpen(r), to = "pending" => revisedFrom[r] # "changes_declined",
             Begin(c, RequestCall(r, "update", to, "none", terms)), UNCHANGED rows
      PROVE  Goal
  BY <1>0, <1>6 DEF StillTrue, RequestCall
<1>7. ASSUME NEW r \in Requests, NEW to \in {"rejected", "withdrawn"}, IsOpen(r),
             Begin(c, RequestCall(r, "update", to, SyncedStatus(r, to), None)), UNCHANGED rows
      PROVE  Goal
  <2>1. call[c] = Idle /\ call'[c] = RequestCall(r, "update", to, SyncedStatus(r, to), None)
    BY <1>0, <1>7
  <2>2. IsJob(r) => application[r] \in OpenApplicationStatuses \cup {"accepted"}
    BY <1>1, <1>2, <1>7, <2>1
    DEF ApplicationAgrees, RowsExist, JobRequests, IsJob, IsOpen, OpenRequestStatuses,
        OpenApplicationStatuses, IInv, TypeOK, ApplicationStatus
  <2>3. SyncedStatus(r, to) = IF IsJob(r) THEN to ELSE "none"
    BY <2>2, <1>3, <1>7 DEF SyncedStatus
  <2>4. QED
    BY <1>7, <2>1, <2>3 DEF StillTrue, RequestCall
<1>8. ASSUME NEW r \in Requests, NEW p, RequestWorkRequestChanges(c, r, p) PROVE Goal
  BY <1>6, <1>8 DEF RequestWorkRequestChanges, IsOpen, OpenRequestStatuses, rows
<1>9. ASSUME NEW r \in Requests, DeclineWorkRequestChanges(c, r) PROVE Goal
  BY <1>6, <1>9 DEF DeclineWorkRequestChanges, IsOpen, OpenRequestStatuses, rows
<1>10. ASSUME NEW r \in Requests, CancelWorkRequestChanges(c, r) PROVE Goal
  BY <1>6, <1>10 DEF CancelWorkRequestChanges, RestoreTo, IsOpen, OpenRequestStatuses, rows
<1>11. ASSUME NEW r \in Requests, RejectWorkRequest(c, r) PROVE Goal
  BY <1>7, <1>11 DEF RejectWorkRequest, IsOpen, OpenRequestStatuses, rows
<1>12. ASSUME NEW r \in Requests, AcceptWorkRequest(c, r) \/ AcceptWorkRequestChanges(c, r)
       PROVE  Goal
  BY <1>0, <1>12 DEF AcceptWorkRequest, AcceptWorkRequestChanges, BeginAccept, StillTrue,
                     RequestCall, ApplicantSelected, rows
<1>13. ASSUME NEW r \in Requests, WithdrawWorkRequest(c, r) PROVE Goal
  <2>0. UNCHANGED rows
    BY <1>13 DEF WithdrawWorkRequest, rows
  <2>1. CASE wrEngagement[r] = None
    <3>1. wrStatus[r] # "pending_payment"
      BY <2>1, <1>2 DEF EngagementAgrees, EngagementOf
    <3>2. IsOpen(r)
      BY <1>13, <3>1 DEF WithdrawWorkRequest, IsOpen
    <3>3. QED
      BY <1>13, <2>0, <2>1, <3>2, <1>7 DEF WithdrawWorkRequest
  <2>2. CASE wrEngagement[r] # None
    <3>1. PICK app : /\ Begin(c, RequestCall(r, "withdrawPending", "withdrawn", app, None))
                     /\ application[r] = "accepted" => app = "withdrawn"
      BY <1>13, <2>2 DEF WithdrawWorkRequest
    <3>2. call[c] = Idle /\ call'[c] = RequestCall(r, "withdrawPending", "withdrawn", app, None)
      BY <1>0, <3>1
    <3>3. wrStatus[r] = "pending_payment"
      BY <1>13, <2>2, <1>3 DEF WithdrawWorkRequest, IsOpen
    <3>4. IsJob(r) => application[r] = "accepted"
      BY <1>1, <3>2, <3>3 DEF ApplicationAgrees, JobRequests, IsJob
    <3>5. QED
      BY <2>0, <3>1, <3>2, <3>4 DEF StillTrue, RequestCall
  <2>3. QED
    BY <2>1, <2>2
<1>14. ASSUME NEW l \in Listings, NEW to \in ListingStatus, TransitionListing(c, l, to)
       PROVE  Goal
  BY <1>0, <1>14 DEF TransitionListing, StillTrue, ListingCall, rows
<1>15. ASSUME NEW l \in Listings, SoftDeleteListing(c, l) PROVE Goal
  BY <1>0, <1>15 DEF SoftDeleteListing, StillTrue, ListingCall, rows
<1>16. QED
  BY <1>4, <1>5, <1>8, <1>9, <1>10, <1>11, <1>12, <1>13, <1>14, <1>15 DEF ServiceStep

\* What the rows agree on once the call is over or waits for its next write.
LEMMA Agreed ==
  ASSUME NEW c \in Calls, Alone(c), StillTrue(call[c])',
         \A r \in Requests : EngagementAgrees(r)' /\ RowsExist(r)',
         \A r \in JobRequests : JobAgrees(r, call[c])'
  PROVE  Serially(c)'
BY DEF Serially, RowsAgree, Alone, JobRequests

\* A step that only moves the call leaves rows that agreed in agreement.
LEMMA KeepsRows ==
  ASSUME NEW c \in Calls, Alone(c), UNCHANGED rows, StillTrue(call'[c]),
         \A r \in Requests : EngagementAgrees(r) /\ RowsExist(r),
         \A r \in JobRequests : ApplicationAgrees(r) /\ (IsOpen(r) => ~LeftMarket(ListingOf[r]))
  PROVE  Serially(c)'
<1>1. StillTrue(call[c])'
  BY DEF StillTrue, rows, requestVars, listingVars, appVars, LeftMarket, IsOpen, IsJob, Answers
<1>2. \A r \in Requests : EngagementAgrees(r)' /\ RowsExist(r)'
  BY DEF EngagementAgrees, RowsExist, rows, requestVars, engVars, appVars, EngagementOf
<1>3. \A r \in JobRequests : JobAgrees(r, call[c])'
  BY DEF JobAgrees, ApplicationAgrees, IsOpen, LeftMarket, rows, requestVars, appVars,
         listingVars
<1>4. QED
  BY <1>1, <1>2, <1>3, Agreed

\* So a handler's first part keeps the rows in agreement.
LEMMA ServiceSerially ==
  ASSUME IInv, NEW c \in Calls, Serially(c), ServiceStep(c)
  PROVE  Serially(c)'
<1>1. call[c] = Idle /\ UNCHANGED rows /\ StillTrue(call'[c])
  BY ServiceReads
<1>2. QED
  BY <1>1, IdleOK, KeepsRows DEF Serially, RowsAgree, JobAgrees

\* A request without a live engagement may take any status but pending_payment.
LEMMA EngagementUnmoved ==
  ASSUME NEW r \in Requests, EngagementAgrees(r), UNCHANGED <<engStatus, wrEngagement>>,
         \/ wrStatus'[r] = wrStatus[r]
         \/ /\ wrStatus[r] \in OpenRequestStatuses \cup {"none"}
            /\ wrStatus'[r] # "pending_payment"
  PROVE  EngagementAgrees(r)'
BY DEF EngagementAgrees, EngagementOf, OpenRequestStatuses

\* Each write keeps the rows in agreement, or leaves the call with the write that will.
LEMMA RepositorySerially ==
  ASSUME IInv, NEW c \in Calls, Serially(c), RepositoryStep(c)
  PROVE  Serially(c)'
<1> DEFINE k == call[c]
<1>0. k \in CallType /\ CallShape(k)
  BY DEF IInv, TypeOK, CallsOK
<1>a. StillTrue(k) /\ RowsAgree(k) /\ Alone(c)
  BY DEF Serially
<1>b. Finish(c) => call'[c] = Idle
  BY DEF Finish, IInv, TypeOK
<1>c. \A step : Goto(c, step) => call'[c] = [k EXCEPT !.step = step]
  BY DEF Goto, IInv, TypeOK
<1>d. ASSUME call'[c] = Idle PROVE StillTrue(call[c])'
  BY <1>d, IdleOK DEF StillTrue
<1>e. \A r \in Requests : EngagementAgrees(r) /\ RowsExist(r)
  BY <1>a DEF RowsAgree
<1>1. CASE CreateApplicationWithWorkRequest(c)
  <2>1. k.step = "apply" /\ k.req \in Requests /\ IsJob(k.req) /\ ~LeftMarket(ListingOf[k.req])
    BY <1>0, <1>1, <1>a DEF CreateApplicationWithWorkRequest, CallShape, RequestSteps, StillTrue
  <2>2. call'[c] = Idle
    BY <1>1, <1>b DEF CreateApplicationWithWorkRequest
  <2>3. application[k.req] = "none" => wrStatus[k.req] = "none"
    BY <2>1, <1>e DEF RowsExist
  <2>4. ASSUME NEW r \in Requests PROVE EngagementAgrees(r)' /\ RowsExist(r)'
    <3>1. EngagementAgrees(r)'
      BY <1>1, <1>e, <2>3, EngagementUnmoved
      DEF CreateApplicationWithWorkRequest, engVars, IInv, TypeOK
    <3>2. RowsExist(r)'
      BY <1>1, <1>e, <2>1, <2>3 DEF CreateApplicationWithWorkRequest, RowsExist, IInv, TypeOK, IsJob
    <3>3. QED
      BY <3>1, <3>2
  <2>5. ASSUME NEW r \in JobRequests PROVE JobAgrees(r, call[c])'
    <3>1. ApplicationAgrees(r) /\ (IsOpen(r) => ~LeftMarket(ListingOf[r]))
      BY <1>a, <2>1 DEF RowsAgree, JobAgrees
    <3>2. CASE application[k.req] = "none" /\ r = k.req
      BY <1>1, <2>1, <2>2, <3>2
      DEF CreateApplicationWithWorkRequest, JobAgrees, ApplicationAgrees, LeftMarket, IInv, TypeOK,
          OpenApplicationStatuses, listingVars
    <3>3. CASE ~(application[k.req] = "none" /\ r = k.req)
      <4>1. wrStatus'[r] = wrStatus[r] /\ application'[r] = application[r]
        BY <1>1, <3>3 DEF CreateApplicationWithWorkRequest, IInv, TypeOK, JobRequests
      <4>2. QED
        BY <1>1, <3>1, <4>1
        DEF CreateApplicationWithWorkRequest, JobAgrees, ApplicationAgrees, LeftMarket, IsOpen,
            listingVars
    <3>4. QED
      BY <3>2, <3>3
  <2>6. QED
    BY <1>a, <1>d, <2>2, <2>4, <2>5, Agreed
<1>2. CASE ReadRequestForApplication(c)
  <2>1. /\ k.req \in Requests /\ IsJob(k.req) /\ k.app \in {"accepted", "rejected", "withdrawn"}
        /\ application[k.req] \in OpenApplicationStatuses
        /\ k.app = "accepted" => listing[ListingOf[k.req]] \notin {"closed", "archived"}
        /\ k.step = "readRequest"
    BY <1>0, <1>2, <1>a DEF ReadRequestForApplication, CallShape, RequestSteps, StillTrue
  <2>2. \A r \in JobRequests : ApplicationAgrees(r) /\ (IsOpen(r) => ~LeftMarket(ListingOf[r]))
    BY <1>a, <2>1 DEF RowsAgree, JobAgrees
  <2>3. wrStatus[k.req] \in OpenRequestStatuses \cup {"none"}
    BY <2>1, <2>2 DEF ApplicationAgrees, OpenApplicationStatuses, OpenRequestStatuses, IInv,
                      TypeOK, RequestStatus, JobRequests, IsJob
  <2>4. UNCHANGED rows
    BY <1>2 DEF ReadRequestForApplication, rows
  <2>5. StillTrue(call'[c])
    <3>1. CASE Finish(c)
      BY <3>1, <1>b, IdleOK DEF StillTrue
    <3>2. CASE /\ k.app = "accepted" /\ wrStatus[k.req] = "none"
               /\ ListingOf[k.req] \notin deleted
               /\ Goto(c, "createLegacy")
      <4>1. call'[c] = [k EXCEPT !.step = "createLegacy"]
        BY <3>2, <1>c
      <4>2. QED
        BY <4>1, <3>2, <2>1, <1>0 DEF StillTrue, CallType
    <3>3. CASE k.app = "accepted" /\ IsOpen(k.req) /\ Goto(c, "application")
      <4>1. call'[c] = [k EXCEPT !.step = "application"]
        BY <3>3, <1>c
      <4>2. QED
        BY <4>1, <3>3, <2>1, <1>0 DEF StillTrue, CallType, Answers, IsOpen
    <3>4. CASE /\ k.app # "accepted" /\ IsOpen(k.req)
               /\ call' = [call EXCEPT ![c] = RequestCall(k.req, "update", k.app, k.app, None)]
      <4>1. call'[c] = RequestCall(k.req, "update", k.app, k.app, None)
        BY <3>4 DEF IInv, TypeOK
      <4>2. QED
        BY <4>1, <3>4, <2>1 DEF StillTrue, RequestCall
    <3>5. CASE k.app # "accepted" /\ ~IsOpen(k.req) /\ Goto(c, "application")
      <4>1. call'[c] = [k EXCEPT !.step = "application"]
        BY <3>5, <1>c
      <4>2. QED
        BY <4>1, <3>5, <2>1, <2>3, <1>0 DEF StillTrue, CallType, Answers, IsOpen
    <3>6. QED
      BY <1>2, <3>1, <3>2, <3>3, <3>4, <3>5 DEF ReadRequestForApplication
  <2>6. QED
    BY <1>a, <1>e, <2>2, <2>4, <2>5, KeepsRows
<1>3. CASE CreateRequestForApplication(c)
  <2>1. /\ k.req \in Requests /\ IsJob(k.req) /\ k.app = "accepted"
        /\ application[k.req] \in OpenApplicationStatuses
        /\ ~LeftMarket(ListingOf[k.req])
        /\ k.step = "createLegacy"
    BY <1>0, <1>3, <1>a
    DEF CreateRequestForApplication, CallShape, RequestSteps, StillTrue, LeftMarket
  <2>2. \A r \in JobRequests : ApplicationAgrees(r) /\ (IsOpen(r) => ~LeftMarket(ListingOf[r]))
    BY <1>a, <2>1 DEF RowsAgree, JobAgrees
  <2>3. CASE wrStatus[k.req] # "none"
    <3>1. UNCHANGED rows /\ Finish(c)
      BY <1>3, <2>3 DEF CreateRequestForApplication, rows, requestVars
    <3>2. QED
      BY <1>a, <1>b, <1>e, <2>2, <3>1, IdleOK, KeepsRows DEF StillTrue
  <2>4. CASE wrStatus[k.req] = "none"
    <3>1. /\ wrStatus' = [wrStatus EXCEPT ![k.req] = "pending"]
          /\ UNCHANGED <<application, listing, deleted, wrEngagement, engStatus, revisedFrom>>
          /\ call'[c] = [k EXCEPT !.step = "application"]
      BY <1>3, <1>c, <2>4
      DEF CreateRequestForApplication, listingVars, engVars, appVars
    <3>2. StillTrue(call[c])'
      BY <1>0, <2>1, <3>1
      DEF StillTrue, CallType, Answers, OpenRequestStatuses, IInv, TypeOK, IsJob
    <3>3. ASSUME NEW r \in Requests PROVE EngagementAgrees(r)' /\ RowsExist(r)'
      <4>1. EngagementAgrees(r)'
        BY <1>e, <2>4, <3>1, EngagementUnmoved DEF IInv, TypeOK
      <4>2. RowsExist(r)'
        BY <1>e, <2>1, <2>4, <3>1 DEF RowsExist, IInv, TypeOK, OpenApplicationStatuses, IsJob
      <4>3. QED
        BY <4>1, <4>2
    <3>4. ASSUME NEW r \in JobRequests PROVE JobAgrees(r, call[c])'
      <4>1. CASE r = k.req
        BY <1>0, <2>1, <3>1, <4>1
        DEF JobAgrees, ApplicationAgrees, LeftMarket, IInv, TypeOK, CallType
      <4>2. CASE r # k.req
        BY <2>2, <3>1, <4>2
        DEF JobAgrees, ApplicationAgrees, LeftMarket, IsOpen, IInv, TypeOK, JobRequests
      <4>3. QED
        BY <4>1, <4>2
    <3>5. QED
      BY <1>a, <3>2, <3>3, <3>4, Agreed
  <2>5. QED
    BY <2>3, <2>4
<1>4. CASE UpdateApplicationStatus(c)
  <2>1. /\ k.req \in Requests /\ IsJob(k.req) /\ k.app \in ApplicationStatus
        /\ Answers(k.app, wrStatus[k.req]) /\ k.step = "application"
    BY <1>0, <1>4, <1>a DEF UpdateApplicationStatus, CallShape, RequestSteps, StillTrue
  <2>2. /\ application' = [application EXCEPT ![k.req] = k.app]
        /\ UNCHANGED <<wrStatus, listing, deleted, wrEngagement, engStatus, revisedFrom>>
        /\ call'[c] = Idle
    BY <1>4, <1>b DEF UpdateApplicationStatus, requestVars, listingVars, engVars
  <2>3. ASSUME NEW r \in Requests PROVE EngagementAgrees(r)' /\ RowsExist(r)'
    <3>1. EngagementAgrees(r)'
      BY <1>e, <2>2, EngagementUnmoved
    <3>2. RowsExist(r)'
      BY <1>e, <2>1, <2>2 DEF RowsExist, IInv, TypeOK, ApplicationStatus, IsJob
    <3>3. QED
      BY <3>1, <3>2
  <2>4. ASSUME NEW r \in JobRequests PROVE JobAgrees(r, call[c])'
    <3>1. ApplicationAgrees(r)'
      <4>1. CASE r = k.req
        <5>1. application'[r] = k.app /\ wrStatus'[r] = wrStatus[k.req]
          BY <2>1, <2>2, <4>1 DEF IInv, TypeOK
        <5>2. k.app \in {"under_review", "accepted", "rejected", "withdrawn"} \/ k.app = "submitted"
          BY <2>1 DEF ApplicationStatus
        <5>3. QED
          BY <2>1, <5>1, <5>2
          DEF ApplicationAgrees, Answers, OpenRequestStatuses, OpenApplicationStatuses
      <4>2. CASE r # k.req
        BY <1>a, <2>2, <4>2
        DEF RowsAgree, JobAgrees, ApplicationAgrees, IInv, TypeOK, JobRequests
      <4>3. QED
        BY <4>1, <4>2
    <3>2. IsOpen(r) => ~LeftMarket(ListingOf[r])
      BY <1>a, <2>1 DEF RowsAgree, JobAgrees
    <3>3. QED
      BY <2>2, <3>1, <3>2 DEF JobAgrees, IsOpen, LeftMarket
  <2>5. QED
    BY <1>a, <1>d, <2>2, <2>3, <2>4, Agreed
<1>5. CASE UpdateWorkRequest(c)
  <2>1. /\ k.req \in Requests /\ k.to \in RequestStatus \ {"pending_payment"}
        /\ IsOpen(k.req) /\ k.step = "update"
        /\ k.to = "pending" => revisedFrom[k.req] # "changes_declined"
        /\ k.app = IF IsJob(k.req) /\ k.to \in {"rejected", "withdrawn"} THEN k.to ELSE "none"
    BY <1>0, <1>5, <1>a DEF UpdateWorkRequest, CallShape, RequestSteps, StillTrue
  <2>2. /\ wrStatus' = [wrStatus EXCEPT ![k.req] = k.to]
        /\ revisedFrom' = IF k.to = "changes_requested"
                          THEN [revisedFrom EXCEPT ![k.req] = k.seen[k.req]] ELSE revisedFrom
        /\ UNCHANGED <<application, listing, deleted, wrEngagement, engStatus>>
        /\ call'[c] = IF k.app = "none" THEN Idle ELSE [k EXCEPT !.step = "application"]
    BY <1>5, <1>b, <1>c DEF UpdateWorkRequest, listingVars, engVars, appVars
  <2>3. StillTrue(call[c])'
    <3>1. CASE k.app = "none"
      BY <1>d, <2>2, <3>1
    <3>2. CASE k.app # "none"
      <4>1. IsJob(k.req) /\ k.app = k.to /\ k.to \in {"rejected", "withdrawn"}
        BY <2>1, <3>2
      <4>2. QED
        BY <1>0, <2>1, <2>2, <3>2, <4>1 DEF StillTrue, CallType, Answers, IInv, TypeOK, IsJob
    <3>3. QED
      BY <3>1, <3>2
  <2>4. ASSUME NEW r \in Requests PROVE EngagementAgrees(r)' /\ RowsExist(r)'
    <3>1. EngagementAgrees(r)'
      BY <1>e, <2>1, <2>2, EngagementUnmoved DEF IInv, TypeOK, IsOpen
    <3>2. RowsExist(r)'
      <4>1. CASE r = k.req
        BY <1>e, <2>1, <2>2, <4>1
        DEF RowsExist, IInv, TypeOK, IsOpen, OpenRequestStatuses, RequestStatus, IsJob
      <4>2. CASE r # k.req
        BY <1>e, <2>1, <2>2, <4>2 DEF RowsExist, IInv, TypeOK, IsJob
      <4>3. QED
        BY <4>1, <4>2
    <3>3. QED
      BY <3>1, <3>2
  <2>5. ASSUME NEW r \in JobRequests PROVE JobAgrees(r, call[c])'
    <3>1. ApplicationAgrees(r) /\ (IsOpen(r) => ~LeftMarket(ListingOf[r]))
      BY <1>a, <2>1 DEF RowsAgree, JobAgrees
    <3>2. CASE r = k.req
      <4>1. CASE k.app = "none"
        <5>1. k.to \in OpenRequestStatuses
          BY <2>1, <3>2, <4>1 DEF JobRequests, IsJob, RequestStatus, OpenRequestStatuses
        <5>2. QED
          BY <2>1, <2>2, <3>1, <3>2, <5>1
          DEF JobAgrees, ApplicationAgrees, IsOpen, LeftMarket, OpenRequestStatuses, IInv, TypeOK
      <4>2. CASE k.app # "none"
        BY <1>0, <2>1, <2>2, <3>2, <4>2
        DEF JobAgrees, IsOpen, OpenRequestStatuses, CallType, IInv, TypeOK
      <4>3. QED
        BY <4>1, <4>2
    <3>3. CASE r # k.req
      BY <2>1, <2>2, <3>1, <3>3
      DEF JobAgrees, ApplicationAgrees, IsOpen, LeftMarket, IInv, TypeOK, JobRequests
    <3>4. QED
      BY <3>2, <3>3
  <2>6. QED
    BY <1>a, <2>3, <2>4, <2>5, Agreed
<1>6. CASE AcceptWorkRequestTransactional(c)
  <2>1. /\ k.req \in Requests /\ k.step = "accept"
        /\ IsJob(k.req) => application[k.req] = "accepted"
    BY <1>0, <1>6, <1>a DEF AcceptWorkRequestTransactional, CallShape, RequestSteps, StillTrue
  <2>2. \A r \in JobRequests : ApplicationAgrees(r) /\ (IsOpen(r) => ~LeftMarket(ListingOf[r]))
    BY <1>a, <2>1 DEF RowsAgree, JobAgrees
  <2>3. call'[c] = Idle /\ UNCHANGED <<listing, deleted, revisedFrom>>
    BY <1>6, <1>b DEF AcceptWorkRequestTransactional, listingVars
  <2>4. CASE ~StillAcceptable(k)
    BY <1>6, <1>a, <1>e, <2>2, <2>3, <2>4, IdleOK, KeepsRows
    DEF AcceptWorkRequestTransactional, StillTrue, rows, requestVars, engVars, appVars,
        listingVars
  <2>5. CASE StillAcceptable(k)
    <3>1. PICK e \in Engagements :
            /\ engStatus[e] = "none"
            /\ engStatus' = [engStatus EXCEPT ![e] = "pending_payment"]
            /\ wrEngagement' = [wrEngagement EXCEPT ![k.req] = e]
      BY <1>6, <2>5 DEF AcceptWorkRequestTransactional
    <3>2. /\ wrStatus' = [wrStatus EXCEPT ![k.req] = "pending_payment"]
          /\ application' = application
      <4>1. application[k.req] \notin OpenApplicationStatuses
        BY <1>e, <2>1 DEF RowsExist, OpenApplicationStatuses
      <4>2. QED
        BY <1>6, <2>5, <4>1 DEF AcceptWorkRequestTransactional
    <3>3. wrStatus[k.req] \in OpenRequestStatuses
      BY <2>5 DEF StillAcceptable, IsOpen
    <3>4. ASSUME NEW r \in Requests PROVE EngagementAgrees(r)' /\ RowsExist(r)'
      <4>1. EngagementAgrees(r)'
        <5>1. CASE r = k.req
          BY <3>1, <3>2, <5>1, ConstantsAssumption
          DEF EngagementAgrees, EngagementOf, IInv, TypeOK
        <5>2. CASE r # k.req
          <6>1. wrEngagement[r] # e
            BY <3>1, ConstantsAssumption DEF IInv, OneEngagementPerRequest
          <6>2. EngagementOf(r)' = EngagementOf(r) /\ wrStatus'[r] = wrStatus[r]
            BY <3>1, <3>2, <5>2, <6>1 DEF EngagementOf, IInv, TypeOK
          <6>3. QED
            BY <1>e, <6>2 DEF EngagementAgrees
        <5>3. QED
          BY <5>1, <5>2
      <4>2. RowsExist(r)'
        BY <1>e, <2>3, <3>2, <3>3 DEF RowsExist, OpenRequestStatuses, IInv, TypeOK, IsJob
      <4>3. QED
        BY <4>1, <4>2
    <3>5. ASSUME NEW r \in JobRequests PROVE JobAgrees(r, call[c])'
      <4>1. CASE r = k.req
        BY <2>1, <2>3, <3>2, <4>1
        DEF JobAgrees, ApplicationAgrees, LeftMarket, IsOpen, OpenRequestStatuses, IInv, TypeOK,
            JobRequests, IsJob
      <4>2. CASE r # k.req
        BY <2>2, <2>3, <3>2, <4>2
        DEF JobAgrees, ApplicationAgrees, IsOpen, LeftMarket, IInv, TypeOK, JobRequests
      <4>3. QED
        BY <4>1, <4>2
    <3>6. QED
      BY <1>a, <1>d, <2>3, <3>4, <3>5, Agreed
  <2>6. QED
    BY <2>4, <2>5
<1>7. CASE WithdrawPendingPaymentTransactional(c)
  <2>1. /\ k.req \in Requests /\ k.step = "withdrawPending"
        /\ wrEngagement[k.req] \in Engagements
        /\ IsJob(k.req) => k.app = "withdrawn"
    BY <1>0, <1>7, <1>a
    DEF WithdrawPendingPaymentTransactional, CallShape, RequestSteps, StillTrue, IInv, CallsOK,
        CallFacts, TypeOK
  <2>2. \A r \in JobRequests : ApplicationAgrees(r) /\ (IsOpen(r) => ~LeftMarket(ListingOf[r]))
    BY <1>a, <2>1 DEF RowsAgree, JobAgrees
  <2>3. /\ call'[c] = Idle
        /\ UNCHANGED <<listing, deleted, revisedFrom, wrEngagement>>
    BY <1>7, <1>b DEF WithdrawPendingPaymentTransactional, listingVars
  <2>4. CASE ~StillPending(k.req)
    BY <1>7, <1>a, <1>e, <2>2, <2>3, <2>4, IdleOK, KeepsRows
    DEF WithdrawPendingPaymentTransactional, StillTrue, rows, requestVars, engVars, appVars,
        listingVars
  <2>5. CASE StillPending(k.req)
    <3>1. /\ wrStatus[k.req] = "pending_payment"
          /\ wrStatus' = [wrStatus EXCEPT ![k.req] = "withdrawn"]
          /\ engStatus' = [engStatus EXCEPT ![wrEngagement[k.req]] = "cancelled"]
          /\ application' = IF /\ k.app = "withdrawn"
                               /\ application[k.req] \in OpenApplicationStatuses \cup {"accepted"}
                            THEN [application EXCEPT ![k.req] = "withdrawn"] ELSE application
      BY <1>7, <2>5 DEF WithdrawPendingPaymentTransactional, StillPending
    <3>2. ASSUME NEW r \in Requests PROVE EngagementAgrees(r)' /\ RowsExist(r)'
      <4>1. EngagementAgrees(r)'
        <5>1. CASE r = k.req
          BY <2>1, <2>3, <3>1, <5>1, ConstantsAssumption
          DEF EngagementAgrees, EngagementOf, IInv, TypeOK
        <5>2. CASE r # k.req
          <6>1. wrEngagement[r] # None => wrEngagement[r] # wrEngagement[k.req]
            BY <2>1, <5>2, ConstantsAssumption DEF IInv, OneEngagementPerRequest
          <6>2. EngagementOf(r)' = EngagementOf(r) /\ wrStatus'[r] = wrStatus[r]
            BY <2>1, <2>3, <3>1, <5>2, <6>1 DEF EngagementOf, IInv, TypeOK
          <6>3. QED
            BY <1>e, <6>2 DEF EngagementAgrees
        <5>3. QED
          BY <5>1, <5>2
      <4>2. RowsExist(r)'
        BY <1>e, <2>3, <3>1
        DEF RowsExist, OpenApplicationStatuses, IInv, TypeOK, IsJob
      <4>3. QED
        BY <4>1, <4>2
    <3>3. ASSUME NEW r \in JobRequests PROVE JobAgrees(r, call[c])'
      <4>1. CASE r = k.req
        <5>1. application[r] = "accepted" /\ k.app = "withdrawn"
          BY <2>1, <2>2, <3>1, <4>1 DEF ApplicationAgrees, JobRequests, IsJob
        <5>2. QED
          BY <2>1, <2>3, <3>1, <4>1, <5>1
          DEF JobAgrees, ApplicationAgrees, IsOpen, OpenRequestStatuses, IInv, TypeOK
      <4>2. CASE r # k.req
        BY <2>2, <2>3, <3>1, <4>2
        DEF JobAgrees, ApplicationAgrees, IsOpen, LeftMarket, IInv, TypeOK, JobRequests
      <4>3. QED
        BY <4>1, <4>2
    <3>4. QED
      BY <1>a, <1>d, <2>3, <3>2, <3>3, Agreed
  <2>6. QED
    BY <2>4, <2>5
<1>8. CASE UpdateListing(c)
  <2>1. /\ k.lst \in Listings /\ k.step = "listing" /\ k.to \in {"open", "archived", "closed"}
    BY <1>0, <1>8, <1>a DEF UpdateListing, CallShape, ListingSteps, StillTrue
  <2>2. \A r \in JobRequests : ApplicationAgrees(r) /\ (IsOpen(r) => ~LeftMarket(ListingOf[r]))
    BY <1>a, <2>1 DEF RowsAgree, JobAgrees
  <2>3. CASE k.lst \in deleted
    BY <1>8, <1>a, <1>b, <1>e, <2>2, <2>3, IdleOK, KeepsRows
    DEF UpdateListing, StillTrue, rows, listingVars
  <2>4. CASE k.lst \notin deleted
    <3>1. /\ listing' = [listing EXCEPT ![k.lst] = k.to]
          /\ UNCHANGED <<deleted, requestVars, engVars, appVars>>
          /\ call'[c] = IF k.to = "open" THEN Idle ELSE [k EXCEPT !.step = "scan"]
      BY <1>8, <1>b, <1>c, <2>1, <2>4 DEF UpdateListing, AfterListingUpdate
    <3>2. StillTrue(call[c])'
      BY <1>0, <3>1, IdleOK DEF StillTrue, CallType
    <3>3. \A r \in Requests : EngagementAgrees(r)' /\ RowsExist(r)'
      BY <1>e, <3>1
      DEF EngagementAgrees, RowsExist, requestVars, engVars, appVars, EngagementOf
    <3>4. ASSUME NEW r \in JobRequests PROVE JobAgrees(r, call[c])'
      <4>1. ApplicationAgrees(r)'
        BY <2>2, <3>1 DEF ApplicationAgrees, requestVars, appVars
      <4>2. CASE ListingOf[r] = k.lst
        BY <1>0, <2>1, <2>4, <3>1, <4>1, <4>2
        DEF JobAgrees, LeftMarket, IInv, TypeOK, CallType
      <4>3. CASE ListingOf[r] # k.lst
        BY <2>2, <3>1, <4>1, <4>3
        DEF JobAgrees, LeftMarket, IsOpen, IInv, TypeOK, requestVars
      <4>4. QED
        BY <4>2, <4>3
    <3>5. QED
      BY <1>a, <3>2, <3>3, <3>4, Agreed
  <2>5. QED
    BY <2>3, <2>4
<1>9. CASE ScanOpenWorkRequests(c)
  <2> DEFINE open == {r \in Requests : ListingOf[r] = k.lst /\ IsOpen(r)}
  <2>1. /\ k.lst \in Listings /\ k.step = "scan"
        /\ UNCHANGED rows
    BY <1>0, <1>9 DEF ScanOpenWorkRequests, CallShape, ListingSteps, rows
  <2>2. call'[c] = [k EXCEPT !.step = "rejectOpen", !.seen = Seen(open)]
    BY <1>9 DEF ScanOpenWorkRequests, IInv, TypeOK
  <2>3. \A r \in Requests : Seen(open)[r] # "none" <=> ListingOf[r] = k.lst /\ IsOpen(r)
    BY DEF Seen, IsOpen, OpenRequestStatuses
  <2>4. StillTrue(call[c])'
    BY <1>0, <2>1, <2>2, <2>3
    DEF StillTrue, CallType, rows, requestVars, IsOpen
  <2>5. \A r \in Requests : EngagementAgrees(r)' /\ RowsExist(r)'
    BY <1>e, <2>1
    DEF rows, EngagementAgrees, RowsExist, requestVars, engVars, appVars, EngagementOf
  <2>6. ASSUME NEW r \in JobRequests PROVE JobAgrees(r, call[c])'
    BY <1>0, <1>a, <2>1, <2>2
    DEF RowsAgree, JobAgrees, ApplicationAgrees, IsOpen, LeftMarket, rows, requestVars, appVars,
        listingVars, CallType
  <2>7. QED
    BY <1>a, <2>4, <2>5, <2>6, Agreed
<1>10. CASE RejectOpenWorkRequestsForListing(c)
  <2>1. /\ k.lst \in Listings /\ k.step = "rejectOpen"
        /\ \A r \in Requests : k.seen[r] # "none" <=> ListingOf[r] = k.lst /\ IsOpen(r)
    BY <1>0, <1>10, <1>a
    DEF RejectOpenWorkRequestsForListing, CallShape, ListingSteps, StillTrue
  <2>2. /\ \A r \in Requests :
             /\ wrStatus'[r] = IF k.seen[r] # "none" THEN "rejected" ELSE wrStatus[r]
             /\ application'[r] =
                  IF k.seen[r] # "none" /\ application[r] \in OpenApplicationStatuses
                  THEN "rejected" ELSE application[r]
        /\ UNCHANGED <<listing, deleted, revisedFrom, wrEngagement, engStatus>>
        /\ call'[c] = IF k.to = "deleted" THEN [k EXCEPT !.step = "deleteListing"] ELSE Idle
    BY <1>10, <1>b, <1>c DEF RejectOpenWorkRequestsForListing, listingVars, engVars
  <2>3. \A r \in Requests : ListingOf[r] = k.lst => ~IsOpen(r)'
    BY <2>1, <2>2 DEF IsOpen, OpenRequestStatuses
  <2>4. StillTrue(call[c])'
    BY <1>0, <2>2, <2>3, IdleOK DEF StillTrue, CallType, IsOpen
  <2>5. ASSUME NEW r \in Requests PROVE EngagementAgrees(r)' /\ RowsExist(r)'
    <3>1. EngagementAgrees(r)'
      BY <1>e, <2>1, <2>2, EngagementUnmoved DEF IsOpen
    <3>2. RowsExist(r)'
      BY <1>e, <2>1, <2>2
      DEF RowsExist, IsJob, IsOpen, OpenRequestStatuses, OpenApplicationStatuses
    <3>3. QED
      BY <3>1, <3>2
  <2>6. ASSUME NEW r \in JobRequests PROVE JobAgrees(r, call[c])'
    <3>0. r \in Requests
      BY DEF JobRequests
    <3>1. ApplicationAgrees(r)
      BY <1>a, <2>1 DEF RowsAgree, JobAgrees
    <3>2. ApplicationAgrees(r)'
      BY <2>1, <2>2, <3>0, <3>1
      DEF ApplicationAgrees, IsOpen, OpenRequestStatuses, OpenApplicationStatuses
    <3>3. IsOpen(r)' => ~LeftMarket(ListingOf[r])'
      BY <1>a, <2>1, <2>2, <2>3, <3>0 DEF RowsAgree, JobAgrees, IsOpen, LeftMarket
    <3>4. QED
      BY <3>2, <3>3 DEF JobAgrees
  <2>7. QED
    BY <1>a, <2>4, <2>5, <2>6, Agreed
<1>11. CASE DeleteListing(c)
  <2>1. /\ k.lst \in Listings /\ k.step = "deleteListing"
        /\ \A r \in Requests : ListingOf[r] = k.lst => ~IsOpen(r)
    BY <1>0, <1>11, <1>a DEF DeleteListing, CallShape, ListingSteps, StillTrue
  <2>2. /\ deleted' = deleted \cup {k.lst} /\ call'[c] = Idle
        /\ UNCHANGED <<listing, requestVars, engVars, appVars>>
    BY <1>11, <1>b DEF DeleteListing
  <2>3. \A r \in Requests : EngagementAgrees(r)' /\ RowsExist(r)'
    BY <1>e, <2>2
    DEF EngagementAgrees, RowsExist, requestVars, engVars, appVars, EngagementOf
  <2>4. ASSUME NEW r \in JobRequests PROVE JobAgrees(r, call[c])'
    BY <1>a, <2>1, <2>2
    DEF RowsAgree, JobAgrees, ApplicationAgrees, IsOpen, LeftMarket, requestVars, appVars,
        JobRequests
  <2>5. QED
    BY <1>a, <1>d, <2>2, <2>3, <2>4, Agreed
<1>12. QED
  BY <1>1, <1>2, <1>3, <1>4, <1>5, <1>6, <1>7, <1>8, <1>9, <1>10, <1>11 DEF RepositoryStep
\* A new direct request touches no row a call in flight has read.
LEMMA CreationSerially ==
  ASSUME IInv, NEW c \in Calls, Serially(c), NEW r \in Requests, CreateWorkRequest(r)
  PROVE  Serially(c)'
<1> DEFINE k == call[c]
<1>1. /\ ListingOf[r] = None /\ wrStatus[r] = "none"
      /\ wrStatus' = [wrStatus EXCEPT ![r] = "pending"]
      /\ UNCHANGED <<revisedFrom, wrEngagement, engStatus, listing, deleted, application, call>>
  BY DEF CreateWorkRequest, IsJob, listingVars, engVars, appVars
<1>2. /\ k.step \in RequestSteps => k.req \in Requests
      /\ k.step \in ListingSteps => k.lst \in Listings
  BY DEF IInv, CallsOK, CallShape
<1>3. \A q \in Requests : q # r => wrStatus'[q] = wrStatus[q]
  BY <1>1 DEF IInv, TypeOK
<1>4. StillTrue(k)'
  <2>1. StillTrue(k)
    BY DEF Serially
  <2>2. k.step = "update" => k.req # r
    BY <1>1, <2>1 DEF StillTrue, IsOpen, OpenRequestStatuses
  <2>3. k.step = "application" => k.req # r
    BY <1>1, <2>1 DEF StillTrue, IsJob
  <2>4. k.step \in {"rejectOpen", "deleteListing"} => k.lst # None
    BY <1>2, ConstantsAssumption DEF ListingSteps
  <2>5. QED
    BY <1>1, <1>2, <1>3, <2>1, <2>2, <2>3, <2>4
    DEF StillTrue, LeftMarket, IsOpen, IsJob, RequestSteps
<1>5. ASSUME NEW q \in Requests PROVE EngagementAgrees(q)' /\ RowsExist(q)'
  <2>1. EngagementAgrees(q) /\ RowsExist(q)
    BY DEF Serially, RowsAgree
  <2>2. EngagementAgrees(q)'
    BY <1>1, <1>3, <2>1, EngagementUnmoved DEF IInv, TypeOK
  <2>3. RowsExist(q)'
    BY <1>1, <1>3, <2>1 DEF RowsExist, IsJob, IInv, TypeOK
  <2>4. QED
    BY <2>2, <2>3
<1>6. ASSUME NEW q \in JobRequests PROVE JobAgrees(q, k)'
  BY <1>1, <1>3
  DEF Serially, RowsAgree, JobAgrees, ApplicationAgrees, IsOpen, LeftMarket, JobRequests
<1>7. QED
  BY <1>1, <1>4, <1>5, <1>6, Agreed DEF Serially

\* An engagement that moves on is neither struck nor called off by it.
LEMMA EngagementSerially ==
  ASSUME IInv, DealInv, NEW c \in Calls, Serially(c), NEW e \in Engagements,
         NEW to \in EngagementStatus, StartWork(e) \/ TransitionEngagement(e, to)
  PROVE  Serially(c)'
<1>1. UNCHANGED <<requestVars, listingVars, appVars, call>>
  BY DEF StartWork, TransitionEngagement
<1>2. /\ engStatus[e] \notin {"none", "cancelled"} /\ engStatus'[e] \notin {"none", "cancelled"}
      /\ \A f \in Engagements : f # e => engStatus'[f] = engStatus[f]
  <2>1. CASE StartWork(e)
    BY <2>1 DEF StartWork, IInv, TypeOK
  <2>2. CASE TransitionEngagement(e, to)
    <3>1. engStatus[e] \in StartedStatus
      BY <2>2, NoMoveFromNone DEF TransitionEngagement, DealInv
    <3>2. engStatus' = [engStatus EXCEPT ![e] = to] /\ to # "none" /\ to # "cancelled"
            /\ engStatus[e] # "cancelled"
      BY <2>2, <3>1, PartyMoves DEF TransitionEngagement
    <3>3. QED
      BY <3>1, <3>2 DEF StartedStatus, IInv, TypeOK
  <2>3. QED
    BY <2>1, <2>2
<1>3. StillTrue(call[c])'
  BY <1>1 DEF Serially, StillTrue, LeftMarket, IsOpen, IsJob, Answers, requestVars, listingVars,
              appVars
<1>4. ASSUME NEW r \in Requests PROVE EngagementAgrees(r)' /\ RowsExist(r)'
  BY <1>1, <1>2, ConstantsAssumption
  DEF Serially, RowsAgree, EngagementAgrees, EngagementOf, RowsExist, IInv, TypeOK, requestVars,
      appVars
<1>5. ASSUME NEW r \in JobRequests PROVE JobAgrees(r, call[c])'
  BY <1>1
  DEF Serially, RowsAgree, JobAgrees, ApplicationAgrees, IsOpen, LeftMarket, requestVars,
      listingVars, appVars
<1>6. QED
  BY <1>3, <1>4, <1>5, Agreed DEF Serially

\* Without a crash and with one call at a time, every step keeps the rows in agreement.
LEMMA NextSerially ==
  ASSUME IInv, DealInv, NEW c \in Calls, Serially(c), [Next]_vars
  PROVE  Serially(c)'
<1>1. ASSUME NEW d \in Calls PROVE d = c
  BY DEF Serially, Alone
<1>2. CASE UNCHANGED vars
  BY <1>2
  DEF vars, Serially, Alone, StillTrue, RowsAgree, JobAgrees, ApplicationAgrees, IsOpen, IsJob,
      LeftMarket, Answers, EngagementAgrees, EngagementOf, RowsExist, requestVars, listingVars,
      engVars, appVars
<1>3. ASSUME NEW d \in Calls, ServiceStep(d) \/ RepositoryStep(d) PROVE Serially(c)'
  BY <1>1, <1>3, ServiceSerially, RepositorySerially
<1>4. ASSUME NEW d \in Calls PROVE ~Crash(d)
  BY DEF Crash, Serially, Alone
<1>5. QED
  BY <1>2, <1>3, <1>4, CreationSerially, EngagementSerially DEF Next, EngagementStatus

\* Initially so, and kept by every step.
SerialInv == HandlersRunAlone /\ \E c \in Calls : Serially(c)

LEMMA SerialInductive ==
  /\ HandlersRunAlone /\ Init => SerialInv
  /\ SerialInv /\ IInv /\ DealInv /\ [Next]_vars => SerialInv'
<1>1. ASSUME HandlersRunAlone, Init PROVE SerialInv
  <2>1. PICK c \in Calls : Alone(c)
    BY <1>1 DEF HandlersRunAlone, Alone
  <2>2. StillTrue(call[c])
    BY <1>1, IdleOK DEF Init, StillTrue
  <2>3. \A r \in Requests : EngagementAgrees(r) /\ RowsExist(r)
    BY <1>1, ConstantsAssumption DEF Init, EngagementAgrees, EngagementOf, RowsExist, IsJob
  <2>4. \A r \in JobRequests : JobAgrees(r, call[c])
    BY <1>1 DEF Init, JobAgrees, ApplicationAgrees, IsOpen, OpenRequestStatuses, JobRequests
  <2>5. QED
    BY <1>1, <2>1, <2>2, <2>3, <2>4 DEF SerialInv, Serially, RowsAgree
<1>2. ASSUME SerialInv, IInv, DealInv, [Next]_vars PROVE SerialInv'
  BY <1>2, NextSerially DEF SerialInv, HandlersRunAlone
<1>3. QED
  BY <1>1, <1>2

\* Both invariants hold throughout.
LEMMA SerialSpec == HandlersRunAlone /\ Spec => [](IInv /\ SerialInv)
<1>1. Init => DealInv
  BY DEF Init, DealInv
<1>2. IInv /\ DealInv /\ [Next]_vars => DealInv'
  BY NextDealInv
<1>3. QED
  BY <1>1, <1>2, IInvInductive, SerialInductive, PTL DEF Spec

\* With any number of requests, listings and engagements, a request is pending payment
\* exactly while its engagement is alive, and withdrawn when it was called off.
THEOREM RequestsTrackEngagements == HandlersRunAlone /\ Spec => []RequestTracksEngagement
<1>1. SerialInv => RequestTracksEngagement
  BY DEF SerialInv, Serially, RowsAgree, EngagementAgrees, RequestTracksEngagement
<1>2. QED
  BY <1>1, SerialSpec, PTL

\* An application and its request are withdrawn together, and neither awaits an answer
\* that the other has had.
THEOREM ApplicationsTrackRequests == HandlersRunAlone /\ Spec => []ApplicationTracksRequest
<1>1. SerialInv => ApplicationTracksRequest
  BY IdleOK
  DEF SerialInv, Serially, RowsAgree, JobAgrees, ApplicationAgrees, ApplicationTracksRequest,
      Quiet
<1>2. QED
  BY <1>1, SerialSpec, PTL

\* A listing that left the open marketplace has no open request.
THEOREM ClosedListingsHaveNoOpenRequest ==
  HandlersRunAlone /\ Spec => []NoOpenRequestOnClosedListing
<1>1. SerialInv => NoOpenRequestOnClosedListing
  BY IdleOK
  DEF SerialInv, Serially, RowsAgree, JobAgrees, LeftMarket, NoOpenRequestOnClosedListing, Quiet
<1>2. QED
  BY <1>1, SerialSpec, PTL

\* A change request that is withdrawn hands the turn back where it was.
THEOREM CancelsRestoreTheTurn == HandlersRunAlone /\ Spec => []CancelRestoresTurn
<1>1. SerialInv => CancelRestoresTurn
  BY DEF SerialInv, Serially, RowsAgree, RowsExist, CancelRestoresTurn
<1>2. QED
  BY <1>1, SerialSpec, PTL
====
