---- MODULE Jobs ----
(***************************************************************************)
(* One job listing as its readers see it: content, publication, catalog,   *)
(* saved list and detail, of marketplace.service.ts, listing-pricing.ts,   *)
(* listing-visibility.ts and saved-job.query.ts.  What becomes of requests *)
(* and applications is the subject of WorkRequests; here only whether a    *)
(* user has applied counts, and applications are never deleted.            *)
(*                                                                         *)
(* A listing's price is its four columns; 0 stands for null.  Title, text, *)
(* category and skills (Taxonomy) are left out.                            *)
(***************************************************************************)
EXTENDS Naturals, FiniteSets, Slots, MarketStates

CONSTANTS
  Poster, Seekers,   \* the owner of the listing, the other users
  Prices             \* amounts a client may send, 0 among them

PricingTypes == {"fixed", "range", "negotiable"}

ASSUME JobsAssumption ==
  /\ Poster \notin Seekers /\ 0 \in Prices /\ Prices \subseteq Nat
  /\ None \notin Prices /\ None \notin PricingTypes

VARIABLES
  job,       \* status, deleted, posted (has posted_at) and price
  applied,   \* seekers with an application
  jobSaves   \* users who saved it

jobs == <<job, applied, jobSaves>>

JobReaders == Seekers \cup {Poster}
Pricing == [type : PricingTypes, fixed : Prices, min : Prices, max : Prices]
Negotiable == [type |-> "negotiable", fixed |-> 0, min |-> 0, max |-> 0]

JobsInit ==
  /\ job = [status |-> "none", deleted |-> FALSE, posted |-> FALSE, price |-> Negotiable]
  /\ applied = {} /\ jobSaves = {}

JobThere == job.status # "none" /\ ~job.deleted

----
(* Prices. *)

\* resolveListingPricing refuses what does not fit the type, and clears what the type has no
\* use for.
Accepts(p) ==
  CASE p.type = "fixed" -> p.fixed > 0
    [] p.type = "range" -> p.min > 0 /\ p.max >= p.min
    [] OTHER -> TRUE
Resolved(p) ==
  CASE p.type = "fixed" -> [p EXCEPT !.min = 0, !.max = 0]
    [] p.type = "range" -> [p EXCEPT !.fixed = 0]
    [] OTHER -> Negotiable

\* What an edit sends to the row, None for a column it leaves as it is: all four columns, made
\* of the fields sent and those read, or none when no field is sent.
FieldsOnly(sent, merged) ==
  [f \in DOMAIN sent |-> IF sent[f] = None THEN None ELSE Resolved(merged)[f]]
Repriced(sent, merged) ==
  IF \A f \in DOMAIN sent : sent[f] = None THEN sent ELSE Resolved(merged)
Overlay(current, sent) ==
  [f \in DOMAIN current |-> IF sent[f] = None THEN current[f] ELSE sent[f]]

----
(* Handlers. *)
CreateListing ==
  /\ job.status = "none"
  /\ \E p \in Pricing, publish \in BOOLEAN :
       /\ Accepts(p)
       /\ job' = [status |-> IF publish THEN "open" ELSE "draft", deleted |-> FALSE,
                  posted |-> publish, price |-> Resolved(p)]
  /\ UNCHANGED <<applied, jobSaves, call>>

\* updateListing: the fields sent over those of the row as it was read.
UpdateListing(c) ==
  /\ JobThere /\ job.status \notin {"completed", "expired"}
  /\ \E sent \in [type : PricingTypes \cup {None}, fixed : Prices \cup {None},
                  min : Prices \cup {None}, max : Prices \cup {None}] :
       LET merged == Overlay(job.price, sent) IN
       /\ Accepts(merged)
       /\ Begin(c, [step |-> "editJob", price |-> Repriced(sent, merged)])
  /\ UNCHANGED jobs
WriteListing(c) ==
  /\ At(c, "editJob")
  /\ job' = IF job.deleted THEN job ELSE [job EXCEPT !.price = Overlay(@, call[c].price)]
  /\ Finish(c) /\ UNCHANGED <<applied, jobSaves>>

\* transitionListing; a listing is posted when it first opens.
TransitionListing(c) ==
  /\ JobThere
  /\ \E to \in ListingTransitions(job.status) :
       Begin(c, [step |-> "moveJob", to |-> to, posts |-> to = "open" /\ ~job.posted])
  /\ UNCHANGED jobs
MoveListing(c) ==
  /\ At(c, "moveJob")
  /\ job' = IF job.deleted THEN job
            ELSE [job EXCEPT !.status = call[c].to, !.posted = @ \/ call[c].posts]
  /\ Finish(c) /\ UNCHANGED <<applied, jobSaves>>
SoftDeleteListing ==
  /\ JobThere /\ job' = [job EXCEPT !.deleted = TRUE] /\ UNCHANGED <<applied, jobSaves, call>>

\* canReadListing, of a listing that is not deleted: the rule of detail reads.
ClosedFamily == {"closed", "in_progress", "completed", "expired"}
CanReadListing(u) ==
  \/ u = Poster \/ job.status = "open"
  \/ job.status \notin {"draft", "archived"} /\ u \in applied
GetListing(u) == JobThere /\ CanReadListing(u)

\* apply, up to its insert, which the unique key allows once.
Apply(c, u) ==
  /\ GetListing(u) /\ u # Poster /\ job.status = "open" /\ u \notin applied
  /\ Begin(c, [step |-> "apply", who |-> u]) /\ UNCHANGED jobs
CreateApplication(c) ==
  /\ At(c, "apply") /\ applied' = applied \cup {call[c].who}
  /\ Finish(c) /\ UNCHANGED <<job, jobSaves>>

\* saveJob; unsaveJob asks for nothing.
CanSaveJob(u) ==
  /\ ~job.deleted
  /\ \/ job.status = "open"
     \/ job.status \in ClosedFamily /\ (u = Poster \/ u \in applied)
SaveJob(c, u) ==
  /\ CanSaveJob(u) /\ Begin(c, [step |-> "saveJob", who |-> u]) /\ UNCHANGED jobs
CreateJobSave(c) ==
  /\ At(c, "saveJob") /\ jobSaves' = jobSaves \cup {call[c].who}
  /\ Finish(c) /\ UNCHANGED <<job, applied>>
UnsaveJob(u) == jobSaves' = jobSaves \ {u} /\ UNCHANGED <<job, applied, call>>

\* savedJobWhere, which filters the saved list.
ListSavedJobs(u) ==
  /\ u \in jobSaves /\ ~job.deleted
  /\ \/ job.status = "open"
     \/ job.status \in ClosedFamily /\ (u = Poster \/ u \in applied)

\* listListings of one status: of all but open only the caller's own.
CallerScopedUnlessClosed(status) == status \in {"draft", "archived"}
CallerScoped(status) == status \in ListingStatus \ {"open"}
ListListings(u, status) ==
  JobThere /\ job.status = status /\ (CallerScoped(status) => u = Poster)

JobsNext ==
  \/ CreateListing \/ SoftDeleteListing
  \/ \E u \in JobReaders : UnsaveJob(u)
  \/ \E c \in Calls :
       \/ UpdateListing(c) \/ WriteListing(c) \/ TransitionListing(c) \/ MoveListing(c)
       \/ CreateApplication(c) \/ CreateJobSave(c)
       \/ \E u \in JobReaders : Apply(c, u) \/ SaveJob(c, u)

----
\* "One rule for list scoping and detail reads": whoever finds the listing in the catalog or
\* in a saved list can open it ("Narrower than canReadListing"), and what could be saved now
\* and was saved before is in the saved list, whatever became of the listing in between.
JobListsAgree ==
  \A u \in JobReaders :
    /\ \A status \in ListingStatus : ListListings(u, status) => GetListing(u)
    /\ ListSavedJobs(u) => GetListing(u)
    /\ u \in jobSaves /\ JobThere /\ CanSaveJob(u) => ListSavedJobs(u)

\* The four price columns always make one price, so that a fixed listing has an amount to be
\* agreed on, however edits that change some of them overlap ("Amounts irrelevant to the
\* chosen type are cleared"); and an open listing has a date of posting.
ListingIsWhole ==
  /\ Accepts(job.price) /\ Resolved(job.price) = job.price
  /\ job.status = "open" => job.posted

\* Readers and writers of a listing hold to one rule each, of visibility and of price.
ListingsHold == JobListsAgree /\ ListingIsWhole
====
