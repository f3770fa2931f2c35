---- MODULE Records ----
(***************************************************************************)
(* The parts of the API around the marketplace.  Media, reviews and        *)
(* invoices share the assets; all that go through the database share the   *)
(* call slots; the others share nothing.  "served" is the part that takes  *)
(* requests in a behaviour: where the state is disjoint, a behaviour of    *)
(* several parts is a behaviour of each with steps of the others in        *)
(* between (the assets of clients and of invoices are disjoint, as         *)
(* MediaPurpose.invoice is refused to clients).                            *)
(***************************************************************************)
EXTENDS Reviews, Invoices, Accounts, Posts, Lists, Offerings, SigningKeys, RateLimit, Terms,
        Jobs, Skills, Labels, Discovery, Attachments, SignedUrls, Unread, Operations

VARIABLE served

records == <<media, reviewing, invoicing>>
people == <<accounts, posting, offering>>
market == <<jobs, skilled, labelling, discovering>>
files == <<filing, signing, unreadVars, operating>>
alone == <<feeding, walking, keysVars, rating, terms>>
vars == <<records, people, market, files, alone, call, served>>

Parts == {"reviews", "invoices", "accounts", "posts", "feed", "offerings", "keys", "rate",
          "terms", "jobs", "skills", "labels", "discovery", "lists", "attachments", "urls",
          "unread", "operations"}

Init ==
  /\ SlotsInit /\ MediaInit /\ ReviewsInit /\ InvoicesInit /\ AccountsInit /\ PostsInit
  /\ FeedInit /\ OfferingsInit /\ KeysInit /\ RateInit /\ TermsInit
  /\ JobsInit /\ SkillsInit /\ LabelsInit /\ DiscoveryInit /\ ListsInit
  /\ AttachmentsInit /\ SignedUrlsInit /\ UnreadInit /\ OperationsInit
  /\ served \in Parts

\* The step of one part leaves the others alone; those without calls leave the slots alone.
ReviewsPart == served = "reviews" /\ ReviewsStep
RecordsNext ==
  \/ ReviewsPart /\ UNCHANGED invoicing
  \/ served = "invoices" /\ InvoicesNext /\ UNCHANGED reviewing
PeopleNext ==
  \/ served = "accounts" /\ AccountsNext /\ UNCHANGED <<posting, offering>>
  \/ served = "posts" /\ PostsNext /\ UNCHANGED <<accounts, offering>>
  \/ served = "offerings" /\ OfferingsNext /\ UNCHANGED <<accounts, posting>>
MarketNext ==
  \/ served = "jobs" /\ JobsNext /\ UNCHANGED <<skilled, labelling, discovering>>
  \/ served = "skills" /\ SkillsNext /\ UNCHANGED <<jobs, labelling, discovering>>
  \/ served = "labels" /\ LabelsNext /\ UNCHANGED <<jobs, skilled, discovering>>
  \/ served = "discovery" /\ DiscoveryNext /\ UNCHANGED <<jobs, skilled, labelling>>
FilesNext ==
  \/ served = "attachments" /\ AttachmentsNext /\ UNCHANGED <<signing, unreadVars, operating>>
  \/ served = "urls" /\ SignedUrlsNext /\ UNCHANGED <<filing, unreadVars, operating>>
  \/ served = "unread" /\ UnreadNext /\ UNCHANGED <<filing, signing, operating>>
  \/ served = "operations" /\ OperationsNext /\ UNCHANGED <<filing, signing, unreadVars>>
AloneNext ==
  \/ served = "feed" /\ FeedNext /\ UNCHANGED <<walking, keysVars, rating, terms>>
  \/ served = "lists" /\ ListsNext /\ UNCHANGED <<feeding, keysVars, rating, terms>>
  \/ served = "keys" /\ KeysNext /\ UNCHANGED <<feeding, walking, rating, terms>>
  \/ served = "rate" /\ RateNext /\ UNCHANGED <<feeding, walking, keysVars, terms>>
  \/ served = "terms" /\ TermsNext /\ UNCHANGED <<feeding, walking, keysVars, rating>>

Next ==
  /\ \/ RecordsNext /\ UNCHANGED <<people, market, files, alone>>
     \/ PeopleNext /\ UNCHANGED <<records, market, files, alone>>
     \/ MarketNext /\ UNCHANGED <<records, people, files, alone>>
     \/ FilesNext /\ UNCHANGED <<records, people, market, alone>>
     \/ AloneNext /\ UNCHANGED <<records, people, market, files, call>>
  /\ UNCHANGED served

Spec == Init /\ [][Next]_vars

\* Every variable keeps its type.
TypeOK ==
  /\ MediaTypeOK /\ ReviewsTypeOK /\ InvoicesTypeOK /\ AccountsTypeOK /\ OfferingsTypeOK
  /\ KeysTypeOK

\* A file that is called ready is one that storage holds as declared, and the files of a work
\* request keep to their limit and stand once delivered (completeUpload,
\* addWorkRequestAttachment, removeWorkRequestAttachment).
FilesHold == ReadyWasStored /\ AttachmentsHold

\* What the two caches give out lasts, or is as new as it says: signed URLs and the cards of
\* the staff portal (createSignedReadUrl, OperationsService.cached).
CachesLast == UrlsLast /\ CardsHold
====
