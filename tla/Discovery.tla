---- MODULE Discovery ----
(***************************************************************************)
(* What visitors and members are shown of one user: profile, services,     *)
(* posts, jobs and projects, through public.service.ts for guests and      *)
(* explore.service.ts for members.  Many answers take two reads: one that  *)
(* finds (a search, or the check of the owner) and one that loads the      *)
(* rows, and the user may hide, change or lose everything in between.      *)
(*                                                                         *)
(* Queries are left out, as are order and paging: a search finds any of    *)
(* the items that are shown.  "seen" is a history variable of the call.    *)
(***************************************************************************)
EXTENDS Naturals, Slots

CONSTANTS
  ItemsShown,      \* the user's items, "profile" among them
  MaxTexts         \* bound on the texts of an item

ASSUME DiscoveryAssumption == "profile" \in ItemsShown /\ MaxTexts \in Nat

VARIABLES
  standing,    \* the user's account_status
  item         \* of each item whether it is published, and its text

discovering == <<standing, item>>

DiscoveryInit ==
  /\ standing = "ACTIVE"
  /\ item = [i \in ItemsShown |-> [shown |-> i = "profile", text |-> 0]]

\* discoverableUserWhere: guests see active users; members all that are not deleted.
Discoverable(a, status) == a = "guest" => status = "ACTIVE"

\* The filters of public.repository.ts: published services, public posts, open jobs, projects
\* that are not deleted; those of explore have the same for services.
Shown(a, status, row) == Discoverable(a, status) /\ row.shown

\* Every step of the user adds what can then be seen to the requests under way.
CanBeSeen(a, status, rows) ==
  {<<i, rows[i].text>> : i \in {j \in ItemsShown : Shown(a, status, rows[j])}}
Reading(c) == call[c].step \in {"found", "shown"}
Watched ==
  call' = [c \in Calls |->
             IF Reading(c)
             THEN [call[c] EXCEPT !.seen = @ \cup CanBeSeen(call[c].audience, standing', item')]
             ELSE call[c]]

\* publish, unpublish, close, reopen, delete: the handlers of Offerings, Posts and Jobs.
SwitchItem(i) ==
  /\ i # "profile" /\ item' = [item EXCEPT ![i].shown = ~@] /\ UNCHANGED standing
EditShown(i) ==
  /\ item[i].text < MaxTexts
  /\ item' = [item EXCEPT ![i].text = @ + 1] /\ UNCHANGED standing
\* changeAccountStatus (Staff).
ChangeStanding ==
  standing' \in {"ACTIVE", "SUSPENDED"} \ {standing} /\ UNCHANGED item

Change == (\E i \in ItemsShown : SwitchItem(i) \/ EditShown(i)) \/ ChangeStanding

ItemsFor(a) == {i \in ItemsShown : Shown(a, standing, item[i])}
BeginReading(c, step, a, items) ==
  /\ Begin(c, [step |-> step, audience |-> a, items |-> items,
               seen |-> CanBeSeen(a, standing, item)])
  /\ UNCHANGED discovering
Copies(is) == {<<i, item[i].text>> : i \in is}

\* The posts, jobs and services that a guest reads in one query.
ReadAtOnce(c) ==
  \E found \in SUBSET ItemsFor("guest") : BeginReading(c, "shown", "guest", Copies(found))

\* requireDiscoverableUser, before the lists of one user are read.
RequireDiscoverableUser(c) ==
  Discoverable("guest", standing) /\ BeginReading(c, "found", "guest", ItemsShown)

\* A search: the ids that publicTalentWhere and publicServiceWhere find for a guest, or
\* talentWhere and serviceWhere for a member.
SearchPublic(c) ==
  \E found \in SUBSET ItemsFor("guest") : BeginReading(c, "found", "guest", found)
SearchExplore(c) ==
  \E found \in SUBSET ItemsFor("member") : BeginReading(c, "found", "member", found)

\* The second read, of the rows, has the same filters again.
OnceFound(a, i) == TRUE
LoadFilter(a, i) == Shown(a, standing, item[i])
Load(c) ==
  /\ At(c, "found")
  /\ LET k == call[c] IN
     call' = [call EXCEPT ![c].step = "shown",
                          ![c].items = Copies({i \in k.items : LoadFilter(k.audience, i)})]
  /\ UNCHANGED discovering

\* The rows are dressed for the answer.
Answer(c) == At(c, "shown") /\ Finish(c) /\ UNCHANGED discovering

DiscoveryNext ==
  \/ Change /\ Watched
  \/ \E c \in Calls :
       \/ ReadAtOnce(c) \/ RequireDiscoverableUser(c) \/ SearchPublic(c) \/ SearchExplore(c)
       \/ Load(c) \/ Answer(c)

----
\* Nothing is shown to anyone that could not have been found while the request ran: no text
\* written while the item was a draft, closed or deleted, or its owner suspended, gets into an
\* answer because the item was found before.
AnswersWereVisible ==
  \A c \in Calls : At(c, "shown") => call[c].items \subseteq call[c].seen
====
