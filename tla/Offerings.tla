---- MODULE Offerings ----
(***************************************************************************)
(* Services and portfolio projects of one owner: services.service.ts and   *)
(* portfolio.service.ts over their repositories.  Both are edited the same *)
(* way: whole lists (media; packages and skills of a service) are deleted  *)
(* and written again in a transaction.  A service's transaction first      *)
(* locks the row and looks again; a project's does not.                    *)
(*                                                                         *)
(* A list is the set of the edits its rows come from.  A statement sees    *)
(* the rows committed when it began, so that an edit deletes the rows it   *)
(* saw and adds its own to whatever is there when it commits.  The order   *)
(* of the items (position, reorder) is left out.                           *)
(***************************************************************************)
EXTENDS Naturals, FiniteSets, Slots

CONSTANTS
  Services, Projects,
  Savers,       \* users who save services
  MaxEdits      \* bound on the edits

ASSUME OfferingsAssumption == Services \cap Projects = {} /\ MaxEdits \in Nat \ {0}

VARIABLES
  offers,   \* of each item its state, its lists and its text
  edits,    \* edits begun so far
  saved     \* service_saves: savers of each service

offering == <<offers, edits, saved>>

Items == Services \cup Projects
Lists == {"media", "packages"}
ListsOf(o) == IF o \in Services THEN Lists ELSE {"media"}
Item == [state : {"none", "live", "removed"}, lists : [Lists -> SUBSET (0..MaxEdits)],
         text : 0..MaxEdits]

OfferingsInit ==
  /\ offers = [o \in Items |-> [state |-> "none", lists |-> [l \in Lists |-> {}], text |-> 0]]
  /\ edits = 0
  /\ saved = [o \in Services |-> {}]

Live(o) == offers[o].state = "live"
Editing(c, o) == call[c] # Idle /\ call[c].item = o

\* create: the item and its lists in one insert; the rows are those of edit 0.  A project has
\* no packages.
CreateItem(o) ==
  /\ offers[o].state = "none"
  /\ offers' = [offers EXCEPT ![o].state = "live",
                              ![o].lists = [l \in Lists |-> IF l \in ListsOf(o) THEN {0} ELSE {}]]
  /\ UNCHANGED <<edits, saved, call>>
CreateService(o) == o \in Services /\ CreateItem(o)
CreateProject(o) == o \in Projects /\ CreateItem(o)

\* update of a live item, with some of its lists replaced: the reads before the transaction.
EditItem(c, o) ==
  /\ Live(o) /\ edits < MaxEdits /\ edits' = edits + 1
  /\ \E ls \in SUBSET ListsOf(o) :
       Begin(c, [step |-> "edit", item |-> o, edit |-> edits + 1, replaced |-> ls,
                 seen |-> [l \in Lists |-> {}]])
  /\ UNCHANGED <<offers, saved>>
EditService(c, o) == o \in Services /\ EditItem(c, o)
EditProject(c, o) == o \in Projects /\ EditItem(c, o)

\* SELECT ... FOR UPDATE: one edit of a service is between the lock and its commit.
LockedByNobody(o) == TRUE
Unlocked(o) ==
  \A d \in Calls : Editing(d, o) /\ o \in Services => ~At(d, "replace")

\* What the transaction finds once it has the lock: a service is looked up again.
FoundBefore(o) == TRUE
StillThere(o) == o \in Services => Live(o)

\* The transaction's reads: of a list it replaces, the rows that its delete sees.
OpenTransaction(c) ==
  LET k == call[c] IN
  /\ At(c, "edit") /\ Unlocked(k.item)
  /\ IF StillThere(k.item)
     THEN call' = [call EXCEPT ![c].step = "replace",
                     ![c].seen = [l \in Lists |-> IF l \in k.replaced
                                                  THEN offers[k.item].lists[l] ELSE {}]]
     ELSE Finish(c)
  /\ UNCHANGED offering

\* Its commit: what it saw is gone, its own rows are there.  Rows of an edit in between that
\* hold an asset of this one make the insert fail (the unique key), and nothing is changed.
CommitEdit(c) ==
  LET k == call[c]  o == offers[k.item] IN
  /\ At(c, "replace") /\ Finish(c)
  /\ \/ offers' = [offers EXCEPT
           ![k.item].text = k.edit,
           ![k.item].lists = [l \in Lists |->
              IF l \in k.replaced THEN (o.lists[l] \ k.seen[l]) \cup {k.edit} ELSE o.lists[l]]]
     \/ (\E l \in k.replaced : ~(o.lists[l] \subseteq k.seen[l])) /\ UNCHANGED offers
  /\ UNCHANGED <<edits, saved>>

\* softDelete: waits for the lock an edit of a service holds.
RemoveItem(o) ==
  /\ Live(o) /\ Unlocked(o)
  /\ offers' = [offers EXCEPT ![o].state = "removed"]
  /\ UNCHANGED <<edits, saved, call>>
RemoveService(o) == o \in Services /\ RemoveItem(o)
RemoveProject(o) == o \in Projects /\ RemoveItem(o)

\* save, up to its insert; unsave.
CanSaveService(o) == Live(o)
SaveService(c, u, o) ==
  /\ CanSaveService(o)
  /\ Begin(c, [step |-> "saveService", item |-> o, who |-> u]) /\ UNCHANGED offering
CreateServiceSave(c) ==
  LET k == call[c] IN
  /\ At(c, "saveService")
  /\ saved' = [saved EXCEPT ![k.item] = @ \cup {k.who}]
  /\ Finish(c) /\ UNCHANGED <<offers, edits>>
DeleteServiceSave(u, o) ==
  /\ saved' = [saved EXCEPT ![o] = @ \ {u}] /\ UNCHANGED <<offers, edits, call>>

OfferingsNext ==
  \/ \E o \in Items :
       CreateService(o) \/ RemoveService(o) \/ CreateProject(o) \/ RemoveProject(o)
  \/ \E o \in Services, u \in Savers : DeleteServiceSave(u, o)
  \/ \E c \in Calls :
       \/ OpenTransaction(c) \/ CommitEdit(c) \/ CreateServiceSave(c)
       \/ \E o \in Items : EditService(c, o) \/ EditProject(c, o)
       \/ \E o \in Services, u \in Savers : SaveService(c, u, o)

----
\* Every variable keeps its type.
OfferingsTypeOK ==
  /\ offers \in [Items -> Item] /\ edits \in 0..MaxEdits
  /\ saved \in [Services -> SUBSET Savers]

\* However edits of a service overlap, each of its lists is the one that a single edit (or
\* the creation) wrote: packages, media and skills of two edits are never mixed in one list
\* (update's FOR UPDATE lock; a project's media can be mixed).
ServiceListsAreWhole ==
  \A o \in Services : offers[o].state # "none" =>
    \A l \in Lists : Cardinality(offers[o].lists[l]) = 1

\* A removed service is never changed again, also not by an edit that found it before it was
\* removed (update looks again under the lock).
RemovedServiceStays ==
  [][\A o \in Services : offers[o].state = "removed" => offers'[o] = offers[o]]_offering

\* Edits of a service have the effect of one after the other, and none after its removal.
ServiceEditsAreSerial == []ServiceListsAreWhole /\ RemovedServiceStays
====
