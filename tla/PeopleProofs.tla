---- MODULE PeopleProofs ----
(***************************************************************************)
(* The invariants of the parts about people, what they offer and what they *)
(* agree on: accounts, services and projects, posts, a job listing and its *)
(* label, discovery, the unread mark, the terms of a work request with     *)
(* their calendar, and the catalog of skills with the skills of a profile. *)
(* Each part has the same three facts: its invariant holds at first, every *)
(* step of the part keeps it, and it shows what is asked of the part.      *)
(* RecordsProofs draws the theorems from them.                             *)
(***************************************************************************)
EXTENDS Accounts, Offerings, Posts, Jobs, Labels, Discovery, Unread, Terms, Skills,
        AssetsProofs, FiniteSetTheorems, TLAPS

----
(* Accounts: the row of a user and the numbers the user confirmed. *)

\* The request of u that is under way carries what is still the row of u.
AccountCall(k) ==
  \/ k = Idle
  \/ /\ k.who \in Users
     /\ \/ /\ k.step = "create" /\ k.row \in Row
           /\ k.row.verified /\ k.row.phone # None => k.row.phone \in everConfirmed[k.who]
        \/ /\ k.step = "update" /\ row[k.who] \in Row
           /\ k.phone \in Phones \cup {None} /\ k.changed \in BOOLEAN
           /\ ~k.changed => k.phone = row[k.who].phone
        \/ k.step = "rename" /\ row[k.who] \in Row /\ k.name \in 1..Names
        \/ /\ k.step = "sync" /\ row[k.who] \in Row
           /\ k.phone = row[k.who].phone /\ k.verified = row[k.who].verified
        \/ /\ k.step = "flag" /\ row[k.who] \in Row /\ k.verified \in BOOLEAN
           /\ k.verified /\ row[k.who].phone # None => row[k.who].phone \in everConfirmed[k.who]

Remembered == \A u \in Users : confirmed[u] # None => confirmed[u] \in everConfirmed[u]
VerifiedRows ==
  \A u \in Users : row[u] \in Row /\ row[u].verified /\ row[u].phone # None =>
    row[u].phone \in everConfirmed[u]
OneRequestEach ==
  \A c, d \in Calls : call[c] # Idle /\ call[d] # Idle /\ call[c].who = call[d].who => c = d

AccountsInv ==
  /\ AccountsTypeOK /\ DOMAIN call = Calls
  /\ \A c \in Calls : AccountCall(call[c])
  /\ Remembered /\ OneRequestEach /\ VerifiedRows

\* Nothing is known of a user who never called.
LEMMA AccountsStart == AccountsInit /\ SlotsInit => AccountsInv
BY AccountsAssumption DEF AccountsInit, SlotsInit, AccountsInv, AccountsTypeOK, AccountCall,
   Remembered,
   OneRequestEach, VerifiedRows, Exists, Row

\* What the row of u may become while the calls of the others stay good.
LEMMA RowWritten ==
  ASSUME OnePerUser, AccountsInv, NEW c \in Calls, call[c] # Idle, NEW r \in Row,
         row[call[c].who] \in Row \/ call[c].step = "create",
         r.verified /\ r.phone # None => r.phone \in everConfirmed[call[c].who],
         row' = [row EXCEPT ![call[c].who] = r], UNCHANGED <<confirmed, everConfirmed>>,
         NEW k, call' = [call EXCEPT ![c] = k], AccountCall(k)', k = Idle \/ k.who = call[c].who
  PROVE  AccountsInv'
<1> DEFINE u == call[c].who
<1>1. u \in Users /\ AccountsTypeOK
  BY DEF AccountsInv, AccountCall
<1>2. AccountsTypeOK'
  BY <1>1 DEF AccountsTypeOK
<1>3. \A d \in Calls : AccountCall(call[d])'
  <2> SUFFICES ASSUME NEW d \in Calls, d # c PROVE AccountCall(call[d])'
    BY DEF AccountsInv
  <2>1. call'[d] = call[d] /\ AccountCall(call[d])
    BY DEF AccountsInv
  <2>2. call[d] = Idle \/ call[d].who # u
    BY DEF AccountsInv, OneRequestEach
  <2>3. call[d] = Idle \/ row'[call[d].who] = row[call[d].who]
    BY <1>1, <2>1, <2>2 DEF AccountsTypeOK, AccountCall
  <2> QED BY <2>1, <2>3 DEF AccountCall, Exists
<1>4. OneRequestEach' /\ DOMAIN call' = Calls
  BY DEF AccountsInv, OneRequestEach
<1>5. VerifiedRows'
  BY <1>1 DEF AccountsInv, VerifiedRows, Exists, AccountsTypeOK
<1> QED BY <1>2, <1>3, <1>4, <1>5 DEF AccountsInv, Remembered

\* A step that leaves the rows alone.
LEMMA RowsStay ==
  ASSUME AccountsInv, UNCHANGED accounts, NEW c \in Calls, NEW k,
         call' = [call EXCEPT ![c] = k], AccountCall(k),
         k = Idle \/ \A d \in Calls \ {c} : call[d] # Idle => call[d].who # k.who
  PROVE  AccountsInv'
<1>1. \A d \in Calls : AccountCall(call[d])'
  BY DEF AccountsInv, AccountCall, accounts, Exists
<1>2. OneRequestEach'
  BY DEF AccountsInv, OneRequestEach
<1> QED BY <1>1, <1>2 DEF AccountsInv, AccountsTypeOK, Remembered, VerifiedRows,
           accounts, Exists

\* Every step of a request, a confirmation or a change of number keeps the invariant.
LEMMA AccountsKept ==
  ASSUME OnePerUser, AccountsInv, [AccountsNext]_<<accounts, call>>
  PROVE  AccountsInv'
<1>1. AccountsTypeOK /\ DOMAIN call = Calls /\ Remembered
  BY DEF AccountsInv
<1>2. ASSUME NEW u \in Users, NEW p \in Phones, ConfirmAtAuth(u, p) PROVE AccountsInv'
  <2>1. \A v \in Users : everConfirmed[v] \subseteq everConfirmed'[v]
    BY <1>1, <1>2 DEF ConfirmAtAuth, AccountsTypeOK
  <2>2. AccountsTypeOK' /\ Remembered'
    BY <1>1, <1>2 DEF ConfirmAtAuth, AccountsTypeOK, Remembered
  <2>3. \A d \in Calls : AccountCall(call[d])'
    <3> SUFFICES ASSUME NEW d \in Calls PROVE AccountCall(call[d])'
      OBVIOUS
    <3>1. AccountCall(call[d]) /\ call'[d] = call[d] /\ row' = row
      BY <1>2 DEF AccountsInv, ConfirmAtAuth
    <3>2. CASE call[d] = Idle
      BY <3>1, <3>2 DEF AccountCall
    <3>3. CASE call[d] # Idle
      <4>1. call[d].who \in Users
              /\ everConfirmed[call[d].who] \subseteq everConfirmed'[call[d].who]
        BY <2>1, <3>1, <3>3 DEF AccountCall
      <4> QED BY <3>1, <3>3, <4>1 DEF AccountCall, Exists
    <3> QED BY <3>2, <3>3
  <2>4. VerifiedRows' /\ OneRequestEach' /\ DOMAIN call' = Calls
    BY <1>2, <2>1 DEF ConfirmAtAuth, AccountsInv, VerifiedRows, OneRequestEach, Exists
  <2> QED BY <2>2, <2>3, <2>4 DEF AccountsInv
<1>3. ASSUME NEW c \in Calls, NEW u \in Users, GetMe(c, u) PROVE AccountsInv'
  <2>1. AccountCall(SyncOf(u, row[u]))
    BY <1>1, <1>3 DEF GetMe, SyncOf, AccountCall, AccountsTypeOK, Exists
  <2> QED BY <1>3, <2>1, RowsStay DEF GetMe, BeginFor, Begin, SyncOf
<1>4. ASSUME NEW c \in Calls, NEW u \in Users, NEW p \in Phones, Bootstrap(c, u, p)
      PROVE AccountsInv'
  <2>1. PICK n \in 1..Names, auth \in GetAuthVerification(u) :
          BeginFor(c, [step |-> "create", who |-> u, row |->
                     [name |-> n, phone |-> p, verified |-> BoundPhoneVerified(auth, p)]])
    BY <1>4 DEF Bootstrap
  <2> DEFINE k == [step |-> "create", who |-> u, row |->
                     [name |-> n, phone |-> p, verified |-> BoundPhoneVerified(auth, p)]]
  <2>2. k.row \in Row
    BY DEF Row, BoundPhoneVerified, GetAuthVerification
  <2>3. BoundPhoneVerified(auth, p) => p \in everConfirmed[u]
    BY <1>1 DEF BoundPhoneVerified, GetAuthVerification, Remembered
  <2>4. AccountCall(k)
    BY <2>2, <2>3 DEF AccountCall
  <2> QED BY <1>4, <2>1, <2>4, RowsStay DEF Bootstrap, BeginFor, Begin
<1>5. ASSUME NEW c \in Calls, NEW u \in Users, NEW p \in Phones \cup {None}, UpdateMe(c, u, p)
      PROVE AccountsInv'
  <2> DEFINE k == [step |-> "update", who |-> u, phone |-> p,
               changed |-> p = None \/ p # row[u].phone]
  <2>1. AccountCall(k)
    BY <1>1, <1>5 DEF AccountCall, UpdateMe, AccountsTypeOK, Exists
  <2> QED BY <1>5, <2>1, RowsStay DEF UpdateMe, BeginFor, Begin
<1>6. ASSUME NEW c \in Calls, NEW u \in Users, NEW n \in 1..Names, Rename(c, u, n)
      PROVE AccountsInv'
  <2> DEFINE k == [step |-> "rename", who |-> u, name |-> n]
  <2>1. AccountCall(k)
    BY <1>1, <1>6 DEF AccountCall, Rename, AccountsTypeOK, Exists
  <2> QED BY <1>6, <2>1, RowsStay DEF Rename, BeginFor, Begin
<1> DEFINE idle(c) == call' = [call EXCEPT ![c] = Idle]
<1>7. ASSUME NEW c \in Calls, call' = [call EXCEPT ![c] = Idle], UNCHANGED accounts
               PROVE AccountsInv'
  BY <1>7, RowsStay DEF AccountCall
<1>8. ASSUME NEW c \in Calls, CreateWithProfile(c) PROVE AccountsInv'
  <2>1. /\ call[c].who \in Users /\ call[c].row \in Row /\ call[c].step = "create" /\ call[c] # Idle
        /\ call[c].row.verified /\ call[c].row.phone # None
             => call[c].row.phone \in everConfirmed[call[c].who]
    BY <1>8 DEF AccountsInv, AccountCall, CreateWithProfile, At, Idle
  <2>2. CASE row' = row
    BY <1>7, <1>8, <2>2 DEF CreateWithProfile, Finish, accounts
  <2>3. CASE row' = [row EXCEPT ![call[c].who] = call[c].row]
    <3>1. AccountCall(Idle)'
      BY DEF AccountCall
    <3> QED BY <1>8, <2>1, <2>3, <3>1, RowWritten DEF CreateWithProfile, Finish
  <2> QED BY <1>8, <2>2, <2>3 DEF CreateWithProfile
<1>9. ASSUME NEW c \in Calls, NEW r \in Row, call[c] # Idle, row[call[c].who] \in Row,
             r.verified /\ r.phone # None => r.phone \in everConfirmed[call[c].who],
             UpdateOwn(c, r), UNCHANGED <<confirmed, everConfirmed>>
      PROVE AccountsInv'
  <2>1. CASE UNCHANGED row /\ Finish(c)
    BY <1>7, <1>9, <2>1 DEF Finish, accounts
  <2>2. CASE row' = [row EXCEPT ![call[c].who] = r]
             /\ call' = [call EXCEPT ![c] = SyncOf(call[c].who, r)]
    <3> PICK k : k = SyncOf(call[c].who, r)
      OBVIOUS
    <3>1. call[c].who \in Users
      BY <1>9 DEF AccountsInv, AccountCall
    <3>2. row'[call[c].who] = r
      BY <1>1, <2>2, <3>1 DEF AccountsTypeOK
    <3>3. AccountCall(k)' /\ k.who = call[c].who
      BY <3>1, <3>2, <1>9 DEF AccountCall, SyncOf
    <3> QED BY <1>9, <2>2, <3>3, RowWritten
  <2> QED BY <1>9, <2>1, <2>2 DEF UpdateOwn
<1>10. ASSUME NEW c \in Calls, WriteUpdate(c) PROVE AccountsInv'
  <2> DEFINE k == call[c]
             r == [row[k.who] EXCEPT !.phone = k.phone,
                                     !.verified = IF k.changed THEN FALSE ELSE @]
  <2>1. /\ k.who \in Users /\ row[k.who] \in Row /\ k.phone \in Phones \cup {None}
        /\ k.changed \in BOOLEAN /\ k # Idle
        /\ ~k.changed => k.phone = row[k.who].phone
    BY <1>10 DEF AccountsInv, AccountCall, WriteUpdate, At, Idle
  <2>2. row[k.who] \in Row
    BY <1>1, <2>1 DEF AccountsTypeOK, Exists
  <2>3. r \in Row /\ r.phone = k.phone /\ (r.verified => row[k.who].verified /\ ~k.changed)
    BY <2>1, <2>2 DEF Row
  <2>4. r.verified /\ r.phone # None => r.phone \in everConfirmed[k.who]
    BY <2>1, <2>3 DEF AccountsInv, VerifiedRows
  <2> QED BY <1>9, <1>10, <2>1, <2>3, <2>4 DEF WriteUpdate
<1>11. ASSUME NEW c \in Calls, WriteName(c) PROVE AccountsInv'
  <2> DEFINE k == call[c]
             r == [row[k.who] EXCEPT !.name = k.name]
  <2>1. k.who \in Users /\ row[k.who] \in Row /\ k.name \in 1..Names /\ k # Idle
    BY <1>11 DEF AccountsInv, AccountCall, WriteName, At, Idle
  <2>2. row[k.who] \in Row
    BY <1>1, <2>1 DEF AccountsTypeOK, Exists
  <2>3. r \in Row /\ r.phone = row[k.who].phone /\ r.verified = row[k.who].verified
    BY <2>1, <2>2 DEF Row
  <2>4. r.verified /\ r.phone # None => r.phone \in everConfirmed[k.who]
    BY <2>1, <2>3 DEF AccountsInv, VerifiedRows
  <2> QED BY <1>9, <1>11, <2>1, <2>3, <2>4 DEF WriteName
<1>12. ASSUME NEW c \in Calls, SyncTrustedVerification(c) PROVE AccountsInv'
  <2>1. /\ call[c].who \in Users /\ row[call[c].who] \in Row /\ call[c] # Idle
        /\ call[c].phone = row[call[c].who].phone
    BY <1>12 DEF AccountsInv, AccountCall, SyncTrustedVerification, At, Idle
  <2>2. PICK auth \in GetAuthVerification(call[c].who) :
          LET bound == BoundPhoneVerified(auth, call[c].phone) IN
          \/ call' = [call EXCEPT ![c] = [step |-> "flag", who |-> call[c].who, verified |-> bound]]
          \/ Finish(c)
    BY <1>12 DEF SyncTrustedVerification
  <2> DEFINE bound == BoundPhoneVerified(auth, call[c].phone)
             k == [step |-> "flag", who |-> call[c].who, verified |-> bound]
  <2>3. bound \in BOOLEAN /\ (bound => row[call[c].who].phone \in everConfirmed[call[c].who])
    BY <1>1, <2>1 DEF BoundPhoneVerified, GetAuthVerification, Remembered
  <2>4. AccountCall(k)
    BY <2>1, <2>3 DEF AccountCall
  <2>5. \A d \in Calls \ {c} : call[d] # Idle => call[d].who # k.who
    BY <2>1 DEF AccountsInv, OneRequestEach
  <2>6. CASE call' = [call EXCEPT ![c] = k]
    BY <1>12, <2>4, <2>5, <2>6, RowsStay DEF SyncTrustedVerification
  <2>7. CASE Finish(c)
    BY <1>7, <1>12, <2>7 DEF SyncTrustedVerification, Finish
  <2> QED BY <2>2, <2>6, <2>7
<1>13. ASSUME NEW c \in Calls, WriteVerified(c) PROVE AccountsInv'
  <2> DEFINE k == call[c]
             r == [row[k.who] EXCEPT !.verified = k.verified]
  <2>1. /\ k.who \in Users /\ row[k.who] \in Row /\ k.verified \in BOOLEAN /\ k # Idle
        /\ k.verified /\ row[k.who].phone # None => row[k.who].phone \in everConfirmed[k.who]
    BY <1>13 DEF AccountsInv, AccountCall, WriteVerified, At, Idle
  <2>2. row[k.who] \in Row
    BY <1>1, <2>1 DEF AccountsTypeOK, Exists
  <2>3. r \in Row /\ r.phone = row[k.who].phone /\ r.verified = k.verified
    BY <2>1, <2>2 DEF Row
  <2>4. CASE row' = row
    BY <1>7, <1>13, <2>4 DEF WriteVerified, Finish, accounts
  <2>5. CASE row' = [row EXCEPT ![k.who] = r]
    BY <1>13, <2>1, <2>3, <2>5, RowWritten DEF WriteVerified, Finish, AccountCall, Idle
  <2> QED BY <1>13, <2>4, <2>5 DEF WriteVerified
<1>14. CASE UNCHANGED <<accounts, call>>
  BY <1>14 DEF AccountsInv, AccountsTypeOK, AccountCall, Remembered, OneRequestEach,
     VerifiedRows, accounts, Exists
<1> QED BY <1>2, <1>3, <1>4, <1>5, <1>6, <1>8, <1>10, <1>11, <1>12, <1>13, <1>14 DEF AccountsNext

\* The invariant is about every verified row.
LEMMA AccountsShow == AccountsInv => VerifiedWasConfirmed
BY DEF AccountsInv, AccountsTypeOK, VerifiedRows, VerifiedWasConfirmed, Exists

----
(* Offerings: services and projects, and the edits that lock them. *)

EditCall == [step : {"edit", "replace"}, item : Items, edit : 0..MaxEdits,
             replaced : SUBSET Lists, seen : [Lists -> SUBSET (0..MaxEdits)]]
SaveCall == [step : {"saveService"}, item : Services, who : Savers]

OfferingCalls == call \in [Calls -> {Idle} \cup EditCall \cup SaveCall]

\* An edit of a service that has the lock is the only one, finds the service and has seen the
\* lists it replaces as they are.
LockHeld(c) == At(c, "replace") /\ call[c].item \in Services
LockedEditsAreCurrent ==
  \A c \in Calls : LockHeld(c) =>
    /\ Live(call[c].item)
    /\ \A l \in call[c].replaced : call[c].seen[l] = offers[call[c].item].lists[l]
    /\ \A d \in Calls : LockHeld(d) /\ call[d].item = call[c].item => d = c
OfOne(rows) == rows # {} /\ \A e, f \in rows : e = f
Whole == \A o \in Services : offers[o].state # "none" => \A l \in Lists : OfOne(offers[o].lists[l])

OfferingsInv == OfferingsTypeOK /\ OfferingCalls /\ LockedEditsAreCurrent /\ Whole

\* A list with one version has one version.
LEMMA OfferingsShow == OfferingsInv => ServiceListsAreWhole
<1> SUFFICES ASSUME OfferingsInv, NEW o \in Services, offers[o].state # "none", NEW l \in Lists
             PROVE  Cardinality(offers[o].lists[l]) = 1
  BY DEF ServiceListsAreWhole
<1>1. OfOne(offers[o].lists[l])
  BY DEF OfferingsInv, Whole
<1>2. PICK e \in offers[o].lists[l] : TRUE
  BY <1>1 DEF OfOne
<1>3. offers[o].lists[l] = {e}
  BY <1>1, <1>2 DEF OfOne
<1> QED BY <1>3, FS_Singleton

\* There is no service at first.
LEMMA OfferingsStart == OfferingsInit /\ SlotsInit => OfferingsInv
<1> SUFFICES ASSUME OfferingsInit, SlotsInit PROVE OfferingsInv
  OBVIOUS
<1>1. OfferingsTypeOK
  BY OfferingsAssumption DEF OfferingsInit, OfferingsTypeOK, Item
<1>2. OfferingCalls /\ LockedEditsAreCurrent /\ Whole
  BY DEF OfferingsInit, SlotsInit, OfferingCalls, LockedEditsAreCurrent, LockHeld, Whole, At,
     Idle, Items
<1> QED BY <1>1, <1>2 DEF OfferingsInv

\* A call begins, ends or goes on without the lock of a service, and the items stay.
LEMMA CallMoves ==
  ASSUME OfferingsInv, UNCHANGED offers, OfferingsTypeOK', NEW c \in Calls,
         NEW k \in {Idle} \cup EditCall \cup SaveCall, call' = [call EXCEPT ![c] = k],
         k.step = "replace" => k.item \notin Services
  PROVE  OfferingsInv'
<1>1. OfferingCalls'
  BY DEF OfferingsInv, OfferingCalls
<1>2. LockedEditsAreCurrent'
  BY DEF OfferingsInv, OfferingCalls, LockedEditsAreCurrent, LockHeld, At, Live
<1>3. Whole'
  BY DEF OfferingsInv, Whole
<1> QED BY <1>1, <1>2, <1>3 DEF OfferingsInv

\* Every step keeps the invariant, and a service that was removed stays as it was.
LEMMA OfferingsKept ==
  ASSUME OfferingsInv, [OfferingsNext]_<<offering, call>>
  PROVE  OfferingsInv' /\ \A o \in Services : offers[o].state = "removed" => offers'[o] = offers[o]
<1> DEFINE Stays == \A o \in Services : offers[o].state = "removed" => offers'[o] = offers[o]
<1>1. OfferingsTypeOK /\ OfferingCalls /\ LockedEditsAreCurrent /\ Whole
  BY DEF OfferingsInv
<1>2. ASSUME NEW o \in Items, CreateItem(o) PROVE OfferingsInv' /\ Stays
  <2> DEFINE lists == [l \in Lists |-> IF l \in ListsOf(o) THEN {0} ELSE {}]
  <2>1. /\ offers[o] \in Item /\ offers[o].state = "none" /\ UNCHANGED <<edits, saved, call>>
        /\ offers' = [offers EXCEPT ![o] = [offers[o] EXCEPT !.state = "live", !.lists = lists]]
    BY <1>1, <1>2 DEF CreateItem, OfferingsTypeOK
  <2>2. [offers[o] EXCEPT !.state = "live", !.lists = lists] \in Item
    <3>1. lists \in [Lists -> SUBSET (0..MaxEdits)]
      BY OfferingsAssumption
    <3> QED BY <2>1, <3>1 DEF Item
  <2>3. offers'[o].state = "live" /\ offers'[o].lists = lists
        /\ \A p \in Items : p # o => offers'[p] = offers[p]
    BY <1>1, <2>1 DEF OfferingsTypeOK, Item
  <2>4. OfferingsTypeOK' /\ OfferingCalls'
    BY <1>1, <2>1, <2>2 DEF OfferingsTypeOK, OfferingCalls
  <2>5. Stays
    BY <2>1, <2>3 DEF Items
  <2>6. Whole'
    <3> SUFFICES ASSUME NEW p \in Services, offers'[p].state # "none", NEW l \in Lists
                 PROVE  OfOne(offers'[p].lists[l])
      BY DEF Whole
    <3>1. CASE p = o
      BY <2>3, <3>1 DEF ListsOf, OfOne
    <3>2. CASE p # o
      BY <1>1, <2>3, <3>2 DEF Whole, Items
    <3> QED BY <3>1, <3>2
  <2>7. LockedEditsAreCurrent'
    BY <1>1, <2>1, <2>3 DEF LockedEditsAreCurrent, LockHeld, At, Live, Items
  <2> QED BY <2>4, <2>5, <2>6, <2>7 DEF OfferingsInv
<1>3. ASSUME NEW o \in Items, RemoveItem(o) PROVE OfferingsInv' /\ Stays
  <2>1. /\ offers[o] \in Item /\ offers[o].state = "live" /\ UNCHANGED <<edits, saved, call>>
        /\ offers' = [offers EXCEPT ![o] = [offers[o] EXCEPT !.state = "removed"]]
    BY <1>1, <1>3 DEF RemoveItem, OfferingsTypeOK, Live
  <2>2. [offers[o] EXCEPT !.state = "removed"] \in Item
    BY <2>1 DEF Item
  <2>3. offers'[o].state = "removed" /\ offers'[o].lists = offers[o].lists
        /\ \A p \in Items : p # o => offers'[p] = offers[p]
    BY <1>1, <2>1 DEF OfferingsTypeOK, Item
  <2>4. OfferingsTypeOK' /\ OfferingCalls'
    BY <1>1, <2>1, <2>2 DEF OfferingsTypeOK, OfferingCalls
  <2>5. Stays
    BY <2>1, <2>3 DEF Items
  <2>6. Whole'
    <3> SUFFICES ASSUME NEW p \in Services, offers'[p].state # "none", NEW l \in Lists
                 PROVE  OfOne(offers'[p].lists[l])
      BY DEF Whole
    <3>1. offers'[p].lists = offers[p].lists /\ offers[p].state # "none"
      BY <2>1, <2>3 DEF Items
    <3> QED BY <1>1, <3>1 DEF Whole
  <2>7. \A c \in Calls : LockHeld(c) => call[c].item # o
    BY <1>1, <1>3 DEF RemoveItem, Unlocked, Editing, LockHeld, At, Idle
  <2>8. LockedEditsAreCurrent'
    BY <1>1, <2>1, <2>3, <2>7 DEF LockedEditsAreCurrent, LockHeld, At, Live, Items
  <2> QED BY <2>4, <2>5, <2>6, <2>8 DEF OfferingsInv
<1>4. ASSUME NEW o \in Services, NEW u \in Savers, DeleteServiceSave(u, o)
               PROVE OfferingsInv' /\ Stays
  <2>1. OfferingsTypeOK' /\ UNCHANGED <<offers, call>>
    BY <1>1, <1>4 DEF DeleteServiceSave, OfferingsTypeOK
  <2> QED BY <1>1, <2>1 DEF OfferingsInv, OfferingCalls, LockedEditsAreCurrent, LockHeld, At,
          Live, Whole
<1>5. ASSUME NEW c \in Calls, NEW o \in Items, EditItem(c, o) PROVE OfferingsInv' /\ Stays
  <2>1. PICK ls \in SUBSET ListsOf(o) :
          call' = [call EXCEPT ![c] = [step |-> "edit", item |-> o, edit |-> edits + 1,
                                       replaced |-> ls, seen |-> [l \in Lists |-> {}]]]
    BY <1>5 DEF EditItem, Begin
  <2> PICK k : k = [step |-> "edit", item |-> o, edit |-> edits + 1, replaced |-> ls,
                    seen |-> [l \in Lists |-> {}]]
    OBVIOUS
  <2>2. edits \in 0..MaxEdits /\ edits + 1 \in 0..MaxEdits /\ edits' = edits + 1
    BY <1>1, <1>5, OfferingsAssumption DEF EditItem, OfferingsTypeOK
  <2>3. k \in EditCall /\ k.step = "edit"
    BY <2>2 DEF EditCall, ListsOf, Lists
  <2>4. OfferingsTypeOK' /\ UNCHANGED <<offers, saved>>
    BY <1>1, <1>5, <2>2 DEF EditItem, OfferingsTypeOK
  <2> QED BY <2>1, <2>3, <2>4, CallMoves
<1>6. ASSUME NEW c \in Calls, Finish(c), UNCHANGED offering PROVE OfferingsInv' /\ Stays
  <2> PICK k : k = Idle
    OBVIOUS
  <2>1. k.step = "idle" /\ call' = [call EXCEPT ![c] = k] /\ k \in {Idle}
    BY <1>6 DEF Idle, Finish
  <2>2. OfferingsTypeOK' /\ UNCHANGED offers
    BY <1>1, <1>6 DEF OfferingsTypeOK, offering
  <2> QED BY <2>1, <2>2, CallMoves
<1>7. ASSUME NEW c \in Calls, OpenTransaction(c) PROVE OfferingsInv' /\ Stays
  <2> PICK k : k = call[c]
    OBVIOUS
  <2>1. k \in EditCall /\ k.step = "edit" /\ k.item \in Items /\ UNCHANGED offering
    BY <1>1, <1>7 DEF OpenTransaction, OfferingCalls, At, Idle, SaveCall, EditCall
  <2>2. CASE ~StillThere(k.item)
    BY <1>6, <1>7, <2>1, <2>2 DEF OpenTransaction
  <2>3. CASE StillThere(k.item)
    <3> PICK held : held = [l \in Lists |-> IF l \in k.replaced THEN offers[k.item].lists[l] ELSE
          {}]
      OBVIOUS
    <3> PICK z : z = [k EXCEPT !.step = "replace", !.seen = held]
      OBVIOUS
    <3>1. call' = [call EXCEPT ![c] = z]
      BY <1>1, <1>7, <2>3 DEF OpenTransaction, OfferingCalls
    <3>2. offers[k.item] \in Item
      BY <1>1, <2>1 DEF OfferingsTypeOK
    <3>3. held \in [Lists -> SUBSET (0..MaxEdits)]
      BY <3>2 DEF Item
    <3>4. z \in EditCall /\ z.step = "replace" /\ z.item = k.item /\ z.seen = held
          /\ z.replaced = k.replaced /\ k.replaced \subseteq Lists
      BY <2>1, <3>3 DEF EditCall
    <3>5. OfferingsTypeOK' /\ UNCHANGED offers
      BY <1>1, <2>1 DEF OfferingsTypeOK, offering
    <3>6. CASE k.item \notin Services
      BY <3>1, <3>4, <3>5, <3>6, CallMoves
    <3>7. CASE k.item \in Services
      <4>1. Live(k.item) /\ \A d \in Calls : LockHeld(d) => call[d].item # k.item
        BY <1>7, <2>3, <3>7 DEF OpenTransaction, StillThere, Unlocked, Editing, LockHeld, At, Idle
      <4>2. OfferingCalls'
        BY <1>1, <3>1, <3>4 DEF OfferingCalls
      <4>3. call'[c] = z /\ \A d \in Calls : d # c => call'[d] = call[d]
        BY <1>1, <3>1 DEF OfferingCalls
      <4>4. \A l \in z.replaced : z.seen[l] = offers[z.item].lists[l]
        BY <3>4
      <4>5. LockedEditsAreCurrent'
        <5> SUFFICES ASSUME NEW d \in Calls, call'[d].step = "replace", call'[d].item \in Services
                     PROVE  /\ offers[call'[d].item].state = "live"
                            /\ \A l \in call'[d].replaced :
                                 call'[d].seen[l] = offers[call'[d].item].lists[l]
                            /\ \A e \in Calls : call'[e].step = "replace"
                                 /\ call'[e].item \in Services /\ call'[e].item = call'[d].item
                                 => e = d
          BY <3>5 DEF LockedEditsAreCurrent, LockHeld, At, Live
        <5>1. ASSUME NEW e \in Calls, e # c, call'[e].step = "replace", call'[e].item \in Services
              PROVE  LockHeld(e) /\ call'[e] = call[e] /\ call[e].item # z.item
          BY <3>4, <4>1, <4>3, <5>1 DEF LockHeld, At
        <5>2. CASE d = c
          <6>1. offers[call'[d].item].state = "live"
            BY <3>4, <4>1, <4>3, <5>2 DEF Live
          <6>2. \A e \in Calls : call'[e].step = "replace" /\ call'[e].item \in Services
                   /\ call'[e].item = call'[d].item => e = d
            BY <4>3, <5>1, <5>2
          <6> QED BY <4>3, <4>4, <5>2, <6>1, <6>2
        <5>3. CASE d # c
          <6>1. LockHeld(d) /\ call'[d] = call[d] /\ call[d].item # z.item
            BY <5>1, <5>3
          <6>2. \A e \in Calls : call'[e].step = "replace" /\ call'[e].item \in Services
                   /\ call'[e].item = call'[d].item => LockHeld(e) /\ call[e].item = call[d].item
            BY <4>3, <5>1, <6>1
          <6> QED BY <1>1, <6>1, <6>2 DEF LockedEditsAreCurrent, Live
        <5> QED BY <5>2, <5>3
      <4> QED BY <1>1, <3>5, <4>2, <4>5 DEF OfferingsInv, Whole
    <3> QED BY <3>6, <3>7
  <2> QED BY <2>2, <2>3
<1>8. ASSUME NEW c \in Calls, CommitEdit(c) PROVE OfferingsInv' /\ Stays
  <2> PICK k : k = call[c]
    OBVIOUS
  <2>1. k \in EditCall /\ k.step = "replace" /\ k.item \in Items /\ UNCHANGED <<edits, saved>>
          /\ Finish(c)
    BY <1>1, <1>8 DEF CommitEdit, OfferingCalls, At, Idle, SaveCall, EditCall
  <2>2. CASE UNCHANGED offers
    BY <1>6, <2>1, <2>2 DEF offering
  <2>3. CASE offers' = [offers EXCEPT
           ![k.item].text = k.edit,
           ![k.item].lists = [l \in Lists |->
              IF l \in k.replaced THEN (offers[k.item].lists[l] \ k.seen[l]) \cup {k.edit}
              ELSE offers[k.item].lists[l]]]
    <3> PICK o : o = k.item
      OBVIOUS
    <3> PICK lists : lists = [l \in Lists |->
              IF l \in k.replaced THEN (offers[o].lists[l] \ k.seen[l]) \cup {k.edit}
              ELSE offers[o].lists[l]]
      OBVIOUS
    <3>1. offers[o] \in Item
            /\ offers' = [offers EXCEPT ![o] = [offers[o] EXCEPT !.text = k.edit, !.lists = lists]]
      BY <1>1, <2>1, <2>3 DEF OfferingsTypeOK
    <3>2. lists \in [Lists -> SUBSET (0..MaxEdits)] /\ k.edit \in 0..MaxEdits
      BY <2>1, <3>1 DEF Item, EditCall
    <3>3. [offers[o] EXCEPT !.text = k.edit, !.lists = lists] \in Item
      BY <3>1, <3>2 DEF Item
    <3>4. offers'[o].state = offers[o].state /\ offers'[o].lists = lists
          /\ \A p \in Items : p # o => offers'[p] = offers[p]
      BY <1>1, <2>1, <3>1 DEF OfferingsTypeOK, Item
    <3>5. OfferingsTypeOK' /\ OfferingCalls'
      BY <1>1, <2>1, <3>1, <3>3 DEF OfferingsTypeOK, OfferingCalls, Finish
    <3>6. call'[c] = Idle /\ \A d \in Calls : d # c => call'[d] = call[d]
      BY <1>1, <2>1 DEF OfferingCalls, Finish
    <3>7. o \in Services => /\ Live(o)
                            /\ \A l \in k.replaced : k.seen[l] = offers[o].lists[l]
                            /\ \A d \in Calls : LockHeld(d) /\ call[d].item = o => d = c
      BY <1>1, <2>1 DEF LockedEditsAreCurrent, LockHeld, At
    <3>8. Stays
      BY <3>4, <3>7 DEF Live, Items
    <3>9. Whole'
      <4>1. o \in Services => \A l \in Lists : OfOne(lists[l])
        <5> SUFFICES ASSUME o \in Services, NEW l \in Lists PROVE OfOne(lists[l])
          OBVIOUS
        <5>1. CASE l \in k.replaced
          <6>1. lists[l] = {k.edit}
            BY <3>7, <5>1
          <6> QED BY <6>1 DEF OfOne
        <5>2. CASE l \notin k.replaced
          BY <1>1, <3>7, <5>2 DEF Whole, Live
        <5> QED BY <5>1, <5>2
      <4> SUFFICES ASSUME NEW p \in Services, offers'[p].state # "none", NEW l \in Lists
                   PROVE  OfOne(offers'[p].lists[l])
        BY DEF Whole
      <4>2. CASE p = o
        BY <3>4, <4>1, <4>2
      <4>3. CASE p # o
        BY <1>1, <3>4, <4>3 DEF Whole, Items
      <4> QED BY <4>2, <4>3
    <3>10. LockedEditsAreCurrent'
      BY <1>1, <3>4, <3>6, <3>7 DEF LockedEditsAreCurrent, LockHeld, At, Live, Items, Idle
    <3> QED BY <3>5, <3>8, <3>9, <3>10 DEF OfferingsInv
  <2> QED BY <1>8, <2>2, <2>3 DEF CommitEdit
<1>9. ASSUME NEW c \in Calls, CreateServiceSave(c) PROVE OfferingsInv' /\ Stays
  <2> PICK k : k = Idle
    OBVIOUS
  <2>1. k.step = "idle" /\ call' = [call EXCEPT ![c] = k] /\ k \in {Idle}
    BY <1>9 DEF Idle, Finish, CreateServiceSave
  <2>2. call[c] \in SaveCall
    BY <1>1, <1>9 DEF CreateServiceSave, OfferingCalls, At, Idle, EditCall
  <2>3. OfferingsTypeOK' /\ UNCHANGED offers
    BY <1>1, <1>9, <2>2 DEF CreateServiceSave, OfferingsTypeOK, SaveCall
  <2> QED BY <2>1, <2>3, CallMoves
<1>10. ASSUME NEW c \in Calls, NEW o \in Services, NEW u \in Savers, SaveService(c, u, o)
       PROVE  OfferingsInv' /\ Stays
  <2> PICK k : k = [step |-> "saveService", item |-> o, who |-> u]
    OBVIOUS
  <2>1. k.step = "saveService" /\ call' = [call EXCEPT ![c] = k] /\ k \in SaveCall
    BY <1>10 DEF SaveService, Begin, SaveCall
  <2>2. OfferingsTypeOK' /\ UNCHANGED offers
    BY <1>1, <1>10 DEF SaveService, OfferingsTypeOK, offering
  <2> QED BY <2>1, <2>2, CallMoves
<1>11. CASE UNCHANGED <<offering, call>>
  BY <1>1, <1>11 DEF offering, OfferingsInv, OfferingsTypeOK, OfferingCalls,
     LockedEditsAreCurrent, LockHeld, At, Live, Whole
<1> QED BY <1>2, <1>3, <1>4, <1>5, <1>7, <1>8, <1>9, <1>10, <1>11
        DEF OfferingsNext, CreateService, CreateProject, RemoveService, RemoveProject,
            EditService, EditProject

----
(* Posts: the likes of one post. *)

\* The likes that were created and are still to be announced.
ToAnnounce(u) == {c \in Calls : At(c, "announceLike") /\ call[c].who = u}

PostsTyped ==
  /\ post \in {"none", "live", "deleted"} /\ visibility \in {"public", "connections"}
  /\ peers \subseteq Viewers
  /\ likedTimes \in [Viewers -> Nat]
  /\ notices \in [likes : [Everyone -> Nat], comments : SUBSET Comments]
PostCalls ==
  /\ DOMAIN call = Calls
  /\ \A c \in Calls : "step" \in DOMAIN call[c]
  /\ \A c \in Calls : At(c, "like") => call[c] \in [step : {"like"}, who : Everyone]
  /\ \A c \in Calls : At(c, "announceLike") => call[c].who \in Viewers
  /\ \A c \in Calls : call[c].step \in {"comment", "announceComment"} =>
       call[c] \in [step : {"comment", "announceComment"}, who : Everyone, comment : Comments]
AnnouncedAtMost ==
  \A u \in Viewers : notices.likes[u] + Cardinality(ToAnnounce(u)) <= likedTimes[u]

PostsInv ==
  PostsTyped /\ PostCalls /\ AnnouncedAtMost /\ notices.likes[Author] = 0

\* The announcements still to come can be counted.
LEMMA ToAnnounceFinite ==
  ASSUME NEW u
  PROVE  IsFiniteSet(ToAnnounce(u)) /\ Cardinality(ToAnnounce(u)) \in Nat
BY CallsAssumption, FS_Subset, FS_CardinalityType DEF ToAnnounce

\* The invariant holds what is asked of likes and of visibility.
LEMMA PostsShow == PostsInv => PostsAgree
<1> SUFFICES ASSUME PostsInv PROVE PostsAgree
  OBVIOUS
<1>1. LikeAnnouncedOnce
  <2> SUFFICES ASSUME NEW u \in Viewers PROVE notices.likes[u] <= likedTimes[u]
    BY DEF PostsInv, LikeAnnouncedOnce
  <2>1. /\ notices.likes[u] \in Nat /\ likedTimes[u] \in Nat
        /\ notices.likes[u] + Cardinality(ToAnnounce(u)) <= likedTimes[u]
    BY DEF PostsInv, PostsTyped, AnnouncedAtMost, Everyone
  <2> QED BY <2>1, ToAnnounceFinite
<1>2. VisibilityAgrees
  BY PostsAssumption DEF PostsInv, PostsTyped, VisibilityAgrees, RequireVisiblePost,
     ViewerCanSeePost, ListSaved, SavedPostWhere, ListByAuthor, SocialPool, DiscoveryPool
<1> QED BY <1>1, <1>2 DEF PostsAgree

\* Nothing is liked at first.
LEMMA PostsStart == PostsInit /\ SlotsInit => PostsInv
<1> SUFFICES ASSUME PostsInit, SlotsInit PROVE PostsInv
  OBVIOUS
<1>1. \A u \in Viewers : ToAnnounce(u) = {}
  BY DEF SlotsInit, ToAnnounce, At, Idle
<1>2. \A u \in Viewers : Cardinality(ToAnnounce(u)) = 0
  BY <1>1, FS_EmptySet
<1>3. PostsTyped /\ PostCalls
  BY DEF PostsInit, SlotsInit, PostsTyped, PostCalls, At, Idle
<1> QED BY <1>2, <1>3 DEF PostsInit, PostsInv, AnnouncedAtMost, Everyone

\* A step of a call that neither creates nor announces a like.
LEMMA LikesStay ==
  ASSUME PostsInv, PostsTyped', UNCHANGED <<likedTimes, notices>>, NEW c \in Calls, NEW k,
         call' = [call EXCEPT ![c] = k],
         ~At(c, "announceLike"), "step" \in DOMAIN k, k.step # "announceLike",
         k.step = "like" => k \in [step : {"like"}, who : Everyone],
         k.step \in {"comment", "announceComment"} =>
           k \in [step : {"comment", "announceComment"}, who : Everyone, comment : Comments]
  PROVE  PostsInv'
<1>1. PostCalls'
  BY DEF PostsInv, PostCalls, At
<1>2. ASSUME NEW u \in Viewers PROVE ToAnnounce(u)' = ToAnnounce(u)
  BY DEF PostsInv, PostCalls, ToAnnounce, At
<1>3. AnnouncedAtMost'
  BY <1>2 DEF PostsInv, AnnouncedAtMost
<1> QED BY <1>1, <1>3 DEF PostsInv

\* Every step keeps likes, calls and notices in step.
LEMMA PostsKept ==
  ASSUME PostsInv, [PostsNext]_<<posting, call>>
  PROVE  PostsInv'
<1> USE DEF At
<1>1. PostsTyped /\ PostCalls /\ AnnouncedAtMost /\ notices.likes[Author] = 0
  BY DEF PostsInv
<1>2. ASSUME UNCHANGED <<likedTimes, notices, call>>, PostsTyped' PROVE PostsInv'
  BY <1>2 DEF PostsInv, PostCalls, AnnouncedAtMost, ToAnnounce
<1>3. ASSUME NEW u \in Viewers, ChangeConnection(u) PROVE PostsInv'
  BY <1>1, <1>2, <1>3 DEF ChangeConnection, PostsTyped
<1>4. ASSUME NEW u \in Everyone, Unsave(u) PROVE PostsInv'
  BY <1>1, <1>2, <1>4 DEF Unsave, PostsTyped
<1>5. ASSUME NEW c \in Calls, NEW k, Begin(c, k), PostsTyped', UNCHANGED <<likedTimes, notices>>,
             "step" \in DOMAIN k, k.step # "announceLike",
             k.step = "like" => k \in [step : {"like"}, who : Everyone],
             k.step \in {"comment", "announceComment"} =>
               k \in [step : {"comment", "announceComment"}, who : Everyone, comment : Comments]
      PROVE  PostsInv'
  <2>1. ~At(c, "announceLike")
    BY <1>5 DEF Begin, Idle
  <2> QED BY <1>5, <2>1, LikesStay DEF Begin
<1>6. ASSUME NEW c \in Calls, CreatePost(c) PROVE PostsInv'
  BY <1>1, <1>5, <1>6 DEF CreatePost, Step, PostsTyped
<1>7. ASSUME NEW c \in Calls, DeletePost(c) PROVE PostsInv'
  BY <1>1, <1>5, <1>7 DEF DeletePost, Step, PostsTyped, posting
<1>8. ASSUME NEW c \in Calls, NEW u \in Everyone, Like(c, u) \/ Unlike(c, u) \/ Save(c, u)
      PROVE PostsInv'
  <2>1. PICK s \in {"like", "unlike", "save"} : Begin(c, Step(s, u)) /\ UNCHANGED posting
    BY <1>8 DEF Like, Unlike, Save
  <2> PICK k : k = Step(s, u)
    OBVIOUS
  <2>2. /\ k.step = s /\ "step" \in DOMAIN k
        /\ s = "like" => k \in [step : {"like"}, who : Everyone]
    BY DEF Step
  <2> QED BY <1>1, <1>5, <2>1, <2>2 DEF PostsTyped, posting
<1>9. ASSUME NEW c \in Calls, NEW u \in Everyone, NEW k \in Comments,
             Comment(c, u, k) \/ DeleteComment(c, u, k)
      PROVE PostsInv'
  BY <1>1, <1>5, <1>9 DEF Comment, DeleteComment, PostsTyped, posting
<1>10. ASSUME NEW c \in Calls, Finish(c), ~At(c, "announceLike"), PostsTyped',
              UNCHANGED <<likedTimes, notices>>
       PROVE  PostsInv'
  <2> PICK k : k = Idle
    OBVIOUS
  <2>1. "step" \in DOMAIN k /\ k.step = "idle" /\ call' = [call EXCEPT ![c] = k]
    BY <1>10 DEF Idle, Finish
  <2> QED BY <1>10, <2>1, LikesStay
<1>11. ASSUME NEW c \in Calls, NEW step \in {"uncountPost", "announceComment"}, Goto(c, step),
              ~At(c, "announceLike"), step = "announceComment" => At(c, "comment"),
              PostsTyped', UNCHANGED <<likedTimes, notices>>
       PROVE  PostsInv'
  <2> PICK k : k = [call[c] EXCEPT !.step = step]
    OBVIOUS
  <2>1. "step" \in DOMAIN k /\ k.step = step
    BY <1>1, <1>11 DEF PostCalls
  <2>3. At(c, "comment") /\ step = "announceComment" =>
          k \in [step : {"comment", "announceComment"}, who : Everyone, comment : Comments]
    BY <1>1, <1>11 DEF PostCalls
  <2>2. call' = [call EXCEPT ![c] = k]
    BY <1>1, <1>11 DEF Goto, PostCalls
  <2> QED BY <1>11, <2>1, <2>2, <2>3, LikesStay
<1>12. ASSUME NEW c \in Calls, SoftDeletePost(c) PROVE PostsInv'
  BY <1>1, <1>11, <1>12 DEF SoftDeletePost, PostsTyped
<1>13. ASSUME NEW c \in Calls, IncrementPostsCount(c) \/ DeleteLike(c) \/ CreateSave(c)
                                 \/ SoftDeleteComment(c)
       PROVE PostsInv'
  BY <1>1, <1>10, <1>13 DEF IncrementPostsCount, DeleteLike, CreateSave, SoftDeleteComment,
     PostsTyped
<1>14. ASSUME NEW c \in Calls, CreateComment(c) PROVE PostsInv'
  BY <1>1, <1>10, <1>11, <1>14 DEF CreateComment, PostsTyped
<1>15. ASSUME NEW c \in Calls, NotifyPostCommented(c) PROVE PostsInv'
  <2>1. /\ notices' = [notices EXCEPT !.comments = @ \cup {call[c].comment}]
        /\ call[c].comment \in Comments /\ UNCHANGED likedTimes
    BY <1>1, <1>15 DEF NotifyPostCommented, PostCalls
  <2>2. PostsTyped' /\ notices'.likes = notices.likes
    BY <1>1, <1>15, <2>1 DEF NotifyPostCommented, PostsTyped
  <2>3. PostCalls'
    BY <1>1, <1>15 DEF NotifyPostCommented, PostCalls, Finish, Idle
  <2>4. ASSUME NEW u \in Viewers PROVE ToAnnounce(u)' = ToAnnounce(u)
    BY <1>1, <1>15 DEF NotifyPostCommented, PostCalls, Finish, Idle, ToAnnounce
  <2> QED BY <1>1, <2>1, <2>2, <2>3, <2>4 DEF PostsInv, AnnouncedAtMost
<1>16. ASSUME NEW c \in Calls, CreateLike(c) PROVE PostsInv'
  <2> PICK u : u = call[c].who
    OBVIOUS
  <2>1. call[c] \in [step : {"like"}, who : Everyone] /\ call[c].step = "like"
    BY <1>1, <1>16 DEF CreateLike, PostCalls
  <2>2. \A v \in Viewers : likedTimes'[v] = likedTimes[v] + IF v = u /\ v \notin likes THEN 1 ELSE 0
    BY <1>16 DEF CreateLike
  <2>3. PostsTyped'
    <3>1. likedTimes' \in [Viewers -> Nat]
      BY <1>1, <1>16 DEF CreateLike, PostsTyped
    <3> QED BY <1>1, <1>16, <3>1 DEF CreateLike, PostsTyped
  <2>4. ASSUME NEW v \in Viewers
        PROVE  likedTimes[v] \in Nat /\ likedTimes'[v] \in Nat /\ likedTimes[v] <= likedTimes'[v]
               /\ notices.likes[v] \in Nat
    BY <1>1, <2>2 DEF PostsTyped, Everyone
  <2>5. CASE ~Announces(u)
    <3>1. call' = [call EXCEPT ![c] = Idle]
      BY <1>16, <2>5 DEF CreateLike, Finish
    <3>2. PostCalls'
      BY <1>1, <3>1 DEF PostCalls, Idle
    <3>3. \A v \in Viewers : ToAnnounce(v)' = ToAnnounce(v)
      BY <1>1, <2>1, <3>1 DEF PostCalls, Idle, ToAnnounce
    <3>4. AnnouncedAtMost'
      <4> SUFFICES ASSUME NEW v \in Viewers
                   PROVE  notices'.likes[v] + Cardinality(ToAnnounce(v)') <= likedTimes'[v]
        BY DEF AnnouncedAtMost
      <4>1. Cardinality(ToAnnounce(v)') = Cardinality(ToAnnounce(v)) /\ notices' = notices
        BY <1>16, <3>3 DEF CreateLike
      <4>2. notices.likes[v] + Cardinality(ToAnnounce(v)) <= likedTimes[v]
        BY <1>1 DEF AnnouncedAtMost
      <4> QED BY <2>4, <4>1, <4>2, ToAnnounceFinite
    <3> QED BY <1>1, <1>16, <2>3, <3>2, <3>4 DEF PostsInv, CreateLike
  <2>6. CASE Announces(u)
    <3>1. u \in Viewers /\ u \notin likes
      BY <2>1, <2>6 DEF Announces, Everyone
    <3>2. call' = [call EXCEPT ![c] = [call[c] EXCEPT !.step = "announceLike"]]
      BY <1>1, <1>16, <2>6 DEF CreateLike, Goto, PostCalls
    <3>3. /\ call'[c] = [step |-> "announceLike", who |-> u]
          /\ \A d \in Calls : d # c => call'[d] = call[d]
          /\ DOMAIN call' = Calls
      BY <1>1, <2>1, <3>2 DEF PostCalls
    <3>4. PostCalls'
      <4> SUFFICES ASSUME NEW d \in Calls
                   PROVE  /\ "step" \in DOMAIN call'[d]
                          /\ call'[d].step = "like" =>
                               call'[d] \in [step : {"like"}, who : Everyone]
                          /\ call'[d].step = "announceLike" => call'[d].who \in Viewers
                          /\ call'[d].step \in {"comment", "announceComment"}
                               => call'[d] \in [step : {"comment", "announceComment"},
                                 who : Everyone, comment : Comments]
        BY <3>3 DEF PostCalls
      <4>1. CASE d = c
        BY <3>1, <3>3, <4>1
      <4>2. CASE d # c
        BY <1>1, <3>3, <4>2 DEF PostCalls
      <4> QED BY <4>1, <4>2
    <3>5. ToAnnounce(u)' = ToAnnounce(u) \cup {c} /\ c \notin ToAnnounce(u)
      BY <2>1, <3>3 DEF ToAnnounce
    <3>6. Cardinality(ToAnnounce(u)') = Cardinality(ToAnnounce(u)) + 1
      BY <3>5, ToAnnounceFinite, FS_AddElement
    <3>7. \A v \in Viewers \ {u} : ToAnnounce(v)' = ToAnnounce(v)
      BY <2>1, <3>3 DEF ToAnnounce
    <3>8. AnnouncedAtMost'
      <4> SUFFICES ASSUME NEW v \in Viewers
                   PROVE  notices'.likes[v] + Cardinality(ToAnnounce(v)') <= likedTimes'[v]
        BY DEF AnnouncedAtMost
      <4>1. notices.likes[v] + Cardinality(ToAnnounce(v)) <= likedTimes[v] /\ notices' = notices
        BY <1>1, <1>16 DEF AnnouncedAtMost, CreateLike
      <4>2. CASE v = u
        BY <2>2, <2>4, <3>1, <3>6, <4>1, <4>2, ToAnnounceFinite
      <4>3. CASE v # u
        BY <2>2, <2>4, <3>7, <4>1, <4>3, ToAnnounceFinite
      <4> QED BY <4>2, <4>3
    <3> QED BY <1>1, <1>16, <2>3, <3>4, <3>8 DEF PostsInv, CreateLike
  <2> QED BY <2>5, <2>6
<1>17. ASSUME NEW c \in Calls, NotifyPostLiked(c) PROVE PostsInv'
  <2> PICK u : u = call[c].who
    OBVIOUS
  <2>1. u \in Viewers /\ u # Author /\ u \in Everyone
    BY <1>1, <1>17, PostsAssumption DEF NotifyPostLiked, PostCalls, Everyone
  <2>2. notices' = [notices EXCEPT !.likes[u] = @ + 1] /\ UNCHANGED likedTimes
    BY <1>17 DEF NotifyPostLiked
  <2>3. /\ notices'.likes = [notices.likes EXCEPT ![u] = @ + 1]
        /\ PostsTyped'
    BY <1>1, <1>17, <2>1, <2>2 DEF PostsTyped, NotifyPostLiked
  <2>4. call'[c] = Idle /\ (\A d \in Calls : d # c => call'[d] = call[d]) /\ DOMAIN call' = Calls
    BY <1>1, <1>17 DEF NotifyPostLiked, Finish, PostCalls
  <2>5. PostCalls'
    BY <1>1, <2>4 DEF PostCalls, Idle
  <2>6. ToAnnounce(u)' = ToAnnounce(u) \ {c} /\ c \in ToAnnounce(u)
    BY <1>17, <2>4 DEF NotifyPostLiked, ToAnnounce, Idle
  <2>7. Cardinality(ToAnnounce(u)') = Cardinality(ToAnnounce(u)) - 1
    BY <2>6, ToAnnounceFinite, FS_RemoveElement
  <2>8. \A v \in Viewers \ {u} : ToAnnounce(v)' = ToAnnounce(v)
    BY <2>4 DEF ToAnnounce, Idle
  <2>9. AnnouncedAtMost'
    <3> SUFFICES ASSUME NEW v \in Viewers
                 PROVE  notices'.likes[v] + Cardinality(ToAnnounce(v)') <= likedTimes'[v]
      BY DEF AnnouncedAtMost
    <3>1. /\ notices.likes[v] + Cardinality(ToAnnounce(v)) <= likedTimes[v]
          /\ notices.likes[v] \in Nat /\ likedTimes[v] \in Nat /\ likedTimes' = likedTimes
          /\ notices'.likes[v] = IF v = u THEN notices.likes[v] + 1 ELSE notices.likes[v]
      BY <1>1, <2>1, <2>2, <2>3 DEF AnnouncedAtMost, PostsTyped, Everyone
    <3>2. CASE v = u
      BY <2>7, <3>1, <3>2, ToAnnounceFinite
    <3>3. CASE v # u
      BY <2>8, <3>1, <3>3, ToAnnounceFinite
    <3> QED BY <3>2, <3>3
  <2>10. notices'.likes[Author] = 0
    BY <1>1, <2>1, <2>3 DEF PostsTyped, Everyone
  <2> QED BY <2>3, <2>5, <2>9, <2>10 DEF PostsInv
<1>18. CASE UNCHANGED <<posting, call>>
  BY <1>1, <1>2, <1>18 DEF posting, PostsTyped
<1> QED BY <1>3, <1>4, <1>6, <1>7, <1>8, <1>9, <1>12, <1>13, <1>14, <1>15, <1>16, <1>17, <1>18
        DEF PostsNext

----
(* Jobs: the price and the readers of one listing. *)

JobRow == [status : ListingStatus \cup {"none"}, deleted : BOOLEAN, posted : BOOLEAN,
           price : Pricing]
WholePrice(p) == p \in Pricing /\ Accepts(p) /\ Resolved(p) = p
Columns == {"type", "fixed", "min", "max"}

\* What a call carries: an edit leaves the four columns alone or sends one whole price; a move
\* that opens the listing dates it unless it was dated when read.
JobCall(k) ==
  \/ k = Idle
  \/ /\ k.step = "editJob" /\ "step" \in DOMAIN k
     /\ \/ \A f \in Columns : k.price[f] = None
        \/ WholePrice(k.price)
  \/ /\ k.step = "moveJob" /\ "step" \in DOMAIN k
     /\ k.to \in ListingStatus /\ k.posts \in BOOLEAN
     /\ job.status # "none" /\ (k.to = "open" => k.posts \/ job.posted)
  \/ k.step \in {"apply", "saveJob"} /\ "step" \in DOMAIN k /\ k.who \in JobReaders

JobsInv ==
  /\ job \in JobRow /\ WholePrice(job.price)
  /\ job.status = "open" => job.posted
  /\ DOMAIN call = Calls
  /\ \A c \in Calls : JobCall(call[c])

\* What an accepted price resolves to is accepted and resolves to itself.
LEMMA ResolvedIsWhole ==
  ASSUME NEW p \in Pricing, Accepts(p)
  PROVE  WholePrice(Resolved(p))
<1>1. CASE p.type = "fixed"
  <2>1. PICK r : r = Resolved(p)
    OBVIOUS
  <2>2. r = [p EXCEPT !.min = 0, !.max = 0] /\ p.fixed > 0
    BY <1>1, <2>1 DEF Resolved, Accepts
  <2>3. r \in Pricing /\ r.type = "fixed" /\ r.fixed > 0 /\ r.min = 0 /\ r.max = 0
    BY <1>1, <2>2, JobsAssumption DEF Pricing
  <2>4. [r EXCEPT !.min = 0, !.max = 0] = r
    BY <2>3 DEF Pricing
  <2> QED BY <2>1, <2>3, <2>4 DEF WholePrice, Resolved, Accepts
<1>2. CASE p.type = "range"
  <2>1. PICK r : r = Resolved(p)
    OBVIOUS
  <2>2. r = [p EXCEPT !.fixed = 0] /\ p.min > 0 /\ p.max >= p.min
    BY <1>2, <2>1 DEF Resolved, Accepts
  <2>3. r \in Pricing /\ r.type = "range" /\ r.fixed = 0 /\ r.min > 0 /\ r.max >= r.min
    BY <1>2, <2>2, JobsAssumption DEF Pricing
  <2>4. [r EXCEPT !.fixed = 0] = r
    BY <2>3 DEF Pricing
  <2> QED BY <2>1, <2>3, <2>4 DEF WholePrice, Resolved, Accepts
<1>3. CASE p.type \notin {"fixed", "range"}
  <2>1. Resolved(p) = Negotiable
    BY <1>3 DEF Resolved
  <2>2. Negotiable \in Pricing /\ Negotiable.type = "negotiable"
    BY JobsAssumption DEF Negotiable, Pricing, PricingTypes
  <2> QED BY <2>1, <2>2 DEF WholePrice, Resolved, Accepts
<1> QED BY <1>1, <1>2, <1>3

\* An edit that sends a whole price replaces the price, one that sends none keeps it.
LEMMA WholePriceIsSent ==
  ASSUME NEW p \in Pricing, NEW q
  PROVE  /\ WholePrice(q) => Overlay(p, q) = q
         /\ (\A f \in Columns : q[f] = None) => Overlay(p, q) = p
<1>1. DOMAIN p = Columns /\ p = [f \in Columns |-> p[f]]
  BY DEF Pricing, Columns
<1>2. ASSUME WholePrice(q) PROVE Overlay(p, q) = q
  <2>1. q \in Pricing
    BY <1>2 DEF WholePrice
  <2>2. q.type # None /\ q.fixed # None /\ q.min # None /\ q.max # None
    BY <2>1, JobsAssumption DEF Pricing
  <2>3. q = [f \in Columns |-> q[f]] /\ \A f \in Columns : q[f] # None
    BY <2>1, <2>2 DEF Pricing, Columns
  <2> QED BY <1>1, <2>3 DEF Overlay
<1>3. ASSUME \A f \in Columns : q[f] = None PROVE Overlay(p, q) = p
  BY <1>1, <1>3 DEF Overlay
<1> QED BY <1>2, <1>3

\* The rules of visibility agree in every state, those of the price by the invariant.
LEMMA JobsShow == JobsInv => ListingsHold
<1> SUFFICES ASSUME JobsInv PROVE ListingsHold
  OBVIOUS
<1>1. ListingIsWhole
  BY DEF JobsInv, ListingIsWhole, WholePrice
<1>2. JobListsAgree
  <2> SUFFICES ASSUME NEW u \in JobReaders
               PROVE  /\ \A status \in ListingStatus : ListListings(u, status) => GetListing(u)
                      /\ ListSavedJobs(u) => GetListing(u)
                      /\ u \in jobSaves /\ JobThere /\ CanSaveJob(u) => ListSavedJobs(u)
    BY DEF JobListsAgree
  <2>1. ASSUME NEW status \in ListingStatus, ListListings(u, status) PROVE GetListing(u)
    BY <2>1 DEF ListListings, GetListing, CallerScoped, CanReadListing
  <2>2. ASSUME ListSavedJobs(u) PROVE GetListing(u)
    BY <2>2 DEF ListSavedJobs, GetListing, JobThere, ClosedFamily, CanReadListing
  <2>3. ASSUME u \in jobSaves, CanSaveJob(u) PROVE ListSavedJobs(u)
    BY <2>3 DEF CanSaveJob, ListSavedJobs
  <2> QED BY <2>1, <2>2, <2>3
<1> QED BY <1>1, <1>2 DEF ListingsHold

\* A row that does not exist has the price that is negotiable.
LEMMA JobsStart == JobsInit /\ SlotsInit => JobsInv
<1> SUFFICES ASSUME JobsInit, SlotsInit PROVE JobsInv
  OBVIOUS
<1>1. Negotiable \in Pricing /\ Negotiable.type = "negotiable"
  BY JobsAssumption DEF Negotiable, Pricing, PricingTypes
<1>2. WholePrice(Negotiable)
  BY <1>1 DEF WholePrice, Accepts, Resolved
<1> QED BY <1>1, <1>2 DEF JobsInit, SlotsInit, JobsInv, JobRow, JobCall, Idle

\* The table of a listing leads to statuses only.
LEMMA MovesAreStatuses ==
  ASSUME NEW s PROVE ListingTransitions(s) \subseteq ListingStatus
BY DEF ListingTransitions, ListingStatus

\* The listing as it is written serves the calls in flight.
LEMMA JobMoves ==
  ASSUME JobsInv, job' \in JobRow, WholePrice(job'.price), job'.status = "open" => job'.posted,
         job.status = "none" \/ (job'.status # "none" /\ (job.posted => job'.posted)),
         NEW c \in Calls, NEW k, JobCall(k)', call' = call \/ call' = [call EXCEPT ![c] = k]
  PROVE  JobsInv'
<1>1. ASSUME NEW d \in Calls PROVE JobCall(call[d])'
  <2>1. JobCall(call[d]) /\ (call'[d] = call[d] \/ call'[d] = k)
    BY DEF JobsInv
  <2>2. JobCall(call[d])'
    BY <2>1 DEF JobCall
  <2> QED BY <2>1, <2>2
<1> QED BY <1>1 DEF JobsInv

\* Every step of an edit, a move or a reader keeps the listing whole.
LEMMA JobsKept ==
  ASSUME JobsInv, [JobsNext]_<<jobs, call>>
  PROVE  JobsInv'
<1>1. /\ job \in JobRow /\ WholePrice(job.price) /\ (job.status = "open" => job.posted)
      /\ DOMAIN call = Calls /\ \A c \in Calls : JobCall(call[c])
  BY DEF JobsInv
<1>2. ASSUME CreateListing PROVE JobsInv'
  <2>1. PICK p \in Pricing, publish \in BOOLEAN :
          /\ Accepts(p) /\ job.status = "none" /\ call' = call
          /\ job' = [status |-> IF publish THEN "open" ELSE "draft", deleted |-> FALSE,
                     posted |-> publish, price |-> Resolved(p)]
    BY <1>2 DEF CreateListing
  <2>2. WholePrice(Resolved(p))
    BY <2>1, ResolvedIsWhole
  <2>3. job' \in JobRow /\ WholePrice(job'.price) /\ (job'.status = "open" => job'.posted)
    BY <2>1, <2>2 DEF JobRow, ListingStatus, WholePrice
  <2>4. ASSUME NEW d \in Calls PROVE JobCall(call[d])'
    BY <1>1, <2>1 DEF JobCall
  <2> QED BY <1>1, <2>1, <2>3, <2>4 DEF JobsInv
<1>3. ASSUME SoftDeleteListing PROVE JobsInv'
  <2>1. job' = [job EXCEPT !.deleted = TRUE] /\ call' = call
    BY <1>3 DEF SoftDeleteListing
  <2>2. job' \in JobRow /\ job'.price = job.price /\ job'.status = job.status
          /\ job'.posted = job.posted
    BY <1>1, <2>1 DEF JobRow
  <2>3. ASSUME NEW d \in Calls PROVE JobCall(call[d])'
    BY <1>1, <2>1, <2>2 DEF JobCall
  <2> QED BY <1>1, <2>1, <2>2, <2>3 DEF JobsInv
<1>4. ASSUME NEW u \in JobReaders, UnsaveJob(u) PROVE JobsInv'
  BY <1>1, <1>4 DEF UnsaveJob, JobsInv, JobCall
<1>5. ASSUME NEW c \in Calls, UpdateListing(c) PROVE JobsInv'
  <2>1. PICK sent \in [type : PricingTypes \cup {None}, fixed : Prices \cup {None},
                       min : Prices \cup {None}, max : Prices \cup {None}] :
          LET merged == Overlay(job.price, sent) IN
          /\ Accepts(merged)
          /\ Begin(c, [step |-> "editJob", price |-> Repriced(sent, merged)])
    BY <1>5 DEF UpdateListing
  <2>2. PICK merged : merged = Overlay(job.price, sent)
    OBVIOUS
  <2>3. job.price \in Pricing
    BY <1>1 DEF JobRow
  <2>4. merged = [f \in Columns |-> IF sent[f] = None THEN job.price[f] ELSE sent[f]]
    BY <2>2, <2>3 DEF Overlay, Pricing, Columns
  <2>5. /\ merged.type \in PricingTypes /\ merged.fixed \in Prices
        /\ merged.min \in Prices /\ merged.max \in Prices
    BY <2>1, <2>3, <2>4 DEF Pricing, Columns
  <2>6. merged \in Pricing
    BY <2>4, <2>5 DEF Pricing, Columns
  <2>7. WholePrice(Resolved(merged))
    BY <2>1, <2>2, <2>6, ResolvedIsWhole
  <2>8. PICK k : k = [step |-> "editJob", price |-> Repriced(sent, merged)]
    OBVIOUS
  <2>9. call' = [call EXCEPT ![c] = k] /\ job' = job
    BY <1>5, <2>1, <2>2, <2>8 DEF Begin, UpdateListing, jobs
  <2>10. (\A f \in Columns : k.price[f] = None) \/ WholePrice(k.price)
    BY <2>1, <2>7, <2>8 DEF Repriced, Columns
  <2>11. JobCall(k)'
    BY <2>8, <2>10 DEF JobCall
  <2> QED BY <1>1, <2>9, <2>11, JobMoves
<1>6. ASSUME NEW c \in Calls, WriteListing(c) PROVE JobsInv'
  <2>1. PICK k : k = call[c]
    OBVIOUS
  <2>2. JobCall(k) /\ k.step = "editJob"
    BY <1>1, <1>6, <2>1 DEF WriteListing, At
  <2>3. (\A f \in Columns : k.price[f] = None) \/ WholePrice(k.price)
    BY <2>2 DEF JobCall, Idle
  <2>4. PICK p : p = Overlay(job.price, k.price)
    OBVIOUS
  <2>5. WholePrice(p) /\ p \in Pricing
    BY <1>1, <2>3, <2>4, WholePriceIsSent DEF WholePrice
  <2>6. job' = job \/ job' = [job EXCEPT !.price = p]
    BY <1>1, <1>6, <2>1, <2>4 DEF WriteListing, JobRow
  <2>7. job' \in JobRow /\ WholePrice(job'.price) /\ job'.status = job.status
          /\ job'.posted = job.posted
    BY <1>1, <2>5, <2>6 DEF JobRow
  <2>8. call' = [call EXCEPT ![c] = Idle] /\ JobCall(Idle)'
    BY <1>6 DEF WriteListing, Finish, JobCall
  <2> QED BY <1>1, <2>7, <2>8, JobMoves
<1>7. ASSUME NEW c \in Calls, TransitionListing(c) PROVE JobsInv'
  <2>1. PICK to \in ListingTransitions(job.status) :
          Begin(c, [step |-> "moveJob", to |-> to, posts |-> to = "open" /\ ~job.posted])
    BY <1>7 DEF TransitionListing
  <2>2. PICK k : k = [step |-> "moveJob", to |-> to, posts |-> to = "open" /\ ~job.posted]
    OBVIOUS
  <2>3. call' = [call EXCEPT ![c] = k] /\ job' = job /\ job.status # "none"
    BY <1>7, <2>1, <2>2 DEF Begin, TransitionListing, JobThere, jobs
  <2>4. to \in ListingStatus
    BY MovesAreStatuses
  <2>5. JobCall(k)'
    BY <1>1, <2>2, <2>3, <2>4 DEF JobCall, JobRow
  <2> QED BY <1>1, <2>3, <2>5, JobMoves
<1>8. ASSUME NEW c \in Calls, MoveListing(c) PROVE JobsInv'
  <2>1. PICK k : k = call[c]
    OBVIOUS
  <2>2. JobCall(k) /\ k.step = "moveJob"
    BY <1>1, <1>8, <2>1 DEF MoveListing, At
  <2>3. /\ k.to \in ListingStatus /\ k.posts \in BOOLEAN /\ job.status # "none"
        /\ k.to = "open" => k.posts \/ job.posted
    BY <2>2 DEF JobCall, Idle
  <2>4. job' = job \/ job' = [job EXCEPT !.status = k.to, !.posted = @ \/ k.posts]
    BY <1>8, <2>1 DEF MoveListing
  <2>5. job' \in JobRow /\ job'.price = job.price /\ job'.status # "none"
          /\ (job'.status = "open" => job'.posted) /\ (job.posted => job'.posted)
    BY <1>1, <2>3, <2>4 DEF JobRow, ListingStatus
  <2>6. call' = [call EXCEPT ![c] = Idle] /\ JobCall(Idle)'
    BY <1>8 DEF MoveListing, Finish, JobCall
  <2> QED BY <1>1, <2>5, <2>6, JobMoves
<1>9. ASSUME NEW c \in Calls, NEW u \in JobReaders, Apply(c, u) \/ SaveJob(c, u)
      PROVE  JobsInv'
  <2>1. PICK s \in {"apply", "saveJob"} : Begin(c, [step |-> s, who |-> u]) /\ job' = job
    BY <1>9 DEF Apply, SaveJob, jobs
  <2>2. JobCall([step |-> s, who |-> u])'
    BY DEF JobCall
  <2> QED BY <1>1, <2>1, <2>2, JobMoves DEF Begin
<1>10. ASSUME NEW c \in Calls, CreateApplication(c) \/ CreateJobSave(c) PROVE JobsInv'
  <2>1. call' = [call EXCEPT ![c] = Idle] /\ job' = job /\ JobCall(Idle)'
    BY <1>10 DEF CreateApplication, CreateJobSave, Finish, JobCall
  <2> QED BY <1>1, <2>1, JobMoves
<1>11. CASE UNCHANGED <<jobs, call>>
  BY <1>1, <1>11 DEF jobs, JobsInv, JobCall
<1> QED BY <1>2, <1>3, <1>4, <1>5, <1>6, <1>7, <1>8, <1>9, <1>10, <1>11 DEF JobsNext

----
(* Labels: the category of one listing. *)

TaggedRow == [category : Categories \cup {None}, custom : Words \cup {None},
              label : Words \cup {None}, skills : SUBSET TagSkills]

\* The label of a listing is that of its category, and only Other has a text.
WellLabelled(t) ==
  /\ t.category = OtherCategory <=> t.custom # None
  /\ t.category = OtherCategory => t.label = t.custom
  /\ t.category \in Categories \ {OtherCategory} => t.label = t.category

TagCall(k) ==
  \/ k = Idle
  \/ /\ "step" \in DOMAIN k /\ k.step = "tag"
     /\ k.category \in {Design, None} /\ k.links \in SUBSET TagSkills

LabelsInv ==
  /\ tagged \in TaggedRow /\ offered \subseteq Categories /\ inUse \subseteq TagSkills
  /\ WellLabelled(tagged)
  /\ DOMAIN call = Calls /\ \A c \in Calls : TagCall(call[c])

\* The old listing has the label it was typed with.
LEMMA LabelsStart == LabelsInit /\ SlotsInit => LabelsInv
BY LabelsAssumption DEF LabelsInit, SlotsInit, LabelsInv, TaggedRow, WellLabelled, TagCall, Old

\* What is well labelled can be sent back as it is, and moved to what is on offer.
LEMMA LabelsShow == LabelsInv => LabelsAgree
<1> SUFFICES ASSUME LabelsInv PROVE LabelsAgree
  OBVIOUS
<1>1. /\ tagged.category \in Categories \cup {None} /\ tagged.custom \in Words \cup {None}
      /\ tagged.skills \in SUBSET TagSkills /\ WellLabelled(tagged)
      /\ offered \subseteq Categories /\ inUse \subseteq TagSkills
  BY DEF LabelsInv, TaggedRow
<1>2. ASSUME tagged.category # None
      PROVE  Accepted([category |-> tagged.category, custom |-> Omitted, skills |-> tagged.skills])
  <2>1. tagged.category # Omitted
    BY <1>1, <1>2, LabelsAssumption
  <2>2. PICK k : k = [category |-> tagged.category, custom |-> Omitted, skills |-> tagged.skills]
    OBVIOUS
  <2>3. Resulting(k) = tagged.category /\ k.custom = Omitted
    BY <2>1, <2>2 DEF Resulting
  <2>4. CustomAccepted(k)
    BY <1>1, <2>3 DEF CustomAccepted, WellLabelled
  <2>5. CategoryAccepted(k) /\ SkillsAccepted(k)
    BY <2>2 DEF CategoryAccepted, SkillsAccepted
  <2> QED BY <2>2, <2>4, <2>5 DEF Accepted
<1>3. ASSUME NEW g \in offered \ {OtherCategory}
      PROVE  Accepted([category |-> g, custom |-> Omitted, skills |-> inUse])
  <2>1. g # Omitted
    BY <1>1, LabelsAssumption
  <2>2. PICK k : k = [category |-> g, custom |-> Omitted, skills |-> inUse]
    OBVIOUS
  <2>3. Resulting(k) = g /\ k.custom = Omitted
    BY <2>1, <2>2 DEF Resulting
  <2>4. CustomAccepted(k)
    BY <1>1, <2>3 DEF CustomAccepted
  <2>5. CategoryAccepted(k) /\ SkillsAccepted(k)
    BY <2>2 DEF CategoryAccepted, SkillsAccepted
  <2> QED BY <2>2, <2>4, <2>5 DEF Accepted
<1> QED BY <1>1, <1>2, <1>3 DEF LabelsAgree, WellLabelled

\* Every edit, every change of the catalog and the backfill keep the label.
LEMMA LabelsKept ==
  ASSUME LabelsInv, [LabelsNext]_<<labelling, call>>
  PROVE  LabelsInv'
<1>1. /\ tagged \in TaggedRow /\ offered \subseteq Categories /\ inUse \subseteq TagSkills
      /\ WellLabelled(tagged) /\ DOMAIN call = Calls /\ \A c \in Calls : TagCall(call[c])
  BY DEF LabelsInv
<1>2. ASSUME CatalogSwitch PROVE LabelsInv'
  BY <1>1, <1>2 DEF CatalogSwitch, LabelsInv, WellLabelled, TaggedRow, TagCall
<1>3. ASSUME UpdateTags PROVE LabelsInv'
  <2>1. PICK k \in Edit :
          /\ Accepted(k)
          /\ tagged' = [category |-> Resulting(k), custom |-> Custom(k), label |-> Label(k),
                        skills |-> IF k.skills = Omitted THEN tagged.skills ELSE k.skills]
    BY <1>3 DEF UpdateTags
  <2>2. /\ k.category \in Categories \cup {Omitted} /\ k.custom \in Words \cup {None, Omitted}
        /\ k.skills \in (SUBSET TagSkills) \cup {Omitted}
    BY DEF Edit
  <2>3. /\ tagged.category \in Categories \cup {None} /\ tagged.custom \in Words \cup {None}
        /\ tagged.label \in Words \cup {None} /\ tagged.skills \in SUBSET TagSkills
    BY <1>1 DEF TaggedRow
  <2>4. /\ tagged'.category = Resulting(k) /\ tagged'.custom = Custom(k)
        /\ tagged'.label = Label(k)
    BY <2>1
  <2>5. CustomAccepted(k)
    BY <2>1 DEF Accepted
  <2>6. Resulting(k) \in Categories \cup {None}
    BY <2>2, <2>3 DEF Resulting
  <2>7. CASE Resulting(k) = OtherCategory
    <3>1. Custom(k) \in Words /\ (k.custom = Omitted => Custom(k) = tagged.custom)
      BY <2>2, <2>3, <2>5, <2>7, LabelsAssumption DEF CustomAccepted, Custom
    <3>2. Label(k) = Custom(k)
      <4>1. CASE k.category = Omitted
        BY <1>1, <2>2, <2>3, <2>5, <2>7, <3>1, <4>1, LabelsAssumption
           DEF Label, Custom, CustomAccepted, Resulting, WellLabelled
      <4>2. CASE k.category # Omitted
        BY <2>7, <4>2, LabelsAssumption DEF Label, Resulting
      <4> QED BY <4>1, <4>2
    <3>3. WellLabelled(tagged)' /\ tagged' \in TaggedRow
      BY <2>1, <2>2, <2>3, <2>4, <2>6, <2>7, <3>1, <3>2, LabelsAssumption DEF WellLabelled,
         TaggedRow
    <3> QED BY <1>1, <1>3, <3>3 DEF LabelsInv, UpdateTags, TagCall
  <2>8. CASE Resulting(k) # OtherCategory
    <3>1. Custom(k) = None
      BY <2>2, <2>5, <2>8, LabelsAssumption DEF CustomAccepted, Custom
    <3>2. k.custom \notin Words
      BY <2>5, <2>8, LabelsAssumption DEF CustomAccepted
    <3>3. /\ Label(k) \in Words \cup {None}
          /\ Resulting(k) \in Categories => Label(k) = Resulting(k)
      <4>1. CASE k.category = Omitted
        BY <1>1, <2>2, <2>3, <2>8, <3>2, <4>1, LabelsAssumption DEF Label, Resulting, WellLabelled
      <4>2. CASE k.category # Omitted
        BY <2>2, <2>8, <4>2, LabelsAssumption DEF Label, Resulting
      <4> QED BY <4>1, <4>2
    <3>4. WellLabelled(tagged)' /\ tagged' \in TaggedRow
      BY <2>1, <2>2, <2>3, <2>4, <2>6, <2>8, <3>1, <3>3, LabelsAssumption DEF WellLabelled,
         TaggedRow
    <3> QED BY <1>1, <1>3, <3>4 DEF LabelsInv, UpdateTags, TagCall
  <2> QED BY <2>7, <2>8
<1>4. ASSUME NEW c \in Calls, PlanTags(c) PROVE LabelsInv'
  <2>1. PICK links \in SUBSET TagSkills :
          Begin(c, [step |-> "tag", category |-> IF Design \in offered THEN Design ELSE None,
                    links |-> links])
    BY <1>4 DEF PlanTags
  <2>2. PICK k : k = [step |-> "tag", category |-> IF Design \in offered THEN Design ELSE None,
                      links |-> links]
    OBVIOUS
  <2>3. TagCall(k) /\ call' = [call EXCEPT ![c] = k] /\ UNCHANGED labelling
    BY <1>4, <2>1, <2>2 DEF TagCall, Begin, PlanTags
  <2> QED BY <1>1, <2>3 DEF LabelsInv, labelling, WellLabelled, TaggedRow, TagCall
<1>5. ASSUME NEW c \in Calls, ApplyTags(c) PROVE LabelsInv'
  <2>1. PICK k : k = call[c]
    OBVIOUS
  <2>2. TagCall(k) /\ k.step = "tag"
    BY <1>1, <1>5, <2>1 DEF ApplyTags, At
  <2>3. k.category \in {Design, None} /\ k.links \in SUBSET TagSkills
    BY <2>2 DEF TagCall, Idle
  <2>4. tagged' = [tagged EXCEPT !.category = IF StillUnlabelled(k) THEN k.category ELSE @,
                                 !.skills = IF @ = {} THEN k.links ELSE @]
    BY <1>5, <2>1 DEF ApplyTags
  <2>5. PICK g, s : /\ g = (IF StillUnlabelled(k) THEN k.category ELSE tagged.category)
                    /\ s = (IF tagged.skills = {} THEN k.links ELSE tagged.skills)
    OBVIOUS
  <2>6. tagged' = [tagged EXCEPT !.category = g, !.skills = s]
    BY <1>1, <2>4, <2>5 DEF TaggedRow
  <2>7. g \in Categories \cup {None} /\ s \in SUBSET TagSkills
    BY <1>1, <2>3, <2>5, LabelsAssumption DEF TaggedRow
  <2>8. /\ tagged' \in TaggedRow /\ tagged'.category = g /\ tagged'.label = tagged.label
        /\ tagged'.custom = tagged.custom
    BY <1>1, <2>6, <2>7 DEF TaggedRow
  <2>9. WellLabelled(tagged)'
    <3>1. CASE StillUnlabelled(k)
      BY <1>1, <2>3, <2>5, <2>8, <3>1, LabelsAssumption DEF StillUnlabelled, WellLabelled
    <3>2. CASE ~StillUnlabelled(k)
      BY <1>1, <2>5, <2>8, <3>2 DEF WellLabelled
    <3> QED BY <3>1, <3>2
  <2> QED BY <1>1, <1>5, <2>8, <2>9 DEF LabelsInv, ApplyTags, Finish, TagCall
<1>6. CASE UNCHANGED <<labelling, call>>
  BY <1>1, <1>6 DEF labelling, LabelsInv, WellLabelled, TaggedRow, TagCall
<1> QED BY <1>2, <1>3, <1>4, <1>5, <1>6 DEF LabelsNext

----
(* Discovery: what guests and members were shown. *)

Audiences == {"guest", "member"}
TextsShown == ItemsShown \X Nat
FoundRead == [step : {"found"}, audience : Audiences, items : SUBSET ItemsShown,
              seen : SUBSET TextsShown]
ShownRead == [step : {"shown"}, audience : Audiences, items : SUBSET TextsShown,
              seen : SUBSET TextsShown]

DiscoveryTyped ==
  /\ item \in [ItemsShown -> [shown : BOOLEAN, text : Nat]]
  /\ call \in [Calls -> {Idle} \cup FoundRead \cup ShownRead]

\* A request that has found its rows has seen what can be seen now.
SeesThePresent ==
  \A c \in Calls : At(c, "found") =>
    CanBeSeen(call[c].audience, standing, item) \subseteq call[c].seen

DiscoveryInv == DiscoveryTyped /\ SeesThePresent /\ AnswersWereVisible

\* Nothing has been read at first.
LEMMA DiscoveryStart == DiscoveryInit /\ SlotsInit => DiscoveryInv
BY DEF DiscoveryInit, SlotsInit, DiscoveryInv, DiscoveryTyped, SeesThePresent,
   AnswersWereVisible, At, Idle

\* What can be seen are texts of the items.
LEMMA CanBeSeenType ==
  ASSUME NEW a, NEW status, NEW rows \in [ItemsShown -> [shown : BOOLEAN, text : Nat]]
  PROVE  CanBeSeen(a, status, rows) \in SUBSET TextsShown
BY DEF CanBeSeen, TextsShown

\* A new read, with what can be seen now.
LEMMA ReadBegins ==
  ASSUME DiscoveryInv, NEW c \in Calls, NEW step \in {"found", "shown"}, NEW a \in Audiences,
         NEW items, BeginReading(c, step, a, items),
         step = "found" => items \in SUBSET ItemsShown,
         step = "shown" => items \in SUBSET CanBeSeen(a, standing, item)
  PROVE  DiscoveryInv'
<1> PICK k : k = [step |-> step, audience |-> a, items |-> items,
                  seen |-> CanBeSeen(a, standing, item)]
  OBVIOUS
<1>1. DiscoveryTyped /\ UNCHANGED discovering /\ call' = [call EXCEPT ![c] = k]
  BY DEF DiscoveryInv, BeginReading, Begin
<1>2. CanBeSeen(a, standing, item) \in SUBSET TextsShown
  BY <1>1, CanBeSeenType DEF DiscoveryTyped
<1>3. k \in FoundRead \cup ShownRead
  BY <1>2 DEF FoundRead, ShownRead
<1>4. DiscoveryTyped'
  BY <1>1, <1>3 DEF DiscoveryTyped, discovering
<1>5. SeesThePresent'
  BY <1>1 DEF DiscoveryInv, DiscoveryTyped, SeesThePresent, At, discovering, CanBeSeen, Shown,
     Discoverable
<1>6. AnswersWereVisible'
  BY <1>1 DEF DiscoveryInv, DiscoveryTyped, AnswersWereVisible, At
<1> QED BY <1>4, <1>5, <1>6 DEF DiscoveryInv

\* Every read, edit and change of standing keeps what readers saw in step.
LEMMA DiscoveryKept ==
  ASSUME DiscoveryInv, [DiscoveryNext]_<<discovering, call>>
  PROVE  DiscoveryInv'
<1>1. DiscoveryTyped /\ SeesThePresent /\ AnswersWereVisible
  BY DEF DiscoveryInv
<1>2. ASSUME Change, Watched PROVE DiscoveryInv'
  <2>1. item' \in [ItemsShown -> [shown : BOOLEAN, text : Nat]]
    <3>1. ASSUME NEW i \in ItemsShown, SwitchItem(i)
          PROVE  item' \in [ItemsShown -> [shown : BOOLEAN, text : Nat]]
      <4>1. item' = [item EXCEPT ![i] = [item[i] EXCEPT !.shown = ~item[i].shown]]
        BY <3>1 DEF SwitchItem
      <4>2. item[i] \in [shown : BOOLEAN, text : Nat]
        BY <1>1 DEF DiscoveryTyped
      <4>3. [item[i] EXCEPT !.shown = ~item[i].shown] \in [shown : BOOLEAN, text : Nat]
        BY <4>2
      <4> QED BY <1>1, <4>1, <4>3 DEF DiscoveryTyped
    <3>2. ASSUME NEW i \in ItemsShown, EditShown(i)
          PROVE  item' \in [ItemsShown -> [shown : BOOLEAN, text : Nat]]
      BY <1>1, <3>2 DEF EditShown, DiscoveryTyped
    <3>3. ASSUME ChangeStanding PROVE item' \in [ItemsShown -> [shown : BOOLEAN, text : Nat]]
      BY <1>1, <3>3 DEF ChangeStanding, DiscoveryTyped
    <3> QED BY <1>2, <3>1, <3>2, <3>3 DEF Change
  <2>2. \A c \in Calls : ~Reading(c) => call'[c] = call[c]
    BY <1>2 DEF Watched
  <2>3. ASSUME NEW c \in Calls, Reading(c)
        PROVE  /\ call[c] \in FoundRead => call'[c] \in FoundRead
               /\ call[c] \in ShownRead => call'[c] \in ShownRead
               /\ call'[c].step = call[c].step /\ call'[c].audience = call[c].audience
               /\ call'[c].items = call[c].items
               /\ call'[c].seen = call[c].seen \cup CanBeSeen(call[c].audience, standing', item')
    <3>1. call'[c] = [call[c] EXCEPT !.seen = @ \cup CanBeSeen(call[c].audience, standing', item')]
      BY <1>2, <2>3 DEF Watched
    <3>2. call[c] \in FoundRead \cup ShownRead
      BY <1>1, <2>3 DEF DiscoveryTyped, Reading, Idle
    <3>3. CanBeSeen(call[c].audience, standing', item') \in SUBSET TextsShown
      BY <2>1, CanBeSeenType
    <3> QED BY <3>1, <3>2, <3>3 DEF FoundRead, ShownRead
  <2>4. DiscoveryTyped'
    <3>1. DOMAIN call' = Calls /\ call' = [c \in Calls |-> call'[c]]
      BY <1>2 DEF Watched
    <3>2. \A c \in Calls : call'[c] \in {Idle} \cup FoundRead \cup ShownRead
      BY <1>1, <2>2, <2>3 DEF DiscoveryTyped, Reading, Idle
    <3> QED BY <2>1, <3>1, <3>2 DEF DiscoveryTyped
  <2>5. SeesThePresent'
    BY <1>1, <2>2, <2>3 DEF SeesThePresent, At, Reading, CanBeSeen, Shown, Discoverable
  <2>6. AnswersWereVisible'
    BY <1>1, <2>2, <2>3 DEF AnswersWereVisible, At, Reading
  <2> QED BY <2>4, <2>5, <2>6 DEF DiscoveryInv
<1>3. \A a \in Audiences : ItemsFor(a) \subseteq ItemsShown
        /\ \A is \in SUBSET ItemsFor(a) : Copies(is) \subseteq CanBeSeen(a, standing, item)
  BY DEF ItemsFor, Copies, CanBeSeen
<1>4. ASSUME NEW c \in Calls, ReadAtOnce(c) PROVE DiscoveryInv'
  <2>1. PICK found \in SUBSET ItemsFor("guest") :
          BeginReading(c, "shown", "guest", Copies(found))
    BY <1>4 DEF ReadAtOnce
  <2> QED BY <1>3, <2>1, ReadBegins DEF Audiences
<1>5. ASSUME NEW c \in Calls, RequireDiscoverableUser(c) PROVE DiscoveryInv'
  BY <1>5, ReadBegins DEF RequireDiscoverableUser, Audiences
<1>6. ASSUME NEW c \in Calls, SearchPublic(c) \/ SearchExplore(c) PROVE DiscoveryInv'
  <2>1. PICK a \in Audiences : \E found \in SUBSET ItemsFor(a) : BeginReading(c, "found", a, found)
    BY <1>6 DEF SearchPublic, SearchExplore, Audiences
  <2>2. PICK found \in SUBSET ItemsFor(a) : BeginReading(c, "found", a, found)
    BY <2>1
  <2> QED BY <1>3, <2>2, ReadBegins
<1>7. ASSUME NEW c \in Calls, Load(c) PROVE DiscoveryInv'
  <2> PICK k : k = call[c]
    OBVIOUS
  <2> DEFINE shown == Copies({i \in k.items : LoadFilter(k.audience, i)})
  <2>1. k \in FoundRead /\ CanBeSeen(k.audience, standing, item) \subseteq k.seen
    BY <1>1, <1>7 DEF Load, At, DiscoveryTyped, Idle, ShownRead, SeesThePresent
  <2>2. shown \subseteq CanBeSeen(k.audience, standing, item)
    BY <2>1 DEF Copies, LoadFilter, CanBeSeen, FoundRead
  <2>3. shown \subseteq k.seen /\ k.seen \in SUBSET TextsShown /\ shown \in SUBSET TextsShown
    BY <2>1, <2>2 DEF FoundRead
  <2>4. call'[c] = [step |-> "shown", audience |-> k.audience, items |-> shown, seen |-> k.seen]
        /\ (\A d \in Calls : d # c => call'[d] = call[d]) /\ UNCHANGED discovering
    BY <1>1, <1>7, <2>1 DEF Load, DiscoveryTyped, FoundRead
  <2>5. call'[c] \in ShownRead
    BY <2>1, <2>3, <2>4 DEF FoundRead, ShownRead
  <2>6. call' = [call EXCEPT ![c] = call'[c]]
    BY <1>1, <1>7 DEF Load, DiscoveryTyped
  <2>7. DiscoveryTyped'
    BY <1>1, <2>4, <2>5, <2>6 DEF DiscoveryTyped, discovering
  <2>8. SeesThePresent'
    BY <1>1, <2>4 DEF SeesThePresent, At, discovering, CanBeSeen, Shown, Discoverable
  <2>9. AnswersWereVisible'
    BY <1>1, <2>3, <2>4 DEF AnswersWereVisible, At
  <2> QED BY <2>7, <2>8, <2>9 DEF DiscoveryInv
<1>8. ASSUME NEW c \in Calls, Answer(c) PROVE DiscoveryInv'
  BY <1>1, <1>8 DEF Answer, Finish, DiscoveryInv, DiscoveryTyped, SeesThePresent,
     AnswersWereVisible,
     At, Idle, discovering, CanBeSeen, Shown, Discoverable
<1>9. CASE UNCHANGED <<discovering, call>>
  BY <1>1, <1>9 DEF DiscoveryInv, DiscoveryTyped, SeesThePresent, AnswersWereVisible,
     At, discovering, CanBeSeen, Shown, Discoverable
<1> QED BY <1>2, <1>4, <1>5, <1>6, <1>7, <1>8, <1>9 DEF DiscoveryNext

----
(* Unread: the mark of a work request. *)

Write == [step : {"writeRequest"}, side : Sides, views : BOOLEAN, stamp : Nat, updated : Nat,
          crossed : BOOLEAN]

UnreadTyped ==
  /\ nowStamp \in Nat
  /\ dot \in [updated : Nat, viewed : [Sides -> Nat]]
  /\ owed \in [Sides -> BOOLEAN] /\ caughtUp \in [Sides -> BOOLEAN]
  /\ call \in [Calls -> Write \cup {Idle}]

\* No stamp is of the future.
StampsArePast ==
  /\ dot.updated <= nowStamp /\ \A s \in Sides : dot.viewed[s] <= nowStamp
  /\ \A c \in Calls : call[c] # Idle =>
       call[c].stamp <= call[c].updated /\ call[c].updated <= nowStamp
\* What the other side has seen, or is about to stamp, is older than a write that nobody
\* crossed.
NewerUnlessCrossed ==
  \A c \in Calls : call[c] # Idle /\ ~call[c].crossed =>
    /\ \A s \in Sides : s # call[c].side => dot.viewed[s] < call[c].stamp
    /\ \A d \in Calls : call[d] # Idle /\ call[d].views /\ call[d].side # call[c].side =>
         call[d].stamp < call[c].stamp

UnreadInv == UnreadTyped /\ StampsArePast /\ NewerUnlessCrossed /\ UnreadIsUnseen

\* The conversation has two sides.
LEMMA TwoSides ==
  ASSUME NEW s \in Sides
  PROVE  OtherSide(s) \in Sides /\ OtherSide(s) # s /\ Sides = {s, OtherSide(s)}
BY DEF Sides, OtherSide

\* Nothing is unread at first.
LEMMA UnreadStart == UnreadInit /\ SlotsInit => UnreadInv
BY DEF UnreadInit, SlotsInit, UnreadInv, UnreadTyped, StampsArePast, NewerUnlessCrossed,
   UnreadIsUnseen, IsUnread, CountsAsUnread

\* A call that a view crosses is the call it was.
LEMMA CrossedType ==
  ASSUME UnreadTyped, NEW s \in Sides
  PROVE  /\ Crossed(s) \in [Calls -> Write \cup {Idle}]
         /\ \A c \in Calls : (call[c] = Idle) <=> (Crossed(s)[c] = Idle)
         /\ \A c \in Calls : call[c] # Idle =>
              /\ \A f \in {"side", "views", "stamp", "updated"} : Crossed(s)[c][f] = call[c][f]
              /\ call[c].crossed => Crossed(s)[c].crossed
              /\ ~Crossed(s)[c].crossed => ~call[c].crossed /\ call[c].side = s
BY DEF UnreadTyped, Crossed, Write, Idle

\* Every stamp, view and write keeps the invariant.
LEMMA UnreadKept ==
  ASSUME UnreadInv, [UnreadNext]_<<unreadVars, call>>
  PROVE  UnreadInv'
<1>1. UnreadTyped /\ StampsArePast /\ NewerUnlessCrossed /\ UnreadIsUnseen
  BY DEF UnreadInv
<1>2. ASSUME NEW s \in Sides, MarkWorkRequestViewed(s) PROVE UnreadInv'
  <2>1. /\ nowStamp' = nowStamp + 1 /\ call' = Crossed(s)
        /\ dot' = [updated |-> dot.updated, viewed |-> [dot.viewed EXCEPT ![s] = nowStamp + 1]]
        /\ owed' = [owed EXCEPT ![s] = FALSE] /\ caughtUp' = [caughtUp EXCEPT ![s] = TRUE]
    BY <1>2 DEF MarkWorkRequestViewed, UpdatedByView
  <2>2. /\ dot'.updated = dot.updated /\ dot'.viewed[s] = nowStamp + 1
        /\ \A t \in Sides : t # s => dot'.viewed[t] = dot.viewed[t]
    BY <1>1, <2>1 DEF UnreadTyped
  <2>3. UnreadTyped'
    BY <1>1, <2>1, CrossedType DEF UnreadTyped
  <2>4. StampsArePast'
    BY <1>1, <2>1, <2>2, CrossedType DEF UnreadTyped, StampsArePast, Write
  <2>5. NewerUnlessCrossed'
    BY <1>1, <2>1, <2>2, CrossedType DEF UnreadTyped, NewerUnlessCrossed, Write
  <2>6. UnreadIsUnseen'
    BY <1>1, <2>1, <2>2 DEF UnreadTyped, StampsArePast, UnreadIsUnseen, IsUnread, CountsAsUnread
  <2> QED BY <2>3, <2>4, <2>5, <2>6 DEF UnreadInv
<1>3. ASSUME NEW c \in Calls, NEW s \in Sides, NEW views \in BOOLEAN, TakeStamps(c, s, views)
      PROVE  UnreadInv'
  <2>1. PICK lag \in {0, 1} :
          /\ nowStamp' = nowStamp + 1 + lag
          /\ call' = [IF views THEN Crossed(s) ELSE call
                      EXCEPT ![c] = [step |-> "writeRequest", side |-> s, views |-> views,
                                     stamp |-> nowStamp + 1, updated |-> nowStamp + 1 + lag,
                                     crossed |-> FALSE]]
    BY <1>3 DEF TakeStamps
  <2> DEFINE k == [step |-> "writeRequest", side |-> s, views |-> views,
                   stamp |-> nowStamp + 1, updated |-> nowStamp + 1 + lag, crossed |-> FALSE]
  <2> PICK before : before = IF views THEN Crossed(s) ELSE call
    OBVIOUS
  <2>2. /\ before \in [Calls -> Write \cup {Idle}]
        /\ \A d \in Calls : (call[d] = Idle) <=> (before[d] = Idle)
        /\ \A d \in Calls : call[d] # Idle =>
              /\ before[d].side = call[d].side /\ before[d].views = call[d].views
              /\ before[d].stamp = call[d].stamp /\ before[d].updated = call[d].updated
              /\ ~before[d].crossed => ~call[d].crossed /\ (views => call[d].side = s)
    BY <1>1, CrossedType DEF UnreadTyped, Write
  <2>3. k \in Write /\ k # Idle
    BY <1>1 DEF UnreadTyped, Write, Idle
  <2>4. call' \in [Calls -> Write \cup {Idle}] /\ call'[c] = k
        /\ \A d \in Calls : d # c => call'[d] = before[d]
    BY <2>1, <2>2, <2>3
  <2>5. UNCHANGED <<dot, owed, caughtUp>> /\ nowStamp \in Nat /\ nowStamp' \in Nat
          /\ nowStamp' >= nowStamp + 1
    BY <1>1, <1>3, <2>1 DEF TakeStamps, UnreadTyped
  <2>6. UnreadTyped'
    BY <1>1, <2>4, <2>5 DEF UnreadTyped
  <2>7. StampsArePast'
    <3>1. \A d \in Calls : call'[d] # Idle =>
            call'[d].stamp <= call'[d].updated /\ call'[d].updated <= nowStamp'
      <4> SUFFICES ASSUME NEW d \in Calls, call'[d] # Idle
                   PROVE  call'[d].stamp <= call'[d].updated /\ call'[d].updated <= nowStamp'
        OBVIOUS
      <4>1. CASE d = c
        BY <2>1, <2>4, <2>5, <4>1
      <4>2. CASE d # c
        <5>1. call'[d] = before[d] /\ call[d] # Idle /\ call[d] \in Write
          BY <1>1, <2>2, <2>4, <4>2 DEF UnreadTyped
        <5> QED BY <1>1, <2>2, <2>5, <5>1 DEF StampsArePast, Write
      <4> QED BY <4>1, <4>2
    <3> QED BY <1>1, <2>5, <3>1 DEF StampsArePast, UnreadTyped
  <2>8. NewerUnlessCrossed'
    <3> SUFFICES ASSUME NEW d \in Calls, call'[d] # Idle, ~call'[d].crossed
                 PROVE  /\ \A t \in Sides : t # call'[d].side => dot'.viewed[t] < call'[d].stamp
                        /\ \A e \in Calls : call'[e] # Idle /\ call'[e].views
                                              /\ call'[e].side # call'[d].side =>
                             call'[e].stamp < call'[d].stamp
      BY DEF NewerUnlessCrossed
    <3>1. \A e \in Calls : e # c /\ call'[e] # Idle => call[e] # Idle /\ call[e] \in Write
      BY <1>1, <2>2, <2>4 DEF UnreadTyped
    <3>2. CASE d = c
      <4>1. \A t \in Sides : dot.viewed[t] \in Nat /\ dot.viewed[t] <= nowStamp
        BY <1>1 DEF StampsArePast, UnreadTyped
      <4>2. \A e \in Calls : e # c /\ call[e] # Idle => call[e].stamp < nowStamp + 1
        BY <1>1 DEF StampsArePast, UnreadTyped, Write
      <4> QED BY <2>2, <2>4, <2>5, <3>1, <3>2, <4>1, <4>2
    <3>3. CASE d # c
      <4>1. /\ call[d] # Idle /\ call[d] \in Write /\ ~call[d].crossed /\ (views =>
                 call[d].side = s)
            /\ call'[d].side = call[d].side /\ call'[d].stamp = call[d].stamp
        BY <2>2, <2>4, <3>1, <3>3
      <4>2. \A e \in Calls : e # c /\ call'[e] # Idle /\ call'[e].views
              /\ call'[e].side # call'[d].side
              => call'[e].stamp < call'[d].stamp
        BY <1>1, <2>2, <2>4, <3>1, <4>1 DEF NewerUnlessCrossed
      <4>3. call'[c].views => call'[c].side = call'[d].side
        BY <2>4, <4>1
      <4> QED BY <1>1, <2>5, <4>1, <4>2, <4>3 DEF NewerUnlessCrossed
    <3> QED BY <3>2, <3>3
  <2>9. UnreadIsUnseen'
    BY <1>1, <2>5 DEF UnreadIsUnseen, IsUnread, CountsAsUnread
  <2> QED BY <2>6, <2>7, <2>8, <2>9 DEF UnreadInv
<1>4. ASSUME NEW c \in Calls, CommitWrite(c) PROVE UnreadInv'
  <2> PICK k : k = call[c]
    OBVIOUS
  <2> PICK o : o = OtherSide(k.side)
    OBVIOUS
  <2>1. k \in Write /\ k # Idle
    BY <1>1, <1>4 DEF CommitWrite, UnreadTyped, At, Idle
  <2>2. k.side \in Sides /\ o \in Sides /\ o # k.side /\ \A s \in Sides : s = o \/ s = k.side
    BY <2>1, TwoSides DEF Write
  <2>3. /\ dot'.updated = k.updated /\ dot'.viewed[o] = dot.viewed[o]
        /\ dot'.viewed[k.side] = IF k.views THEN k.stamp ELSE dot.viewed[k.side]
        /\ dot' \in [updated : Nat, viewed : [Sides -> Nat]]
    BY <1>1, <1>4, <2>1, <2>2 DEF CommitWrite, ViewsOf, UnreadTyped, Write
  <2>4. /\ owed' \in [Sides -> BOOLEAN] /\ owed'[o] = ~k.crossed /\ owed'[k.side] = FALSE
        /\ caughtUp' = [s \in Sides |-> FALSE] /\ nowStamp' = nowStamp
    BY <1>1, <1>4, <2>1, <2>2 DEF CommitWrite, UnreadTyped, Write
  <2>5. call' \in [Calls -> Write \cup {Idle}] /\ call'[c] = Idle
        /\ \A d \in Calls : d # c => call'[d] = call[d]
    BY <1>1, <1>4 DEF CommitWrite, Finish, UnreadTyped
  <2>6. UnreadTyped'
    BY <1>1, <2>3, <2>4, <2>5 DEF UnreadTyped
  <2>7. k.stamp \in Nat /\ k.updated \in Nat /\ k.stamp <= k.updated /\ k.updated <= nowStamp
        /\ nowStamp \in Nat
    BY <1>1, <2>1 DEF StampsArePast, UnreadTyped, Write
  <2>8. StampsArePast'
    <3>1. \A s \in Sides : dot'.viewed[s] <= nowStamp
      BY <1>1, <2>2, <2>3, <2>7 DEF StampsArePast, UnreadTyped
    <3> QED BY <1>1, <2>3, <2>4, <2>5, <2>7, <3>1 DEF StampsArePast
  <2>9. NewerUnlessCrossed'
    <3> SUFFICES ASSUME NEW d \in Calls, call'[d] # Idle, ~call'[d].crossed
                 PROVE  /\ \A t \in Sides : t # call'[d].side => dot'.viewed[t] < call'[d].stamp
                        /\ \A e \in Calls : call'[e] # Idle /\ call'[e].views
                                              /\ call'[e].side # call'[d].side =>
                             call'[e].stamp < call'[d].stamp
      BY DEF NewerUnlessCrossed
    <3>1. d # c /\ call'[d] = call[d]
      BY <2>5
    <3>2. \A e \in Calls : call'[e] # Idle => e # c /\ call'[e] = call[e]
      BY <2>5
    <3>3. \A t \in Sides : t # call[d].side => dot.viewed[t] < call[d].stamp
      BY <1>1, <3>1 DEF NewerUnlessCrossed
    <3>4. k.views /\ k.side # call[d].side => k.stamp < call[d].stamp
      BY <1>1, <2>1, <3>1 DEF NewerUnlessCrossed
    <3>5. \A t \in Sides : t # call'[d].side => dot'.viewed[t] < call'[d].stamp
      BY <2>2, <2>3, <3>1, <3>3, <3>4
    <3> QED BY <1>1, <3>1, <3>2, <3>5 DEF NewerUnlessCrossed
  <2>10. UnreadIsUnseen'
    <3>1. ~k.crossed => dot.viewed[o] < k.stamp
      BY <1>1, <2>1, <2>2 DEF NewerUnlessCrossed
    <3>2. \A s \in Sides : owed'[s] => dot'.updated > dot'.viewed[s]
      BY <1>1, <2>2, <2>3, <2>4, <2>7, <3>1 DEF UnreadTyped
    <3>3. \A s \in Sides : dot'.viewed[s] \in Nat /\ dot'.updated \in Nat /\ ~caughtUp'[s]
      BY <2>3, <2>4
    <3> QED BY <3>2, <3>3 DEF UnreadIsUnseen, IsUnread, CountsAsUnread
  <2> QED BY <2>6, <2>8, <2>9, <2>10 DEF UnreadInv
<1>5. CASE UNCHANGED <<unreadVars, call>>
  BY <1>1, <1>5 DEF UnreadInv, unreadVars, UnreadTyped, StampsArePast, NewerUnlessCrossed,
     UnreadIsUnseen, IsUnread, CountsAsUnread
<1>6. "recipient" \in Sides
  BY DEF Sides
<1> QED BY <1>2, <1>3, <1>4, <1>5, <1>6 DEF UnreadNext, RejectOnClosedListing, UpdateRequest

----
(* Terms: any amounts, dates and durations. *)

CivilDays == {d \in Nat \X Nat \X Nat : IsDate(d)}

\* A day of the calendar in its parts.
LEMMA CivilDay ==
  ASSUME NEW d \in CivilDays
  PROVE  /\ d = <<d[1], d[2], d[3]>> /\ d[1] \in Nat
         /\ d[2] \in 1..12 /\ d[3] \in 1..LastDay(d[1], d[2])
BY DEF CivilDays, IsDate

LEMMA CivilDayIs ==
  ASSUME NEW y \in Nat, NEW m \in 1..12, NEW n \in 1..LastDay(y, m)
  PROVE  <<y, m, n>> \in CivilDays
<1>1. LastDay(y, m) \in Nat
  BY DEF LastDay
<1> QED BY <1>1 DEF CivilDays, IsDate

\* Months end as they do.
LEMMA LastDays ==
  ASSUME NEW y \in Nat, NEW m \in 1..12
  PROVE  LastDay(y, m) \in 28..31
BY DEF LastDay

\* A leap year has a day more.
LEMMA LeapDays ==
  ASSUME NEW y \in Nat
  PROVE  LET before == (365 * (y - 1)) + ((y - 1) \div 4) - ((y - 1) \div 100) + ((y - 1) \div 400)
             after == (365 * y) + (y \div 4) - (y \div 100) + (y \div 400)
         IN after - before = IF Leap(y) THEN 366 ELSE 365
<1>1. (y \div 4) - ((y - 1) \div 4) = IF y % 4 = 0 THEN 1 ELSE 0
  OBVIOUS
<1>2. (y \div 100) - ((y - 1) \div 100) = IF y % 100 = 0 THEN 1 ELSE 0
  OBVIOUS
<1>3. (y \div 400) - ((y - 1) \div 400) = IF y % 400 = 0 THEN 1 ELSE 0
  OBVIOUS
<1>4. /\ y % 400 = 0 => y % 100 = 0
      /\ y % 100 = 0 => y % 4 = 0
  OBVIOUS
<1> QED BY <1>1, <1>2, <1>3, <1>4 DEF Leap

\* The day after is a day of the calendar, and the next number.
LEMMA NextDayNumber ==
  ASSUME NEW d \in CivilDays
  PROVE  NextDay(d) \in CivilDays /\ DayNumber(NextDay(d)) = DayNumber(d) + 1
<1> PICK y \in Nat, m \in 1..12, n \in Nat : y = d[1] /\ m = d[2] /\ n = d[3]
  BY CivilDay, LastDays
<1>1. d = <<y, m, n>> /\ n \in 1..LastDay(y, m)
  BY CivilDay
<1>2. LastDay(y, m) \in 28..31 /\ LastDay(y + 1, 1) = 31
  BY LastDays DEF LastDay
<1>3. CASE n < LastDay(y, m)
  <2>1. NextDay(d) = <<y, m, n + 1>> /\ n + 1 \in 1..LastDay(y, m)
    BY <1>1, <1>2, <1>3 DEF NextDay
  <2>2. DayNumber(<<y, m, n + 1>>) = DayNumber(<<y, m, n>>) + 1
    BY DEF DayNumber
  <2> QED BY <1>1, <2>1, <2>2, CivilDayIs
<1>4. CASE ~(n < LastDay(y, m)) /\ m = 12
  <2>1. NextDay(d) = <<y + 1, 1, 1>> /\ n = 31
    BY <1>1, <1>2, <1>4 DEF NextDay, LastDay
  <2>2. DayNumber(<<y + 1, 1, 1>>) = DayNumber(<<y, 12, 31>>) + 1
    BY DEF DayNumber
  <2>3. 1 \in 1..LastDay(y + 1, 1)
    BY <1>2
  <2> QED BY <1>1, <1>4, <2>1, <2>2, <2>3, CivilDayIs
<1>5. CASE ~(n < LastDay(y, m)) /\ m # 12
  <2>1. NextDay(d) = <<y, m + 1, 1>> /\ n = LastDay(y, m)
    BY <1>1, <1>2, <1>5 DEF NextDay
  <2>2. m + 1 \in 1..12 /\ 1 \in 1..LastDay(y, m + 1)
    BY <1>5, LastDays
  <2>3. DayNumber(<<y, m + 1, 1>>) = DayNumber(<<y, m, n>>) + 1
    <3>1. CASE m = 2
      <4>1. n = IF Leap(y) THEN 29 ELSE 28
        BY <2>1, <3>1 DEF LastDay
      <4>2. DayNumber(<<y, 3, 1>>) =
              (365 * y) + (y \div 4) - (y \div 100) + (y \div 400) + 1
        BY DEF DayNumber
      <4>3. DayNumber(<<y, 2, n>>) =
              (365 * (y - 1)) + ((y - 1) \div 4) - ((y - 1) \div 100) + ((y - 1) \div 400)
                + 337 + n
        BY DEF DayNumber
      <4>a. PICK before \in Int :
              before = (365 * (y - 1)) + ((y - 1) \div 4) - ((y - 1) \div 100)
                         + ((y - 1) \div 400)
        OBVIOUS
      <4>b. PICK after \in Int :
              after = (365 * y) + (y \div 4) - (y \div 100) + (y \div 400)
        OBVIOUS
      <4>4. after - before = IF Leap(y) THEN 366 ELSE 365
        BY <4>a, <4>b, LeapDays
      <4>5. DayNumber(<<y, 3, 1>>) = after + 1 /\ DayNumber(<<y, 2, n>>) = before + 337 + n
        BY <4>2, <4>3, <4>a, <4>b
      <4> QED BY <3>1, <4>1, <4>4, <4>5
    <3>2. CASE m # 2
      <4>1. m \in {1, 3, 4, 5, 6, 7, 8, 9, 10, 11} /\ n = IF m \in {4, 6, 9, 11} THEN 30 ELSE 31
        BY <1>5, <2>1, <3>2 DEF LastDay
      <4>a. PICK year : year = IF m > 2 THEN y ELSE y - 1
        OBVIOUS
      <4>b. PICK base \in Int :
              base = (365 * year) + (year \div 4) - (year \div 100) + (year \div 400)
        BY <4>a
      <4>2. DayNumber(<<y, m, n>>) = base + (((153 * ((m + 9) % 12)) + 2) \div 5) + n
        BY <4>a, <4>b DEF DayNumber
      <4>3. m + 1 > 2 <=> m > 2
        BY <4>1
      <4>4. DayNumber(<<y, m + 1, 1>>) = base + (((153 * ((m + 10) % 12)) + 2) \div 5) + 1
        BY <4>3, <4>a, <4>b DEF DayNumber
      <4>5. (((153 * ((m + 10) % 12)) + 2) \div 5) + 1
            = (((153 * ((m + 9) % 12)) + 2) \div 5) + n + 1
        BY <4>1
      <4> QED BY <4>2, <4>4, <4>5
    <3> QED BY <3>1, <3>2
  <2> QED BY <1>1, <2>1, <2>2, <2>3, CivilDayIs
<1> QED BY <1>3, <1>4, <1>5

\* So many days later is a day of the calendar, and so many numbers on.
LEMMA DaysLater ==
  ASSUME NEW d \in CivilDays, NEW n \in Nat
  PROVE  AddCalendarDays(d, n) \in CivilDays /\ DayNumber(AddCalendarDays(d, n)) = DayNumber(d) + n
<1>a. PICK step : step = [p \in Nat \X CivilDays |-> NextDay(p[2])]
  OBVIOUS
<1>1. step \in [Nat \X CivilDays -> CivilDays]
  BY <1>a, NextDayNumber
<1>b. PICK f : Recursive(f, n, CivilDays, d, step)
  BY <1>1, RecursionTo
<1>2. /\ f \in [0..n -> CivilDays] /\ f[0] = d
      /\ \A i \in 1..n : i \in Nat /\ i - 1 \in 0..n /\ i # 0 /\ f[i] = step[<<i, f[i - 1]>>]
  BY <1>b DEF Recursive
<1>3. \A i \in 1..n : f[i] = NextDay(f[i - 1])
  BY <1>2, <1>a
<1>4. \E g : g = [i \in 0..n |-> IF i = 0 THEN d ELSE NextDay(g[i - 1])]
  <2>1. \A i \in 0..n : i # 0 => i \in 1..n
    OBVIOUS
  <2>2. f = [i \in 0..n |-> IF i = 0 THEN d ELSE NextDay(f[i - 1])]
    BY <1>2, <1>3, <2>1
  <2> QED BY <2>2
<1> DEFINE day[i \in 0..n] == IF i = 0 THEN d ELSE NextDay(day[i - 1])
<1>5. day = [i \in 0..n |-> IF i = 0 THEN d ELSE NextDay(day[i - 1])]
  BY <1>4
<1>6. AddCalendarDays(d, n) = day[n]
  BY DEF AddCalendarDays
<1> HIDE DEF day
<1>7. day[0] = d /\ \A i \in 1..n : day[i] = NextDay(day[i - 1])
  <2>1. \A i \in 1..n : i \in 0..n /\ i # 0
    OBVIOUS
  <2>2. 0 \in 0..n
    OBVIOUS
  <2> QED BY <1>5, <2>1, <2>2
<1> DEFINE T == {i \in Nat : i <= n => day[i] \in CivilDays /\ DayNumber(day[i]) = DayNumber(d) + i}
<1>8. 0 \in T
  <2>1. DayNumber(d) + 0 = DayNumber(d)
    <3>1. d = <<d[1], d[2], d[3]>> /\ d[1] \in Nat /\ d[2] \in Nat /\ d[3] \in Nat
      BY CivilDay, LastDays
    <3> QED BY <3>1 DEF DayNumber
  <2> QED BY <1>7, <2>1
<1>9. ASSUME NEW i \in Nat, i \in T PROVE i + 1 \in T
  <2>1. CASE i + 1 <= n
    <3>1. i + 1 \in 1..n /\ i <= n
      BY <2>1
    <3>2. day[i + 1] = NextDay(day[i])
      BY <1>7, <3>1
    <3>3. day[i] \in CivilDays /\ DayNumber(day[i]) = DayNumber(d) + i
      BY <1>9, <3>1
    <3>4. day[i + 1] \in CivilDays /\ DayNumber(day[i + 1]) = DayNumber(d) + i + 1
      BY <3>2, <3>3, NextDayNumber
    <3>5. DayNumber(d) \in Int
      <4>1. d[1] \in Nat /\ d[2] \in Nat /\ d[3] \in Nat
        BY CivilDay, LastDays
      <4> QED BY <4>1 DEF DayNumber
    <3>6. DayNumber(d) + i + 1 = DayNumber(d) + (i + 1)
      BY <3>5
    <3> QED BY <3>4, <3>6
  <2>2. CASE ~(i + 1 <= n)
    BY <2>2
  <2> QED BY <2>1, <2>2
<1>10. n \in T
  <2> HIDE DEF T
  <2> QED BY <1>8, <1>9, SetInduction
<1> QED BY <1>6, <1>10

\* So many months later is a day of the calendar: the same, or the last of a shorter month.
LEMMA MonthsLater ==
  ASSUME NEW d \in CivilDays, NEW n \in Nat
  PROVE  LET due == AddCalendarMonths(d, n) IN
         /\ due \in CivilDays /\ 12 * due[1] + due[2] = 12 * d[1] + d[2] + n
         /\ due[3] = d[3] \/ due[3] = LastDay(due[1], due[2])
<1>a. PICK y \in Nat, m \in 1..12, k \in Nat : y = d[1] /\ m = d[2] /\ k = d[3] /\ 1 <= k
  BY CivilDay, LastDays
<1>b. PICK x \in Nat : x = m - 1 + n
  OBVIOUS
<1>c. PICK q \in Nat, r \in 0..11 : q = x \div 12 /\ r = x % 12 /\ x = 12 * q + r
  <2>1. x \div 12 \in Nat /\ x % 12 \in 0..11 /\ x = 12 * (x \div 12) + (x % 12)
    OBVIOUS
  <2> QED BY <2>1
<1>d. PICK ty \in Nat : ty = y + q
  OBVIOUS
<1>e. PICK tm \in 1..12 : tm = r + 1
  OBVIOUS
<1>1. 12 * ty + tm = 12 * y + m + n
  <2>1. 12 * q + r = m - 1 + n
    BY <1>b, <1>c
  <2> QED BY <1>d, <1>e, <2>1
<1>f. PICK last \in 28..31 : last = LastDay(ty, tm)
  BY LastDays
<1>g. PICK day : day = IF k <= last THEN k ELSE last
  OBVIOUS
<1>2. TargetMonth(d, n) = <<ty, tm>>
  BY <1>a, <1>b, <1>c, <1>d, <1>e DEF TargetMonth
<1>3. AddCalendarMonths(d, n) = <<ty, tm, day>>
  BY <1>2, <1>a, <1>f, <1>g DEF AddCalendarMonths
<1>4. day \in 1..last /\ (day = k \/ day = last)
  BY <1>a, <1>g
<1>5. <<ty, tm, day>> \in CivilDays
  BY <1>4, <1>f, CivilDayIs
<1> QED BY <1>1, <1>3, <1>4, <1>5, <1>a, <1>f

----
\* What a deadline can be, whatever the day on which it was sent.
AllDeadlines ==
  LabelDeadlines \cup {ExactDate(d) : d \in Dates}
    \cup {DateRange(r[1], r[2]) : r \in Dates \X Dates}
WellTermed(t) ==
  /\ t = [money |-> t.money, addons |-> t.addons, deadline |-> t.deadline]
  /\ t.deadline \in AllDeadlines \cup {Nothing}

\* The schedule of work that has started: the dates agreed, or those of a duration from the day
\* it started.
ScheduleOf(deadline, started) ==
  LET agreedDates == ScheduleFromAgreedDeadline(deadline) IN
  IF agreedDates = Nothing THEN ScheduleFromDuration(deadline, started) ELSE agreedDates

TermsTyped ==
  /\ today \in Dates /\ WellTermed(original)
  /\ request \in {"none", "pending", "changes_requested", "changes_declined", "accepted"}
  /\ request = "changes_requested" => WellTermed(proposed)
  /\ request = "accepted" => WellTermed(agreed)
  /\ engagement \in [status : {"none", "pending_payment", "in_progress", "delivered"},
                     detail : {engagement.detail}, started : Dates \cup {Nothing}]
DealSigned ==
  IF request = "accepted"
  THEN /\ engagement.status # "none" /\ Payable(agreed)
       /\ engagement.detail = DetailOf(agreed)
  ELSE engagement = NoEngagement
ScheduledAsSigned ==
  /\ engagement.status = "pending_payment" =>
       engagement.started = Nothing /\ schedule = ScheduleFromAgreedDeadline(agreed.deadline)
  /\ engagement.status \in {"in_progress", "delivered"} =>
       engagement.started \in Dates /\ schedule = ScheduleOf(agreed.deadline, engagement.started)

TermsInv == TermsTyped /\ DealSigned /\ ScheduledAsSigned

\* The dates that come in are days of the calendar.
LEMMA DatesAreDays == Dates \subseteq CivilDays
BY TermsAssumption DEF CivilDays

\* The kinds of deadlines.
LEMMA DeadlineKinds ==
  ASSUME NEW d \in AllDeadlines
  PROVE  /\ d.type \in {"flexible", "exact_date", "date_range", "duration"}
         /\ d.type = "exact_date" => d.start \in Dates
         /\ d.type = "date_range" => d.start \in Dates /\ d.end \in Dates
         /\ d.type = "duration" => d.value \in Nat /\ d.unit \in {"days", "weeks", "months"}
<1>1. CASE d = Flexible
  BY <1>1 DEF Flexible
<1>2. CASE d \in {DurationOf(n, u) : n \in Durations, u \in DurationUnits}
  <2>1. PICK n \in Durations, u \in DurationUnits : d = DurationOf(n, u)
    BY <1>2
  <2>2. n \in Nat
    BY TermsAssumption
  <2> QED BY <2>1, <2>2 DEF DurationOf, DurationUnits
<1>3. CASE d \in {ExactDate(e) : e \in Dates}
  BY <1>3 DEF ExactDate
<1>4. CASE d \in {DateRange(r[1], r[2]) : r \in Dates \X Dates}
  <2>1. PICK r \in Dates \X Dates : d = DateRange(r[1], r[2])
    BY <1>4
  <2>2. r[1] \in Dates /\ r[2] \in Dates
    OBVIOUS
  <2> QED BY <2>1, <2>2 DEF DateRange
<1> QED BY <1>1, <1>2, <1>3, <1>4 DEF AllDeadlines, LabelDeadlines

\* What a client may send is a deadline.
LEMMA ValidAreDeadlines == ValidDeadlines \subseteq AllDeadlines
<1>1. {ExactDate(d) : d \in {e \in Dates : ~Earlier(e, today)}}
      \subseteq {ExactDate(d) : d \in Dates}
  OBVIOUS
<1>2. {DateRange(r[1], r[2]) :
          r \in {q \in Dates \X Dates : ~Earlier(q[1], today) /\ ~Earlier(q[2], q[1])}}
        \subseteq {DateRange(r[1], r[2]) : r \in Dates \X Dates}
  OBVIOUS
<1> QED BY <1>1, <1>2 DEF ValidDeadlines, AllDeadlines

\* Days are numbered by integers.
LEMMA DayNumberType == \A d \in CivilDays : DayNumber(d) \in Int
<1> SUFFICES ASSUME NEW d \in CivilDays PROVE DayNumber(d) \in Int
  OBVIOUS
<1>1. d[1] \in Nat /\ d[2] \in Nat /\ d[3] \in Nat
  BY CivilDay, LastDays
<1> QED BY <1>1 DEF DayNumber

\* due is the day that a duration from s ends.
DueBy(d, s, due) ==
  CASE d.unit = "days" -> DayNumber(due) - DayNumber(s) = d.value
    [] d.unit = "weeks" -> DayNumber(due) - DayNumber(s) = 7 * d.value
    [] OTHER -> /\ 12 * due[1] + due[2] = 12 * s[1] + s[2] + d.value
                /\ due[3] = s[3] \/ due[3] = LastDay(due[1], due[2])

LEMMA DurationIsDue ==
  ASSUME NEW d \in AllDeadlines, NEW s \in CivilDays, d # Nothing, d.type = "duration",
         d.value <= MaxDuration
  PROVE  \E due \in CivilDays :
           ScheduleFromDuration(d, s) = Schedule(due, due, "resolved_duration") /\ DueBy(d, s, due)
<1>1. d.value \in Nat /\ 7 * d.value \in Nat /\ d.unit \in {"days", "weeks", "months"}
        /\ MaxDuration \in Nat
  BY DeadlineKinds, TermsAssumption
<1>2. DayNumber(s) \in Int
  BY DayNumberType
<1>3. CASE d.unit = "months"
  <2>1. PICK due : due = AddCalendarMonths(s, d.value)
    OBVIOUS
  <2>2. due \in CivilDays /\ DueBy(d, s, due)
    BY <1>1, <1>3, <2>1, MonthsLater DEF DueBy
  <2>3. ScheduleFromDuration(d, s) = Schedule(due, due, "resolved_duration")
    BY <1>1, <1>3, <2>1 DEF ScheduleFromDuration
  <2> QED BY <2>2, <2>3
<1>4. CASE d.unit = "weeks"
  <2>1. PICK due : due = AddCalendarDays(s, 7 * d.value)
    OBVIOUS
  <2>2. due \in CivilDays /\ DayNumber(due) = DayNumber(s) + 7 * d.value
    BY <1>1, <2>1, DaysLater
  <2>3. DueBy(d, s, due)
    BY <1>1, <1>2, <1>4, <2>2 DEF DueBy
  <2>4. ScheduleFromDuration(d, s) = Schedule(due, due, "resolved_duration")
    BY <1>1, <1>4, <2>1 DEF ScheduleFromDuration
  <2> QED BY <2>2, <2>3, <2>4
<1>5. CASE d.unit = "days"
  <2>1. PICK due : due = AddCalendarDays(s, d.value)
    OBVIOUS
  <2>2. due \in CivilDays /\ DayNumber(due) = DayNumber(s) + d.value
    BY <1>1, <2>1, DaysLater
  <2>3. DueBy(d, s, due)
    BY <1>1, <1>2, <1>5, <2>2 DEF DueBy
  <2>4. ScheduleFromDuration(d, s) = Schedule(due, due, "resolved_duration")
    BY <1>1, <1>5, <2>1 DEF ScheduleFromDuration
  <2> QED BY <2>2, <2>3, <2>4
<1> QED BY <1>1, <1>3, <1>4, <1>5

\* A schedule is from a day of the calendar to one.
LEMMA ScheduleDays ==
  ASSUME NEW d \in AllDeadlines \cup {Nothing}, NEW s \in CivilDays
  PROVE  /\ \/ ScheduleFromAgreedDeadline(d) = Nothing
            \/ /\ ScheduleFromAgreedDeadline(d).start \in CivilDays
               /\ ScheduleFromAgreedDeadline(d).end \in CivilDays
         /\ \/ ScheduleOf(d, s) = Nothing
            \/ ScheduleOf(d, s).start \in CivilDays /\ ScheduleOf(d, s).end \in CivilDays
<1>1. CASE d # Nothing /\ d.type = "exact_date"
  <2>1. d.start \in CivilDays
    BY <1>1, DeadlineKinds, DatesAreDays
  <2>2. ScheduleFromAgreedDeadline(d) = Schedule(d.start, d.start, "agreed_terms")
    BY <1>1 DEF ScheduleFromAgreedDeadline
  <2>3. ScheduleFromDuration(d, s) = Nothing
    BY <1>1 DEF ScheduleFromDuration
  <2> QED BY <2>1, <2>2, <2>3 DEF ScheduleOf, Schedule
<1>2. CASE d # Nothing /\ d.type = "date_range"
  <2>1. d.start \in CivilDays /\ d.end \in CivilDays
    BY <1>2, DeadlineKinds, DatesAreDays
  <2>2. ScheduleFromAgreedDeadline(d) = Schedule(d.start, d.end, "agreed_terms")
    BY <1>2 DEF ScheduleFromAgreedDeadline
  <2>3. ScheduleFromDuration(d, s) = Nothing
    BY <1>2 DEF ScheduleFromDuration
  <2> QED BY <2>1, <2>2, <2>3 DEF ScheduleOf, Schedule
<1>3. CASE d = Nothing \/ d.type \notin {"exact_date", "date_range"}
  <2>1. ScheduleFromAgreedDeadline(d) = Nothing
    BY <1>3 DEF ScheduleFromAgreedDeadline
  <2>2. CASE d = Nothing \/ d.type # "duration" \/ d.value > MaxDuration
    BY <2>1, <2>2 DEF ScheduleOf, ScheduleFromDuration
  <2>3. CASE ~(d = Nothing \/ d.type # "duration" \/ d.value > MaxDuration)
    <3>1. d.value <= MaxDuration
      BY <2>3, DeadlineKinds, TermsAssumption
    <3>2. PICK due \in CivilDays :
            ScheduleFromDuration(d, s) = Schedule(due, due, "resolved_duration")
      BY <2>3, <3>1, DurationIsDue
    <3> QED BY <2>1, <3>2 DEF ScheduleOf, Schedule
  <2> QED BY <2>1, <2>2, <2>3
<1> QED BY <1>1, <1>2, <1>3

----
\* At first nothing is asked for.
LEMMA TermsStart == TermsInit => TermsInv
<1> SUFFICES ASSUME TermsInit PROVE TermsInv
  OBVIOUS
<1>1. WellTermed(NoTerms)
  BY DEF WellTermed, NoTerms
<1>2. /\ today \in Dates /\ request = "none" /\ original = NoTerms
      /\ engagement = NoEngagement
  BY DEF TermsInit
<1>3. engagement.status = "none" /\ TermsTyped
  BY <1>1, <1>2 DEF TermsTyped, NoEngagement
<1> QED BY <1>2, <1>3 DEF TermsInv, DealSigned, ScheduledAsSigned

\* A change of terms has terms again.
LEMMA MergeKeepsTerms ==
  ASSUME NEW base, WellTermed(base), NEW patch, patch.deadline \in AllDeadlines \cup {Absent}
  PROVE  WellTermed(MergeTerms(base, patch))
<1> PICK money, deadline : money = MergeMoney(base.money, patch.money)
                             /\ deadline = MergeDeadline(base.deadline, patch.deadline)
  OBVIOUS
<1>1. deadline \in AllDeadlines \cup {Nothing}
  BY DEF MergeDeadline, WellTermed
<1>2. MergeTerms(base, patch) = [base EXCEPT !.money = money, !.deadline = deadline]
  BY DEF MergeTerms
<1>3. MergeTerms(base, patch) = [money |-> money, addons |-> base.addons, deadline |-> deadline]
  BY <1>2 DEF WellTermed
<1> QED BY <1>1, <1>3 DEF WellTermed

\* Every step keeps what was signed.
LEMMA TermsKept == TermsInv /\ [TermsNext]_terms => TermsInv'
<1> SUFFICES ASSUME TermsInv, [TermsNext]_terms PROVE TermsInv'
  OBVIOUS
<1>1. TermsTyped /\ DealSigned /\ ScheduledAsSigned
  BY DEF TermsInv
<1>2. NoEngagement.status = "none" /\ NoEngagement.started = Nothing
  BY DEF NoEngagement
<1>3. ASSUME NewDay PROVE TermsInv'
  <2>1. today' \in Dates /\ UNCHANGED <<request, original, proposed, agreed, engagement, schedule>>
    BY <1>3 DEF NewDay
  <2> QED BY <1>1, <2>1
          DEF TermsInv, TermsTyped, DealSigned, ScheduledAsSigned, WellTermed, Payable, TermsTotal
<1>4. ASSUME NEW t, t = [money |-> t.money, addons |-> t.addons, deadline |-> t.deadline],
             t.deadline \in ValidDeadlines \cup {Nothing}, Create(t)
      PROVE  TermsInv'
  <2>1. WellTermed(t)
    BY <1>4, ValidAreDeadlines DEF WellTermed
  <2>2. /\ request = "none" /\ request' = "pending" /\ original' = t /\ today' = today
        /\ engagement' = engagement /\ engagement = NoEngagement
    BY <1>1, <1>4 DEF Create, DealSigned
  <2>3. TermsTyped'
    BY <1>1, <2>1, <2>2 DEF TermsTyped, WellTermed
  <2> QED BY <1>2, <2>2, <2>3 DEF TermsInv, DealSigned, ScheduledAsSigned
<1>5. CASE CreateServiceWorkRequest
  <2>1. PICK m, as, d :
          /\ d \in ValidDeadlines \cup {Nothing}
          /\ Create([money |-> m, addons |-> as, deadline |-> d])
    BY <1>5 DEF CreateServiceWorkRequest
  <2> PICK t : t = [money |-> m, addons |-> as, deadline |-> d]
    OBVIOUS
  <2> QED BY <1>4, <2>1
<1>6. CASE CreateDirectWorkRequest
  <2>1. PICK m, d :
          /\ d \in ValidDeadlines \cup {Nothing}
          /\ Create([money |-> m, addons |-> <<>>, deadline |-> d])
    BY <1>6 DEF CreateDirectWorkRequest
  <2> PICK t : t = [money |-> m, addons |-> <<>>, deadline |-> d]
    OBVIOUS
  <2> QED BY <1>4, <2>1
<1>7. CASE CreateFromListing
  <2>1. PICK m : Create([NoTerms EXCEPT !.money = m])
    BY <1>7 DEF CreateFromListing
  <2> PICK t : t = [NoTerms EXCEPT !.money = m]
    OBVIOUS
  <2>2. t = [money |-> m, addons |-> <<>>, deadline |-> Nothing]
    BY DEF NoTerms
  <2> QED BY <1>4, <2>1, <2>2
<1>8. CASE RequestWorkRequestChanges
  <2>1. PICK m, d :
          /\ d \in {Absent} \cup ValidDeadlines
          /\ proposed' = MergeTerms(original, [money |-> ListingCurrency(m), deadline |-> d])
    BY <1>8 DEF RequestWorkRequestChanges
  <2> PICK patch : patch = [money |-> ListingCurrency(m), deadline |-> d]
    OBVIOUS
  <2>2. patch.deadline \in AllDeadlines \cup {Absent} /\ proposed' = MergeTerms(original, patch)
    BY <2>1, ValidAreDeadlines
  <2>3. WellTermed(proposed')
    BY <1>1, <2>2, MergeKeepsTerms DEF TermsTyped
  <2>4. /\ request' = "changes_requested" /\ request # "accepted"
        /\ UNCHANGED <<today, original, engagement>>
    BY <1>8 DEF RequestWorkRequestChanges
  <2>5. TermsTyped' /\ DealSigned'
    BY <1>1, <2>3, <2>4 DEF TermsTyped, DealSigned, WellTermed
  <2> QED BY <1>2, <2>4, <2>5 DEF TermsInv, DealSigned, ScheduledAsSigned
<1>9. ASSUME NEW to \in {"pending", "changes_declined"}, DropChanges(to) PROVE TermsInv'
  <2>1. /\ request' \in {"pending", "changes_declined"} /\ request # "accepted"
        /\ UNCHANGED <<today, original, engagement>>
    BY <1>9 DEF DropChanges
  <2>2. TermsTyped' /\ DealSigned'
    BY <1>1, <2>1 DEF TermsTyped, DealSigned, WellTermed
  <2> QED BY <1>2, <2>1, <2>2 DEF TermsInv, DealSigned, ScheduledAsSigned
<1>10. CASE AcceptRequest
  <2>1. /\ request' = "accepted" /\ agreed' = TermsOnTheTable /\ Payable(TermsOnTheTable)
        /\ engagement' = [NoEngagement EXCEPT !.status = "pending_payment",
                                              !.detail = DetailOf(TermsOnTheTable)]
        /\ schedule' = ScheduleFromAgreedDeadline(TermsOnTheTable.deadline)
        /\ UNCHANGED <<today, original>>
    BY <1>10 DEF AcceptRequest
  <2>2. WellTermed(TermsOnTheTable)
    BY <1>1 DEF TermsOnTheTable, TermsTyped
  <2> PICK t : t = TermsOnTheTable
    OBVIOUS
  <2>3. engagement' = [status |-> "pending_payment", detail |-> DetailOf(t), started |-> Nothing]
    BY <2>1 DEF NoEngagement
  <2>4. TermsTyped'
    BY <1>1, <2>1, <2>2, <2>3 DEF TermsTyped, WellTermed
  <2>5. DealSigned'
    BY <2>1, <2>3 DEF DealSigned, Payable, TermsTotal
  <2>6. engagement'.status = "pending_payment" /\ engagement'.started = Nothing
    BY <2>3
  <2>7. schedule' = ScheduleFromAgreedDeadline(agreed'.deadline)
    BY <2>1
  <2>8. ScheduledAsSigned'
    BY <2>6, <2>7 DEF ScheduledAsSigned
  <2> QED BY <2>4, <2>5, <2>8 DEF TermsInv
<1>11. ASSUME NEW from \in {"pending_payment", "delivered"}, StartWork(from) PROVE TermsInv'
  <2>1. /\ engagement.status = from /\ request = "accepted"
        /\ UNCHANGED <<today, request, original, proposed, agreed>>
        /\ engagement' = [engagement EXCEPT !.status = "in_progress",
                            !.started = IF from = "pending_payment" THEN today ELSE @]
    BY <1>1, <1>2, <1>11 DEF StartWork, DealSigned
  <2> PICK started : started = IF from = "pending_payment" THEN today ELSE engagement.started
    OBVIOUS
  <2>2. /\ engagement' = [status |-> "in_progress", detail |-> engagement.detail,
                          started |-> started]
        /\ started \in Dates
    BY <1>1, <2>1 DEF TermsTyped, ScheduledAsSigned
  <2>3. TermsTyped'
    BY <1>1, <2>1, <2>2 DEF TermsTyped, WellTermed
  <2>4. DealSigned'
    BY <1>1, <2>1, <2>2 DEF DealSigned, Payable, TermsTotal
  <2>5. schedule' = ScheduleOf(agreed.deadline, started)
    <3>1. CASE from = "pending_payment"
      BY <1>1, <1>11, <2>1, <3>1
         DEF StartWork, ResolvesDuration, ScheduledAsSigned, ScheduleOf
    <3>2. CASE from = "delivered"
      BY <1>1, <1>11, <2>1, <3>2 DEF StartWork, ResolvesDuration, ScheduledAsSigned
    <3> QED BY <3>1, <3>2
  <2> QED BY <2>1, <2>2, <2>3, <2>4, <2>5 DEF TermsInv, ScheduledAsSigned
<1>12. CASE Deliver
  <2>1. /\ engagement.status = "in_progress" /\ request = "accepted"
        /\ UNCHANGED <<today, request, original, proposed, agreed, schedule>>
        /\ engagement' = [engagement EXCEPT !.status = "delivered"]
    BY <1>1, <1>2, <1>12 DEF Deliver, DealSigned
  <2>2. engagement' = [status |-> "delivered", detail |-> engagement.detail,
                       started |-> engagement.started]
    BY <1>1, <2>1 DEF TermsTyped
  <2>3. TermsTyped'
    BY <1>1, <2>1, <2>2 DEF TermsTyped, WellTermed
  <2>4. DealSigned'
    BY <1>1, <2>1, <2>2 DEF DealSigned, Payable, TermsTotal
  <2> QED BY <1>1, <2>1, <2>2, <2>3, <2>4 DEF TermsInv, ScheduledAsSigned
<1>13. CASE UNCHANGED terms
  BY <1>1, <1>13
     DEF terms, TermsInv, TermsTyped, DealSigned, ScheduledAsSigned, WellTermed, Payable, TermsTotal
<1> QED BY <1>3, <1>5, <1>6, <1>7, <1>8, <1>9, <1>10, <1>11, <1>12, <1>13 DEF TermsNext

\* The deal that was signed is charged, due and in the calendar.
LEMMA TermsShow == TermsInv => DealIsKept
<1> SUFFICES ASSUME TermsInv PROVE DealIsKept
  OBVIOUS
<1>1. TermsTyped /\ DealSigned /\ ScheduledAsSigned /\ NoEngagement.status = "none"
  BY DEF TermsInv, NoEngagement
<1>2. ChargedAsAgreed
  <2> SUFFICES ASSUME engagement.status # "none"
               PROVE  /\ ChargeableTotal(engagement.detail) = TermsTotal(agreed)
                      /\ TermsTotal(agreed).amount > 0
    BY DEF ChargedAsAgreed
  <2>1. Payable(agreed) /\ engagement.detail = DetailOf(agreed)
    BY <1>1 DEF DealSigned
  <2> QED BY <2>1 DEF Payable, TermsTotal, DetailOf, ChargeableTotal
<1>3. ASSUME engagement.status # "none"
      PROVE  /\ request = "accepted" /\ agreed.deadline \in AllDeadlines \cup {Nothing}
             /\ engagement.status \in ScheduledStatuses
  BY <1>1, <1>3 DEF DealSigned, TermsTyped, WellTermed, ScheduledStatuses
<1>4. DueAsAgreed
  <2> SUFFICES ASSUME engagement.started # Nothing, agreed.deadline # Nothing
               PROVE  DueAsAgreed
    BY DEF DueAsAgreed
  <2> PICK d : d = agreed.deadline
    OBVIOUS
  <2> PICK s : s = engagement.started
    OBVIOUS
  <2>1. /\ d \in AllDeadlines /\ s \in CivilDays /\ schedule = ScheduleOf(d, s)
        /\ d # Nothing
    BY <1>1, <1>3, DatesAreDays DEF ScheduledAsSigned, DealSigned, NoEngagement, TermsTyped
  <2>2. CASE d.type = "flexible"
    BY <2>1, <2>2 DEF DueAsAgreed, ScheduleOf, ScheduleFromAgreedDeadline, ScheduleFromDuration
  <2>3. CASE d.type = "exact_date"
    <3>1. schedule = Schedule(d.start, d.start, "agreed_terms")
      BY <2>1, <2>3 DEF ScheduleOf, ScheduleFromAgreedDeadline, ScheduleFromDuration
    <3> QED BY <2>3, <3>1 DEF DueAsAgreed, Schedule
  <2>4. CASE d.type = "date_range"
    <3>1. schedule = Schedule(d.start, d.end, "agreed_terms")
      BY <2>1, <2>4 DEF ScheduleOf, ScheduleFromAgreedDeadline, ScheduleFromDuration
    <3> QED BY <2>4, <3>1 DEF DueAsAgreed, Schedule
  <2>5. CASE d.type = "duration" /\ d.value > MaxDuration
    BY <2>1, <2>5 DEF DueAsAgreed, ScheduleOf, ScheduleFromAgreedDeadline, ScheduleFromDuration
  <2>6. CASE d.type = "duration" /\ ~(d.value > MaxDuration)
    <3>1. d.value <= MaxDuration
      BY <2>1, <2>6, DeadlineKinds, TermsAssumption
    <3>2. PICK due \in CivilDays :
            /\ ScheduleFromDuration(d, s) = Schedule(due, due, "resolved_duration")
            /\ DueBy(d, s, due)
      BY <2>1, <2>6, <3>1, DurationIsDue
    <3>3. schedule = Schedule(due, due, "resolved_duration")
      BY <2>1, <2>6, <3>2 DEF ScheduleOf, ScheduleFromAgreedDeadline
    <3>4. schedule.end = due /\ IsDate(due)
      BY <3>2, <3>3 DEF Schedule, CivilDays
    <3> QED BY <2>6, <3>2, <3>4 DEF DueAsAgreed, DueBy
  <2> QED BY <2>1, <2>2, <2>3, <2>4, <2>5, <2>6, DeadlineKinds
<1>5. OnTheCalendar
  <2> SUFFICES ASSUME engagement.status # "none", schedule # Nothing
               PROVE  \A d \in Dates \cup {schedule.start, schedule.end} :
         /\ ListCalendarSchedules(d, d) <=> ~Earlier(d, schedule.start) /\ ~Earlier(schedule.end, d)
         /\ \A from, to \in Dates :
              AssertCalendarRange(from, to) /\ ListCalendarSchedules(d, d)
                /\ ~Earlier(d, from) /\ ~Earlier(to, d)
              => ListCalendarSchedules(from, to)
    BY <1>3 DEF OnTheCalendar, ListUnscheduledCalendarEngagements, UnscheduledStatuses
  <2>1. schedule.start \in CivilDays /\ schedule.end \in CivilDays
    <3>1. today \in CivilDays
      BY <1>1, DatesAreDays DEF TermsTyped
    <3>2. CASE engagement.status = "pending_payment"
      BY <1>1, <1>3, <3>1, <3>2, ScheduleDays DEF ScheduledAsSigned
    <3>3. CASE engagement.status \in {"in_progress", "delivered"}
      BY <1>1, <1>3, <3>3, ScheduleDays, DatesAreDays DEF ScheduledAsSigned
    <3> QED BY <1>3, <3>2, <3>3 DEF ScheduledStatuses
  <2>2. ASSUME NEW a \in CivilDays, NEW b \in CivilDays, NEW c \in CivilDays
        PROVE  ~Earlier(a, a) /\ (~Earlier(a, b) /\ ~Earlier(b, c) => ~Earlier(a, c))
    <3>1. /\ a[1] \in Nat /\ a[2] \in Nat /\ a[3] \in Nat /\ b[1] \in Nat /\ b[2] \in Nat
          /\ b[3] \in Nat /\ c[1] \in Nat /\ c[2] \in Nat /\ c[3] \in Nat
      BY CivilDay, LastDays
    <3> QED BY <3>1 DEF Earlier
  <2>3. ASSUME NEW d \in CivilDays PROVE AssertCalendarRange(d, d)
    BY <2>2, DayNumberType, TermsAssumption DEF AssertCalendarRange, InclusiveCivilDaySpan
  <2>4. ASSUME NEW d \in CivilDays
        PROVE  ListCalendarSchedules(d, d)
                 <=> ~Earlier(d, schedule.start) /\ ~Earlier(schedule.end, d)
    BY <1>3, <2>3 DEF ListCalendarSchedules, CivilDatesOverlap
  <2>5. ASSUME NEW d \in CivilDays, NEW from \in CivilDays, NEW to \in CivilDays,
               AssertCalendarRange(from, to), ListCalendarSchedules(d, d), ~Earlier(d, from),
               ~Earlier(to, d)
        PROVE  ListCalendarSchedules(from, to)
    <3>1. ~Earlier(to, schedule.start) /\ ~Earlier(schedule.end, from)
      BY <2>1, <2>2, <2>4, <2>5
    <3> QED BY <1>3, <2>5, <3>1 DEF ListCalendarSchedules, CivilDatesOverlap
  <2> QED BY <2>1, <2>4, <2>5, DatesAreDays
<1> QED BY <1>2, <1>4, <1>5 DEF DealIsKept

----
(* Skills: any catalogues and names, and profiles of any length. *)

ProfileRow == [text : SkillNames, id : Keys \cup {None}]
Link == [text : SkillNames, next : SkillNames, id : Keys]
TermRows == [TermIds -> SkillNames \cup {None}]

SkillsTyped ==
  /\ skillRows \in [Keys -> {None} \cup Skill] /\ termRows \in TermRows
  /\ profile \in Seq(ProfileRow)
OneSkillPerTerm(rows) == \A i, j \in TermIds : rows[i] # None /\ rows[i] = rows[j] => i = j
NamesAreTerms == \A s \in Keys : There(s) => termRows[<<s, "canonical">>] = skillRows[s].name
LinksAreThere == \A i \in 1..Len(profile) : profile[i].id # None => There(profile[i].id)
BackfillCalls ==
  /\ DOMAIN call = Calls
  /\ \A c \in Calls : call[c].step = "backfill" =>
       call[c].links \in Seq(Link) /\ \A i \in 1..Len(call[c].links) : There(call[c].links[i].id)
CatalogInv ==
  SkillsTyped /\ OneSkillPerTerm(termRows) /\ NamesAreTerms /\ LinksAreThere /\ Savable(profile)
SkillsInv == CatalogInv /\ BackfillCalls

\* The rows a save goes through, one after the other.
LEMMA CollapseTyped ==
  ASSUME NEW kept \in Seq(ProfileRow), NEW d \in ProfileRow
  PROVE  /\ Collapse(kept, d) \in Seq(ProfileRow)
         /\ Linked(Collapse(kept, d)) = Linked(kept) \cup ({d.id} \ {None})
         /\ \A entry \in Range(kept) : \E z \in Range(Collapse(kept, d)) : z.text = entry.text
         /\ d.id = None => \E z \in Range(Collapse(kept, d)) : z.text = d.text
<1> PICK same : same = {i \in 1..Len(kept) : kept[i].id = None /\ kept[i].text = d.text}
  OBVIOUS
<1>1. CASE Collapse(kept, d) = kept /\ d.id \in Linked(kept) \cup {None}
           /\ (d.id = None => \E entry \in Range(kept) : entry.text = d.text)
  BY <1>1 DEF Linked
<1>2. CASE Collapse(kept, d) = Append(kept, d)
  <2> PICK z : z = Append(kept, d)
    OBVIOUS
  <2>1. /\ z \in Seq(ProfileRow) /\ Len(z) = Len(kept) + 1 /\ z[Len(kept) + 1] = d
        /\ \A i \in 1..Len(kept) : z[i] = kept[i]
    OBVIOUS
  <2>2. Range(z) = Range(kept) \cup {d}
    BY <2>1 DEF Range
  <2> QED BY <1>2, <2>1, <2>2 DEF Linked
<1>3. CASE d.id # None /\ d.id \notin Linked(kept) /\ same # {}
  <2>1. PICK i \in same : Collapse(kept, d) = [kept EXCEPT ![i] = d]
    BY <1>3 DEF Collapse
  <2> PICK z : z = [kept EXCEPT ![i] = d]
    OBVIOUS
  <2>2. /\ z \in Seq(ProfileRow) /\ Len(z) = Len(kept) /\ i \in 1..Len(kept) /\ z[i] = d
        /\ kept[i].id = None /\ kept[i].text = d.text
        /\ \A j \in 1..Len(kept) : j # i => z[j] = kept[j]
    OBVIOUS
  <2>3. Linked(z) = Linked(kept) \cup {d.id}
    <3>1. ASSUME NEW x, x \in Linked(z) PROVE x \in Linked(kept) \cup {d.id}
      BY <2>2, <3>1 DEF Linked, Range
    <3>2. d.id \in Linked(z)
      BY <1>3, <2>2 DEF Linked, Range
    <3>3. ASSUME NEW x, x \in Linked(kept) PROVE x \in Linked(z)
      <4>1. PICK j \in 1..Len(kept) : kept[j].id = x /\ x # None
        BY <3>3 DEF Linked, Range
      <4>2. j # i /\ z[j].id = x /\ j \in DOMAIN z
        BY <2>2, <4>1
      <4> QED BY <4>1, <4>2 DEF Linked, Range
    <3> QED BY <3>1, <3>2, <3>3
  <2>4. ASSUME NEW entry \in Range(kept) PROVE \E y \in Range(z) : y.text = entry.text
    BY <2>2, <2>4 DEF Range
  <2> QED BY <1>3, <2>1, <2>2, <2>3, <2>4
<1> QED BY <1>1, <1>2, <1>3 DEF Collapse

\* A save goes through the drafts one by one.
LEMMA CollapsedGoes ==
  ASSUME NEW drafts \in Seq(ProfileRow)
  PROVE  \E rows \in [0..Len(drafts) -> Seq(ProfileRow)] :
           /\ rows[0] = <<>> /\ Collapsed(drafts) = rows[Len(drafts)]
           /\ \A i \in 1..Len(drafts) : rows[i] = Collapse(rows[i - 1], drafts[i])
<1> PICK n \in Nat : n = Len(drafts)
  OBVIOUS
<1> PICK S : S = Seq(ProfileRow)
  OBVIOUS
<1>a. PICK step : step = [p \in Nat \X S |->
                            IF p[1] \in 1..n THEN Collapse(p[2], drafts[p[1]]) ELSE p[2]]
  OBVIOUS
<1>1. step \in [Nat \X S -> S] /\ <<>> \in S
  BY <1>a, CollapseTyped
<1>b. PICK f : Recursive(f, n, S, <<>>, step)
  BY <1>1, RecursionTo
<1>2. /\ f \in [0..n -> S] /\ f[0] = <<>>
      /\ \A i \in 1..n : i \in Nat /\ i - 1 \in 0..n /\ i \in 0..n /\ i # 0
                         /\ f[i] = step[<<i, f[i - 1]>>]
  BY <1>b DEF Recursive
<1>3. \A i \in 1..n : f[i] = Collapse(f[i - 1], drafts[i])
  BY <1>2, <1>a
<1>4. \E g : g = [i \in 0..n |-> IF i = 0 THEN <<>> ELSE Collapse(g[i - 1], drafts[i])]
  <2>1. \A i \in 0..n : i # 0 => i \in 1..n
    OBVIOUS
  <2>2. f = [i \in 0..n |-> IF i = 0 THEN <<>> ELSE Collapse(f[i - 1], drafts[i])]
    BY <1>2, <1>3, <2>1
  <2> QED BY <2>2
<1> DEFINE rows[i \in 0..n] == IF i = 0 THEN <<>> ELSE Collapse(rows[i - 1], drafts[i])
<1>5. rows = [i \in 0..n |-> IF i = 0 THEN <<>> ELSE Collapse(rows[i - 1], drafts[i])]
  BY <1>4
<1>6. Collapsed(drafts) = rows[n]
  BY DEF Collapsed
<1> HIDE DEF rows
<1>7. rows[0] = <<>> /\ \A i \in 1..n : rows[i] = Collapse(rows[i - 1], drafts[i])
  BY <1>2, <1>5
<1>8. \A i \in 0..n : rows[i] \in S
  <2> DEFINE T == {i \in 0..n : rows[i] \in S}
  <2>1. 0 \in T
    <3>1. 0 \in 0..n /\ rows[0] \in S
      BY <1>1, <1>7
    <3> QED BY <3>1
  <2>2. ASSUME NEW i \in 1..n, i - 1 \in T PROVE i \in T
    <3>1. drafts[i] \in ProfileRow /\ i \in 0..n
      OBVIOUS
    <3>2. rows[i - 1] \in Seq(ProfileRow)
      BY <2>2
    <3>3. Collapse(rows[i - 1], drafts[i]) \in Seq(ProfileRow)
      BY <3>1, <3>2, CollapseTyped
    <3>4. rows[i] \in S
      BY <1>7, <3>3
    <3> QED BY <3>1, <3>4
  <2>3. \A i \in 0..n : i \in T
    <3> HIDE DEF T
    <3> QED BY <2>1, <2>2, InductionTo
  <2> QED BY <2>3
<1>9. rows \in [0..n -> S]
  BY <1>5, <1>8
<1> QED BY <1>6, <1>7, <1>9

\* What is saved has the skills of the drafts, and their texts of one's own.
LEMMA CollapsedKeeps ==
  ASSUME NEW drafts \in Seq(ProfileRow)
  PROVE  /\ Collapsed(drafts) \in Seq(ProfileRow)
         /\ Linked(Collapsed(drafts)) = Linked(drafts)
         /\ \A i \in 1..Len(drafts) : drafts[i].id = None =>
              \E z \in Range(Collapsed(drafts)) : z.text = drafts[i].text
<1> PICK n \in Nat : n = Len(drafts)
  OBVIOUS
<1>1. PICK rows \in [0..n -> Seq(ProfileRow)] :
        /\ rows[0] = <<>> /\ Collapsed(drafts) = rows[n]
        /\ \A i \in 1..n : rows[i] = Collapse(rows[i - 1], drafts[i])
  BY CollapsedGoes
<1> DEFINE T == {i \in 0..n :
                   /\ Linked(rows[i]) = {drafts[j].id : j \in 1..i} \ {None}
                   /\ \A j \in 1..i : drafts[j].id = None =>
                        \E z \in Range(rows[i]) : z.text = drafts[j].text}
<1>2. 0 \in T
  BY <1>1 DEF Linked, Range
<1>3. ASSUME NEW i \in 1..n, i - 1 \in T PROVE i \in T
  <2>1. /\ i \in 0..n /\ i - 1 \in 0..n /\ drafts[i] \in ProfileRow
        /\ \A j \in 1..i : j \in 1..(i - 1) \/ j = i
        /\ \A j \in 1..(i - 1) : j \in 1..i
    OBVIOUS
  <2>2. rows[i - 1] \in Seq(ProfileRow) /\ rows[i] = Collapse(rows[i - 1], drafts[i])
    BY <1>1, <2>1
  <2>3. /\ Linked(rows[i]) = Linked(rows[i - 1]) \cup ({drafts[i].id} \ {None})
        /\ \A entry \in Range(rows[i - 1]) : \E z \in Range(rows[i]) : z.text = entry.text
        /\ drafts[i].id = None => \E z \in Range(rows[i]) : z.text = drafts[i].text
    <3> PICK kept \in Seq(ProfileRow) : kept = rows[i - 1]
      BY <2>2
    <3> PICK d \in ProfileRow : d = drafts[i]
      BY <2>1
    <3>1. /\ Linked(Collapse(kept, d)) = Linked(kept) \cup ({d.id} \ {None})
          /\ \A entry \in Range(kept) : \E z \in Range(Collapse(kept, d)) : z.text = entry.text
          /\ d.id = None => \E z \in Range(Collapse(kept, d)) : z.text = d.text
      BY CollapseTyped
    <3>2. rows[i] = Collapse(kept, d)
      BY <2>2
    <3> QED BY <3>1, <3>2
  <2>4. /\ Linked(rows[i - 1]) = {drafts[j].id : j \in 1..(i - 1)} \ {None}
        /\ \A j \in 1..(i - 1) : drafts[j].id = None =>
             \E z \in Range(rows[i - 1]) : z.text = drafts[j].text
    BY <1>3
  <2>5. {drafts[j].id : j \in 1..i} = {drafts[j].id : j \in 1..(i - 1)} \cup {drafts[i].id}
    BY <2>1
  <2>6. Linked(rows[i]) = {drafts[j].id : j \in 1..i} \ {None}
    BY <2>3, <2>4, <2>5
  <2>7. ASSUME NEW j \in 1..i, drafts[j].id = None
        PROVE  \E z \in Range(rows[i]) : z.text = drafts[j].text
    BY <2>1, <2>3, <2>4, <2>7
  <2> QED BY <2>1, <2>6, <2>7
<1>4. n \in T
  <2> HIDE DEF T
  <2>1. n \in 0..n
    OBVIOUS
  <2> QED BY <1>2, <1>3, <2>1, InductionTo
<1>5. Linked(drafts) = {drafts[j].id : j \in 1..n} \ {None}
  <2>1. DOMAIN drafts = 1..n
    OBVIOUS
  <2>2. ASSUME NEW x, x \in Linked(drafts) PROVE x \in {drafts[j].id : j \in 1..n} \ {None}
    BY <2>1, <2>2 DEF Linked, Range
  <2>3. ASSUME NEW x, x \in {drafts[j].id : j \in 1..n} \ {None} PROVE x \in Linked(drafts)
    BY <2>1, <2>3 DEF Linked, Range
  <2> QED BY <2>2, <2>3
<1> QED BY <1>1, <1>4, <1>5

\* A text is one skill's, and every row is one of the drafts.
TextsTellSkills(drafts) ==
  \A i, j \in 1..Len(drafts) :
    drafts[i].id # None /\ drafts[j].id # None /\ drafts[i].text = drafts[j].text =>
      drafts[i].id = drafts[j].id
FromDrafts(rows, drafts) == \A k \in 1..Len(rows) : \E j \in 1..Len(drafts) : rows[k] = drafts[j]

\* One draft more: what there is stays distinct, and grows by that draft at most.
LEMMA CollapseDistinct ==
  ASSUME NEW kept \in Seq(ProfileRow), NEW d \in ProfileRow
  PROVE  /\ Len(Collapse(kept, d)) <= Len(kept) + 1
         /\ \A k \in 1..Len(Collapse(kept, d)) :
              Collapse(kept, d)[k] = d \/ \E j \in 1..Len(kept) : Collapse(kept, d)[k] = kept[j]
         /\ Distinct(kept) /\ (\A j \in 1..Len(kept) :
              d.id # None /\ kept[j].id # None /\ kept[j].text = d.text => kept[j].id = d.id)
              => Distinct(Collapse(kept, d))
<1> PICK same : same = {i \in 1..Len(kept) : kept[i].id = None /\ kept[i].text = d.text}
  OBVIOUS
<1> PICK l \in Nat : l = Len(kept)
  OBVIOUS
<1> DEFINE Separate == \A j \in 1..l :
             d.id # None /\ kept[j].id # None /\ kept[j].text = d.text => kept[j].id = d.id
<1>1. CASE Collapse(kept, d) = kept
  BY <1>1
<1>2. CASE /\ Collapse(kept, d) = Append(kept, d)
           /\ IF d.id = None THEN \A j \in 1..l : kept[j].text # d.text
              ELSE \A j \in 1..l :
                     kept[j].id # d.id /\ ~(kept[j].id = None /\ kept[j].text = d.text)
  <2>1. PICK z : z = Append(kept, d)
    OBVIOUS
  <2>2. /\ Len(z) = l + 1 /\ z[l + 1] = d /\ \A j \in 1..l : z[j] = kept[j]
    BY <2>1
  <2>3. \A k \in 1..(l + 1) : k = l + 1 \/ k \in 1..l
    OBVIOUS
  <2>4. ASSUME Distinct(kept), Separate PROVE Distinct(z)
    <3>1. \A j \in 1..l : kept[j].text # d.text /\ (d.id = None \/ kept[j].id # d.id)
      BY <1>2, <2>4
    <3>2. \A i, j \in 1..l :
            kept[i].text = kept[j].text \/ (kept[i].id # None /\ kept[i].id = kept[j].id) => i = j
      BY <2>4 DEF Distinct
    <3>3. ASSUME NEW i \in 1..(l + 1), NEW j \in 1..(l + 1),
                 z[i].text = z[j].text \/ (z[i].id # None /\ z[i].id = z[j].id)
          PROVE  i = j
      BY <2>2, <2>3, <3>1, <3>2, <3>3
    <3> QED BY <2>2, <3>3 DEF Distinct
  <2> QED BY <1>2, <2>1, <2>2, <2>3, <2>4
<1>3. CASE d.id # None /\ d.id \notin Linked(kept) /\ same # {}
  <2>1. PICK i \in same : Collapse(kept, d) = [kept EXCEPT ![i] = d]
    BY <1>3 DEF Collapse
  <2>2. PICK z : z = [kept EXCEPT ![i] = d]
    OBVIOUS
  <2>3. /\ Len(z) = l /\ i \in 1..l /\ z[i] = d /\ kept[i].id = None /\ kept[i].text = d.text
        /\ \A j \in 1..l : j # i => z[j] = kept[j]
    BY <2>2
  <2>4. \A j \in 1..l : kept[j].id # d.id
    BY <1>3 DEF Linked, Range
  <2>5. ASSUME Distinct(kept) PROVE Distinct(z)
    <3>1. \A a, b \in 1..l :
            kept[a].text = kept[b].text \/ (kept[a].id # None /\ kept[a].id = kept[b].id) => a = b
      BY <2>5 DEF Distinct
    <3>2. ASSUME NEW a \in 1..l, NEW b \in 1..l,
                 z[a].text = z[b].text \/ (z[a].id # None /\ z[a].id = z[b].id)
          PROVE  a = b
      BY <2>3, <2>4, <3>1, <3>2
    <3> QED BY <2>3, <3>2 DEF Distinct
  <2> QED BY <2>1, <2>2, <2>3, <2>5
<1>4. \/ Collapse(kept, d) = kept
      \/ /\ Collapse(kept, d) = Append(kept, d)
         /\ IF d.id = None THEN \A j \in 1..l : kept[j].text # d.text
            ELSE \A j \in 1..l :
                   kept[j].id # d.id /\ ~(kept[j].id = None /\ kept[j].text = d.text)
      \/ d.id # None /\ d.id \notin Linked(kept) /\ same # {}
  <2>1. DOMAIN kept = 1..l /\ \A j \in 1..l : kept[j] \in Range(kept)
    BY DEF Range
  <2>2. d.id # None => (d.id \notin Linked(kept) => \A j \in 1..l : kept[j].id # d.id)
    BY <2>1 DEF Linked
  <2> QED BY <2>1, <2>2 DEF Collapse
<1> QED BY <1>1, <1>2, <1>3, <1>4

\* What is saved is drafts, no more than there are, and distinct if texts tell skills.
LEMMA CollapsedDistinct ==
  ASSUME NEW drafts \in Seq(ProfileRow)
  PROVE  /\ Len(Collapsed(drafts)) <= Len(drafts)
         /\ FromDrafts(Collapsed(drafts), drafts)
         /\ TextsTellSkills(drafts) => Distinct(Collapsed(drafts))
<1> PICK n \in Nat : n = Len(drafts)
  OBVIOUS
<1>1. PICK rows \in [0..n -> Seq(ProfileRow)] :
        /\ rows[0] = <<>> /\ Collapsed(drafts) = rows[n]
        /\ \A i \in 1..n : rows[i] = Collapse(rows[i - 1], drafts[i])
  BY CollapsedGoes
<1> DEFINE T == {i \in 0..n : /\ Len(rows[i]) <= i /\ FromDrafts(rows[i], drafts)
                              /\ TextsTellSkills(drafts) => Distinct(rows[i])}
<1>2. 0 \in T
  BY <1>1 DEF FromDrafts, Distinct
<1>3. ASSUME NEW i \in 1..n, i - 1 \in T PROVE i \in T
  <2>1. i \in 0..n /\ i - 1 \in 0..n /\ drafts[i] \in ProfileRow /\ i \in Nat
    OBVIOUS
  <2>2. PICK kept \in Seq(ProfileRow) : kept = rows[i - 1] /\ rows[i] = Collapse(kept, drafts[i])
    BY <1>1, <2>1
  <2>3. PICK d \in ProfileRow : d = drafts[i]
    BY <2>1
  <2>d. /\ Len(Collapse(kept, d)) <= Len(kept) + 1
        /\ \A k \in 1..Len(Collapse(kept, d)) :
             Collapse(kept, d)[k] = d \/ \E j \in 1..Len(kept) : Collapse(kept, d)[k] = kept[j]
        /\ Distinct(kept) /\ (\A j \in 1..Len(kept) :
             d.id # None /\ kept[j].id # None /\ kept[j].text = d.text => kept[j].id = d.id)
             => Distinct(Collapse(kept, d))
    BY CollapseDistinct
  <2>4. PICK z \in Seq(ProfileRow) : z = rows[i] /\ z = Collapse(kept, d)
    BY <1>1, <2>1, <2>2, <2>3
  <2>5. /\ Len(kept) <= i - 1 /\ FromDrafts(kept, drafts)
        /\ TextsTellSkills(drafts) => Distinct(kept)
    BY <1>3, <2>2
  <2>6. /\ Len(z) <= Len(kept) + 1
        /\ \A k \in 1..Len(z) : z[k] = d \/ \E j \in 1..Len(kept) : z[k] = kept[j]
        /\ Distinct(kept) /\ (\A j \in 1..Len(kept) :
             d.id # None /\ kept[j].id # None /\ kept[j].text = d.text => kept[j].id = d.id)
             => Distinct(z)
    BY <2>4, <2>d
  <2>7. Len(z) <= i
    <3>1. Len(z) \in Nat /\ Len(kept) \in Nat
      OBVIOUS
    <3> QED BY <2>1, <2>5, <2>6, <3>1
  <2>8. FromDrafts(z, drafts)
    BY <2>3, <2>5, <2>6 DEF FromDrafts
  <2>9. ASSUME TextsTellSkills(drafts) PROVE Distinct(z)
    <3>1. ASSUME NEW j \in 1..Len(kept), d.id # None, kept[j].id # None, kept[j].text = d.text
          PROVE  kept[j].id = d.id
      <4>1. PICK k \in 1..Len(drafts) : kept[j] = drafts[k]
        BY <2>5 DEF FromDrafts
      <4> QED BY <2>3, <2>9, <3>1, <4>1 DEF TextsTellSkills
    <3> QED BY <2>5, <2>6, <2>9, <3>1
  <2> QED BY <2>1, <2>4, <2>7, <2>8, <2>9
<1>4. n \in T
  <2> HIDE DEF T
  <2>1. n \in 0..n
    OBVIOUS
  <2> QED BY <1>2, <1>3, <2>1, InductionTo
<1> QED BY <1>1, <1>4

\* The row of a skill that is there, in the profile or not.
LEMMA CanonicalRow ==
  ASSUME SkillsTyped, NEW s \in Keys, There(s)
  PROVE  Canonical(s) \in ProfileRow /\ Canonical(s).id = s
<1>1. skillRows[s] \in Skill
  BY DEF SkillsTyped, There
<1>2. ASSUME s \in Linked(profile) PROVE Stored(s).text \in SkillNames
  <2>1. \E i \in 1..Len(profile) : profile[i].id = s
    BY <1>2 DEF Linked, Range, SkillsTyped
  <2>2. PICK i \in 1..Len(profile) : Stored(s) = profile[i]
    BY <2>1 DEF Stored
  <2>3. profile[i] \in ProfileRow
    BY DEF SkillsTyped
  <2> QED BY <2>2, <2>3 DEF ProfileRow
<1> PICK t : /\ t = IF Active(s) THEN skillRows[s].name
                    ELSE IF s \in Linked(profile) THEN Stored(s).text ELSE skillRows[s].name
             /\ t \in SkillNames
  BY <1>1, <1>2 DEF Skill
<1>3. Canonical(s) = [text |-> t, id |-> s]
  BY DEF Canonical, SkillRow
<1> QED BY <1>3 DEF ProfileRow

\* A list of texts links nothing new.
LEMMA LegacyLinks ==
  ASSUME SkillsTyped, LinksAreThere, NEW texts \in Seq(SkillNames)
  PROVE  /\ ResolveLegacy(texts) \in Seq(ProfileRow)
         /\ Linked(ResolveLegacy(texts)) \subseteq Linked(profile)
<1> DEFINE Draft(i) ==
      IF LinkedByText(texts[i]) = {} THEN SkillRow(texts[i], None)
      ELSE LET last == CHOOSE j \in LinkedByText(texts[i]) :
                         \A k \in LinkedByText(texts[i]) : k <= j
           IN Canonical(profile[last].id)
<1>1. ASSUME NEW i \in 1..Len(texts)
      PROVE  Draft(i) \in ProfileRow /\ Draft(i).id \in Linked(profile) \cup {None}
  <2> PICK T : T = LinkedByText(texts[i])
    OBVIOUS
  <2>1. CASE T = {}
    <3>1. Draft(i) = [text |-> texts[i], id |-> None] /\ texts[i] \in SkillNames
      BY <2>1 DEF SkillRow
    <3> QED BY <3>1 DEF ProfileRow
  <2>2. CASE T # {}
    <3>1. Len(profile) \in Nat /\ T \in SUBSET (1..Len(profile))
      BY DEF LinkedByText, SkillsTyped
    <3>2. \E j \in T : \A k \in T : k <= j
      BY <2>2, <3>1, LastPlace
    <3>3. PICK j \in T : Draft(i) = Canonical(profile[j].id)
      BY <2>2, <3>2
    <3>4. j \in 1..Len(profile) /\ profile[j].id # None /\ profile[j] \in ProfileRow
      BY DEF LinkedByText, SkillsTyped
    <3>5. profile[j].id \in Keys /\ There(profile[j].id) /\ profile[j].id \in Linked(profile)
      BY <3>4 DEF LinksAreThere, ProfileRow, Linked, Range, SkillsTyped
    <3> QED BY <3>3, <3>5, CanonicalRow
  <2> QED BY <2>1, <2>2
<1> PICK drafts : drafts = [i \in 1..Len(texts) |-> Draft(i)]
  OBVIOUS
<1>2. ResolveLegacy(texts) = Collapsed(drafts)
  BY DEF ResolveLegacy
<1> HIDE DEF Draft
<1>3. /\ drafts \in Seq(ProfileRow) /\ DOMAIN drafts = 1..Len(texts)
      /\ \A i \in 1..Len(texts) : drafts[i] = Draft(i)
  BY <1>1
<1>4. Linked(drafts) \subseteq Linked(profile)
  BY <1>1, <1>3 DEF Linked, Range
<1> QED BY <1>2, <1>3, <1>4, CollapsedKeeps

Selection == [text : SkillNames \cup {None}, id : Keys \cup {None}]

\* The rows of skills are what they are saved as; no two skills are saved with one text.
CanonicalRows(rows) == \A k \in 1..Len(rows) : rows[k].id # None => rows[k] = Canonical(rows[k].id)
TextsDiffer(skills) == \A s, z \in skills : Canonical(s).text = Canonical(z).text => s = z

\* Selections of skills that are there, and of texts, become rows of them.
LEMMA SelectionsLink ==
  ASSUME SkillsTyped, NEW chosen \in Seq(Selection),
         \A i \in 1..Len(chosen) :
           IF chosen[i].id = None THEN chosen[i].text \in SkillNames ELSE There(chosen[i].id)
  PROVE  /\ ResolveSelections(chosen) \in Seq(ProfileRow)
         /\ Linked(ResolveSelections(chosen)) = Linked(chosen)
         /\ \A i \in 1..Len(chosen) : chosen[i].id = None =>
              \E entry \in Range(ResolveSelections(chosen)) : entry.text = chosen[i].text
         /\ Len(ResolveSelections(chosen)) <= Len(chosen)
         /\ CanonicalRows(ResolveSelections(chosen))
         /\ TextsDiffer(Linked(chosen)) => Distinct(ResolveSelections(chosen))
<1> DEFINE Draft(i) == IF chosen[i].id # None THEN Canonical(chosen[i].id) ELSE chosen[i]
<1>1. ASSUME NEW i \in 1..Len(chosen)
      PROVE  /\ Draft(i) \in ProfileRow /\ Draft(i).id = chosen[i].id
             /\ chosen[i].id = None => Draft(i) = chosen[i]
  <2>1. chosen[i] \in Selection
    OBVIOUS
  <2>2. CASE chosen[i].id = None
    <3>1. chosen[i] = [text |-> chosen[i].text, id |-> None] /\ chosen[i].text \in SkillNames
      BY <2>1, <2>2 DEF Selection
    <3> QED BY <2>2, <3>1 DEF ProfileRow
  <2>3. CASE chosen[i].id # None
    <3>1. chosen[i].id \in Keys /\ There(chosen[i].id)
      BY <2>1, <2>3 DEF Selection
    <3> QED BY <2>3, <3>1, CanonicalRow
  <2> QED BY <2>2, <2>3
<1>d. PICK drafts : drafts = [i \in 1..Len(chosen) |-> Draft(i)]
  OBVIOUS
<1>2. ResolveSelections(chosen) = Collapsed(drafts)
  BY <1>d DEF ResolveSelections
<1> HIDE DEF Draft
<1>3. /\ drafts \in Seq(ProfileRow) /\ DOMAIN drafts = 1..Len(chosen)
      /\ \A i \in 1..Len(chosen) : drafts[i] = Draft(i)
      /\ DOMAIN chosen = 1..Len(chosen) /\ Len(drafts) = Len(chosen)
  BY <1>1, <1>d
<1>4. Linked(drafts) = Linked(chosen)
  <2>1. ASSUME NEW x, x \in Linked(drafts) PROVE x \in Linked(chosen)
    BY <1>1, <1>3, <2>1 DEF Linked, Range
  <2>2. ASSUME NEW x, x \in Linked(chosen) PROVE x \in Linked(drafts)
    BY <1>1, <1>3, <2>2 DEF Linked, Range
  <2> QED BY <2>1, <2>2
<1>5. /\ Collapsed(drafts) \in Seq(ProfileRow)
      /\ Linked(Collapsed(drafts)) = Linked(drafts)
      /\ \A i \in 1..Len(drafts) : drafts[i].id = None =>
           \E z \in Range(Collapsed(drafts)) : z.text = drafts[i].text
  BY <1>3, CollapsedKeeps
<1>6. \A i \in 1..Len(chosen) : chosen[i].id = None => drafts[i] = chosen[i]
  BY <1>1, <1>3
<1>7. ASSUME NEW i \in 1..Len(chosen), chosen[i].id = None
      PROVE  \E z \in Range(Collapsed(drafts)) : z.text = chosen[i].text
  <2>1. i \in 1..Len(drafts) /\ drafts[i] = chosen[i]
    BY <1>3, <1>6, <1>7
  <2> QED BY <1>5, <1>7, <2>1
<1>8. /\ Len(Collapsed(drafts)) <= Len(drafts) /\ FromDrafts(Collapsed(drafts), drafts)
      /\ TextsTellSkills(drafts) => Distinct(Collapsed(drafts))
  BY <1>3, CollapsedDistinct
<1>n. PICK n \in Nat : n = Len(chosen) /\ n = Len(drafts)
  <2>1. Len(chosen) \in Nat
    OBVIOUS
  <2>2. Len(drafts) = Len(chosen)
    BY <1>3
  <2> QED BY <2>1, <2>2
<1>9. ASSUME NEW i \in 1..n, drafts[i].id # None
      PROVE  drafts[i] = Canonical(drafts[i].id) /\ drafts[i].id \in Linked(chosen)
  <2>1. drafts[i] = Draft(i) /\ Draft(i).id = chosen[i].id /\ i \in DOMAIN chosen
    BY <1>1, <1>3, <1>n
  <2>2. chosen[i].id # None /\ drafts[i].id = chosen[i].id
    BY <1>9, <2>1
  <2>3. Draft(i) = Canonical(chosen[i].id)
    BY <2>2 DEF Draft
  <2>4. chosen[i].id \in Linked(chosen)
    BY <2>1, <2>2 DEF Linked, Range
  <2> QED BY <2>1, <2>2, <2>3, <2>4
<1>10. CanonicalRows(Collapsed(drafts))
  <2> SUFFICES ASSUME NEW k \in 1..Len(Collapsed(drafts)), Collapsed(drafts)[k].id # None
               PROVE  Collapsed(drafts)[k] = Canonical(Collapsed(drafts)[k].id)
    BY DEF CanonicalRows
  <2>1. PICK j \in 1..n : Collapsed(drafts)[k] = drafts[j]
    BY <1>8, <1>n DEF FromDrafts
  <2> QED BY <1>9, <2>1
<1>11. ASSUME TextsDiffer(Linked(chosen)) PROVE TextsTellSkills(drafts)
  <2> SUFFICES ASSUME NEW i \in 1..n, NEW j \in 1..n,
                      drafts[i].id # None, drafts[j].id # None, drafts[i].text = drafts[j].text
               PROVE  drafts[i].id = drafts[j].id
    BY <1>n DEF TextsTellSkills
  <2>1. drafts[i] = Canonical(drafts[i].id) /\ drafts[i].id \in Linked(chosen)
    BY <1>9
  <2>2. drafts[j] = Canonical(drafts[j].id) /\ drafts[j].id \in Linked(chosen)
    BY <1>9
  <2>3. Canonical(drafts[i].id).text = Canonical(drafts[j].id).text
    BY <2>1, <2>2
  <2> QED BY <1>11, <2>1, <2>2, <2>3 DEF TextsDiffer
<1> QED BY <1>2, <1>3, <1>4, <1>5, <1>7, <1>8, <1>10, <1>11

\* A link puts a skill where its text is, or nothing is left.
Linkable(link) == link \in Link /\ There(link.id)
RowsOfSkills ==
  {rows \in Seq(ProfileRow) : /\ \A i \in 1..Len(rows) : rows[i].id # None => There(rows[i].id)
                              /\ Len(rows) <= Len(profile)}

\* One link keeps rows of skills that are there.
LEMMA RelinkKeeps ==
  ASSUME SkillsTyped, NEW rows \in RowsOfSkills, NEW link, Linkable(link)
  PROVE  Relink(rows, link) \in RowsOfSkills
<1> PICK at : at = {i \in 1..Len(rows) : rows[i].text = link.text}
  OBVIOUS
<1>1. CASE at = {}
  <2>1. Relink(rows, link) = <<>>
    BY <1>1 DEF Relink
  <2>2. Len(profile) \in Nat /\ Len(<<>>) = 0 /\ <<>> \in Seq(ProfileRow)
    BY DEF SkillsTyped
  <2> QED BY <2>1, <2>2 DEF RowsOfSkills
<1>2. CASE at # {}
  <2>1. PICK i \in at : Relink(rows, link) = [rows EXCEPT ![i] = SkillRow(link.next, link.id)]
    BY <1>2 DEF Relink
  <2>a. PICK entry : entry = SkillRow(link.next, link.id)
    OBVIOUS
  <2>2. entry \in ProfileRow /\ There(entry.id)
    BY <2>a DEF Linkable, Link, SkillRow, ProfileRow
  <2>b. PICK z : z = [rows EXCEPT ![i] = entry]
    OBVIOUS
  <2>3. /\ rows \in Seq(ProfileRow) /\ Len(rows) <= Len(profile)
        /\ \A j \in 1..Len(rows) : rows[j].id # None => There(rows[j].id)
    BY DEF RowsOfSkills
  <2>4. /\ z \in Seq(ProfileRow) /\ Len(z) = Len(rows)
        /\ \A j \in 1..Len(rows) : z[j] = IF j = i THEN entry ELSE rows[j]
    BY <2>b, <2>2, <2>3
  <2>5. z \in RowsOfSkills
    BY <2>2, <2>3, <2>4 DEF RowsOfSkills
  <2> QED BY <2>1, <2>5, <2>a, <2>b
<1> QED BY <1>1, <1>2

\* The links of a backfill leave the rows of skills that are there.
LEMMA RelinkedKeeps ==
  ASSUME SkillsTyped, NEW links \in Seq(Link), profile \in RowsOfSkills,
         \A i \in 1..Len(links) : There(links[i].id)
  PROVE  Relinked(links) \in RowsOfSkills
<1> PICK n \in Nat : n = Len(links)
  OBVIOUS
<1>a. PICK step : step = [p \in Nat \X RowsOfSkills |->
                            IF p[1] \in 1..n THEN Relink(p[2], links[p[1]]) ELSE p[2]]
  OBVIOUS
<1>0. \A i \in 1..n : Linkable(links[i])
  BY DEF Linkable
<1>1. step \in [Nat \X RowsOfSkills -> RowsOfSkills]
  BY <1>a, <1>0, RelinkKeeps
<1>b. PICK f : Recursive(f, n, RowsOfSkills, profile, step)
  BY <1>1, RecursionTo
<1>2. /\ f \in [0..n -> RowsOfSkills] /\ f[0] = profile
      /\ \A i \in 1..n : i \in Nat /\ i - 1 \in 0..n /\ i \in 0..n /\ i # 0
                         /\ f[i] = step[<<i, f[i - 1]>>]
  BY <1>b DEF Recursive
<1>3. \A i \in 1..n : f[i] = Relink(f[i - 1], links[i])
  BY <1>2, <1>a
<1>4. \E g : g = [i \in 0..n |-> IF i = 0 THEN profile ELSE Relink(g[i - 1], links[i])]
  <2>1. \A i \in 0..n : i # 0 => i \in 1..n
    OBVIOUS
  <2>2. f = [i \in 0..n |-> IF i = 0 THEN profile ELSE Relink(f[i - 1], links[i])]
    BY <1>2, <1>3, <2>1
  <2> QED BY <2>2
<1> DEFINE rows[i \in 0..n] == IF i = 0 THEN profile ELSE Relink(rows[i - 1], links[i])
<1>5. rows = [i \in 0..n |-> IF i = 0 THEN profile ELSE Relink(rows[i - 1], links[i])]
  BY <1>4
<1>6. Relinked(links) = rows[n]
  BY DEF Relinked
<1> HIDE DEF rows
<1>7. rows[0] = profile /\ \A i \in 1..n : rows[i] = Relink(rows[i - 1], links[i])
  BY <1>2, <1>5
<1> DEFINE T == {i \in 0..n : rows[i] \in RowsOfSkills}
<1>8. 0 \in T
  <2>1. 0 \in 0..n /\ rows[0] \in RowsOfSkills
    BY <1>7
  <2> QED BY <2>1
<1>9. ASSUME NEW i \in 1..n, i - 1 \in T PROVE i \in T
  <2>1. i \in 0..n /\ rows[i - 1] \in RowsOfSkills /\ Linkable(links[i])
    BY <1>0, <1>9
  <2>2. rows[i] \in RowsOfSkills
    BY <1>7, <2>1, RelinkKeeps
  <2> QED BY <2>1, <2>2
<1>10. n \in T
  <2> HIDE DEF T
  <2>1. n \in 0..n
    OBVIOUS
  <2> QED BY <1>8, <1>9, <2>1, InductionTo
<1> QED BY <1>6, <1>10

\* The plan of a backfill: links to skills that are there.
Plans == {plan \in [links : Seq(Link), claimed : SUBSET Keys, texts : SUBSET SkillNames] :
            \A i \in 1..Len(plan.links) : There(plan.links[i].id)}

\* A row decided on adds a link to a skill that is there, or none.
LEMMA DecideKeeps ==
  ASSUME SkillsTyped, NEW plan \in Plans, NEW entry \in ProfileRow
  PROVE  Decide(plan, entry) \in Plans
<1>a. PICK s : s = Approved[entry.text]
  OBVIOUS
<1>1. CASE Decide(plan, entry) = plan
  BY <1>1
<1>2. CASE Decide(plan, entry) # plan
  <2>1. s # None /\ Active(s)
    BY <1>2, <1>a DEF Decide
  <2>2. s \in Keys /\ entry.text \in SkillNames
    BY <1>a, <2>1, SkillsAssumption DEF ProfileRow
  <2>3. skillRows[s].name \in SkillNames /\ There(s)
    BY <2>1, <2>2 DEF SkillsTyped, Active, There, Skill
  <2>b. PICK link : link = [text |-> entry.text, next |-> skillRows[s].name, id |-> s]
    OBVIOUS
  <2>4. link \in Link /\ There(link.id)
    BY <2>b, <2>2, <2>3 DEF Link
  <2>5. Decide(plan, entry) = [links |-> Append(plan.links, link),
                             claimed |-> plan.claimed \cup {s},
                             texts |-> plan.texts \cup {skillRows[s].name}]
    BY <1>2, <1>a, <2>b DEF Decide
  <2>6. plan.links \in Seq(Link) /\ \A i \in 1..Len(plan.links) : There(plan.links[i].id)
    BY DEF Plans
  <2>c. PICK links : links = Append(plan.links, link)
    OBVIOUS
  <2>7. /\ links \in Seq(Link) /\ Len(links) = Len(plan.links) + 1
        /\ \A i \in 1..Len(links) : links[i] = link \/ (i \in 1..Len(plan.links)
                                                        /\ links[i] = plan.links[i])
    BY <2>c, <2>4, <2>6
  <2>8. \A i \in 1..Len(links) : There(links[i].id)
    BY <2>4, <2>6, <2>7
  <2>9. plan.claimed \cup {s} \in SUBSET Keys
        /\ plan.texts \cup {skillRows[s].name} \in SUBSET SkillNames
    BY <2>2, <2>3 DEF Plans
  <2>d. PICK claimed, texts : /\ claimed = plan.claimed \cup {s}
                              /\ texts = plan.texts \cup {skillRows[s].name}
    OBVIOUS
  <2>10. Decide(plan, entry) = [links |-> links, claimed |-> claimed, texts |-> texts]
    BY <2>5, <2>c, <2>d
  <2> QED BY <2>7, <2>8, <2>9, <2>10, <2>d DEF Plans
<1> QED BY <1>1, <1>2

\* A plan of a backfill is one.
LEMMA PlanTyped ==
  ASSUME SkillsTyped
  PROVE  Plan \in Plans
<1> PICK n \in Nat : n = Len(profile)
  BY DEF SkillsTyped
<1>0. /\ NoLinks \in Plans
      /\ \A i \in 1..n : profile[i] \in ProfileRow
  <2>1. profile \in Seq(ProfileRow)
    BY DEF SkillsTyped
  <2>2. /\ Linked(profile) \in SUBSET Keys
        /\ {entry.text : entry \in Range(profile)} \in SUBSET SkillNames
    <3>1. \A i \in 1..n : profile[i].text \in SkillNames /\ profile[i].id \in Keys \cup {None}
      <4>1. \A i \in 1..n : profile[i] \in ProfileRow
        BY <2>1
      <4> QED BY <4>1 DEF ProfileRow
    <3>2. Range(profile) = {profile[i] : i \in 1..n}
      BY <2>1 DEF Range
    <3> QED BY <3>1, <3>2 DEF Linked
  <2> QED BY <2>1, <2>2 DEF NoLinks, Plans
<1>a. PICK step : step = [p \in Nat \X Plans |->
                            IF p[1] \in 1..n THEN Decide(p[2], profile[p[1]]) ELSE p[2]]
  OBVIOUS
<1>1. step \in [Nat \X Plans -> Plans]
  BY <1>a, <1>0, DecideKeeps
<1>b. PICK f : Recursive(f, n, Plans, NoLinks, step)
  BY <1>0, <1>1, RecursionTo
<1>2. /\ f \in [0..n -> Plans] /\ f[0] = NoLinks
      /\ \A i \in 1..n : i \in Nat /\ i - 1 \in 0..n /\ i \in 0..n /\ i # 0
                         /\ f[i] = step[<<i, f[i - 1]>>]
  BY <1>b DEF Recursive
<1>3. \A i \in 1..n : f[i] = Decide(f[i - 1], profile[i])
  BY <1>2, <1>a
<1>4. \E g : g = [i \in 0..n |-> IF i = 0 THEN NoLinks ELSE Decide(g[i - 1], profile[i])]
  <2>1. \A i \in 0..n : i # 0 => i \in 1..n
    OBVIOUS
  <2>2. f = [i \in 0..n |-> IF i = 0 THEN NoLinks ELSE Decide(f[i - 1], profile[i])]
    BY <1>2, <1>3, <2>1
  <2> QED BY <2>2
<1> DEFINE plan[i \in 0..n] == IF i = 0 THEN NoLinks ELSE Decide(plan[i - 1], profile[i])
<1>5. plan = [i \in 0..n |-> IF i = 0 THEN NoLinks ELSE Decide(plan[i - 1], profile[i])]
  BY <1>4
<1>6. Plan = plan[n]
  BY DEF Plan
<1> HIDE DEF plan
<1>7. plan[0] = NoLinks /\ \A i \in 1..n : plan[i] = Decide(plan[i - 1], profile[i])
  BY <1>2, <1>5
<1> DEFINE T == {i \in 0..n : plan[i] \in Plans}
<1>8. 0 \in T
  <2>1. 0 \in 0..n /\ plan[0] \in Plans
    BY <1>0, <1>7
  <2> QED BY <2>1
<1>9. ASSUME NEW i \in 1..n, i - 1 \in T PROVE i \in T
  <2>1. i \in 0..n /\ plan[i - 1] \in Plans /\ profile[i] \in ProfileRow
    BY <1>0, <1>9
  <2>2. plan[i] \in Plans
    BY <1>7, <2>1, DecideKeeps
  <2> QED BY <2>1, <2>2
<1>10. n \in T
  <2> HIDE DEF T
  <2>1. n \in 0..n
    OBVIOUS
  <2> QED BY <1>8, <1>9, <2>1, InductionTo
<1> QED BY <1>6, <1>10

\* What a release says of a term.
LEMMA ReleaseTerms ==
  ASSUME NEW r \in Releases, NEW id \in TermIds
  PROVE  /\ TermOf(r, id) \in SkillNames \cup {None}
         /\ id[1] \in Keys /\ r[id[1]] = None => TermOf(r, id) = None
         /\ r[id[1]] # None => r[id[1]] \in [name : SkillNames, alias : SkillNames \cup {None},
                                             active : BOOLEAN]
         /\ id[2] = "canonical" /\ r[id[1]] # None =>
              TermOf(r, id) = r[id[1]].name /\ TermOf(r, id) # None
<1>1. r \in Release /\ id[1] \in Keys
  BY SkillsAssumption DEF TermIds
<1>2. r[id[1]] # None => r[id[1]] \in [name : SkillNames, alias : SkillNames \cup {None},
                                       active : BOOLEAN]
  BY <1>1 DEF Release
<1> QED BY <1>1, <1>2, SkillsAssumption DEF TermOf

\* The order of writing has the name of every skill.
LEMMA PlannedTerms ==
  /\ Len(PlanOrder) \in Nat /\ \A i \in 1..Len(PlanOrder) : PlanOrder[i] \in TermIds
  /\ \A s \in Keys : \E i \in 1..Len(PlanOrder) : PlanOrder[i] = <<s, "canonical">>
<1>1. SkillKeys \in Seq(Keys)
  BY SkillsAssumption
<1> PICK n \in Nat : n = Len(SkillKeys)
  BY <1>1
<1>2. PlanOrder = [i \in 1..(2 * n) |->
                     <<SkillKeys[(i + 1) \div 2], IF i % 2 = 1 THEN "canonical" ELSE "alias">>]
  BY DEF PlanOrder
<1>3. Len(PlanOrder) = 2 * n
  BY <1>2
<1>4. ASSUME NEW i \in 1..(2 * n) PROVE PlanOrder[i] \in TermIds
  <2>1. (i + 1) \div 2 \in 1..n
    OBVIOUS
  <2>2. SkillKeys[(i + 1) \div 2] \in Keys
    BY <1>1, <2>1
  <2> QED BY <1>2, <2>2 DEF TermIds
<1>5. ASSUME NEW s \in Keys PROVE \E i \in 1..(2 * n) : PlanOrder[i] = <<s, "canonical">>
  <2>1. PICK k \in 1..n : SkillKeys[k] = s
    BY <1>1 DEF Keys, Range
  <2>2. PICK i \in 1..(2 * n) : i = 2 * k - 1
    OBVIOUS
  <2>3. (i + 1) \div 2 = k /\ i % 2 = 1
    BY <2>2
  <2>4. PlanOrder[i] = <<s, "canonical">>
    BY <1>2, <2>1, <2>3
  <2> QED BY <2>4
<1>6. Len(PlanOrder) \in Nat /\ 1..Len(PlanOrder) = 1..(2 * n)
  BY <1>3
<1>7. \A s \in Keys : \E i \in 1..(2 * n) : PlanOrder[i] = <<s, "canonical">>
  BY <1>5
<1> QED BY <1>4, <1>6, <1>7

\* A term is written where nobody else has it, or all is undone.
LEMMA WriteTermTyped ==
  ASSUME NEW rows \in TermRows \cup {None}, NEW id \in TermIds, NEW t \in SkillNames \cup {None}
  PROVE  /\ WriteTerm(rows, id, t) \in TermRows \cup {None}
         /\ t = None => WriteTerm(rows, id, t) = rows
         /\ t # None /\ WriteTerm(rows, id, t) # None =>
              /\ rows # None /\ \A other \in TermIds \ {id} : rows[other] # t
              /\ WriteTerm(rows, id, t) = [rows EXCEPT ![id] = t]
BY DEF WriteTerm, Upsert, TermRows

\* Terms are written one by one.
LEMMA TermsWrittenGoes ==
  ASSUME SkillsTyped, NEW r \in Releases
  PROVE  \E rows \in [0..Len(PlanOrder) -> TermRows \cup {None}] :
           /\ rows[0] = Pruned(r) /\ TermsWritten(r) = rows[Len(PlanOrder)]
           /\ \A i \in 1..Len(PlanOrder) :
                rows[i] = WriteTerm(rows[i - 1], PlanOrder[i], TermOf(r, PlanOrder[i]))
<1> DEFINE S == TermRows \cup {None}
           Put(rows, i) == WriteTerm(rows, PlanOrder[i], TermOf(r, PlanOrder[i]))
<1> PICK n \in Nat : n = Len(PlanOrder)
  BY PlannedTerms
<1>0. Pruned(r) \in S
  BY DEF SkillsTyped, Pruned, TermRows
<1>p. ASSUME NEW rows \in S, NEW i \in 1..n PROVE Put(rows, i) \in S
  BY PlannedTerms, ReleaseTerms, WriteTermTyped
<1> HIDE DEF S
<1>a. PICK step : step = [p \in Nat \X S |-> IF p[1] \in 1..n THEN Put(p[2], p[1]) ELSE p[2]]
  OBVIOUS
<1>1. step \in [Nat \X S -> S]
  <2> HIDE DEF Put
  <2> QED BY <1>a, <1>p
<1>b. PICK f : Recursive(f, n, S, Pruned(r), step)
  BY <1>0, <1>1, RecursionTo
<1>2. /\ f \in [0..n -> S] /\ f[0] = Pruned(r)
      /\ \A i \in 1..n : i \in Nat /\ i - 1 \in 0..n /\ i \in 0..n /\ i # 0
                         /\ f[i] = step[<<i, f[i - 1]>>]
  BY <1>b DEF Recursive
<1>3. \A i \in 1..n : f[i] = Put(f[i - 1], i)
  <2> HIDE DEF Put
  <2> QED BY <1>2, <1>a
<1>4. \E g : g = [i \in 0..n |-> IF i = 0 THEN Pruned(r) ELSE Put(g[i - 1], i)]
  <2> HIDE DEF Put
  <2>1. \A i \in 0..n : i # 0 => i \in 1..n
    OBVIOUS
  <2>2. f = [i \in 0..n |-> IF i = 0 THEN Pruned(r) ELSE Put(f[i - 1], i)]
    BY <1>2, <1>3, <2>1
  <2> QED BY <2>2
<1> DEFINE rows[i \in 0..n] == IF i = 0 THEN Pruned(r) ELSE Put(rows[i - 1], i)
<1>5. rows = [i \in 0..n |-> IF i = 0 THEN Pruned(r) ELSE Put(rows[i - 1], i)]
  <2> HIDE DEF Put
  <2> QED BY <1>4
<1>6. TermsWritten(r) = rows[n]
  BY DEF TermsWritten
<1> HIDE DEF rows
<1>7. rows[0] = Pruned(r) /\ \A i \in 1..n : rows[i] = Put(rows[i - 1], i)
  <2> HIDE DEF Put
  <2> QED BY <1>2, <1>5
<1>8. \A i \in 0..n : rows[i] \in S
  <2> DEFINE T == {i \in 0..n : rows[i] \in S}
  <2>1. 0 \in T
    <3>1. 0 \in 0..n /\ rows[0] \in S
      BY <1>0, <1>7
    <3> QED BY <3>1
  <2>2. ASSUME NEW i \in 1..n, i - 1 \in T PROVE i \in T
    <3> HIDE DEF Put
    <3>1. i \in 0..n /\ rows[i - 1] \in S
      BY <2>2
    <3>2. Put(rows[i - 1], i) \in S
      BY <3>1, <1>p
    <3>3. rows[i] \in S
      BY <1>7, <3>2
    <3> QED BY <3>1, <3>3
  <2>3. \A i \in 0..n : i \in T
    <3> HIDE DEF T
    <3> QED BY <2>1, <2>2, InductionTo
  <2> QED BY <2>3
<1>9. rows \in [0..n -> S]
  BY <1>5, <1>8
<1> QED BY <1>6, <1>7, <1>9 DEF S

\* Terms that were written are those of the release, each one's own.
LEMMA TermsWrittenAreRight ==
  ASSUME SkillsTyped, OneSkillPerTerm(termRows), NEW r \in Releases, TermsWritten(r) # None
  PROVE  /\ TermsWritten(r) \in TermRows /\ OneSkillPerTerm(TermsWritten(r))
         /\ \A i \in 1..Len(PlanOrder) : TermOf(r, PlanOrder[i]) # None =>
              TermsWritten(r)[PlanOrder[i]] = TermOf(r, PlanOrder[i])
         /\ \A id \in TermIds : TermOf(r, id) = None => TermsWritten(r)[id] = Pruned(r)[id]
<1> PICK n \in Nat : n = Len(PlanOrder)
  BY PlannedTerms
<1>1. PICK rows \in [0..n -> TermRows \cup {None}] :
        /\ rows[0] = Pruned(r) /\ TermsWritten(r) = rows[n]
        /\ \A i \in 1..n : rows[i] = WriteTerm(rows[i - 1], PlanOrder[i], TermOf(r, PlanOrder[i]))
  BY TermsWrittenGoes
<1> DEFINE Right(z, i) ==
      /\ z \in TermRows /\ OneSkillPerTerm(z)
      /\ \A j \in 1..i : TermOf(r, PlanOrder[j]) # None =>
           z[PlanOrder[j]] = TermOf(r, PlanOrder[j])
      /\ \A id \in TermIds : TermOf(r, id) = None => z[id] = Pruned(r)[id]
    T == {i \in 0..n : rows[i] # None => Right(rows[i], i)}
<1>2. 0 \in T
  <2>1. Pruned(r) \in TermRows /\ OneSkillPerTerm(Pruned(r))
    BY DEF SkillsTyped, Pruned, TermRows, OneSkillPerTerm
  <2>2. Right(rows[0], 0)
    BY <1>1, <2>1
  <2>3. 0 \in 0..n
    OBVIOUS
  <2> QED BY <2>2, <2>3
<1>3. ASSUME NEW i \in 1..n, i - 1 \in T PROVE i \in T
  <2>1. i \in 0..n /\ i - 1 \in 0..n /\ PlanOrder[i] \in TermIds
        /\ \A j \in 1..i : j = i \/ j \in 1..(i - 1)
    BY PlannedTerms
  <2>a. PICK id \in TermIds : id = PlanOrder[i]
    BY <2>1
  <2>b. PICK t : t = TermOf(r, id)
    OBVIOUS
  <2>c. PICK z : z = rows[i - 1]
    OBVIOUS
  <2>2. z \in TermRows \cup {None} /\ t \in SkillNames \cup {None} /\ rows[i] = WriteTerm(z, id, t)
        /\ (z # None => Right(z, i - 1))
    BY <1>1, <1>3, <2>1, <2>a, <2>b, <2>c, ReleaseTerms
  <2>3. CASE t = None
    <3>1. rows[i] = z
      BY <2>2, <2>3, WriteTermTyped
    <3>2. z # None => Right(z, i)
      BY <2>1, <2>2, <2>3, <2>a, <2>b
    <3> QED BY <2>1, <3>1, <3>2
  <2>4. CASE t # None /\ rows[i] # None
    <3>1. /\ z # None /\ z \in TermRows /\ \A other \in TermIds \ {id} : z[other] # t
          /\ rows[i] = [z EXCEPT ![id] = t]
      BY <2>2, <2>4, WriteTermTyped
    <3>2. Right(z, i - 1)
      BY <2>2, <3>1
    <3>d. PICK y : y = [z EXCEPT ![id] = t]
      OBVIOUS
    <3>3. y \in TermRows /\ y[id] = t /\ \A other \in TermIds : other # id => y[other] = z[other]
      BY <3>1, <3>d, <2>2 DEF TermRows
    <3>4. OneSkillPerTerm(y)
      <4>1. OneSkillPerTerm(z)
        BY <3>2
      <4> QED BY <3>1, <3>3, <4>1 DEF OneSkillPerTerm
    <3>5. \A j \in 1..(i - 1) : PlanOrder[j] \in TermIds
      BY PlannedTerms
    <3>6. ASSUME NEW j \in 1..i, TermOf(r, PlanOrder[j]) # None
          PROVE  y[PlanOrder[j]] = TermOf(r, PlanOrder[j])
      <4>1. CASE PlanOrder[j] = id
        BY <3>3, <4>1, <2>b
      <4>2. CASE PlanOrder[j] # id
        <5>1. j \in 1..(i - 1)
          BY <2>1, <2>a, <4>2
        <5>2. z[PlanOrder[j]] = TermOf(r, PlanOrder[j])
          BY <3>2, <3>6, <5>1
        <5> QED BY <3>3, <3>5, <4>2, <5>1, <5>2
      <4> QED BY <4>1, <4>2
    <3>7. ASSUME NEW other \in TermIds, TermOf(r, other) = None PROVE y[other] = Pruned(r)[other]
      <4>1. other # id /\ z[other] = Pruned(r)[other]
        BY <2>4, <2>b, <3>2, <3>7
      <4> QED BY <3>3, <4>1
    <3>8. Right(y, i)
      BY <3>3, <3>4, <3>6, <3>7
    <3> HIDE DEF Right
    <3> QED BY <2>1, <3>1, <3>8, <3>d
  <2>5. CASE rows[i] = None
    BY <2>1, <2>5
  <2> QED BY <2>3, <2>4, <2>5
<1>4. n \in T
  <2> HIDE DEF T
  <2>1. n \in 0..n
    OBVIOUS
  <2> QED BY <1>2, <1>3, <2>1, InductionTo
<1> QED BY <1>1, <1>4

\* At first there is nothing.
LEMMA SkillsStart == SlotsInit /\ SkillsInit => SkillsInv
<1> SUFFICES ASSUME SlotsInit, SkillsInit PROVE SkillsInv
  OBVIOUS
<1>1. SkillsTyped
  BY DEF SkillsInit, SkillsTyped, TermRows
<1>2. BackfillCalls
  BY DEF SlotsInit, Idle, BackfillCalls
<1>3. Savable(profile)
  BY SkillsAssumption DEF SkillsInit, Savable, Distinct
<1> QED BY <1>1, <1>2, <1>3
        DEF SkillsInit, SkillsInv, CatalogInv, OneSkillPerTerm, NamesAreTerms, LinksAreThere, There

\* A profile that is saved has the rows of skills that are there.
LEMMA SavedRows ==
  ASSUME SkillsInv, NEW rows \in Seq(ProfileRow), \A s \in Linked(rows) : There(s), Rewrite(rows)
  PROVE  SkillsInv'
<1>1. profile' = rows /\ UNCHANGED <<skillRows, termRows, call>> /\ Savable(profile')
  BY DEF Rewrite
<1>2. LinksAreThere'
  <2>1. \A i \in 1..Len(rows) : rows[i].id # None => rows[i].id \in Linked(rows)
    BY DEF Linked, Range
  <2> QED BY <1>1, <2>1 DEF LinksAreThere, There
<1>3. SkillsTyped' /\ BackfillCalls'
  BY <1>1 DEF SkillsInv, CatalogInv, SkillsTyped, BackfillCalls, There
<1> QED BY <1>1, <1>2, <1>3 DEF SkillsInv, CatalogInv, OneSkillPerTerm, NamesAreTerms, There

\* A short list is a list.
LEMMA ShortLists ==
  ASSUME NEW S, NEW short \in BoundedSeq(S, MaxSkills)
  PROVE  short \in Seq(S)
<1>1. PICK m \in 0..MaxSkills : short \in [1..m -> S]
  BY DEF BoundedSeq, SeqOf
<1>2. m \in Nat
  BY SkillsAssumption
<1> QED BY <1>1, <1>2

\* Skills of the profile are there.
LEMMA LinkedAreThere ==
  ASSUME SkillsTyped, LinksAreThere
  PROVE  \A s \in Linked(profile) : s \in Keys /\ There(s)
<1>1. DOMAIN profile = 1..Len(profile) /\ \A i \in 1..Len(profile) : profile[i] \in ProfileRow
  BY DEF SkillsTyped
<1> QED BY <1>1 DEF LinksAreThere, Linked, Range, ProfileRow

\* Every step keeps the catalog, the profile and the plan of a backfill in agreement.
LEMMA SkillsKept == SkillsInv /\ [SkillsNext]_<<skilled, call>> => SkillsInv'
<1> SUFFICES ASSUME SkillsInv, [SkillsNext]_<<skilled, call>> PROVE SkillsInv'
  OBVIOUS
<1>1. /\ SkillsTyped /\ OneSkillPerTerm(termRows) /\ NamesAreTerms /\ LinksAreThere
      /\ BackfillCalls /\ Savable(profile)
  BY DEF SkillsInv, CatalogInv
<1>2. ASSUME NEW r \in Releases, SeedTaxonomy(r) PROVE SkillsInv'
  <2>1. /\ TermsWritten(r) # None /\ termRows' = TermsWritten(r) /\ UNCHANGED <<profile, call>>
        /\ skillRows' = [s \in Keys |-> IF r[s] = None THEN skillRows[s]
                                        ELSE [name |-> r[s].name, active |-> r[s].active]]
    BY <1>2 DEF SeedTaxonomy
  <2>2. /\ termRows' \in TermRows /\ OneSkillPerTerm(termRows')
        /\ \A i \in 1..Len(PlanOrder) : TermOf(r, PlanOrder[i]) # None =>
             termRows'[PlanOrder[i]] = TermOf(r, PlanOrder[i])
        /\ \A id \in TermIds : TermOf(r, id) = None => termRows'[id] = Pruned(r)[id]
    BY <1>1, <2>1, TermsWrittenAreRight
  <2>3. \A s \in Keys : <<s, "canonical">> \in TermIds
    BY DEF TermIds
  <2>4. ASSUME NEW s \in Keys, r[s] # None
        PROVE  /\ skillRows'[s] = [name |-> r[s].name, active |-> r[s].active]
               /\ skillRows'[s] \in Skill /\ skillRows'[s] # None
               /\ TermOf(r, <<s, "canonical">>) = r[s].name
               /\ TermOf(r, <<s, "canonical">>) # None
    <3>1. r[s] \in [name : SkillNames, alias : SkillNames \cup {None}, active : BOOLEAN]
          /\ TermOf(r, <<s, "canonical">>) = r[s].name /\ TermOf(r, <<s, "canonical">>) # None
      BY <2>3, <2>4, ReleaseTerms
    <3>2. skillRows'[s] = [name |-> r[s].name, active |-> r[s].active]
      BY <2>1, <2>4
    <3>3. skillRows'[s] \in Skill
      BY <3>1, <3>2 DEF Skill
    <3> QED BY <3>1, <3>2, <3>3, SkillsAssumption
  <2>5. \A s \in Keys : r[s] = None => skillRows'[s] = skillRows[s]
    BY <2>1
  <2>6. SkillsTyped'
    <3>1. \A s \in Keys : skillRows'[s] \in {None} \cup Skill
      BY <1>1, <2>4, <2>5 DEF SkillsTyped
    <3>2. skillRows' \in [Keys -> {None} \cup Skill]
      BY <2>1, <3>1
    <3> QED BY <1>1, <2>1, <2>2, <3>2 DEF SkillsTyped
  <2>7. \A s \in Keys : There(s) => There(s)'
    BY <2>4, <2>5 DEF There
  <2>8. NamesAreTerms'
    <3> SUFFICES ASSUME NEW s \in Keys, skillRows'[s] # None
                 PROVE  termRows'[<<s, "canonical">>] = skillRows'[s].name
      BY DEF NamesAreTerms, There
    <3>1. CASE r[s] # None
      <4>1. PICK i \in 1..Len(PlanOrder) : PlanOrder[i] = <<s, "canonical">>
        BY PlannedTerms
      <4>2. termRows'[<<s, "canonical">>] = r[s].name
        BY <2>2, <2>4, <3>1, <4>1
      <4>3. skillRows'[s].name = r[s].name
        <5>1. skillRows'[s] = [name |-> r[s].name, active |-> r[s].active]
          BY <2>1, <3>1
        <5> QED BY <5>1
      <4> QED BY <4>2, <4>3
    <3>2. CASE r[s] = None
      <4> PICK id \in TermIds : id = <<s, "canonical">>
        BY <2>3
      <4>1. TermOf(r, id) = None
        BY <3>2 DEF TermOf
      <4>2. termRows'[id] = Pruned(r)[id]
        BY <2>2, <4>1
      <4>3. Pruned(r)[id] = termRows[id]
        BY <3>2 DEF Pruned
      <4>4. skillRows'[s] = skillRows[s] /\ There(s)
        BY <2>5, <3>2 DEF There
      <4>5. termRows[id] = skillRows[s].name
        BY <1>1, <4>4 DEF NamesAreTerms
      <4> QED BY <4>2, <4>3, <4>4, <4>5
    <3> QED BY <3>1, <3>2
  <2>9. LinksAreThere'
    <3>1. \A i \in 1..Len(profile) : profile[i].id # None => profile[i].id \in Keys
      BY <1>1, LinkedAreThere DEF Linked, Range, SkillsTyped
    <3> QED BY <1>1, <2>1, <2>7, <3>1 DEF LinksAreThere
  <2>10. BackfillCalls'
    <3> SUFFICES ASSUME NEW c \in Calls, call[c].step = "backfill"
                 PROVE  /\ call[c].links \in Seq(Link)
                        /\ \A i \in 1..Len(call[c].links) : There(call[c].links[i].id)'
      BY <1>1, <2>1 DEF BackfillCalls, There
    <3>1. call[c].links \in Seq(Link)
          /\ \A i \in 1..Len(call[c].links) : There(call[c].links[i].id)
      BY <1>1 DEF BackfillCalls
    <3>2. ASSUME NEW i \in 1..Len(call[c].links) PROVE There(call[c].links[i].id)'
      <4>1. call[c].links[i] \in Link /\ There(call[c].links[i].id)
        BY <3>1
      <4>2. call[c].links[i].id \in Keys
        BY <4>1 DEF Link
      <4>3. PICK s \in Keys : s = call[c].links[i].id
        BY <4>2
      <4>4. There(s)'
        BY <2>7, <4>1, <4>3
      <4>5. call'[c] = call[c]
        BY <2>1
      <4> QED BY <4>3, <4>4, <4>5 DEF There
    <3> QED BY <2>1, <3>1, <3>2
  <2>11. Savable(profile')
    BY <1>1, <2>1
  <2> QED BY <2>2, <2>6, <2>8, <2>9, <2>10, <2>11 DEF SkillsInv, CatalogInv
<1>3. CASE SaveLegacy
  <2>1. PICK texts \in BoundedSeq(SkillNames, MaxSkills) : Rewrite(ResolveLegacy(texts))
    BY <1>3 DEF SaveLegacy
  <2>2. texts \in Seq(SkillNames)
    BY ShortLists
  <2> QED BY <1>1, <2>1, <2>2, LegacyLinks, LinkedAreThere, SavedRows
<1>4. CASE SaveSelections
  <2>1. PICK chosen \in BoundedSeq(Selections, MaxSkills) :
          (\A sel \in Range(chosen) : ~Refused(sel)) /\ Rewrite(ResolveSelections(chosen))
    BY <1>4 DEF SaveSelections
  <2>2. chosen \in Seq(Selections)
    BY ShortLists
  <2>3. \A sel \in Selections : sel \in Selection /\ (sel.id = None => sel.text \in SkillNames)
    BY SkillsAssumption DEF Selections, Selection, SkillRow
  <2>4. /\ chosen \in Seq(Selection) /\ DOMAIN chosen = 1..Len(chosen)
        /\ \A i \in 1..Len(chosen) : chosen[i] \in Selections
    BY <2>2, <2>3
  <2>5. \A i \in 1..Len(chosen) : IF chosen[i].id = None THEN chosen[i].text \in SkillNames
                                  ELSE There(chosen[i].id)
    BY <2>1, <2>3, <2>4 DEF Range, Refused
  <2>6. \A s \in Linked(chosen) : There(s)
    BY <2>4, <2>5 DEF Linked, Range
  <2> QED BY <1>1, <2>1, <2>4, <2>5, <2>6, SelectionsLink, SavedRows
<1>5. ASSUME NEW c \in Calls, PlanBackfill(c) PROVE SkillsInv'
  <2>1. /\ UNCHANGED <<skillRows, termRows, profile>>
        /\ call' = [call EXCEPT ![c] = [step |-> "backfill", links |-> Plan.links]]
    BY <1>5 DEF PlanBackfill, Begin, skilled
  <2>2. Plan.links \in Seq(Link) /\ \A i \in 1..Len(Plan.links) : There(Plan.links[i].id)
    BY <1>1, PlanTyped DEF Plans
  <2>3. BackfillCalls'
    BY <1>1, <2>1, <2>2 DEF BackfillCalls, There
  <2>4. Savable(profile')
    BY <1>1, <2>1
  <2> QED BY <1>1, <2>1, <2>3, <2>4
          DEF SkillsInv, CatalogInv, SkillsTyped, OneSkillPerTerm, NamesAreTerms, LinksAreThere,
              There
<1>6. ASSUME NEW c \in Calls, ApplyBackfill(c) PROVE SkillsInv'
  <2>1. /\ call[c].step = "backfill" /\ call' = [call EXCEPT ![c] = Idle]
        /\ profile' \in {profile, Relinked(call[c].links)} /\ UNCHANGED <<skillRows, termRows>>
        /\ profile' = profile \/ Distinct(profile')
    BY <1>6 DEF ApplyBackfill, At, Finish
  <2>2. profile \in RowsOfSkills
    BY <1>1 DEF SkillsTyped, LinksAreThere, RowsOfSkills
  <2>3. Relinked(call[c].links) \in RowsOfSkills
    BY <1>1, <2>1, <2>2, RelinkedKeeps DEF BackfillCalls
  <2>4. profile' \in RowsOfSkills
    BY <2>1, <2>2, <2>3
  <2>5. SkillsTyped' /\ LinksAreThere'
    BY <1>1, <2>1, <2>4 DEF SkillsTyped, LinksAreThere, RowsOfSkills, There
  <2>6. BackfillCalls'
    BY <1>1, <2>1 DEF BackfillCalls, There, Idle
  <2>7. Savable(profile')
    <3>1. profile' \in Seq(ProfileRow) /\ Len(profile') <= Len(profile) /\ MaxSkills \in Nat
      BY <2>4, SkillsAssumption DEF RowsOfSkills
    <3>2. Len(profile') \in Nat /\ Len(profile) \in Nat
      BY <1>1, <3>1 DEF SkillsTyped
    <3> QED BY <1>1, <2>1, <3>1, <3>2 DEF Savable
  <2> QED BY <1>1, <2>1, <2>5, <2>6, <2>7
          DEF SkillsInv, CatalogInv, OneSkillPerTerm, NamesAreTerms, There
<1>7. CASE UNCHANGED <<skilled, call>>
  <2>1. Savable(profile')
    BY <1>1, <1>7 DEF skilled
  <2> QED BY <1>1, <1>7, <2>1
          DEF skilled, SkillsInv, CatalogInv, SkillsTyped, OneSkillPerTerm, NamesAreTerms,
              LinksAreThere, BackfillCalls, There
<1> QED BY <1>2, <1>3, <1>4, <1>5, <1>6, <1>7 DEF SkillsNext

\* The best term of a skill that has the name asked for is that name; no other skill has it.
LEMMA FoundByName ==
  ASSUME CatalogInv
  PROVE  SkillsAreFoundByName
<1> SUFFICES ASSUME NEW s \in Keys, Active(s) PROVE s \in Suggested(skillRows[s].name)
  BY DEF SkillsAreFoundByName
<1>1. /\ SkillsTyped /\ OneSkillPerTerm(termRows) /\ NamesAreTerms /\ There(s)
  BY DEF CatalogInv, Active
<1> PICK q : q = skillRows[s].name
  OBVIOUS
<1>2. q \in SkillNames /\ q # None
  BY <1>1, SkillsAssumption DEF SkillsTyped, There, Skill
<1>3. \A z \in Keys : TermsOf(z) \subseteq SkillNames
  BY <1>1 DEF TermsOf, SkillsTyped, TermRows
<1>4. <<s, "canonical">> \in TermIds /\ termRows[<<s, "canonical">>] = q
  BY <1>1 DEF NamesAreTerms, TermIds
<1>5. q \in TermsOf(s)
  BY <1>2, <1>4 DEF TermsOf
<1>6. \A t \in SkillNames : Tier[t][q] \in 0..3 /\ (Tier[t][q] = 0 <=> t = q)
  BY <1>2, SkillsAssumption
<1>7. ASSUME NEW z \in Keys, q \in TermsOf(z) PROVE z = s
  <2>1. PICK id \in TermIds : id[1] = z /\ termRows[id] = q
    BY <1>7 DEF TermsOf
  <2>2. id = <<s, "canonical">>
    BY <1>1, <1>2, <1>4, <2>1 DEF OneSkillPerTerm
  <2> QED BY <2>1, <2>2
<1>8. ASSUME NEW z \in Keys, TermsOf(z) # {}
      PROVE  BestTier(z, q) \in {Tier[t][q] : t \in TermsOf(z)}
             /\ \A t \in TermsOf(z) : BestTier(z, q) <= Tier[t][q]
  <2> DEFINE U == {Tier[t][q] : t \in TermsOf(z)}
  <2>1. U \in SUBSET Nat /\ U # {}
    <3>1. PICK t : t \in TermsOf(z)
      BY <1>8
    <3>2. Tier[t][q] \in U
      BY <3>1
    <3>3. \A y \in TermsOf(z) : Tier[y][q] \in Nat
      BY <1>3, <1>6
    <3> QED BY <3>2, <3>3
  <2>2. \E n \in U : \A m \in U : n <= m
    <3> HIDE DEF U
    <3> QED BY <2>1, LeastNumber
  <2>3. \E n \in U : \A t \in TermsOf(z) : n <= Tier[t][q]
    BY <2>2
  <2> QED BY <2>3 DEF BestTier
<1>9. BestTier(s, q) = 0
  <2>1. Tier[q][q] = 0
    BY <1>2, <1>6
  <2>2. BestTier(s, q) <= 0
    BY <1>5, <1>8, <2>1
  <2>3. BestTier(s, q) \in Nat
    <3>1. \A t \in TermsOf(s) : Tier[t][q] \in Nat
      BY <1>3, <1>6
    <3> QED BY <1>5, <1>8, <3>1
  <2> QED BY <2>2, <2>3
<1>10. ASSUME NEW z \in Matching(q), RanksBefore(z, s, q) PROVE FALSE
  <2>1. z \in Keys /\ TermsOf(z) # {}
    BY DEF Matching
  <2>2. PICK t \in TermsOf(z) : BestTier(z, q) = Tier[t][q]
    BY <1>8, <2>1
  <2>3. t \in SkillNames /\ Tier[t][q] \in Nat
    BY <1>3, <1>6, <2>1
  <2>4. BestTier(z, q) = 0 /\ (z = s => Position(z) < Position(s))
    BY <1>9, <1>10, <2>2, <2>3 DEF RanksBefore
  <2>5. t = q
    BY <1>6, <2>2, <2>3, <2>4
  <2>6. z = s
    BY <1>7, <2>1, <2>5
  <2>7. Position(s) \in 1..Len(SkillKeys)
    <3>1. \E i \in 1..Len(SkillKeys) : SkillKeys[i] = s
      BY SkillsAssumption DEF Keys, Range
    <3> QED BY <3>1 DEF Position
  <2>8. ~(Position(s) < Position(s))
    BY <2>7, SkillsAssumption
  <2> QED BY <2>4, <2>6, <2>8
<1>11. s \in Matching(q)
  <2>1. Tier[q][q] = 0
    BY <1>2, <1>6
  <2>2. Tier[q][q] < 3
    BY <2>1
  <2> QED BY <1>5, <2>2 DEF Matching
<1>12. Cardinality({z \in Matching(q) : RanksBefore(z, s, q)}) < SuggestCap
  <2>1. {z \in Matching(q) : RanksBefore(z, s, q)} = {}
    BY <1>10
  <2>2. Cardinality({}) = 0
    BY FS_EmptySet
  <2>3. 0 < SuggestCap
    BY SkillsAssumption
  <2> QED BY <2>1, <2>2, <2>3
<1> QED BY <1>11, <1>12 DEF Suggested

\* A profile that is sent back as it was shown keeps its links and its texts, and it is saved,
\* unless names collide.
LEMMA SavedAreKept ==
  ASSUME CatalogInv
  PROVE  SavedSkillsAreKept
<1>1. SkillsTyped /\ LinksAreThere /\ Savable(profile)
  BY DEF CatalogInv
<1>a. PICK shown : shown = [i \in 1..Len(profile) |->
                      IF profile[i].id # None THEN SkillRow(None, profile[i].id) ELSE profile[i]]
  OBVIOUS
<1>2. /\ Len(profile) \in Nat /\ DOMAIN profile = 1..Len(profile)
      /\ \A i \in 1..Len(profile) : profile[i] \in ProfileRow
  BY <1>1 DEF SkillsTyped
<1>3. ASSUME NEW i \in 1..Len(profile)
      PROVE  /\ shown[i] \in Selection /\ shown[i].id = profile[i].id
             /\ profile[i].id = None => shown[i] = profile[i] /\ profile[i].text \in SkillNames
             /\ profile[i].id # None => There(profile[i].id)
  <2>1. profile[i].id # None => There(profile[i].id)
    BY <1>1 DEF LinksAreThere
  <2>2. profile[i].text \in SkillNames /\ profile[i].id \in Keys \cup {None}
    BY <1>2 DEF ProfileRow
  <2>3. CASE profile[i].id = None
    <3>1. shown[i] = profile[i]
      BY <1>a, <2>3
    <3>2. profile[i] \in Selection
      BY <1>2 DEF ProfileRow, Selection
    <3> QED BY <2>2, <2>3, <3>1, <3>2
  <2>4. CASE profile[i].id # None
    <3>1. shown[i] = [text |-> None, id |-> profile[i].id]
      BY <1>a, <2>4 DEF SkillRow
    <3> QED BY <2>1, <2>2, <2>4, <3>1 DEF Selection
  <2> QED BY <2>3, <2>4
<1>4. /\ shown \in Seq(Selection) /\ Len(shown) = Len(profile)
      /\ DOMAIN shown = 1..Len(profile)
  BY <1>2, <1>3, <1>a
<1>5. Linked(shown) = Linked(profile)
  <2>1. ASSUME NEW x, x \in Linked(shown) PROVE x \in Linked(profile)
    BY <1>2, <1>3, <1>4, <2>1 DEF Linked, Range
  <2>2. ASSUME NEW x, x \in Linked(profile) PROVE x \in Linked(shown)
    BY <1>2, <1>3, <1>4, <2>2 DEF Linked, Range
  <2> QED BY <2>1, <2>2
<1>6. /\ Linked(ResolveSelections(shown)) = Linked(shown)
      /\ \A i \in 1..Len(shown) : shown[i].id = None =>
           \E entry \in Range(ResolveSelections(shown)) : entry.text = shown[i].text
  BY <1>1, <1>3, <1>4, SelectionsLink
<1>b. PICK kept \in Seq(ProfileRow) :
        /\ kept = ResolveSelections(shown) /\ Len(kept) <= Len(shown) /\ CanonicalRows(kept)
        /\ Linked(kept) = Linked(shown) /\ (TextsDiffer(Linked(shown)) => Distinct(kept))
  BY <1>1, <1>3, <1>4, SelectionsLink
<1>d. ASSUME NEW i \in 1..Len(profile), profile[i].id # None
      PROVE  /\ profile[i].id \in Linked(profile)
             /\ Canonical(profile[i].id).text =
                  IF Active(profile[i].id) THEN skillRows[profile[i].id].name ELSE profile[i].text
  <2> PICK s : s = profile[i].id
    OBVIOUS
  <2>1. s \in Linked(profile)
    BY <1>2, <1>d DEF Linked, Range
  <2>2. PICK j \in 1..Len(profile) : Stored(s) = profile[j] /\ profile[j].id = s
    BY DEF Stored
  <2>3. Stored(s) = profile[i]
    BY <1>1, <1>d, <2>2 DEF Savable, Distinct
  <2> QED BY <2>1, <2>3 DEF Canonical, SkillRow
<1>e. ASSUME ~NamesCollide PROVE TextsDiffer(Linked(profile))
  <2> SUFFICES ASSUME NEW s \in Linked(profile), NEW z \in Linked(profile),
                      Canonical(s).text = Canonical(z).text
               PROVE  s = z
    BY DEF TextsDiffer
  <2>1. PICK i \in 1..Len(profile), j \in 1..Len(profile) :
          profile[i].id = s /\ profile[j].id = z /\ s # None /\ z # None
    BY <1>2 DEF Linked, Range
  <2>2. /\ Canonical(s).text = IF Active(s) THEN skillRows[s].name ELSE profile[i].text
        /\ Canonical(z).text = IF Active(z) THEN skillRows[z].name ELSE profile[j].text
    BY <1>d, <2>1
  <2>3. CASE Active(s) <=> ~Active(z)
    BY <1>e, <2>1, <2>2, <2>3 DEF NamesCollide
  <2>4. CASE Active(s) /\ Active(z)
    <3>1. skillRows[s].name = skillRows[z].name
      BY <2>2, <2>4
    <3>2. s \in Keys /\ z \in Keys /\ There(s) /\ There(z)
      BY <1>1, LinkedAreThere
    <3>3. /\ termRows[<<s, "canonical">>] = termRows[<<z, "canonical">>]
          /\ termRows[<<s, "canonical">>] = skillRows[s].name
      BY <3>1, <3>2 DEF CatalogInv, NamesAreTerms
    <3>4. skillRows[s] \in Skill
      BY <1>1, <3>2 DEF SkillsTyped, There
    <3>5. skillRows[s].name # None
      BY <3>4, SkillsAssumption DEF Skill
    <3>6. <<s, "canonical">> \in TermIds /\ <<z, "canonical">> \in TermIds
      BY <3>2 DEF TermIds
    <3>7. <<s, "canonical">> = <<z, "canonical">>
      BY <3>3, <3>5, <3>6 DEF CatalogInv, OneSkillPerTerm
    <3> QED BY <3>7
  <2>5. CASE ~Active(s) /\ ~Active(z)
    <3>1. profile[i].text = profile[j].text
      BY <2>2, <2>5
    <3> QED BY <1>1, <2>1, <3>1 DEF Savable, Distinct
  <2> QED BY <2>3, <2>4, <2>5
<1>f. ASSUME NamesCollide PROVE ~Distinct(kept)
  <2>1. PICK i \in 1..Len(profile), j \in 1..Len(profile) :
          /\ profile[i].id # None /\ Active(profile[i].id)
          /\ profile[j].id # None /\ ~Active(profile[j].id)
          /\ skillRows[profile[i].id].name = profile[j].text
    BY <1>f DEF NamesCollide
  <2> PICK s, z : s = profile[i].id /\ z = profile[j].id
    OBVIOUS
  <2>2. s # z /\ Canonical(s).text = Canonical(z).text /\ s \in Linked(kept) /\ z \in Linked(kept)
    BY <1>5, <1>b, <1>d, <2>1
  <2>3. PICK k \in 1..Len(kept), m \in 1..Len(kept) :
          kept[k].id = s /\ kept[m].id = z /\ s # None /\ z # None
    BY <2>2 DEF Linked, Range
  <2>4. kept[k] = Canonical(s) /\ kept[m] = Canonical(z)
    BY <1>b, <2>3 DEF CanonicalRows
  <2> QED BY <2>2, <2>3, <2>4 DEF Distinct
<1>g. Savable(kept) <=> ~NamesCollide
  <2>1. Len(kept) <= MaxSkills
    <3>1. Len(kept) <= Len(profile) /\ Len(profile) <= MaxSkills
      BY <1>1, <1>4, <1>b DEF Savable
    <3>2. Len(kept) \in Nat /\ Len(profile) \in Nat /\ MaxSkills \in Nat
      BY <1>2, SkillsAssumption
    <3> QED BY <3>1, <3>2
  <2> QED BY <1>5, <1>b, <1>e, <1>f, <2>1 DEF Savable
<1>7. ASSUME NEW sel \in Range(shown) PROVE ~Refused(sel)
  <2>1. PICK i \in 1..Len(profile) : sel = shown[i]
    BY <1>4 DEF Range
  <2>2. CASE profile[i].id # None
    <3>1. profile[i].id \in Linked(profile)
      BY <1>2, <2>2 DEF Linked, Range
    <3> QED BY <1>3, <2>1, <2>2, <3>1 DEF Refused
  <2>3. CASE profile[i].id = None
    <3>1. sel = profile[i] /\ profile[i] \in Range(profile)
      BY <1>2, <1>3, <2>1, <2>3 DEF Range
    <3>2. sel.text \in Customs(profile)
      BY <2>3, <3>1 DEF Customs
    <3> QED BY <2>3, <3>1, <3>2 DEF Refused, RefusedNewText
  <2> QED BY <2>2, <2>3
<1>8. ASSUME NEW t \in Customs(profile)
      PROVE  \E entry \in Range(ResolveSelections(shown)) : entry.text = t
  <2>1. PICK i \in 1..Len(profile) : profile[i].id = None /\ profile[i].text = t
    BY <1>2 DEF Customs, Range
  <2> QED BY <1>3, <1>4, <1>6, <2>1
<1>9. ASSUME NEW texts \in BoundedSeq(SkillNames, MaxSkills)
      PROVE  Linked(ResolveLegacy(texts)) \subseteq Linked(profile)
  <2>1. texts \in Seq(SkillNames)
    BY ShortLists
  <2> QED BY <1>1, <2>1, LegacyLinks
<1> QED BY <1>5, <1>6, <1>7, <1>8, <1>9, <1>a, <1>b, <1>g DEF SavedSkillsAreKept

\* What is offered is found by its name, and what is saved stays.
LEMMA SkillsShow == CatalogInv => SkillsHold
BY FoundByName, SavedAreKept DEF SkillsHold
====
