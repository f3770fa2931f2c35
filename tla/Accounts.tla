---- MODULE Accounts ----
(***************************************************************************)
(* A product account and its phone number: users.service.ts over           *)
(* prisma-user.repository.ts and the identity at Supabase Auth             *)
(* (supabase.service.ts, getAuthVerification).  The stored number is       *)
(* verified when Auth has confirmed the same number; every request reads   *)
(* the row, asks Auth, and writes the flag by id.                          *)
(*                                                                         *)
(* Emails are distinct (one identity each).  Suspended accounts are        *)
(* refused before any of this (Staff).  Profile texts, places and the      *)
(* skills (ProfileSkills) are left out.                                    *)
(***************************************************************************)
EXTENDS Naturals, FiniteSets, Slots

CONSTANTS
  Users, Phones,
  Names,      \* how many candidate usernames resolveUsername tries: 1..Names
  OnePerUser  \* a client waits for its answer before it sends the next request

Row == [name : 1..Names, phone : Phones \cup {None}, verified : BOOLEAN]

ASSUME AccountsAssumption ==
  None \notin Users \cup Phones \cup Row /\ Names \in Nat /\ OnePerUser \in BOOLEAN

VARIABLES
  row,        \* users and profiles: username, number and flag, None before bootstrap
  confirmed,  \* the number Auth has confirmed for the identity
  everConfirmed

accounts == <<row, confirmed, everConfirmed>>

Exists(u) == row[u] # None

\* A request of u: the client may wait for the answer to its last one.
BeginFor(c, k) ==
  /\ OnePerUser => \A d \in Calls : call[d] # Idle => call[d].who # k.who
  /\ Begin(c, k)

AccountsInit ==
  /\ row = [u \in Users |-> None]
  /\ confirmed = [u \in Users |-> None]
  /\ everConfirmed = [u \in Users |-> {}]

\* The identity confirms a number at Auth, where a number belongs to one identity.
ConfirmAtAuth(u, p) ==
  /\ \A v \in Users : confirmed[v] # p
  /\ confirmed' = [confirmed EXCEPT ![u] = p]
  /\ everConfirmed' = [everConfirmed EXCEPT ![u] = @ \cup {p}]
  /\ UNCHANGED <<row, call>>

----
\* getAuthVerification: the number Auth has confirmed, or no answer to be trusted.
GetAuthVerification(u) == {[trusted |-> FALSE, phone |-> None],
                           [trusted |-> TRUE, phone |-> confirmed[u]]}

\* boundPhoneVerified, of an answer and the number stored or asked for.
BoundPhoneVerifiedByAuth(auth, p) == auth.trusted /\ auth.phone # None
BoundPhoneVerified(auth, p) == auth.trusted /\ auth.phone # None /\ auth.phone = p

\* assertVerifiedPhoneAvailable.
Available(u, p) ==
  \A v \in Users \ {u} : Exists(v) => ~(row[v].verified /\ row[v].phone = p)

\* What the database refuses: a username in use, a second verified holder of a number
\* (profiles_phone_e164_verified_key).
ConflictsByName(u, r) ==
  \E v \in Users \ {u} : Exists(v) /\ row[v].name = r.name
Conflicts(u, r) ==
  \E v \in Users \ {u} : Exists(v) /\
    \/ row[v].name = r.name
    \/ r.verified /\ row[v].verified /\ r.phone # None /\ row[v].phone = r.phone

\* resolveUsername: the first candidate not in use.
FirstFree(n) ==
  /\ \A v \in Users : Exists(v) => row[v].name # n
  /\ \A m \in 1..(n - 1) : \E v \in Users : Exists(v) /\ row[v].name = m

\* bootstrap of an identity without a row, up to the insert; Auth answers or does not.
Bootstrap(c, u, p) ==
  /\ ~Exists(u) /\ Available(u, p)
  /\ \E n \in 1..Names, auth \in GetAuthVerification(u) :
       /\ FirstFree(n)
       /\ BeginFor(c, [step |-> "create", who |-> u, row |->
                     [name |-> n, phone |-> p,
                      verified |-> BoundPhoneVerified(auth, p)]])
  /\ UNCHANGED accounts

\* createWithProfile.
CreateWithProfile(c) ==
  LET k == call[c] IN
  /\ At(c, "create")
  /\ row' = IF Exists(k.who) \/ Conflicts(k.who, k.row) THEN row
            ELSE [row EXCEPT ![k.who] = k.row]
  /\ Finish(c)
  /\ UNCHANGED <<confirmed, everConfirmed>>

\* getMe, and a bootstrap repeated with nothing to fill in: the row, then the flag.
SyncOf(u, r) == [step |-> "sync", who |-> u, phone |-> r.phone, verified |-> r.verified]
GetMe(c, u) ==
  /\ Exists(u) /\ BeginFor(c, SyncOf(u, row[u]))
  /\ UNCHANGED accounts

\* updateMe, or a repeated bootstrap that fills in a missing number, up to the write: the
\* flag is cleared when the number differs from the one read, and left alone otherwise.
UpdateMe(c, u, p) ==
  /\ Exists(u) /\ (p = None \/ Available(u, p))
  /\ BeginFor(c, [step |-> "update", who |-> u, phone |-> p,
               changed |-> p = None \/ p # row[u].phone])
  /\ UNCHANGED accounts

\* updateMe with a username not in use.
Rename(c, u, n) ==
  /\ Exists(u) /\ \A v \in Users \ {u} : Exists(v) => row[v].name # n
  /\ BeginFor(c, [step |-> "rename", who |-> u, name |-> n])
  /\ UNCHANGED accounts

\* updateOwn writes the columns it is given into whatever the row has become, or is refused.
UpdateOwn(c, r) ==
  LET u == call[c].who IN
  IF Conflicts(u, r)
  THEN Finish(c) /\ UNCHANGED row
  ELSE row' = [row EXCEPT ![u] = r] /\ call' = [call EXCEPT ![c] = SyncOf(u, r)]

WriteUpdate(c) ==
  LET k == call[c] IN
  /\ At(c, "update")
  /\ UpdateOwn(c, [row[k.who] EXCEPT !.phone = k.phone,
                                     !.verified = IF k.changed THEN FALSE ELSE @])
  /\ UNCHANGED <<confirmed, everConfirmed>>
WriteName(c) ==
  /\ At(c, "rename")
  /\ UpdateOwn(c, [row[call[c].who] EXCEPT !.name = call[c].name])
  /\ UNCHANGED <<confirmed, everConfirmed>>

\* syncTrustedVerification: what Auth answers about the number read, if it answers ...
SyncTrustedVerification(c) ==
  LET k == call[c] IN
  /\ At(c, "sync")
  /\ \E auth \in GetAuthVerification(k.who) :
       LET bound == BoundPhoneVerified(auth, k.phone) IN
       IF auth.trusted /\ bound # k.verified
       THEN call' = [call EXCEPT ![c] = [step |-> "flag", who |-> k.who, verified |-> bound]]
       ELSE Finish(c)
  /\ UNCHANGED accounts
\* ... and the flag it calls for, written by id.
WriteVerified(c) ==
  LET k == call[c]  r == [row[k.who] EXCEPT !.verified = k.verified] IN
  /\ At(c, "flag")
  /\ row' = IF Conflicts(k.who, r) THEN row ELSE [row EXCEPT ![k.who] = r]
  /\ Finish(c)
  /\ UNCHANGED <<confirmed, everConfirmed>>

AccountsNext ==
  \/ \E u \in Users, p \in Phones : ConfirmAtAuth(u, p)
  \/ \E c \in Calls, u \in Users :
       \/ GetMe(c, u)
       \/ \E p \in Phones : Bootstrap(c, u, p)
       \/ \E p \in Phones \cup {None} : UpdateMe(c, u, p)
       \/ \E n \in 1..Names : Rename(c, u, n)
  \/ \E c \in Calls :
       \/ CreateWithProfile(c) \/ WriteUpdate(c) \/ WriteName(c)
       \/ SyncTrustedVerification(c) \/ WriteVerified(c)

----
\* Every variable keeps its type.
AccountsTypeOK ==
  /\ row \in [Users -> Row \cup {None}]
  /\ confirmed \in [Users -> Phones \cup {None}]
  /\ everConfirmed \in [Users -> SUBSET Phones]

\* A number has one verified holder and a username one owner, though availability is read
\* long before the write (assertVerifiedPhoneAvailable, resolveUsername; the indexes decide).
OneVerifiedHolder ==
  \A u \in Users : \A v \in Users \ {u} : Exists(u) /\ Exists(v) =>
    /\ row[u].name # row[v].name
    /\ row[u].verified /\ row[v].verified /\ row[u].phone # None => row[u].phone # row[v].phone

\* "phoneVerified is true only when Auth says confirmed AND phones match exactly": a number
\* shown as verified is one that Auth has confirmed for this identity.
VerifiedWasConfirmed ==
  \A u \in Users : Exists(u) /\ row[u].verified /\ row[u].phone # None =>
    row[u].phone \in everConfirmed[u]
====
