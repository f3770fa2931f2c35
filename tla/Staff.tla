---- MODULE Staff ----
(***************************************************************************)
(* Staff membership and what an operator may do with it: the commands of   *)
(* staff-lifecycle.ts over staff-lifecycle.store.ts (one transaction that  *)
(* locks every membership of the issuer) and the provider behind           *)
(* staff-lifecycle.directory.ts, the admission of a portal request         *)
(* (staff.guard.ts) and the account action it leads to                     *)
(* (account-status.service.ts, one transaction that locks the actor and    *)
(* the account).                                                           *)
(*                                                                         *)
(* A command reads membership and provider first and writes later, so two  *)
(* commands for one member overlap.  Every command may stop after any step *)
(* (no step is forced).  A refused command changes nothing and is not an   *)
(* action.  A definition followed by its correct form is a slip that some  *)
(* property excludes.                                                      *)
(***************************************************************************)
EXTENDS Naturals, FiniteSets

CONSTANTS
  Members,   \* subjects of the staff project, all of one issuer
  Linked,    \* the members whose linked product account is the account below
  Calls,     \* slots for commands and requests in flight
  None

ASSUME StaffAssumption == None \notin Members /\ Linked \subseteq Members

VARIABLES
  identity,  \* members known to the provider
  factor,    \* the verified TOTP factor: none, current, or disowned by a recovery or an emergency
  status,    \* membership status, none before it is recorded
  latest,    \* latest audit action about the member
  account,   \* status of a product account
  record,    \* resulting status of the account's latest audit event
  emergency, \* the last membership write was an emergency command
  call

vars == <<identity, factor, status, latest, account, record, emergency, call>>
membership == <<status, latest, emergency>>

Status == {"none", "pending", "active", "inactive", "recovery"}
Action == {"none", "pending_recorded", "activated", "deactivated", "emergency_deactivated",
           "factor_recovery_started", "reenrollment_permitted", "readmitted"}
AccountStatus == {"ACTIVE", "SUSPENDED"}
Active == {s \in Members : status[s] = "active"}

\* A command in flight: its step, the member, whether it is an emergency command, the
\* status the operator saw on an account and the one asked for.
CallOf(step, s, e) == [step |-> step, of |-> s, emergency |-> e, saw |-> None, want |-> None]
Idle == CallOf("idle", None, FALSE)
Begin(c, k) == call[c] = Idle /\ call' = [call EXCEPT ![c] = k]
Goto(c, step) == call' = [call EXCEPT ![c].step = step]
Finish(c) == call' = [call EXCEPT ![c] = Idle]
At(c, step) == call[c].step = step

Init ==
  /\ identity \in SUBSET Members
  /\ factor = [s \in Members |-> "none"]
  /\ status = [s \in Members |-> "none"]
  /\ latest = [s \in Members |-> "none"]
  /\ account = "ACTIVE" /\ record = None
  /\ emergency = FALSE
  /\ call = [c \in Calls |-> Idle]

----
\* Whether the ordinary removal of s would leave no active operator, under the locks.
RemovesLastActiveByDeactivation(s, next) ==
  status[s] = "active" /\ next = "inactive" /\ Active = {s}
RemovesLastActive(s, next) ==
  status[s] = "active" /\ next \in {"inactive", "recovery"} /\ Active = {s}

\* The write of changeStatus: from the statuses in "from" to next, with its audit event.
\* The command ends without a write when it is blocked, unchanged or would remove the last
\* operator; "then" is the step that follows a write or an unchanged membership.
ChangeStatus(c, from, next, action, then) ==
  LET s == call[c].of  e == call[c].emergency IN
  IF status[s] \in from \ {next} /\ (e \/ ~RemovesLastActive(s, next))
  THEN /\ status' = [status EXCEPT ![s] = next]
       /\ latest' = [latest EXCEPT ![s] = action]
       /\ emergency' = e
       /\ IF then = "idle" THEN Finish(c) ELSE Goto(c, then)
  ELSE Finish(c) /\ UNCHANGED membership

Recorded == Status \ {"none"}

\* A factor in place when its owner reports it lost, or is removed in an emergency.
Disown(s) == factor' = [factor EXCEPT ![s] = IF @ = "none" THEN @ ELSE "disowned"]

----
\* inviteStaff: the provider knows the address already, or is asked to create the identity
\* and the answer arrives, or is lost ("uncertain": the command stops, the identity stays).
InviteStaff(c, s) ==
  /\ \/ s \in identity /\ Begin(c, CallOf("bind", s, FALSE)) /\ UNCHANGED identity
     \/ /\ s \notin identity /\ identity' = identity \cup {s}
        /\ \/ Begin(c, CallOf("bind", s, FALSE))
           \/ call[c] = Idle /\ UNCHANGED call
  /\ UNCHANGED <<factor, membership, account, record>>

\* bindPending: recordPending inserts membership and audit event, or finds the row there.
BindPending(c) ==
  LET s == call[c].of IN
  /\ At(c, "bind")
  /\ IF status[s] = "none"
     THEN /\ status' = [status EXCEPT ![s] = "pending"]
          /\ latest' = [latest EXCEPT ![s] = "pending_recorded"]
          /\ emergency' = FALSE
     ELSE UNCHANGED membership
  /\ Finish(c)
  /\ UNCHANGED <<identity, factor, account, record>>

\* The member enrols a factor at the provider; no command takes part.
EnrolFactor(s) ==
  /\ s \in identity /\ factor[s] = "none"
  /\ factor' = [factor EXCEPT ![s] = "current"]
  /\ UNCHANGED <<identity, membership, account, record, call>>

\* activateStaff up to its last check: the invited identity matches or its change is
\* acknowledged, and the provider reports a verified factor.
BeginActivate(c, s) ==
  /\ status[s] # "none" /\ s \in identity /\ factor[s] # "none"
  /\ Begin(c, CallOf("activate", s, FALSE))
  /\ UNCHANGED <<identity, factor, membership, account, record>>

\* activateStaff's write.
ActivateFromAny == {"pending", "inactive", "recovery"}
ActivateFrom == {"pending"}
Activate(c) ==
  /\ At(c, "activate")
  /\ ChangeStatus(c, ActivateFrom, "active", "activated", "idle")
  /\ UNCHANGED <<identity, factor, account, record>>

\* deactivateStaff, ordinary or emergency, from every status; there is nothing to read
\* first, and the provider cannot revoke sessions afterwards.
DeactivateStaff(c, s, e) ==
  /\ Begin(c, CallOf("deactivate", s, e))
  /\ UNCHANGED <<identity, factor, membership, account, record>>

Deactivate(c) ==
  LET s == call[c].of  e == call[c].emergency IN
  /\ At(c, "deactivate")
  /\ ChangeStatus(c, Recorded, "inactive",
                  IF e THEN "emergency_deactivated" ELSE "deactivated", "idle")
  /\ IF e /\ status' # status THEN Disown(s) ELSE UNCHANGED factor
  /\ UNCHANGED <<identity, account, record>>

\* recoverLostFactor's reads: an active member; an inactive one whose latest action is an
\* emergency deactivation, by an emergency command; or one in recovery, to repeat cleanup.
RecoverLostFactor(c, s, e) ==
  /\ \/ status[s] = "active" /\ Begin(c, CallOf("recover-active", s, e))
     \/ /\ status[s] = "inactive" /\ e /\ latest[s] = "emergency_deactivated"
        /\ Begin(c, CallOf("recover-inactive", s, e))
     \/ status[s] = "recovery" /\ Begin(c, CallOf("cleanup", s, e))
  /\ UNCHANGED <<identity, factor, membership, account, record>>

\* Its write, before any provider call.
StartRecovery(c) ==
  /\ \/ /\ At(c, "recover-active")
        /\ ChangeStatus(c, {"active"}, "recovery", "factor_recovery_started", "cleanup")
     \/ /\ At(c, "recover-inactive")
        /\ ChangeStatus(c, {"inactive"}, "recovery", "factor_recovery_started", "cleanup")
  /\ IF status' # status THEN Disown(call[c].of) ELSE UNCHANGED factor
  /\ UNCHANGED <<identity, account, record>>

\* removeVerifiedTotp removes every factor there is by now, or the provider is unavailable.
RemoveVerifiedTotp(c) ==
  /\ At(c, "cleanup")
  /\ \/ factor' = [factor EXCEPT ![call[c].of] = "none"]
     \/ UNCHANGED factor
  /\ Finish(c)
  /\ UNCHANGED <<identity, membership, account, record>>

\* permitReenrollment up to its last check, and its write.
PermitReenrollment(c, s) ==
  /\ status[s] = "recovery" /\ factor[s] = "none"
  /\ Begin(c, CallOf("permit", s, FALSE))
  /\ UNCHANGED <<identity, factor, membership, account, record>>
Permit(c) ==
  /\ At(c, "permit")
  /\ ChangeStatus(c, {"recovery"}, "pending", "reenrollment_permitted", "idle")
  /\ UNCHANGED <<identity, factor, account, record>>

\* readmitStaff: the factor is looked at only when the latest action is an emergency
\* deactivation.
ReadmitStaff(c, s) ==
  /\ status[s] = "inactive" /\ s \in identity
  /\ latest[s] = "emergency_deactivated" => factor[s] = "none"
  /\ Begin(c, CallOf("readmit", s, FALSE))
  /\ UNCHANGED <<identity, factor, membership, account, record>>
Readmit(c) ==
  /\ At(c, "readmit")
  /\ ChangeStatus(c, {"inactive"}, "pending", "readmitted", "idle")
  /\ UNCHANGED <<identity, factor, account, record>>

----
\* evaluateStaffMembership for a request whose token StaffGuard accepts.
EvaluateStaffMembership(s) ==
  CASE status[s] = "active" -> "admit"
    [] status[s] = "pending" -> "pending"
    [] OTHER -> "deny"

\* A portal request to change an account is admitted; the operator saw some status of the
\* account, perhaps long ago.  Its token proves a factor of the past: a token outlives the
\* factor, and no session can be revoked.
StaffRequest(c, s, saw, want) ==
  /\ EvaluateStaffMembership(s) = "admit"
  /\ call[c] = Idle
  /\ call' = [call EXCEPT ![c] = [CallOf("account", s, FALSE) EXCEPT !.saw = saw, !.want = want]]
  /\ UNCHANGED <<identity, factor, membership, account, record>>

\* lockActor: whether the member may act, at the moment of the change.
MayActOnceAdmitted(s) == s \notin Linked
MayAct(s) == status[s] = "active" /\ s \notin Linked

\* What an operator's expectation must be for the change to be made.
ExpectationIgnored(saw) == TRUE
ExpectationHolds(saw) == account = saw

\* changeInTransaction: the status, compared and set, with its audit event.
ChangeAccount(c) ==
  LET k == call[c] IN
  /\ At(c, "account")
  /\ IF MayAct(k.of) /\ account # k.want /\ ExpectationHolds(k.saw)
     THEN account' = k.want /\ record' = k.want
     ELSE UNCHANGED <<account, record>>
  /\ Finish(c)
  /\ UNCHANGED <<identity, factor, membership>>

Command(c) ==
  \/ BindPending(c) \/ Activate(c) \/ Deactivate(c) \/ StartRecovery(c)
  \/ RemoveVerifiedTotp(c) \/ Permit(c) \/ Readmit(c) \/ ChangeAccount(c)

Next ==
  \/ \E c \in Calls, s \in Members :
       \/ InviteStaff(c, s) \/ BeginActivate(c, s)
       \/ \E e \in BOOLEAN : DeactivateStaff(c, s, e) \/ RecoverLostFactor(c, s, e)
       \/ PermitReenrollment(c, s) \/ ReadmitStaff(c, s)
       \/ \E saw, want \in AccountStatus : StaffRequest(c, s, saw, want)
  \/ \E c \in Calls : Command(c)
  \/ \E s \in Members : EnrolFactor(s)

Spec == Init /\ [][Next]_vars

----
Steps == {"idle", "bind", "activate", "deactivate", "recover-active", "recover-inactive",
          "cleanup", "permit", "readmit", "account"}
CallType == [step : Steps, of : Members \cup {None}, emergency : BOOLEAN,
             saw : AccountStatus \cup {None}, want : AccountStatus \cup {None}]

\* Every variable keeps its type.
TypeOK ==
  /\ identity \subseteq Members
  /\ factor \in [Members -> {"none", "current", "disowned"}]
  /\ status \in [Members -> Status] /\ latest \in [Members -> Action]
  /\ account \in AccountStatus /\ record \in AccountStatus \cup {None}
  /\ emergency \in BOOLEAN
  /\ call \in [Calls -> CallType]

\* Ordinary commands never leave the portal without an active operator, however many of
\* them overlap: only an emergency command removes the last one (changeStatus counts under
\* locks on every membership of the issuer).
OperatorsRemain == [][Active # {} /\ Active' = {} => emergency']_vars

\* Nobody becomes active again except through pending: a removal and a recovery that
\* overtake an activation already past its checks are not undone by its write.
ReturnThroughPending ==
  [][\A s \in Members : status[s] # "active" /\ status'[s] = "active" => status[s] = "pending"]_vars

\* An operator removed after a request was admitted changes no account with it, and no
\* operator changes the linked account: the change re-reads the membership under lock.
OnlyActiveOperatorsAct ==
  [][account' # account =>
       \E c \in Calls : /\ At(c, "account") /\ call'[c] = Idle
                        /\ status[call[c].of] = "active" /\ call[c].of \notin Linked]_vars

\* Two operators working from what they saw: a change replaces only the status its
\* operator saw, and the latest audit event tells the status of the account.
NoAccountChangeOnStaleView ==
  [][account' # account =>
       /\ \E c \in Calls : At(c, "account") /\ call'[c] = Idle /\ call[c].saw = account
       /\ record' = account']_vars
====
