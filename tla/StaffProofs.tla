---- MODULE StaffProofs ----
(***************************************************************************)
(* Proofs about Staff: what holds for every number of members, of commands *)
(* and of portal requests, wherever they stop.  Memberships and account    *)
(* are written under locks, so each property is one of single steps; it    *)
(* rests on what changeStatus writes and on the types of the calls.        *)
(***************************************************************************)
EXTENDS Staff, TLAPS

\* A call in flight is about a member, and a request to change an account names the change.
CallsOK ==
  \A c \in Calls : /\ call[c].step # "idle" => call[c].of \in Members
                   /\ call[c].step = "account" => call[c].want \in AccountStatus

IInv == TypeOK /\ CallsOK

----
\* A call as it begins, and an empty slot, are well typed.
LEMMA CallOfType ==
  ASSUME NEW step \in Steps, NEW s \in Members \cup {None}, NEW e \in BOOLEAN
  PROVE  /\ CallOf(step, s, e) \in CallType
         /\ CallOf(step, s, e).step = step /\ CallOf(step, s, e).of = s
BY DEF CallOf, CallType

LEMMA IdleType == Idle \in CallType /\ Idle.step = "idle"
BY DEF Idle, CallOf, CallType, Steps

\* One slot changes: calls keep their types, and what they are about.
LEMMA SlotChanges ==
  ASSUME IInv, NEW c \in Calls, NEW k \in CallType, call' = [call EXCEPT ![c] = k],
         k.step # "idle" => k.of \in Members,
         k.step = "account" => k.want \in AccountStatus
  PROVE  call' \in [Calls -> CallType] /\ CallsOK'
<1>1. call \in [Calls -> CallType]
  BY DEF IInv, TypeOK
<1>2. \A d \in Calls : call'[d] = IF d = c THEN k ELSE call[d]
  BY <1>1
<1> QED BY <1>1, <1>2 DEF IInv, CallsOK, AccountStatus

\* The same of the three ways a step treats its slot.
LEMMA BeginKeeps ==
  ASSUME IInv, NEW c \in Calls, NEW s \in Members, NEW e \in BOOLEAN,
         NEW step \in Steps \ {"account"}, Begin(c, CallOf(step, s, e))
  PROVE  call' \in [Calls -> CallType] /\ CallsOK'
<1> DEFINE k == CallOf(step, s, e)
<1>1. k \in CallType /\ k.of = s /\ k.step # "account"
  BY CallOfType
<1>2. call' = [call EXCEPT ![c] = k]
  BY DEF Begin
<1> QED BY <1>1, <1>2, SlotChanges

LEMMA FinishKeeps ==
  ASSUME IInv, NEW c \in Calls, Finish(c)
  PROVE  call' \in [Calls -> CallType] /\ CallsOK'
BY IdleType, SlotChanges DEF Finish

LEMMA GotoKeeps ==
  ASSUME IInv, NEW c \in Calls, call[c].step # "idle", NEW step \in Steps \ {"account"},
         Goto(c, step)
  PROVE  call' \in [Calls -> CallType] /\ CallsOK'
<1> DEFINE k == [call[c] EXCEPT !.step = step]
<1>1. call[c] \in CallType /\ call[c].of \in Members
  BY DEF IInv, TypeOK, CallsOK
<1>2. k \in CallType /\ k.step = step /\ k.of = call[c].of
  BY <1>1 DEF CallType
<1>3. call' = [call EXCEPT ![c] = k]
  BY DEF Goto
<1> QED BY <1>1, <1>2, <1>3, SlotChanges

----
\* A step that leaves the memberships alone: what it must keep itself.
MembershipsStand == UNCHANGED membership

\* What one step may do to the memberships: nothing, or one change of changeStatus, which
\* removes the last active operator only in an emergency and activates only what is pending.
ChangesOne ==
  \E s \in Members, next \in Status \ {"none"}, action \in Action, e \in BOOLEAN :
    /\ status' = [status EXCEPT ![s] = next]
    /\ latest' = [latest EXCEPT ![s] = action]
    /\ emergency' = e
    /\ next = "active" => status[s] = "pending"
    /\ e \/ status[s] # "active" \/ Active # {s}

MembershipStep == UNCHANGED membership \/ ChangesOne

\* So the types of the memberships are kept; an ordinary step leaves an operator; and
\* whoever becomes active was pending.
LEMMA MembershipStepKeeps ==
  ASSUME IInv, MembershipStep
  PROVE  /\ status' \in [Members -> Status] /\ latest' \in [Members -> Action]
         /\ emergency' \in BOOLEAN
         /\ Active # {} /\ Active' = {} => emergency'
         /\ \A m \in Members :
              status[m] # "active" /\ status'[m] = "active" => status[m] = "pending"
<1>1. CASE UNCHANGED membership
  BY <1>1 DEF IInv, TypeOK, membership, Active
<1>2. CASE ChangesOne
  <2>1. PICK s \in Members, next \in Status \ {"none"}, action \in Action, e \in BOOLEAN :
          /\ status' = [status EXCEPT ![s] = next]
          /\ latest' = [latest EXCEPT ![s] = action]
          /\ emergency' = e
          /\ next = "active" => status[s] = "pending"
          /\ e \/ status[s] # "active" \/ Active # {s}
    BY <1>2 DEF ChangesOne
  <2>2. \A m \in Members : status'[m] = IF m = s THEN next ELSE status[m]
    BY <2>1 DEF IInv, TypeOK
  <2>3. ASSUME Active # {}, Active' = {}, ~e PROVE FALSE
    <3>1. \A m \in Members \ {s} : status[m] # "active"
      BY <2>2, <2>3 DEF Active
    <3>2. Active = {s} /\ status[s] = "active"
      BY <2>3, <3>1 DEF Active
    <3> QED BY <2>1, <2>3, <3>2
  <2>4. status' \in [Members -> Status] /\ latest' \in [Members -> Action] /\ emergency' \in BOOLEAN
    BY <2>1 DEF IInv, TypeOK
  <2> QED BY <2>1, <2>2, <2>3, <2>4
<1> QED BY <1>1, <1>2 DEF MembershipStep

\* changeStatus makes such a step, if from and next are those of an ordinary transition.
LEMMA ChangeStatusSteps ==
  ASSUME IInv, NEW c \in Calls, NEW from \in SUBSET Status, NEW next \in Status \ {"none"},
         NEW action \in Action, NEW then \in Steps \ {"account"}, call[c].step # "idle",
         ChangeStatus(c, from, next, action, then),
         next = "active" => from = {"pending"},
         "active" \in from => next \in {"inactive", "recovery"}
  PROVE  /\ MembershipStep
         /\ call' \in [Calls -> CallType] /\ CallsOK'
<1> DEFINE s == call[c].of
           e == call[c].emergency
<1>1. s \in Members /\ e \in BOOLEAN
  BY DEF IInv, TypeOK, CallsOK, CallType
<1>2. CASE status[s] \in from \ {next} /\ (e \/ ~RemovesLastActive(s, next))
  <2>1. /\ status' = [status EXCEPT ![s] = next] /\ latest' = [latest EXCEPT ![s] = action]
        /\ emergency' = e /\ (Finish(c) \/ Goto(c, then))
    BY <1>2 DEF ChangeStatus
  <2>2. e \/ status[s] # "active" \/ Active # {s}
    BY <1>2 DEF RemovesLastActive
  <2>3. next = "active" => status[s] = "pending"
    BY <1>2
  <2>4. ChangesOne
    BY <1>1, <2>1, <2>2, <2>3 DEF ChangesOne
  <2> QED BY <2>1, <2>4, FinishKeeps, GotoKeeps DEF MembershipStep
<1>3. CASE ~(status[s] \in from \ {next} /\ (e \/ ~RemovesLastActive(s, next)))
  BY <1>3, FinishKeeps DEF ChangeStatus, MembershipStep
<1> QED BY <1>2, <1>3

----
\* What every step does: the rows keep their types, the memberships change by changeStatus,
\* and the account only by ChangeAccount.
StepOK ==
  /\ identity' \subseteq Members
  /\ factor' \in [Members -> {"none", "current", "disowned"}]
  /\ MembershipStep
  /\ UNCHANGED <<account, record>> \/ \E c \in Calls : ChangeAccount(c)
  /\ call' \in [Calls -> CallType] /\ CallsOK'

LEMMA DisownType ==
  ASSUME IInv, NEW s \in Members, Disown(s) \/ UNCHANGED factor
  PROVE  factor' \in [Members -> {"none", "current", "disowned"}]
BY DEF IInv, TypeOK, Disown

LEMMA InitInv == Init => IInv
<1> SUFFICES ASSUME Init PROVE IInv OBVIOUS
<1>1. call \in [Calls -> CallType] /\ \A c \in Calls : call[c].step = "idle"
  BY IdleType DEF Init
<1>2. TypeOK
  BY <1>1 DEF Init, TypeOK, Status, Action, AccountStatus
<1> QED BY <1>1, <1>2 DEF IInv, CallsOK

\* Commands and requests that begin.
LEMMA BeginSteps ==
  ASSUME IInv, NEW c \in Calls, NEW s \in Members, NEW e \in BOOLEAN,
         NEW saw \in AccountStatus, NEW want \in AccountStatus,
         \/ InviteStaff(c, s) \/ BeginActivate(c, s) \/ DeactivateStaff(c, s, e)
         \/ RecoverLostFactor(c, s, e) \/ PermitReenrollment(c, s) \/ ReadmitStaff(c, s)
         \/ StaffRequest(c, s, saw, want)
  PROVE  StepOK
<1>0. /\ identity \subseteq Members /\ factor \in [Members -> {"none", "current", "disowned"}]
      /\ UNCHANGED membership => MembershipStep
      /\ UNCHANGED call => call' \in [Calls -> CallType] /\ CallsOK'
  BY DEF IInv, TypeOK, MembershipStep, CallsOK
<1>1. CASE InviteStaff(c, s)
  BY <1>0, <1>1, BeginKeeps DEF InviteStaff, StepOK, Steps
<1>2. CASE BeginActivate(c, s)
  BY <1>0, <1>2, BeginKeeps DEF BeginActivate, StepOK, Steps
<1>3. CASE DeactivateStaff(c, s, e)
  BY <1>0, <1>3, BeginKeeps DEF DeactivateStaff, StepOK, Steps
<1>4. CASE RecoverLostFactor(c, s, e)
  BY <1>0, <1>4, BeginKeeps DEF RecoverLostFactor, StepOK, Steps
<1>5. CASE PermitReenrollment(c, s)
  BY <1>0, <1>5, BeginKeeps DEF PermitReenrollment, StepOK, Steps
<1>6. CASE ReadmitStaff(c, s)
  BY <1>0, <1>6, BeginKeeps DEF ReadmitStaff, StepOK, Steps
<1>7. CASE StaffRequest(c, s, saw, want)
  <2> DEFINE k == [CallOf("account", s, FALSE) EXCEPT !.saw = saw, !.want = want]
  <2>1. k \in CallType /\ k.of = s /\ k.want = want
    BY DEF CallOf, CallType, Steps
  <2>2. call' = [call EXCEPT ![c] = k]
    BY <1>7 DEF StaffRequest
  <2>3. call' \in [Calls -> CallType] /\ CallsOK'
    BY <2>1, <2>2, SlotChanges
  <2> QED BY <1>0, <1>7, <2>3 DEF StaffRequest, StepOK
<1> QED BY <1>1, <1>2, <1>3, <1>4, <1>5, <1>6, <1>7

\* Writes of the commands.
LEMMA CommandSteps ==
  ASSUME IInv, NEW c \in Calls, Command(c)
  PROVE  StepOK
<1>0. /\ identity \subseteq Members /\ factor \in [Members -> {"none", "current", "disowned"}]
      /\ UNCHANGED membership => MembershipStep
      /\ call[c].step # "idle" => call[c].of \in Members
  BY DEF IInv, TypeOK, MembershipStep, CallsOK
<1>1. CASE BindPending(c)
  <2> DEFINE s == call[c].of
  <2>1. Finish(c) /\ s \in Members
    BY <1>0, <1>1 DEF BindPending, At
  <2>2. MembershipStep
    <3>1. CASE status[s] = "none"
      <4>1. /\ status' = [status EXCEPT ![s] = "pending"] /\ emergency' = FALSE
            /\ latest' = [latest EXCEPT ![s] = "pending_recorded"]
        BY <1>1, <3>1 DEF BindPending
      <4>2. "pending" \in Status \ {"none"} /\ "pending_recorded" \in Action
        BY DEF Status, Action
      <4>3. ChangesOne
        BY <2>1, <3>1, <4>1, <4>2 DEF ChangesOne
      <4> QED BY <4>3 DEF MembershipStep
    <3>2. CASE status[s] # "none"
      BY <1>1, <3>2 DEF BindPending, MembershipStep
    <3> QED BY <3>1, <3>2
  <2> QED BY <1>0, <1>1, <2>1, <2>2, FinishKeeps DEF BindPending, StepOK
<1>2. CASE Activate(c)
  <2>1. MembershipStep /\ call' \in [Calls -> CallType] /\ CallsOK'
    BY <1>2, ChangeStatusSteps DEF Activate, ActivateFrom, At, Status, Action, Steps
  <2> QED BY <1>0, <1>2, <2>1 DEF Activate, StepOK
<1>3. CASE Deactivate(c)
  <2>1. MembershipStep /\ call' \in [Calls -> CallType] /\ CallsOK'
    BY <1>3, ChangeStatusSteps DEF Deactivate, Recorded, At, Status, Action, Steps
  <2>2. factor' \in [Members -> {"none", "current", "disowned"}]
    BY <1>0, <1>3, DisownType DEF Deactivate, At
  <2> QED BY <1>0, <1>3, <2>1, <2>2 DEF Deactivate, StepOK
<1>4. CASE StartRecovery(c)
  <2>1. MembershipStep /\ call' \in [Calls -> CallType] /\ CallsOK'
    BY <1>4, ChangeStatusSteps DEF StartRecovery, At, Status, Action, Steps
  <2>2. factor' \in [Members -> {"none", "current", "disowned"}]
    BY <1>0, <1>4, DisownType DEF StartRecovery, At
  <2> QED BY <1>0, <1>4, <2>1, <2>2 DEF StartRecovery, StepOK
<1>5. CASE RemoveVerifiedTotp(c)
  BY <1>0, <1>5, FinishKeeps DEF RemoveVerifiedTotp, StepOK
<1>6. CASE Permit(c)
  <2>1. MembershipStep /\ call' \in [Calls -> CallType] /\ CallsOK'
    BY <1>6, ChangeStatusSteps DEF Permit, At, Status, Action, Steps
  <2> QED BY <1>0, <1>6, <2>1 DEF Permit, StepOK
<1>7. CASE Readmit(c)
  <2>1. MembershipStep /\ call' \in [Calls -> CallType] /\ CallsOK'
    BY <1>7, ChangeStatusSteps DEF Readmit, At, Status, Action, Steps
  <2> QED BY <1>0, <1>7, <2>1 DEF Readmit, StepOK
<1>8. CASE ChangeAccount(c)
  <2>1. /\ Finish(c) /\ UNCHANGED <<identity, factor, membership>>
        /\ \E d \in Calls : ChangeAccount(d)
    BY <1>8 DEF ChangeAccount
  <2> QED BY <1>0, <2>1, FinishKeeps DEF StepOK
<1> QED BY <1>1, <1>2, <1>3, <1>4, <1>5, <1>6, <1>7, <1>8 DEF Command

LEMMA NextSteps == IInv /\ Next => StepOK
<1> SUFFICES ASSUME IInv, Next PROVE StepOK OBVIOUS
<1>1. ASSUME NEW s \in Members, EnrolFactor(s) PROVE StepOK
  <2>1. factor' \in [Members -> {"none", "current", "disowned"}]
    BY <1>1 DEF IInv, TypeOK, EnrolFactor
  <2> QED BY <1>1, <2>1 DEF EnrolFactor, StepOK, MembershipStep, IInv, TypeOK, CallsOK
<1> QED BY <1>1, BeginSteps, CommandSteps DEF Next, AccountStatus

LEMMA InvStep == IInv /\ [Next]_vars => IInv'
<1>1. ASSUME IInv, Next PROVE IInv'
  <2>1. StepOK
    BY <1>1, NextSteps
  <2>2. account' \in AccountStatus /\ record' \in AccountStatus \cup {None}
    <3>1. CASE UNCHANGED <<account, record>>
      BY <1>1, <3>1 DEF IInv, TypeOK
    <3>2. CASE \E c \in Calls : ChangeAccount(c)
      <4>1. PICK c \in Calls : ChangeAccount(c)
        BY <3>2
      <4>2. call[c].want \in AccountStatus
        BY <1>1, <4>1 DEF ChangeAccount, At, IInv, CallsOK
      <4> QED BY <1>1, <4>1, <4>2 DEF ChangeAccount, IInv, TypeOK
    <3> QED BY <2>1, <3>1, <3>2 DEF StepOK
  <2> QED BY <1>1, <2>1, <2>2, MembershipStepKeeps DEF StepOK, IInv, TypeOK
<1>2. IInv /\ UNCHANGED vars => IInv'
  BY DEF IInv, TypeOK, CallsOK, vars
<1> QED BY <1>1, <1>2

\* The rows of staff, the factors, the account and the calls keep their types.
THEOREM TypeCorrect == Spec => []TypeOK
<1>1. IInv => TypeOK
  BY DEF IInv
<1> QED BY InitInv, InvStep, <1>1, PTL DEF Spec

\* Ordinary commands never remove the last active operator, however many overlap.
THEOREM SomebodyCanAct == Spec => OperatorsRemain
<1>1. IInv /\ [Next]_vars => [Active # {} /\ Active' = {} => emergency']_vars
  BY NextSteps, MembershipStepKeeps DEF StepOK
<1> QED BY InitInv, InvStep, <1>1, PTL DEF Spec, OperatorsRemain

\* Whoever becomes active again was pending: no write that comes late reinstates anybody.
THEOREM OnlyThroughPending == Spec => ReturnThroughPending
<1>1. IInv /\ [Next]_vars =>
        [\A s \in Members :
            status[s] # "active" /\ status'[s] = "active" => status[s] = "pending"]_vars
  BY NextSteps, MembershipStepKeeps DEF StepOK
<1> QED BY InitInv, InvStep, <1>1, PTL DEF Spec, ReturnThroughPending

\* A change of the account is made by ChangeAccount, on behalf of an operator who is active
\* then, over the status that operator saw.
LEMMA AccountChanges ==
  ASSUME IInv, Next, account' # account
  PROVE  /\ \E c \in Calls : /\ At(c, "account") /\ call'[c] = Idle /\ call[c].saw = account
                            /\ status[call[c].of] = "active" /\ call[c].of \notin Linked
         /\ record' = account'
<1>1. PICK c \in Calls : ChangeAccount(c)
  BY NextSteps DEF StepOK
<1>2. /\ At(c, "account") /\ Finish(c) /\ record' = account'
      /\ MayAct(call[c].of) /\ ExpectationHolds(call[c].saw)
  BY <1>1 DEF ChangeAccount
<1>3. call'[c] = Idle
  BY <1>2 DEF Finish, IInv, TypeOK
<1> QED BY <1>2, <1>3 DEF MayAct, ExpectationHolds

\* An operator removed after the request was admitted changes no account with it.
THEOREM OnlyOperatorsChangeAccounts == Spec => OnlyActiveOperatorsAct
<1>1. IInv /\ [Next]_vars =>
        [account' # account =>
           \E c \in Calls : /\ At(c, "account") /\ call'[c] = Idle
                            /\ status[call[c].of] = "active" /\ call[c].of \notin Linked]_vars
  BY AccountChanges
<1> QED BY InitInv, InvStep, <1>1, PTL DEF Spec, OnlyActiveOperatorsAct

\* A change replaces the status its operator saw, and its audit event tells the new one.
THEOREM AccountsFollowTheirView == Spec => NoAccountChangeOnStaleView
<1>1. IInv /\ [Next]_vars =>
        [account' # account =>
           /\ \E c \in Calls : At(c, "account") /\ call'[c] = Idle /\ call[c].saw = account
           /\ record' = account']_vars
  BY AccountChanges
<1> QED BY InitInv, InvStep, <1>1, PTL DEF Spec, NoAccountChangeOnStaleView
====
