---- MODULE ConnectionsProofs ----
(***************************************************************************)
(* Proofs about Connections, for any number of overlapping calls.          *)
(*                                                                         *)
(* The advisory lock makes a plan durable: between its reads and its       *)
(* writes only the holder of the lock writes, so that the plan is still    *)
(* the one the rows call for when it is carried out.                       *)
(***************************************************************************)
EXTENDS Connections, TLAPS

\* What a call in flight relies on.
CallOK(k) ==
  /\ k.step \in {"lock", "read", "write"} => k.op \in Ops
  /\ k.step # "idle" => k.actor \in Users
  /\ k.step = "write" => k.plan = Plan(k.op, k.actor) /\ ~Stops(k.plan)

CallsOK == \A c \in Calls :
  /\ CallOK(call[c])
  /\ call[c].step \in {"read", "write"} => lock = c

IInv == TypeOK /\ CallsOK /\ OneRelationship

----
\* The two users, each the other's peer.
LEMMA Peers ==
  /\ \A u \in Users : Peer(u) \in Users /\ Peer(u) # u /\ Peer(Peer(u)) = u
  /\ \A u, x \in Users : x = u \/ x = Peer(u)
BY ConnectionsAssumption DEF Users, Peer

\* An empty slot, or a call just begun, is well typed and relies on nothing yet.
LEMMA BegunType ==
  /\ Idle \in CallType /\ Idle.step = "idle"
  /\ \A op \in Ops, u \in Users : CallBy(op, u) \in CallType /\ CallBy(op, u).step = "lock"
BY DEF Idle, CallBy, CallType, Ops, Plans

\* One call moves and the rows stay.  Others keep what they rely on; the lock is taken
\* free, given back by its holder, or left alone.
LEMMA OneCallMoves ==
  ASSUME IInv, NEW c \in Calls, NEW k \in CallType, call' = [call EXCEPT ![c] = k],
         UNCHANGED rows, lock' \in Calls \cup {None}, chat' \in BOOLEAN,
         told' \in [type : {"connection_request", "connection_accepted"}, to : Users] \cup {None},
         CallOK(k), k.step \in {"read", "write"} => lock' = c,
         lock' = lock \/ lock = None \/ lock = c
  PROVE  IInv'
<1>1. TypeOK'
  BY DEF IInv, TypeOK, rows
<1>2. \A op, u : Plan(op, u)' = Plan(op, u)
  BY DEF Plan, rows
<1>3. CallsOK'
  <2>1. ASSUME NEW d \in Calls, d # c
        PROVE  CallOK(call[d])' /\ (call'[d].step \in {"read", "write"} => lock' = d)
    <3>1. /\ call'[d] = call[d] /\ CallOK(call[d])
          /\ call[d].step \in {"read", "write"} => lock = d
      BY <2>1 DEF IInv, TypeOK, CallsOK
    <3>2. CallOK(call[d])'
      BY <1>2, <3>1 DEF CallOK
    <3>3. QED
      BY <2>1, <3>1, <3>2, ConnectionsAssumption
  <2>2. call'[c] = k /\ CallOK(call[c])'
    <3>1. call'[c] = k
      BY DEF IInv, TypeOK
    <3>2. QED
      BY <1>2, <3>1 DEF CallOK
  <2>3. QED
    BY <2>1, <2>2 DEF CallsOK
<1>4. OneRelationship'
  BY DEF IInv, OneRelationship, rows
<1>5. QED
  BY <1>1, <1>3, <1>4 DEF IInv

\* The holder of the lock commits: no other call has a plan that the rows could outdate.
LEMMA HolderCommits ==
  ASSUME IInv, NEW c \in Calls, call[c].step = "write", NEW next \in {"idle", "notify"},
         Commit(c, next), request' \in [Users -> RequestStatus \cup {"none"}],
         edge' \in {"none", "active", "ended"}, OneRelationship'
  PROVE  IInv'
<1> DEFINE k == IF next = "idle" THEN Idle ELSE [call[c] EXCEPT !.step = "notify"]
<1>1. call' = [call EXCEPT ![c] = k]
  BY DEF Commit, Goto, Finish
<1>2. k \in CallType /\ k.step \in {"idle", "notify"} /\ (k.step # "idle" => k.actor \in Users)
  BY BegunType DEF IInv, TypeOK, CallsOK, CallOK, CallType
<1>3. TypeOK'
  BY <1>1, <1>2 DEF IInv, TypeOK, Commit
<1>4. CallsOK'
  <2>1. ASSUME NEW d \in Calls, d # c
        PROVE  call'[d] = call[d] /\ call[d].step \notin {"read", "write"}
    BY <1>1, <2>1 DEF IInv, TypeOK, CallsOK
  <2>2. ASSUME NEW d \in Calls, d # c
        PROVE  CallOK(call[d])' /\ call'[d].step \notin {"read", "write"}
    BY <2>1, <2>2 DEF IInv, CallsOK, CallOK
  <2>3. CallOK(call[c])' /\ call'[c].step \notin {"read", "write"}
    BY <1>1, <1>2 DEF IInv, TypeOK, CallOK
  <2>4. QED
    BY <2>2, <2>3 DEF CallsOK
<1>5. QED
  BY <1>3, <1>4 DEF IInv

----
\* What the writes of each operation meet in the rows, and leave there.

\* A submission meets no pending request and no active connection, and inserts its own.
LEMMA SubmitMeets ==
  ASSUME IInv, NEW c \in Calls, SubmitRequest(c)
  PROVE  LET u == call[c].actor IN
         /\ u \in Users /\ call[c].plan \in {"create", "reopen"}
         /\ edge # "active" /\ \A x \in Users : request[x] # "pending"
         /\ request' = [request EXCEPT ![u] = "pending"] /\ edge' = edge
         /\ Commit(c, "notify")
BY Peers
DEF IInv, CallsOK, CallOK, SubmitRequest, Plan, Sender, planCreateRequest, Stops, Ops

\* An acceptance meets the one pending request, and turns it into the connection.
LEMMA AcceptMeets ==
  ASSUME IInv, NEW c \in Calls, AcceptPending(c)
  PROVE  LET from == Peer(call[c].actor) IN
         /\ from \in Users /\ edge # "active" /\ call[c].plan \in {"create", "reactivate"}
         /\ request[from] = "pending" /\ \A x \in Users : x # from => request[x] # "pending"
         /\ request' = [request EXCEPT ![from] = "accepted"] /\ edge' = "active"
         /\ Commit(c, "notify")
<1> DEFINE u == call[c].actor
           from == Peer(u)
<1>1. /\ u \in Users /\ call[c].op = "accept" /\ call[c].step = "write"
      /\ call[c].plan = planAccept(request[from], edge) /\ ~Stops(call[c].plan)
  BY DEF IInv, CallsOK, CallOK, AcceptPending, Plan, Sender, Ops
<1>2. request[from] = "pending" /\ from \in Users /\ from # u /\ u = Peer(from)
  BY <1>1, Peers DEF planAccept, Stops
<1>3. edge # "active" /\ \A x \in Users : x # from => request[x] # "pending"
  BY <1>2, Peers DEF IInv, OneRelationship
<1>4. /\ call[c].plan \in {"create", "reactivate"}
      /\ call[c].plan = "create" => edge = "none"
  BY <1>1, <1>2, <1>3 DEF planAccept, IInv, TypeOK
<1>5. /\ request' = [x \in Users |->
                      IF x = from THEN "accepted"
                      ELSE IF request[x] = "pending" THEN "cancelled" ELSE request[x]]
      /\ edge' = "active" /\ Commit(c, "notify")
  BY <1>2, <1>4 DEF AcceptPending, Notifies
<1>6. request' = [request EXCEPT ![from] = "accepted"]
  BY <1>3, <1>5 DEF IInv, TypeOK
<1>7. QED
  BY <1>2, <1>3, <1>4, <1>5, <1>6

\* A rejection or cancellation meets the one pending request, and decides it.
LEMMA FinishMeets ==
  ASSUME IInv, NEW c \in Calls, FinishPending(c)
  PROVE  LET from == Sender(call[c].op, call[c].actor) IN
         /\ from \in Users /\ edge # "active" /\ request[from] = "pending"
         /\ \A x \in Users : x # from => request[x] # "pending"
         /\ request' = [request EXCEPT ![from] = TerminalStatus(call[c].op)] /\ edge' = edge
         /\ Commit(c, "idle")
<1> DEFINE from == Sender(call[c].op, call[c].actor)
<1>1. from \in Users /\ request[from] = "pending"
  BY Peers
  DEF IInv, CallsOK, CallOK, FinishPending, Plan, Sender, planTerminal, Stops, Ops
<1>2. edge # "active" /\ \A x \in Users : x # from => request[x] # "pending"
  BY <1>1, Peers DEF IInv, OneRelationship
<1>3. QED
  BY <1>1, <1>2 DEF FinishPending

\* Ending meets the active connection, which leaves no request pending.
LEMMA EndMeets ==
  ASSUME IInv, NEW c \in Calls, EndActiveConnection(c)
  PROVE  /\ edge = "active" /\ edge' = "ended" /\ request' = request
         /\ \A x \in Users : request[x] # "pending"
         /\ Commit(c, "idle")
BY DEF IInv, CallsOK, CallOK, EndActiveConnection, Plan, planEnd, Stops, Ops, OneRelationship

----
\* The steps that leave the rows alone.
LEMMA MovesPreserve ==
  ASSUME IInv, NEW c \in Calls,
         \/ \E u \in Users :
              OpenConnectionConversation(c, u) \/ \E op \in Ops : Begin(c, op, u)
         \/ LockPair(c)
         \/ ReadAndPlan(c)
         \/ Notify(c)
         \/ EnsureConnectionConversation(c)
         \/ Crash(c)
  PROVE  IInv'
<1> DEFINE m == call[c]
<1>0. m \in CallType /\ CallOK(m)
  BY DEF IInv, TypeOK, CallsOK
<1>1. ASSUME Finish(c), UNCHANGED rows, lock' \in {lock, None}, lock' # lock => lock = c,
             chat' \in BOOLEAN,
             told' \in [type : {"connection_request", "connection_accepted"}, to : Users]
                         \cup {None}
      PROVE  IInv'
  <2>1. CallOK(Idle)
    BY BegunType DEF CallOK
  <2>2. QED
    BY <1>1, <2>1, BegunType, OneCallMoves DEF Finish, IInv, TypeOK
<1>2. ASSUME NEW u \in Users, OpenConnectionConversation(c, u) PROVE IInv'
  <2> DEFINE k == [op |-> "open", actor |-> u, step |-> "chat", plan |-> "none"]
  <2>1. k \in CallType /\ CallOK(k) /\ k.step = "chat"
    BY DEF CallType, CallOK, Plans
  <2>2. QED
    BY <1>2, <2>1, OneCallMoves DEF OpenConnectionConversation, IInv, TypeOK
<1>3. ASSUME NEW op \in Ops, NEW u \in Users, Begin(c, op, u) PROVE IInv'
  <2>1. CallOK(CallBy(op, u))
    BY DEF CallBy, CallOK
  <2>2. QED
    BY <1>3, <2>1, BegunType, OneCallMoves DEF Begin, IInv, TypeOK
<1>4. CASE LockPair(c) /\ LockFree(c)
  <2> DEFINE k == [m EXCEPT !.step = "read"]
  <2>1. k \in CallType /\ CallOK(k)
    BY <1>0, <1>4 DEF CallType, CallOK, LockPair
  <2>2. QED
    BY <1>4, <2>1, OneCallMoves DEF LockPair, LockFree, Goto, IInv, TypeOK
<1>5. CASE ReadAndPlan(c)
  <2> DEFINE plan == Plan(m.op, m.actor)
             k == [m EXCEPT !.step = "write", !.plan = plan]
  <2>1. lock = c
    BY <1>5 DEF ReadAndPlan, IInv, CallsOK
  <2>2. CASE Stops(plan)
    <3>1. Finish(c) /\ lock' = None
      BY <1>5, <2>2 DEF ReadAndPlan, LockAfterPlan, Stops, Notifies
    <3>2. QED
      BY <1>1, <1>5, <2>1, <3>1 DEF ReadAndPlan, IInv, TypeOK
  <2>3. CASE ~Stops(plan)
    <3>1. plan \in Plans
      BY <1>0, <1>5
      DEF ReadAndPlan, CallOK, Plan, planCreateRequest, planAccept, planTerminal, planEnd, Plans
    <3>2. k \in CallType /\ CallOK(k)
      BY <1>0, <1>5, <2>3, <3>1 DEF CallType, CallOK, ReadAndPlan
    <3>3. call' = [call EXCEPT ![c] = k] /\ lock' = c
      BY <1>5, <2>3 DEF ReadAndPlan, LockAfterPlan
    <3>4. QED
      BY <1>5, <2>1, <3>2, <3>3, OneCallMoves DEF ReadAndPlan, IInv, TypeOK
  <2>4. QED
    BY <2>2, <2>3
<1>6. CASE Notify(c)
  <2>1. told' \in [type : {"connection_request", "connection_accepted"}, to : Users] \cup {None}
    BY <1>0, <1>6, Peers DEF Notify, CallOK, IInv, TypeOK
  <2>2. QED
    BY <1>1, <1>6, <2>1 DEF Notify, IInv, TypeOK
<1>7. CASE EnsureConnectionConversation(c)
  BY <1>1, <1>7 DEF EnsureConnectionConversation, IInv, TypeOK
<1>8. CASE Crash(c)
  BY <1>1, <1>8 DEF Crash, IInv, TypeOK
<1>9. QED
  BY <1>2, <1>3, <1>4, <1>5, <1>6, <1>7, <1>8 DEF LockPair

\* The steps that write.
LEMMA WritesPreserve ==
  ASSUME IInv, NEW c \in Calls,
         SubmitRequest(c) \/ AcceptPending(c) \/ FinishPending(c) \/ EndActiveConnection(c)
  PROVE  IInv'
<1>1. CASE SubmitRequest(c)
  <2>1. request' \in [Users -> RequestStatus \cup {"none"}] /\ edge' \in {"none", "active", "ended"}
    BY <1>1, SubmitMeets DEF IInv, TypeOK, RequestStatus
  <2>2. OneRelationship'
    BY <1>1, SubmitMeets, Peers DEF IInv, TypeOK, OneRelationship
  <2>3. QED
    BY <1>1, <2>1, <2>2, SubmitMeets, HolderCommits DEF SubmitRequest
<1>2. CASE AcceptPending(c)
  <2>1. request' \in [Users -> RequestStatus \cup {"none"}] /\ edge' \in {"none", "active", "ended"}
    BY <1>2, AcceptMeets DEF IInv, TypeOK, RequestStatus
  <2>2. OneRelationship'
    BY <1>2, AcceptMeets, Peers DEF IInv, TypeOK, OneRelationship
  <2>3. QED
    BY <1>2, <2>1, <2>2, AcceptMeets, HolderCommits DEF AcceptPending
<1>3. CASE FinishPending(c)
  <2>1. request' \in [Users -> RequestStatus \cup {"none"}] /\ edge' \in {"none", "active", "ended"}
    BY <1>3, FinishMeets DEF IInv, TypeOK, RequestStatus, TerminalStatus
  <2>2. OneRelationship'
    BY <1>3, FinishMeets DEF IInv, TypeOK, OneRelationship, TerminalStatus
  <2>3. QED
    BY <1>3, <2>1, <2>2, FinishMeets, HolderCommits DEF FinishPending
<1>4. CASE EndActiveConnection(c)
  <2>1. request' \in [Users -> RequestStatus \cup {"none"}] /\ edge' \in {"none", "active", "ended"}
    BY <1>4, EndMeets DEF IInv, TypeOK
  <2>2. OneRelationship'
    BY <1>4, EndMeets DEF IInv, OneRelationship
  <2>3. QED
    BY <1>4, <2>1, <2>2, EndMeets, HolderCommits DEF EndActiveConnection
<1>5. QED
  BY <1>1, <1>2, <1>3, <1>4

----
\* The invariant holds at the start ...
LEMMA InitInvariant == Init => IInv
  BY BegunType, ConnectionsAssumption
  DEF Init, IInv, TypeOK, CallsOK, CallOK, OneRelationship, Users

\* ... and every step keeps it.
LEMMA StepInvariant == IInv /\ [Next]_vars => IInv'
<1> SUFFICES ASSUME IInv, [Next]_vars PROVE IInv'
  OBVIOUS
<1>1. CASE Next
  BY <1>1, MovesPreserve, WritesPreserve DEF Next, CallStep
<1>2. CASE UNCHANGED vars
  BY <1>2
  DEF vars, rows, IInv, TypeOK, CallsOK, CallOK, OneRelationship, Plan
<1>3. QED
  BY <1>1, <1>2

\* The inductive invariant holds in every reachable state.
LEMMA Invariant == Spec => []IInv
  BY InitInvariant, StepInvariant, PTL DEF Spec

\* Every variable keeps its type.
THEOREM TypeCorrect == Spec => []TypeOK
<1>1. IInv => TypeOK
  BY DEF IInv
<1>2. QED
  BY <1>1, Invariant, PTL

\* Requests never cross and never wait beside a connection, however many calls of the two
\* users overlap (lockPair, planCreateRequest, planAccept).
THEOREM NoCrossedRequests == Spec => []OneRelationship
<1>1. IInv => OneRelationship
  BY DEF IInv
<1>2. QED
  BY <1>1, Invariant, PTL

\* An accept notifies only if it made the connection (planAccept, acceptRequest).
THEOREM NotifiedOnce == Spec => ActivationIsNotifiedOnce
<1> DEFINE A == \A c \in Calls :
                  call'[c].op = "accept" /\ call'[c].step = "notify" /\ call[c].step # "notify" =>
                    edge # "active" /\ edge' = "active"
<1>1. IInv /\ [Next]_vars => [A]_vars
  <2> SUFFICES ASSUME IInv, Next, NEW c \in Calls,
                      call'[c].op = "accept", call'[c].step = "notify", call[c].step # "notify"
               PROVE  edge # "active" /\ edge' = "active"
    OBVIOUS
  <2>1. PICK d \in Calls :
          \/ \E u \in Users :
               OpenConnectionConversation(d, u) \/ \E op \in Ops : Begin(d, op, u)
          \/ LockPair(d)
          \/ CallStep(d)
          \/ Crash(d)
    BY DEF Next
  <2>2. \A k : call' = [call EXCEPT ![d] = k] => d = c /\ call'[c] = k
    BY DEF IInv, TypeOK
  <2>3. CASE AcceptPending(d)
    BY <2>3, AcceptMeets
  <2>4. ~SubmitRequest(d)
    <3>1. SUFFICES ASSUME SubmitRequest(d) PROVE FALSE
      OBVIOUS
    <3>2. call' = [call EXCEPT ![d] = [call[d] EXCEPT !.step = "notify"]]
      BY <3>1, SubmitMeets DEF Commit, Goto
    <3>3. call'[c].op = call[d].op
      BY <2>2, <3>2 DEF IInv, TypeOK, CallType
    <3>4. QED
      BY <3>1, <3>3 DEF SubmitRequest
  <2>5. ~Finish(d)
    BY <2>2, BegunType DEF Finish
  <2>6. ~FinishPending(d) /\ ~EndActiveConnection(d)
    BY <2>5, FinishMeets, EndMeets DEF Commit
  <2>7. ~(\E u \in Users :
            OpenConnectionConversation(d, u) \/ \E op \in Ops : Begin(d, op, u))
    BY <2>2, BegunType DEF OpenConnectionConversation, Begin
  <2>8. ~LockPair(d)
    BY <2>2 DEF LockPair, Goto, IInv, TypeOK, CallType
  <2>9. ~ReadAndPlan(d)
    BY <2>2, <2>5 DEF ReadAndPlan, Stops, Notifies, IInv, TypeOK, CallType
  <2>10. QED
    BY <2>1, <2>3, <2>4, <2>5, <2>6, <2>7, <2>8, <2>9
    DEF CallStep, Notify, EnsureConnectionConversation, Crash
<1>2. QED
  BY <1>1, Invariant, PTL DEF Spec, ActivationIsNotifiedOnce

----
\* Both users' views, moved together: the module implements Relationship.
THEOREM ConnectionsImplementRelationship == Spec => RelationshipSpec
<1> DEFINE View == [u \in Users |-> relationshipBetween(u)]
<1>1. Init => R!Init
  BY Peers DEF Init, R!Init, R!Both, R!Users, Users, relationshipBetween
<1>2. IInv /\ [Next]_vars => [R!Next]_View
  <2> SUFFICES ASSUME IInv, [Next]_vars PROVE R!Next \/ View' = View
    BY DEF View
  <2>0. R!Users = Users
    BY DEF R!Users, Users
  <2>1. ASSUME UNCHANGED rows PROVE View' = View
    BY <2>1 DEF rows, relationshipBetween
  <2>2. ASSUME NEW c \in Calls, SubmitRequest(c) PROVE R!Next
    <3> DEFINE u == call[c].actor
    <3>1. u \in Users /\ View = R!Both("none")
      BY <2>0, <2>2, SubmitMeets, Peers DEF R!Both, relationshipBetween
    <3>2. View' = R!AskedBy(u)
      BY <2>0, <2>2, SubmitMeets, Peers DEF R!AskedBy, relationshipBetween, IInv, TypeOK
    <3>3. QED
      BY <2>0, <3>1, <3>2 DEF R!Next, R!Ask
  <2>3. ASSUME NEW c \in Calls, AcceptPending(c) PROVE R!Next
    <3> DEFINE u == Peer(call[c].actor)
    <3>1. u \in Users /\ View = R!AskedBy(u)
      BY <2>0, <2>3, AcceptMeets, Peers DEF R!AskedBy, relationshipBetween
    <3>2. View' = R!Both("connected")
      BY <2>0, <2>3, AcceptMeets DEF R!Both, relationshipBetween
    <3>3. QED
      BY <2>0, <3>1, <3>2 DEF R!Next, R!Accept
  <2>4. ASSUME NEW c \in Calls, FinishPending(c) PROVE R!Next
    <3> DEFINE u == Sender(call[c].op, call[c].actor)
    <3>1. u \in Users /\ View = R!AskedBy(u)
      BY <2>0, <2>4, FinishMeets, Peers DEF R!AskedBy, relationshipBetween
    <3>2. View' = R!Both("none")
      BY <2>0, <2>4, FinishMeets, Peers
      DEF R!Both, relationshipBetween, TerminalStatus, IInv, TypeOK
    <3>3. QED
      BY <2>0, <3>1, <3>2 DEF R!Next, R!Withdraw
  <2>5. ASSUME NEW c \in Calls, EndActiveConnection(c) PROVE R!Next
    <3>1. View = R!Both("connected")
      BY <2>0, <2>5, EndMeets DEF R!Both, relationshipBetween
    <3>2. View' = R!Both("none")
      BY <2>0, <2>5, EndMeets, Peers DEF R!Both, relationshipBetween
    <3>3. QED
      BY <2>0, <3>1, <3>2 DEF R!Next, R!End
  <2>6. QED
    BY <2>1, <2>2, <2>3, <2>4, <2>5
    DEF Next, CallStep, Begin, LockPair, ReadAndPlan, Notify, OpenConnectionConversation,
        EnsureConnectionConversation, Crash, vars
<1>3. QED
  BY <1>1, <1>2, Invariant, PTL DEF Spec, RelationshipSpec, R!Spec, View
====
