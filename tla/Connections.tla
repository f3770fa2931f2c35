---- MODULE Connections ----
(***************************************************************************)
(* Connecting two users: connections.service.ts over                       *)
(* prisma-connections.repository.ts and the plans of                       *)
(* connection-lifecycle.ts.                                                *)
(*                                                                         *)
(* One pair of users stands for all: a pair shares no row and no lock with *)
(* another.  Each operation is a transaction that takes the pair's         *)
(* advisory lock, reads, decides and writes; calls overlap between these   *)
(* statements, and a call may be lost at any of them (a crash, or the      *)
(* transaction's time limit), which rolls back and releases the lock.      *)
(*                                                                         *)
(* Where two definitions stand together, the first is a slip the second    *)
(* could contain.                                                          *)
(***************************************************************************)

CONSTANTS
  Low, High,  \* the two users
  Calls,      \* slots for the API calls in flight
  None

ASSUME ConnectionsAssumption == Low # High /\ None \notin Calls

Users == {Low, High}
Peer(u) == IF u = Low THEN High ELSE Low

VARIABLES
  request,  \* status of the request each user sent to the other, "none" before there is one
  edge,     \* the connection: "none" before the first, then "active" or "ended"
  lock,     \* the call that holds the pair's advisory lock
  chat,     \* whether the connection has a conversation
  told,     \* the latest notification inserted: its type and recipient
  call      \* the calls in flight

rows == <<request, edge>>
vars == <<rows, lock, chat, told, call>>

RequestStatus == {"pending", "accepted", "rejected", "cancelled"}
Ops == {"submit", "accept", "reject", "cancel", "end"}

----
\* connection-lifecycle.ts

planCreateRequest(active, reversePending, same) ==
  IF active \/ reversePending \/ same = "pending" THEN "conflict"
  ELSE IF same = "none" THEN "create" ELSE "reopen"

planAccept(req, connection) ==
  IF req = "accepted" /\ connection = "active" THEN "idempotent"
  ELSE IF req # "pending" THEN "conflict"
  ELSE IF connection = "active" THEN "use_existing"
  ELSE IF connection = "ended" THEN "reactivate" ELSE "create"

planTerminal(req) == IF req = "pending" THEN "ok" ELSE "conflict"

\* endActiveConnection looks for an active connection only.
planEnd(connection) == IF connection = "active" THEN "ok" ELSE "conflict"

\* relationshipBetween, as u sees it.
relationshipBetween(u) ==
  IF edge = "active" THEN "connected"
  ELSE IF request[u] = "pending" THEN "outgoing"
  ELSE IF request[Peer(u)] = "pending" THEN "incoming"
  ELSE "none"

\* The request an operation of u is about: cancelling and asking, the one u sent;
\* accepting and rejecting, the one u received.
Sender(op, u) == IF op \in {"accept", "reject"} THEN Peer(u) ELSE u

Plan(op, u) ==
  LET req == request[Sender(op, u)] IN
  CASE op = "submit" ->
         planCreateRequest(edge = "active", request[Peer(u)] = "pending", req)
    [] op = "accept" -> planAccept(req, edge)
    [] op \in {"reject", "cancel"} -> planTerminal(req)
    [] OTHER -> planEnd(edge)

----
CallBy(op, u) == [op |-> op, actor |-> u, step |-> "lock", plan |-> "none"]
Idle == [op |-> "none", actor |-> None, step |-> "idle", plan |-> "none"]

Goto(c, step) == call' = [call EXCEPT ![c].step = step]
Finish(c) == call' = [call EXCEPT ![c] = Idle]

Init ==
  /\ request = [u \in Users |-> "none"]
  /\ edge = "none"
  /\ lock = None
  /\ chat = FALSE
  /\ told = None
  /\ call = [c \in Calls |-> Idle]

\* A user asks, answers, withdraws or ends.  The request answered or withdrawn is looked
\* up first; requests are never deleted.
Begin(c, op, u) ==
  /\ call[c] = Idle
  /\ op \in {"accept", "reject", "cancel"} => request[Sender(op, u)] # "none"
  /\ call' = [call EXCEPT ![c] = CallBy(op, u)]
  /\ UNCHANGED <<rows, lock, chat, told>>

\* lockPair: pg_advisory_xact_lock.
LockFreeAlways(c) == TRUE
LockFree(c) == lock = None
LockPair(c) ==
  /\ call[c].step = "lock"
  /\ LockFree(c)
  /\ lock' = c
  /\ Goto(c, "read")
  /\ UNCHANGED <<rows, chat, told>>

\* A plan that writes nothing ends the transaction, and the lock with it.
Stops(plan) == plan \in {"conflict", "idempotent"}
LockAfterPlanKept(c, plan) == c
LockAfterPlan(c, plan) == IF Stops(plan) THEN None ELSE c

\* Who notifies after an accept: the call that made the connection active.
NotifiesAnyAccept(plan) == plan # "conflict"
Notifies(plan) == plan \in {"create", "reactivate"}

\* The reads of the transaction and the plan made of them.
ReadAndPlan(c) ==
  LET k == call[c]  plan == Plan(k.op, k.actor) IN
  /\ k.step = "read"
  /\ lock' = LockAfterPlan(c, plan)
  /\ IF ~Stops(plan)
     THEN call' = [call EXCEPT ![c].step = "write", ![c].plan = plan]
     ELSE IF k.op = "accept" /\ Notifies(plan) THEN Goto(c, "notify") ELSE Finish(c)
  /\ UNCHANGED <<rows, chat, told>>

----
\* The writes, which become visible with the commit that releases the lock.  An insert
\* that meets an existing row, and an update that finds its request no longer pending,
\* write nothing and answer with a conflict.

Commit(c, next) ==
  /\ lock' = None
  /\ IF next = "idle" THEN Finish(c) ELSE Goto(c, next)
  /\ UNCHANGED <<chat, told>>

\* submitRequest: a new request, or the old one pending again.
SubmitRequest(c) ==
  LET k == call[c]  u == k.actor IN
  /\ k.op = "submit" /\ k.step = "write"
  /\ \/ /\ k.plan = "reopen" \/ request[u] = "none"
        /\ request' = [request EXCEPT ![u] = "pending"]
        /\ Commit(c, "notify")
     \/ /\ k.plan = "create" /\ request[u] # "none"
        /\ UNCHANGED request
        /\ Commit(c, "idle")
  /\ UNCHANGED edge

\* acceptPending: the request, the reverse one if it waits too, and the connection.
AcceptPending(c) ==
  LET k == call[c]  u == k.actor  from == Peer(u)
      fits == request[from] = "pending" /\ (k.plan = "create" => edge = "none") IN
  /\ k.op = "accept" /\ k.step = "write"
  /\ \/ /\ fits
        /\ request' = [x \in Users |->
                         IF x = from THEN "accepted"
                         ELSE IF request[x] = "pending" THEN "cancelled" ELSE request[x]]
        /\ edge' = IF k.plan = "use_existing" THEN edge ELSE "active"
        /\ Commit(c, IF Notifies(k.plan) THEN "notify" ELSE "idle")
     \/ /\ ~fits
        /\ UNCHANGED rows
        /\ Commit(c, "idle")

\* rejectPending, cancelPending.
TerminalStatusOfOp(op) == op
TerminalStatus(op) == IF op = "reject" THEN "rejected" ELSE "cancelled"
FinishPending(c) ==
  LET k == call[c]  from == Sender(k.op, k.actor) IN
  /\ k.op \in {"reject", "cancel"} /\ k.step = "write"
  /\ request' = IF request[from] = "pending"
                THEN [request EXCEPT ![from] = TerminalStatus(k.op)] ELSE request
  /\ Commit(c, "idle")
  /\ UNCHANGED edge

\* endActiveConnection, by id; the requests stay as they are.
EndActiveConnection(c) ==
  /\ call[c].op = "end" /\ call[c].step = "write"
  /\ edge' = "ended"
  /\ Commit(c, "idle")
  /\ UNCHANGED request

\* notify: after the commit; a failure is logged and forgotten.
Notify(c) ==
  LET k == call[c]
      type == IF k.op = "submit" THEN "connection_request" ELSE "connection_accepted" IN
  /\ k.step = "notify"
  /\ told' \in {told, [type |-> type, to |-> Peer(k.actor)]}
  /\ Finish(c)
  /\ UNCHANGED <<rows, lock, chat>>

----
\* openConnectionConversation finds an active connection ...
OpenConnectionConversation(c, u) ==
  /\ call[c] = Idle
  /\ edge = "active"
  /\ call' = [call EXCEPT ![c] = [op |-> "open", actor |-> u, step |-> "chat", plan |-> "none"]]
  /\ UNCHANGED <<rows, lock, chat, told>>

\* ... and ensures its conversation, by then perhaps of an ended connection.
EnsureConnectionConversation(c) ==
  /\ call[c].step = "chat"
  /\ chat' = TRUE
  /\ Finish(c)
  /\ UNCHANGED <<rows, lock, told>>

\* A lost call: its transaction rolls back.
Crash(c) ==
  /\ call[c] # Idle
  /\ lock' = IF lock = c THEN None ELSE lock
  /\ Finish(c)
  /\ UNCHANGED <<rows, chat, told>>

----
CallStep(c) ==
  \/ ReadAndPlan(c)
  \/ SubmitRequest(c)
  \/ AcceptPending(c)
  \/ FinishPending(c)
  \/ EndActiveConnection(c)
  \/ Notify(c)
  \/ EnsureConnectionConversation(c)

Next ==
  \E c \in Calls :
    \/ \E u \in Users :
         OpenConnectionConversation(c, u) \/ \E op \in Ops : Begin(c, op, u)
    \/ LockPair(c)
    \/ CallStep(c)
    \/ Crash(c)

\* Calls go on, and the database serves the waiters of a lock in turn.
Fairness == \A c \in Calls : WF_vars(CallStep(c)) /\ SF_vars(LockPair(c))

Spec == Init /\ [][Next]_vars /\ Fairness

----
Plans == {"none", "conflict", "idempotent", "create", "reopen", "use_existing", "reactivate", "ok"}

CallType ==
  [op : Ops \cup {"open", "none"}, actor : Users \cup {None},
   step : {"idle", "lock", "read", "write", "notify", "chat"}, plan : Plans]

\* Every variable holds values of its column's type.
TypeOK ==
  /\ request \in [Users -> RequestStatus \cup {"none"}]
  /\ edge \in {"none", "active", "ended"}
  /\ lock \in Calls \cup {None}
  /\ chat \in BOOLEAN
  /\ told \in [type : {"connection_request", "connection_accepted"}, to : Users] \cup {None}
  /\ call \in [Calls -> CallType]

\* However requests cross, at most one of the two is pending, none while the users are
\* connected, and a connection stands on an accepted request (planCreateRequest,
\* planAccept under lockPair).
OneRelationship ==
  /\ ~ \A u \in Users : request[u] = "pending"
  /\ edge = "active" =>
       /\ \A u \in Users : request[u] # "pending"
       /\ \E u \in Users : request[u] = "accepted"

\* Both users always see one relationship, which moves as Relationship says.
R == INSTANCE Relationship WITH view <- [u \in Users |-> relationshipBetween(u)]
RelationshipSpec == R!Spec

\* Only the call that makes the connection active tells the sender of it: a second tap on
\* accept, or two taps at once, notify no more than the first (planAccept, acceptRequest).
ActivationIsNotifiedOnce ==
  [][\A c \in Calls :
       call'[c].op = "accept" /\ call'[c].step = "notify" /\ call[c].step # "notify" =>
         edge # "active" /\ edge' = "active"]_vars

\* No call waits for ever: whichever way a transaction ends, it gives the lock back.
EveryCallIsAnswered ==
  \A c \in Calls : call[c] # Idle ~> call[c] = Idle
====
