---- MODULE Payments ----
(***************************************************************************)
(* Paying for an engagement: payments.service.ts over                      *)
(* prisma-payment.repository.ts, the settlement that starts the work       *)
(* (settleEngagementAfterSuccessfulPayment) and the opening of the work    *)
(* chat (onEngagementBecameInProgress).                                    *)
(*                                                                         *)
(* One idempotency key is one payment row.  As in WorkRequests, a call     *)
(* first reads and then performs one database or provider call per step;   *)
(* calls overlap, and a crash loses the rest of a call.                    *)
(*                                                                         *)
(* As there, a definition followed by its correct form is a slip that some *)
(* property excludes (SettlementFreeAlways and SettlementFree).            *)
(***************************************************************************)
EXTENDS MarketStates, Naturals

CONSTANTS
  Engagements,  \* engagements accepted and waiting for payment
  Keys,         \* idempotency keys
  Parties,      \* the client and the provider of each engagement
  Calls,        \* slots for the API calls in flight
  MaxCrashes,   \* how many calls may be lost half-way
  None

ASSUME PaymentsAssumption ==
  /\ None \notin Engagements
  /\ MaxCrashes \in Nat

VARIABLES
  engStatus,      \* status of each engagement
  status,         \* status of the payment made with each key, "none" before it exists
  payEng,         \* engagement_id of that payment
  settlementKey,  \* settlement_key, unique over all payments
  chat,           \* engagements with a work conversation
  announced,      \* engagements whose conversation has the Work started line
  notices,        \* work_chat_started notifications of each party
  call,           \* the calls in flight
  crashes

payVars == <<status, payEng, settlementKey>>
chatVars == <<chat, announced, notices>>
vars == <<engStatus, payVars, chatVars, call, crashes>>

PaymentStatus == {"pending", "processing", "succeeded", "failed"}
InFlight == {"pending", "processing"}
Started == {"in_progress", "delivered", "disputed", "completed"}

----
\* A call: the step it is at, its key and engagement, the parties it has still to look
\* at and the one it is about to notify.
CallOnSwapped(step, k, e) == [step |-> step, key |-> e, eng |-> k, left |-> {}, to |-> None]
CallOn(step, k, e) == [step |-> step, key |-> k, eng |-> e, left |-> {}, to |-> None]
Idle == CallOn("idle", None, None)

Begin(c, k) == call[c] = Idle /\ call' = [call EXCEPT ![c] = k]
Goto(c, step) == call' = [call EXCEPT ![c].step = step]
Finish(c) == call' = [call EXCEPT ![c] = Idle]

Paid(e) == \E k \in Keys : status[k] = "succeeded" /\ payEng[k] = e

Init ==
  /\ engStatus = [e \in Engagements |-> "pending_payment"]
  /\ status = [k \in Keys |-> "none"]
  /\ payEng = [k \in Keys |-> None]
  /\ settlementKey = [k \in Keys |-> None]
  /\ chat = {}
  /\ announced = {}
  /\ notices = [e \in Engagements |-> [p \in Parties |-> 0]]
  /\ call = [c \in Calls |-> Idle]
  /\ crashes = 0

----
\* createPayment with a key not seen before, by the client: the engagement awaits
\* payment and has none that succeeded.
CreatePayment(c, k, e) ==
  /\ status[k] = "none"
  /\ engStatus[e] = "pending_payment"
  /\ ~Paid(e)
  /\ Begin(c, CallOn("create", k, e))
  /\ UNCHANGED <<engStatus, payVars, chatVars, crashes>>

\* createPayment with a key already used, for the same engagement: a replay.
Replay(c, k, e) ==
  /\ status[k] # "none"
  /\ payEng[k] = e
  /\ Begin(c, CallOn("replay", k, e))
  /\ UNCHANGED <<engStatus, payVars, chatVars, crashes>>

\* Where the loser of a race on one key goes.
AfterLostKeyProvider(k, e) == "provider"
AfterLostKey(k, e) == IF payEng[k] = e THEN "replay" ELSE "idle"

\* The insert; the key is unique.
Create(c) ==
  LET k == call[c].key  e == call[c].eng IN
  /\ call[c].step = "create"
  /\ IF status[k] = "none"
     THEN /\ status' = [status EXCEPT ![k] = "pending"]
          /\ payEng' = [payEng EXCEPT ![k] = e]
          /\ Goto(c, "provider")
     ELSE /\ UNCHANGED <<status, payEng>>
          /\ IF AfterLostKey(k, e) = "idle" THEN Finish(c) ELSE Goto(c, AfterLostKey(k, e))
  /\ UNCHANGED <<engStatus, settlementKey, chatVars, crashes>>

\* provider.createPayment and markProcessing; an error ends in markFailed.
MarkProcessing(c) ==
  /\ call[c].step = "provider"
  /\ \/ /\ status' = [status EXCEPT ![call[c].key] = "processing"]
        /\ Goto(c, "confirm")
     \/ /\ UNCHANGED status
        /\ Goto(c, "fail")
  /\ UNCHANGED <<engStatus, payEng, settlementKey, chatVars, crashes>>

\* provider.confirmPayment: charged, or declined or an error.
ConfirmPayment(c) ==
  /\ call[c].step = "confirm"
  /\ Goto(c, "succeed") \/ Goto(c, "fail")
  /\ UNCHANGED <<engStatus, payVars, chatVars, crashes>>

\* markFailed, by id.
MarkFailed(c) ==
  /\ call[c].step = "fail"
  /\ status' = [status EXCEPT ![call[c].key] = "failed"]
  /\ Finish(c)
  /\ UNCHANGED <<engStatus, payEng, settlementKey, chatVars, crashes>>

\* The unique settlement key admits this payment.
SettlementFreeAlways(k, e) == TRUE
SettlementFree(k, e) == \A j \in Keys \ {k} : settlementKey[j] # e

\* markSucceeded; a second payment of the engagement loses and is marked failed.
MarkSucceeded(c) ==
  LET k == call[c].key  e == call[c].eng IN
  /\ call[c].step = "succeed"
  /\ IF SettlementFree(k, e)
     THEN /\ status' = [status EXCEPT ![k] = "succeeded"]
          /\ settlementKey' = [settlementKey EXCEPT ![k] = e]
          /\ Goto(c, "settle")
     ELSE /\ UNCHANGED <<status, settlementKey>>
          /\ Goto(c, "fail")
  /\ UNCHANGED <<engStatus, payEng, chatVars, crashes>>

\* What a replay does with the payment it reads: settle again if work never started.
AfterReplayPending(k, e) ==
  IF status[k] # "failed" /\ engStatus[e] = "pending_payment" THEN "settle" ELSE "idle"
AfterReplayNothing(k, e) == "idle"
AfterReplay(k, e) ==
  IF status[k] = "succeeded" /\ engStatus[e] = "pending_payment" THEN "settle" ELSE "idle"

\* replay, at the poll that finds the payment decided or at the end of its budget.
FinishReplay(c) ==
  LET k == call[c].key  e == call[c].eng IN
  /\ call[c].step = "replay"
  /\ IF AfterReplay(k, e) = "idle" THEN Finish(c) ELSE Goto(c, AfterReplay(k, e))
  /\ UNCHANGED <<engStatus, payVars, chatVars, crashes>>

----
\* Starting the work.

\* settleEngagementAfterSuccessfulPayment reads the engagement ...
SettleEngagement(c) ==
  LET e == call[c].eng IN
  /\ call[c].step = "settle"
  /\ \/ engStatus[e] = "in_progress" /\ Goto(c, "chat")
     \/ engStatus[e] = "pending_payment" /\ Goto(c, "transition")
     \/ engStatus[e] \notin {"in_progress", "pending_payment"} /\ Finish(c)
  /\ UNCHANGED <<engStatus, payVars, chatVars, crashes>>

\* ... and moves it by compare-and-set.  Losing to another settlement is success; the
\* chat is opened by whoever finds the work in progress.
StartEngagement(c) ==
  LET e == call[c].eng IN
  /\ call[c].step = "transition"
  /\ IF engStatus[e] = "pending_payment"
     THEN /\ engStatus' = [engStatus EXCEPT ![e] = "in_progress"]
          /\ Goto(c, "chat")
     ELSE /\ UNCHANGED engStatus
          /\ IF engStatus[e] = "in_progress" THEN Goto(c, "chat") ELSE Finish(c)
  /\ UNCHANGED <<payVars, chatVars, crashes>>

\* createConversationOnce: the engagement id is unique, the loser reads the winner's row.
CreateConversation(c) ==
  /\ call[c].step = "chat"
  /\ chat' = chat \cup {call[c].eng}
  /\ Goto(c, "announce")
  /\ UNCHANGED <<engStatus, payVars, announced, notices, crashes>>

\* ensureWorkStartedAnnouncement: the line has a fixed client id, unique per chat ...
AnnounceWorkStarted(c) ==
  /\ call[c].step = "announce"
  /\ announced' = announced \cup {call[c].eng}
  /\ call' = [call EXCEPT ![c].step = "check", ![c].left = Parties]
  /\ UNCHANGED <<engStatus, payVars, chat, notices, crashes>>

\* hasWorkChatStarted: this party was notified of this engagement.
NoticedByAnyone(e, p) == \E q \in Parties : notices[e][q] > 0
Noticed(e, p) == notices[e][p] > 0

\* ... but each party is looked up before it is notified, and nothing there is unique.
HasWorkChatStarted(c) ==
  /\ call[c].step = "check"
  /\ IF call[c].left = {}
     THEN Finish(c)
     ELSE \E p \in call[c].left :
            IF Noticed(call[c].eng, p)
            THEN call' = [call EXCEPT ![c].left = @ \ {p}]
            ELSE call' = [call EXCEPT ![c].step = "notify", ![c].left = @ \ {p}, ![c].to = p]
  /\ UNCHANGED <<engStatus, payVars, chatVars, crashes>>

CreateNotification(c) ==
  LET e == call[c].eng  p == call[c].to IN
  /\ call[c].step = "notify"
  /\ notices' = [notices EXCEPT ![e][p] = @ + 1]
  /\ Goto(c, "check")
  /\ UNCHANGED <<engStatus, payVars, chat, announced, crashes>>

----
\* What the parties do meanwhile.

\* withdrawPendingPaymentTransactional, from WorkRequests: compare-and-set on the status.
WithdrawPendingPayment(e) ==
  /\ engStatus[e] = "pending_payment"
  /\ engStatus' = [engStatus EXCEPT ![e] = "cancelled"]
  /\ UNCHANGED <<payVars, chatVars, call, crashes>>

\* transitionEngagement; a revision goes back to in_progress and opens the chat again.
TransitionEngagement(e, to) ==
  /\ to \in PartyEngagementTransitions(engStatus[e])
  /\ engStatus' = [engStatus EXCEPT ![e] = to]
  /\ IF to = "in_progress"
     THEN \E c \in Calls : Begin(c, CallOn("chat", None, e))
     ELSE UNCHANGED call
  /\ UNCHANGED <<payVars, chatVars, crashes>>

\* The process stops, or loses the database, before the next step of a call.
Crash(c) ==
  /\ crashes < MaxCrashes
  /\ call[c] # Idle
  /\ crashes' = crashes + 1
  /\ Finish(c)
  /\ UNCHANGED <<engStatus, payVars, chatVars>>

----
CallStep(c) ==
  \/ Create(c)
  \/ MarkProcessing(c)
  \/ ConfirmPayment(c)
  \/ MarkFailed(c)
  \/ MarkSucceeded(c)
  \/ FinishReplay(c)
  \/ SettleEngagement(c)
  \/ StartEngagement(c)
  \/ CreateConversation(c)
  \/ AnnounceWorkStarted(c)
  \/ HasWorkChatStarted(c)
  \/ CreateNotification(c)

Next ==
  \/ \E c \in Calls : CallStep(c) \/ Crash(c)
  \/ \E c \in Calls, k \in Keys, e \in Engagements : CreatePayment(c, k, e) \/ Replay(c, k, e)
  \/ \E e \in Engagements :
       WithdrawPendingPayment(e) \/ \E to \in EngagementStatus : TransitionEngagement(e, to)

\* A call that is not lost goes on, and a client that got no final answer keeps sending
\* the same key ("the client keeps the same idempotency key and refetches").
Fairness ==
  /\ \A c \in Calls : WF_vars(CallStep(c))
  /\ \A k \in Keys : SF_vars(\E c \in Calls, e \in Engagements : Replay(c, k, e))

Spec == Init /\ [][Next]_vars /\ Fairness

----
Steps == {"idle", "create", "provider", "confirm", "fail", "succeed", "replay", "settle",
          "transition", "chat", "announce", "check", "notify"}

CallType ==
  [step : Steps, key : Keys \cup {None}, eng : Engagements \cup {None},
   left : SUBSET Parties, to : Parties \cup {None}]

\* Every variable holds values of its column's type.
TypeOK ==
  /\ engStatus \in [Engagements -> EngagementStatus]
  /\ status \in [Keys -> PaymentStatus \cup {"none"}]
  /\ payEng \in [Keys -> Engagements \cup {None}]
  /\ settlementKey \in [Keys -> Engagements \cup {None}]
  /\ chat \subseteq Engagements
  /\ announced \subseteq chat
  /\ notices \in [Engagements -> [Parties -> Nat]]
  /\ call \in [Calls -> CallType]
  /\ crashes \in 0..MaxCrashes

\* At most one payment of an engagement ever succeeds, however many keys are tried at
\* once, and the one that succeeded holds the settlement key (markSucceeded).
OneSettlement ==
  /\ \A j, k \in Keys :
       status[j] = "succeeded" /\ status[k] = "succeeded" /\ payEng[j] = payEng[k] => j = k
  /\ \A k \in Keys : status[k] = "succeeded" => settlementKey[k] = payEng[k]

\* No work starts unless a payment of that engagement succeeded: neither a replay of an
\* undecided payment nor a lost race starts it (settleEngagement).
WorkIsPaid ==
  \A e \in Engagements : engStatus[e] \in Started => Paid(e)

\* A decided payment stays decided: no replay, and no loser of a race on its key, drives
\* the provider for it a second time (createPayment, replay).
DecidedStays ==
  [][\A k \in Keys : status[k] \in {"succeeded", "failed"} => status'[k] = status[k]]_vars

\* Money taken is not forgotten: after a payment succeeded, the work starts or the
\* request had been cancelled, even when the call that took the money is lost, because a
\* retry with the same key settles again (replay).
PaidWorkStarts ==
  \A k \in Keys, e \in Engagements :
    (status[k] = "succeeded" /\ payEng[k] = e) ~> engStatus[e] # "pending_payment"

\* Where no call is lost, work that starts is announced in its chat and to both parties.
StartedWorkIsAnnounced ==
  \A e \in Engagements :
    engStatus[e] \in Started ~>
      \/ e \in announced /\ \A p \in Parties : notices[e][p] > 0
      \/ crashes > 0

\* A client retry with the same key finishes what a lost call left half done, the work
\* chat included.
ReplayOpensChat ==
  \A e \in Engagements : engStatus[e] \in Started ~> e \in chat
====
