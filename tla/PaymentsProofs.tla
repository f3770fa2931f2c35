---- MODULE PaymentsProofs ----
(***************************************************************************)
(* Proofs about Payments: at most one payment settles an engagement, work  *)
(* starts only when paid, and a decided payment stays decided, for any     *)
(* number of keys, engagements, overlapping calls and crashes.             *)
(*                                                                         *)
(* The key to all three is that a payment in flight has one owner: the     *)
(* call that inserted its row.  Replays and losers of a race on the key    *)
(* never become owners.                                                    *)
(***************************************************************************)
EXTENDS Payments, TLAPS

OwnerSteps == {"provider", "confirm", "succeed", "fail"}
KeySteps == OwnerSteps \cup {"create", "replay", "settle", "transition"}

\* What a call in flight knows about its payment and chat, in terms of the columns.
CallOK(k, stat, engOf, chats) ==
  /\ k.step # "idle" => k.eng \in Engagements
  /\ k.step \in KeySteps => k.key \in Keys
  /\ k.step \in {"announce", "check", "notify"} => k.eng \in chats
  /\ k.step = "notify" => k.to \in Parties
  /\ k.step \in OwnerSteps => stat[k.key] \in InFlight /\ engOf[k.key] = k.eng
  /\ k.step \in {"settle", "transition"} =>
       stat[k.key] = "succeeded" /\ engOf[k.key] = k.eng
  /\ k.step = "replay" => stat[k.key] # "none" /\ engOf[k.key] = k.eng

CallsOK == \A c \in Calls : CallOK(call[c], status, payEng, chat)

OneOwner ==
  \A c, d \in Calls :
    /\ call[c].step \in OwnerSteps
    /\ call[d].step \in OwnerSteps
    /\ call[c].key = call[d].key
    => c = d

\* The settlement key is set by success and never cleared.
SettlementKeys ==
  \A k \in Keys : settlementKey[k] = IF status[k] = "succeeded" THEN payEng[k] ELSE None

PayingEngagements == \A k \in Keys : status[k] # "none" => payEng[k] \in Engagements

IInv ==
  /\ TypeOK
  /\ CallsOK
  /\ OneOwner
  /\ PayingEngagements
  /\ SettlementKeys
  /\ OneSettlement
  /\ WorkIsPaid

----
\* Calls that only move: they keep their key and engagement.

\* A call at another step with the same key, engagement and list is well typed.
LEMMA MovedType ==
  ASSUME TypeOK, NEW c \in Calls, NEW step \in Steps
  PROVE  [call[c] EXCEPT !.step = step] \in CallType
<1>1. call[c] \in CallType
  BY DEF TypeOK
<1>2. QED
  BY <1>1 DEF CallType

\* An empty slot, or a call just begun, is well typed.
LEMMA CallOnType ==
  ASSUME NEW step \in Steps, NEW k \in Keys \cup {None}, NEW e \in Engagements \cup {None}
  PROVE  CallOn(step, k, e) \in CallType
BY DEF CallOn, CallType

\* An idle slot is well typed.
LEMMA IdleType == Idle \in CallType /\ Idle.step = "idle"
BY CallOnType DEF Idle, CallOn, Steps

\* When payments, work and chats stay (or grow), one slot takes a call that is sound and
\* no owner of another key: everything is preserved.
LEMMA OneCallMoves ==
  ASSUME IInv, NEW c \in Calls, NEW k \in CallType,
         call' = [call EXCEPT ![c] = k],
         UNCHANGED <<status, payEng, settlementKey, engStatus>>, crashes' \in 0..MaxCrashes,
         chat \subseteq chat', chat' \subseteq Engagements, announced' \subseteq chat',
         notices' \in [Engagements -> [Parties -> Nat]],
         CallOK(k, status', payEng', chat'),
         k.step \in OwnerSteps => call[c].step \in OwnerSteps /\ call[c].key = k.key
  PROVE  IInv'
<1>1. TypeOK'
  BY DEF IInv, TypeOK
<1>2. CallsOK'
  <2>1. ASSUME NEW d \in Calls PROVE CallOK(call'[d], status', payEng', chat')
    <3>1. CASE d = c
      BY <3>1 DEF IInv, TypeOK
    <3>2. CASE d # c
      <4>1. call'[d] = call[d] /\ CallOK(call[d], status, payEng, chat)
        BY <3>2 DEF IInv, TypeOK, CallsOK
      <4>2. QED
        BY <4>1 DEF CallOK
    <3>3. QED
      BY <3>1, <3>2
  <2>2. QED
    BY <2>1 DEF CallsOK
<1>3. OneOwner'
  BY DEF IInv, TypeOK, OneOwner
<1>4. PayingEngagements' /\ SettlementKeys' /\ OneSettlement' /\ WorkIsPaid'
  BY DEF IInv, PayingEngagements, SettlementKeys, OneSettlement, WorkIsPaid, Paid
<1>5. QED
  BY <1>1, <1>2, <1>3, <1>4 DEF IInv

\* A call that ends.
LEMMA CallEnds ==
  ASSUME IInv, NEW c \in Calls, Finish(c), UNCHANGED <<engStatus, payVars, chatVars>>,
         crashes' \in 0..MaxCrashes
  PROVE  IInv'
<1>1. CallOK(Idle, status', payEng', chat')
  BY IdleType DEF CallOK, OwnerSteps, KeySteps
<1>2. QED
  BY <1>1, OneCallMoves, IdleType
  DEF Finish, IInv, TypeOK, payVars, chatVars, OwnerSteps

\* A call that goes to another step with the same values, when the step's facts hold.
LEMMA CallGoes ==
  ASSUME IInv, NEW c \in Calls, NEW step \in Steps, Goto(c, step),
         NEW k, k = [call[c] EXCEPT !.step = step], CallOK(k, status', payEng', chat'),
         UNCHANGED <<engStatus, payVars, crashes>>,
         chat \subseteq chat', chat' \subseteq Engagements, announced' \subseteq chat',
         notices' \in [Engagements -> [Parties -> Nat]],
         step \in OwnerSteps => call[c].step \in OwnerSteps
  PROVE  IInv'
<1>1. k \in CallType /\ k.step = step /\ k.key = call[c].key
  BY MovedType DEF IInv, TypeOK, CallType
<1>2. call' = [call EXCEPT ![c] = k]
  BY DEF Goto
<1>3. QED
  BY <1>1, <1>2, OneCallMoves DEF IInv, TypeOK, payVars

----
\* The steps that read, ask the provider or touch the chat only.
LEMMA MovesPreserve ==
  ASSUME IInv, NEW c \in Calls,
         \/ \E k \in Keys, e \in Engagements : CreatePayment(c, k, e) \/ Replay(c, k, e)
         \/ ConfirmPayment(c)
         \/ FinishReplay(c)
         \/ SettleEngagement(c)
         \/ CreateConversation(c)
         \/ AnnounceWorkStarted(c)
         \/ HasWorkChatStarted(c)
         \/ CreateNotification(c)
         \/ Crash(c)
  PROVE  IInv'
<1> DEFINE m == call[c]
           At(step) == [m EXCEPT !.step = step]
<1>0. /\ m \in CallType /\ CallOK(m, status, payEng, chat)
      /\ \A step \in Steps : At(step) \in CallType /\ At(step).step = step /\ At(step).key = m.key
                               /\ At(step).eng = m.eng /\ At(step).to = m.to
  BY MovedType DEF IInv, TypeOK, CallsOK, CallType
<1>1. ASSUME NEW k \in Keys, NEW e \in Engagements, NEW step \in {"create", "replay"},
             step = "replay" => status[k] # "none" /\ payEng[k] = e,
             Begin(c, CallOn(step, k, e)), UNCHANGED <<engStatus, payVars, chatVars, crashes>>
      PROVE  IInv'
  <2>1. CallOn(step, k, e) \in CallType
    BY CallOnType DEF Steps
  <2>2. CallOK(CallOn(step, k, e), status', payEng', chat')
    BY <1>1 DEF CallOn, CallOK, OwnerSteps, KeySteps, payVars, chatVars
  <2>3. CallOn(step, k, e).step \notin OwnerSteps
    BY DEF CallOn, OwnerSteps
  <2>4. QED
    BY <1>1, <2>1, <2>2, <2>3, OneCallMoves DEF Begin, IInv, TypeOK, payVars, chatVars
<1>2. CASE ConfirmPayment(c)
  <2>1. \A step \in {"succeed", "fail"} :
          step \in Steps /\ CallOK(At(step), status', payEng', chat')
    BY <1>0, <1>2 DEF ConfirmPayment, CallOK, OwnerSteps, KeySteps, Steps, payVars, chatVars
  <2>2. QED
    BY <1>2, <2>1, CallGoes
    DEF ConfirmPayment, OwnerSteps, IInv, TypeOK, payVars, chatVars
<1>3. CASE FinishReplay(c)
  <2>1. CASE Finish(c)
    BY <1>3, <2>1, CallEnds DEF FinishReplay, IInv, TypeOK
  <2>2. CASE Goto(c, "settle") /\ status[m.key] = "succeeded"
    <3>1. "settle" \in Steps /\ CallOK(At("settle"), status', payEng', chat')
      BY <1>0, <1>3, <2>2
      DEF FinishReplay, CallOK, OwnerSteps, KeySteps, Steps, payVars, chatVars
    <3>2. QED
      BY <1>3, <2>2, <3>1, CallGoes
      DEF FinishReplay, OwnerSteps, IInv, TypeOK, payVars, chatVars
  <2>3. QED
    BY <1>3, <2>1, <2>2 DEF FinishReplay, AfterReplay
<1>4. CASE SettleEngagement(c)
  <2>1. CASE Finish(c)
    BY <1>4, <2>1, CallEnds DEF SettleEngagement, IInv, TypeOK
  <2>2. \A step \in {"chat", "transition"} :
          step \in Steps /\ CallOK(At(step), status', payEng', chat')
    BY <1>0, <1>4 DEF SettleEngagement, CallOK, OwnerSteps, KeySteps, Steps, payVars, chatVars
  <2>3. QED
    BY <1>4, <2>1, <2>2, CallGoes
    DEF SettleEngagement, OwnerSteps, IInv, TypeOK, payVars, chatVars
<1>5. CASE CreateConversation(c)
  <2>1. "announce" \in Steps /\ CallOK(At("announce"), status', payEng', chat')
    BY <1>0, <1>5 DEF CreateConversation, CallOK, OwnerSteps, KeySteps, Steps, payVars
  <2>2. m.eng \in Engagements
    BY <1>0, <1>5 DEF CreateConversation, CallOK
  <2>3. QED
    BY <1>5, <2>1, <2>2, CallGoes DEF CreateConversation, OwnerSteps, IInv, TypeOK, payVars
<1>6. CASE AnnounceWorkStarted(c)
  <2> DEFINE k == [m EXCEPT !.step = "check", !.left = Parties]
  <2>1. m \in CallType /\ m.eng \in Engagements /\ m.eng \in chat /\ chat' = chat
    BY <1>0, <1>6 DEF AnnounceWorkStarted, CallOK
  <2>2. k \in CallType /\ k.step = "check" /\ k.eng = m.eng
    BY <2>1 DEF CallType, Steps
  <2>3. call' = [call EXCEPT ![c] = k]
    BY <1>6 DEF AnnounceWorkStarted
  <2> HIDE DEF k
  <2>4. CallOK(k, status', payEng', chat') /\ k.step \notin OwnerSteps
    BY <2>1, <2>2 DEF CallOK, OwnerSteps, KeySteps
  <2>5. QED
    BY <1>6, <2>1, <2>2, <2>3, <2>4, OneCallMoves DEF AnnounceWorkStarted, IInv, TypeOK, payVars
<1>7. CASE HasWorkChatStarted(c)
  <2>1. CASE Finish(c)
    BY <1>7, <2>1, CallEnds DEF HasWorkChatStarted, IInv, TypeOK
  <2>2. CASE ~Finish(c)
    <3>1. PICK p \in m.left :
            \/ call' = [call EXCEPT ![c] = [m EXCEPT !.left = m.left \ {p}]]
            \/ call' = [call EXCEPT ![c] = [m EXCEPT !.step = "notify", !.left = m.left \ {p},
                                                     !.to = p]]
      BY <1>7, <2>2 DEF HasWorkChatStarted
    <3>2. p \in Parties
      BY <1>0, <3>1 DEF CallType
    <3> DEFINE looked == [m EXCEPT !.left = m.left \ {p}]
               found == [m EXCEPT !.step = "notify", !.left = m.left \ {p}, !.to = p]
    <3>0. /\ m \in CallType /\ m.step = "check" /\ m.eng \in Engagements /\ m.eng \in chat
          /\ chat' = chat
      BY <1>0, <1>7 DEF HasWorkChatStarted, CallOK, chatVars
    <3>3. looked \in CallType /\ looked.step = "check" /\ looked.eng = m.eng
      BY <3>0 DEF CallType
    <3>4. found \in CallType /\ found.step = "notify" /\ found.eng = m.eng /\ found.to = p
      BY <3>0, <3>2 DEF CallType, Steps
    <3> HIDE DEF looked, found
    <3>5. CallOK(looked, status', payEng', chat') /\ looked.step \notin OwnerSteps
      BY <3>0, <3>3 DEF CallOK, OwnerSteps, KeySteps
    <3>6. CallOK(found, status', payEng', chat') /\ found.step \notin OwnerSteps
      BY <3>0, <3>2, <3>4 DEF CallOK, OwnerSteps, KeySteps
    <3>7. call' = [call EXCEPT ![c] = looked] \/ call' = [call EXCEPT ![c] = found]
      BY <3>1 DEF looked, found
    <3>8. QED
      BY <1>7, <3>3, <3>4, <3>5, <3>6, <3>7, OneCallMoves
      DEF HasWorkChatStarted, IInv, TypeOK, payVars, chatVars
  <2>3. QED
    BY <2>1, <2>2
<1>8. CASE CreateNotification(c)
  <2>1. "check" \in Steps /\ CallOK(At("check"), status', payEng', chat')
    BY <1>0, <1>8 DEF CreateNotification, CallOK, OwnerSteps, KeySteps, Steps, payVars
  <2>2. m.eng \in Engagements /\ m.to \in Parties
    BY <1>0, <1>8 DEF CreateNotification, CallOK
  <2>3. notices' \in [Engagements -> [Parties -> Nat]]
    BY <1>8, <2>2 DEF CreateNotification, IInv, TypeOK
  <2>4. QED
    BY <1>8, <2>1, <2>3, CallGoes DEF CreateNotification, OwnerSteps, IInv, TypeOK, payVars
<1>9. CASE Crash(c)
  BY <1>9, CallEnds, PaymentsAssumption DEF Crash, IInv, TypeOK
<1>10. QED
  BY <1>1, <1>2, <1>3, <1>4, <1>5, <1>6, <1>7, <1>8, <1>9 DEF CreatePayment, Replay

----
\* The owner of a payment writes its status.  No other call is concerned: other owners
\* own other payments, and a call that settles found its payment decided.
LEMMA OwnerWrites ==
  ASSUME IInv, NEW c \in Calls, call[c].step \in OwnerSteps, NEW s \in PaymentStatus,
         status' = [status EXCEPT ![call[c].key] = s],
         settlementKey' = IF s = "succeeded"
                          THEN [settlementKey EXCEPT ![call[c].key] = call[c].eng]
                          ELSE settlementKey,
         s = "succeeded" => SettlementFree(call[c].key, call[c].eng),
         UNCHANGED <<engStatus, payEng, chatVars, crashes>>,
         NEW k \in CallType, call' = [call EXCEPT ![c] = k],
         CallOK(k, status', payEng', chat'),
         k.step \in OwnerSteps => k.key = call[c].key
  PROVE  IInv'
<1> DEFINE q == call[c].key
<1>0. /\ q \in Keys
      /\ status[q] \in InFlight
      /\ payEng[q] = call[c].eng
      /\ call[c].eng \in Engagements
  BY DEF IInv, CallsOK, CallOK, OwnerSteps, KeySteps
<1>1. TypeOK'
  BY <1>0 DEF IInv, TypeOK, chatVars
<1>2. CallsOK'
  <2>1. ASSUME NEW d \in Calls PROVE CallOK(call'[d], status', payEng', chat')
    <3>1. CASE d = c
      BY <3>1 DEF IInv, TypeOK
    <3>2. CASE d # c
      <4>1. call'[d] = call[d] /\ CallOK(call[d], status, payEng, chat)
        BY <3>2 DEF IInv, TypeOK, CallsOK
      <4>2. call[d].step \in OwnerSteps => call[d].key # q
        BY <3>2 DEF IInv, OneOwner
      <4>3. QED
        BY <1>0, <4>1, <4>2
        DEF CallOK, IInv, TypeOK, chatVars, InFlight, OwnerSteps, KeySteps, PaymentStatus
    <3>3. QED
      BY <3>1, <3>2
  <2>2. QED
    BY <2>1 DEF CallsOK
<1>3. OneOwner'
  BY DEF IInv, TypeOK, OneOwner
<1>4. PayingEngagements'
  BY <1>0 DEF IInv, TypeOK, PayingEngagements, InFlight
<1>5. SettlementKeys'
  BY <1>0 DEF IInv, TypeOK, SettlementKeys, InFlight
<1>6. OneSettlement'
  BY <1>0, <1>5, PaymentsAssumption
  DEF IInv, TypeOK, OneSettlement, SettlementKeys, SettlementFree
<1>7. WorkIsPaid'
  <2>1. \A e \in Engagements : Paid(e) => Paid(e)'
    BY <1>0 DEF IInv, TypeOK, Paid, InFlight
  <2>2. QED
    BY <2>1 DEF IInv, WorkIsPaid
<1>8. QED
  BY <1>1, <1>2, <1>3, <1>4, <1>5, <1>6, <1>7 DEF IInv

\* The steps of the owner that write.
LEMMA OwnerPreserves ==
  ASSUME IInv, NEW c \in Calls, MarkProcessing(c) \/ MarkFailed(c) \/ MarkSucceeded(c)
  PROVE  IInv'
<1> DEFINE m == call[c]
           At(step) == [m EXCEPT !.step = step]
<1>0. /\ m \in CallType /\ CallOK(m, status, payEng, chat)
      /\ \A step \in Steps : At(step) \in CallType /\ At(step).step = step /\ At(step).key = m.key
                               /\ At(step).eng = m.eng /\ At(step).to = m.to
  BY MovedType DEF IInv, TypeOK, CallsOK, CallType
<1>1. CASE MarkProcessing(c)
  <2>1. m.step \in OwnerSteps /\ m.key \in Keys
    BY <1>0, <1>1 DEF MarkProcessing, OwnerSteps, CallOK, KeySteps
  <2>2. CASE Goto(c, "fail") /\ UNCHANGED status
    <3>1. "fail" \in Steps /\ CallOK(At("fail"), status', payEng', chat')
      BY <1>0, <1>1, <2>1, <2>2
      DEF MarkProcessing, CallOK, OwnerSteps, KeySteps, Steps, chatVars
    <3>2. QED
      BY <1>1, <2>1, <2>2, <3>1, CallGoes
      DEF MarkProcessing, OwnerSteps, IInv, TypeOK, payVars, chatVars
  <2>3. CASE Goto(c, "confirm") /\ status' = [status EXCEPT ![m.key] = "processing"]
    <3>1. "confirm" \in Steps /\ CallOK(At("confirm"), status', payEng', chat')
      BY <1>0, <1>1, <2>1, <2>3
      DEF MarkProcessing, CallOK, OwnerSteps, KeySteps, Steps, chatVars, IInv, TypeOK, InFlight
    <3>2. QED
      BY <1>0, <1>1, <2>1, <2>3, <3>1, OwnerWrites
      DEF MarkProcessing, Goto, PaymentStatus
  <2>4. QED
    BY <1>1, <2>2, <2>3 DEF MarkProcessing
<1>2. CASE MarkFailed(c)
  <2>1. m.step \in OwnerSteps
    BY <1>2 DEF MarkFailed, OwnerSteps
  <2>2. CallOK(Idle, status', payEng', chat') /\ Idle.step \notin OwnerSteps
    BY IdleType DEF CallOK, OwnerSteps, KeySteps
  <2>3. QED
    BY <1>2, <2>1, <2>2, IdleType, OwnerWrites DEF MarkFailed, Finish, PaymentStatus
<1>3. CASE MarkSucceeded(c)
  <2>1. m.step \in OwnerSteps /\ m.key \in Keys
    BY <1>0, <1>3 DEF MarkSucceeded, OwnerSteps, CallOK, KeySteps
  <2>2. CASE SettlementFree(m.key, m.eng)
    <3>1. "settle" \in Steps /\ CallOK(At("settle"), status', payEng', chat')
      BY <1>0, <1>3, <2>1, <2>2
      DEF MarkSucceeded, CallOK, OwnerSteps, KeySteps, Steps, chatVars, IInv, TypeOK
    <3>2. QED
      BY <1>0, <1>3, <2>1, <2>2, <3>1, OwnerWrites
      DEF MarkSucceeded, Goto, PaymentStatus
  <2>3. CASE ~SettlementFree(m.key, m.eng)
    <3>1. "fail" \in Steps /\ CallOK(At("fail"), status', payEng', chat')
      BY <1>0, <1>3, <2>1, <2>3
      DEF MarkSucceeded, CallOK, OwnerSteps, KeySteps, Steps, chatVars
    <3>2. QED
      BY <1>3, <2>1, <2>3, <3>1, CallGoes
      DEF MarkSucceeded, OwnerSteps, IInv, TypeOK, payVars, chatVars
  <2>4. QED
    BY <2>2, <2>3
<1>4. QED
  BY <1>1, <1>2, <1>3

\* The insert of a payment, or the loss of the race on its key.
LEMMA CreatePreserves ==
  ASSUME IInv, NEW c \in Calls, Create(c)
  PROVE  IInv'
<1> DEFINE m == call[c]
           q == m.key
           At(step) == [m EXCEPT !.step = step]
<1>0. /\ m \in CallType /\ CallOK(m, status, payEng, chat)
      /\ \A step \in Steps : At(step) \in CallType /\ At(step).step = step /\ At(step).key = m.key
                               /\ At(step).eng = m.eng /\ At(step).to = m.to
  BY MovedType DEF IInv, TypeOK, CallsOK, CallType
<1>1. q \in Keys /\ m.eng \in Engagements /\ m.step = "create" /\ m.step \notin OwnerSteps
  BY <1>0 DEF Create, CallOK, KeySteps, OwnerSteps
<1>2. CASE status[q] = "none"
  <2> DEFINE k == At("provider")
  <2>1. /\ status' = [status EXCEPT ![q] = "pending"]
        /\ payEng' = [payEng EXCEPT ![q] = m.eng]
        /\ call' = [call EXCEPT ![c] = k]
        /\ UNCHANGED <<engStatus, settlementKey, chatVars, crashes>>
    BY <1>2 DEF Create, Goto
  <2>2. k \in CallType /\ k.step = "provider" /\ k.key = q /\ k.eng = m.eng
    BY <1>0 DEF Steps
  <2>3. CallOK(k, status', payEng', chat')
    BY <1>1, <2>1, <2>2 DEF CallOK, OwnerSteps, KeySteps, InFlight, IInv, TypeOK
  <2>4. TypeOK'
    BY <1>1, <2>1, <2>2 DEF IInv, TypeOK, PaymentStatus, chatVars
  <2>5. \A d \in Calls : call[d].step \in OwnerSteps => call[d].key # q
    BY <1>2 DEF IInv, CallsOK, CallOK, InFlight
  <2>6. CallsOK'
    <3>1. ASSUME NEW d \in Calls PROVE CallOK(call'[d], status', payEng', chat')
      <4>1. CASE d = c
        BY <2>1, <2>3, <4>1 DEF IInv, TypeOK
      <4>2. CASE d # c
        <5>1. call'[d] = call[d] /\ CallOK(call[d], status, payEng, chat)
          BY <2>1, <4>2 DEF IInv, TypeOK, CallsOK
        <5>2. QED
          BY <1>1, <1>2, <2>1, <2>5, <5>1
          DEF CallOK, IInv, TypeOK, chatVars, OwnerSteps, KeySteps
      <4>3. QED
        BY <4>1, <4>2
    <3>2. QED
      BY <3>1 DEF CallsOK
  <2>7. OneOwner'
    BY <2>1, <2>2, <2>5 DEF IInv, TypeOK, OneOwner
  <2>8. PayingEngagements' /\ SettlementKeys'
    BY <1>1, <1>2, <2>1 DEF IInv, TypeOK, PayingEngagements, SettlementKeys
  <2>9. OneSettlement'
    BY <1>1, <1>2, <2>1 DEF IInv, TypeOK, OneSettlement
  <2>10. WorkIsPaid'
    <3>1. \A e \in Engagements : Paid(e) => Paid(e)'
      BY <1>1, <1>2, <2>1 DEF IInv, TypeOK, Paid
    <3>2. QED
      BY <2>1, <3>1 DEF IInv, WorkIsPaid
  <2>11. QED
    BY <2>4, <2>6, <2>7, <2>8, <2>9, <2>10 DEF IInv
<1>3. CASE status[q] # "none"
  <2>1. CASE Finish(c)
    BY <1>3, <2>1, CallEnds DEF Create, payVars, chatVars, IInv, TypeOK
  <2>2. CASE Goto(c, "replay") /\ payEng[q] = m.eng
    <3>1. "replay" \in Steps /\ CallOK(At("replay"), status', payEng', chat')
      BY <1>0, <1>1, <1>3, <2>2
      DEF Create, CallOK, OwnerSteps, KeySteps, Steps, chatVars
    <3>2. QED
      BY <1>3, <2>2, <3>1, CallGoes
      DEF Create, OwnerSteps, IInv, TypeOK, payVars, chatVars
  <2>3. QED
    BY <1>3, <2>1, <2>2 DEF Create, AfterLostKey
<1>4. QED
  BY <1>2, <1>3

\* Moving an engagement, with at most one slot taken or moved along with it.
LEMMA EngagementMoves ==
  ASSUME IInv, engStatus' \in [Engagements -> EngagementStatus],
         \A e \in Engagements : engStatus'[e] \in Started => engStatus[e] \in Started \/ Paid(e),
         UNCHANGED <<payVars, chatVars, crashes>>,
         \/ UNCHANGED call
         \/ \E c \in Calls, k \in CallType :
              /\ call' = [call EXCEPT ![c] = k]
              /\ CallOK(k, status, payEng, chat)
              /\ k.step \notin OwnerSteps
  PROVE  IInv'
<1>1. TypeOK'
  BY DEF IInv, TypeOK, payVars, chatVars
<1>2. CallsOK'
  <2>1. ASSUME NEW d \in Calls PROVE CallOK(call'[d], status', payEng', chat')
    <3>1. call'[d] = call[d] \/ CallOK(call'[d], status, payEng, chat)
      BY DEF IInv, TypeOK
    <3>2. CallOK(call'[d], status, payEng, chat)
      BY <3>1 DEF IInv, CallsOK
    <3>3. QED
      BY <3>2 DEF payVars, chatVars
  <2>2. QED
    BY <2>1 DEF CallsOK
<1>3. OneOwner'
  BY DEF IInv, TypeOK, OneOwner
<1>4. PayingEngagements' /\ SettlementKeys' /\ OneSettlement'
  BY DEF IInv, PayingEngagements, SettlementKeys, OneSettlement, payVars
<1>5. WorkIsPaid'
  BY DEF IInv, WorkIsPaid, Paid, payVars
<1>6. QED
  BY <1>1, <1>2, <1>3, <1>4, <1>5 DEF IInv

\* The settlement starts an engagement whose payment it found succeeded.
LEMMA StartPreserves ==
  ASSUME IInv, NEW c \in Calls, StartEngagement(c)
  PROVE  IInv'
<1> DEFINE m == call[c]
           At(step) == [m EXCEPT !.step = step]
<1>0. /\ m \in CallType /\ CallOK(m, status, payEng, chat)
      /\ \A step \in Steps : At(step) \in CallType /\ At(step).step = step /\ At(step).key = m.key
                               /\ At(step).eng = m.eng /\ At(step).to = m.to
  BY MovedType DEF IInv, TypeOK, CallsOK, CallType
<1>1. m.eng \in Engagements /\ Paid(m.eng)
  BY <1>0 DEF StartEngagement, CallOK, KeySteps, Paid
<1>2. CallOK(At("chat"), status, payEng, chat) /\ "chat" \in Steps /\ "chat" \notin OwnerSteps
  BY <1>0, <1>1 DEF CallOK, OwnerSteps, KeySteps, Steps
<1>3. CASE Finish(c) /\ UNCHANGED engStatus
  BY <1>3, CallEnds DEF StartEngagement, IInv, TypeOK
<1>4. CASE Goto(c, "chat") /\ UNCHANGED engStatus
  <2>1. call' = [call EXCEPT ![c] = At("chat")]
    BY <1>4 DEF Goto
  <2>2. \A e \in Engagements : engStatus'[e] = engStatus[e]
    BY <1>4
  <2>3. engStatus' \in [Engagements -> EngagementStatus]
    BY <1>4 DEF IInv, TypeOK
  <2>4. QED
    BY <1>0, <1>2, <2>1, <2>2, <2>3, EngagementMoves DEF StartEngagement
<1>5. CASE Goto(c, "chat") /\ engStatus' = [engStatus EXCEPT ![m.eng] = "in_progress"]
  <2>1. engStatus' \in [Engagements -> EngagementStatus]
    BY <1>5 DEF IInv, TypeOK, EngagementStatus
  <2>2. \A e \in Engagements : engStatus'[e] \in Started => engStatus[e] \in Started \/ Paid(e)
    BY <1>1, <1>5 DEF IInv, TypeOK
  <2>3. call' = [call EXCEPT ![c] = At("chat")]
    BY <1>5 DEF Goto
  <2>4. QED
    BY <1>0, <1>2, <2>1, <2>2, <2>3, EngagementMoves DEF StartEngagement
<1>6. \/ Finish(c) /\ UNCHANGED engStatus
      \/ Goto(c, "chat") /\ UNCHANGED engStatus
      \/ Goto(c, "chat") /\ engStatus' = [engStatus EXCEPT ![m.eng] = "in_progress"]
  BY Zenon DEF StartEngagement
<1>7. QED
  BY <1>3, <1>4, <1>5, <1>6

\* What the parties may do with an engagement never starts work that was not started.
LEMMA PartiesPreserve ==
  ASSUME IInv, NEW e \in Engagements,
         \/ WithdrawPendingPayment(e)
         \/ \E to \in EngagementStatus : TransitionEngagement(e, to)
  PROVE  IInv'
<1>1. CASE WithdrawPendingPayment(e)
  <2>1. engStatus' \in [Engagements -> EngagementStatus]
    BY <1>1 DEF WithdrawPendingPayment, IInv, TypeOK, EngagementStatus
  <2>2. \A f \in Engagements : engStatus'[f] \in Started => engStatus[f] \in Started
    BY <1>1 DEF WithdrawPendingPayment, IInv, TypeOK, Started
  <2>3. QED
    BY <1>1, <2>1, <2>2, EngagementMoves DEF WithdrawPendingPayment
<1>2. ASSUME NEW to \in EngagementStatus, TransitionEngagement(e, to) PROVE IInv'
  <2>1. engStatus' \in [Engagements -> EngagementStatus]
    BY <1>2 DEF TransitionEngagement, IInv, TypeOK
  <2>2. to \in Started => engStatus[e] \in Started
    BY <1>2
    DEF TransitionEngagement, PartyEngagementTransitions, ClientEngagementTransitions,
        ProviderEngagementTransitions, Started
  <2>3. \A f \in Engagements : engStatus'[f] \in Started => engStatus[f] \in Started
    BY <1>2, <2>2 DEF TransitionEngagement, IInv, TypeOK
  <2>4. /\ CallOn("chat", None, e) \in CallType
        /\ CallOK(CallOn("chat", None, e), status, payEng, chat)
        /\ CallOn("chat", None, e).step \notin OwnerSteps
    <3>1. CallOn("chat", None, e) \in CallType
      BY CallOnType DEF Steps
    <3>2. QED
      BY <3>1 DEF CallOn, CallOK, OwnerSteps, KeySteps
  <2>5. QED
    BY <1>2, <2>1, <2>3, <2>4, EngagementMoves DEF TransitionEngagement, Begin
<1>3. QED
  BY <1>1, <1>2

----
\* The invariant holds at the start ...
LEMMA InitInvariant == Init => IInv
<1> SUFFICES ASSUME Init PROVE IInv
  OBVIOUS
<1>1. TypeOK
  BY IdleType, PaymentsAssumption DEF Init, TypeOK, EngagementStatus
<1>2. CallsOK /\ OneOwner
  BY IdleType DEF Init, CallsOK, CallOK, OneOwner, OwnerSteps, KeySteps
<1>3. PayingEngagements /\ SettlementKeys /\ OneSettlement /\ WorkIsPaid
  BY DEF Init, PayingEngagements, SettlementKeys, OneSettlement, WorkIsPaid, Started
<1>4. QED
  BY <1>1, <1>2, <1>3 DEF IInv

\* ... and every step keeps it.
LEMMA StepInvariant == IInv /\ [Next]_vars => IInv'
<1> SUFFICES ASSUME IInv, [Next]_vars PROVE IInv'
  OBVIOUS
<1>1. ASSUME NEW c \in Calls, CallStep(c) PROVE IInv'
  BY <1>1, CreatePreserves, StartPreserves, OwnerPreserves, MovesPreserve DEF CallStep
<1>2. ASSUME NEW c \in Calls, Crash(c) PROVE IInv'
  BY <1>2, MovesPreserve
<1>3. ASSUME NEW c \in Calls, NEW k \in Keys, NEW e \in Engagements,
             CreatePayment(c, k, e) \/ Replay(c, k, e)
      PROVE  IInv'
  BY <1>3, MovesPreserve
<1>4. ASSUME NEW e \in Engagements,
             \/ WithdrawPendingPayment(e)
             \/ \E to \in EngagementStatus : TransitionEngagement(e, to)
      PROVE  IInv'
  BY <1>4, PartiesPreserve
<1>5. CASE UNCHANGED vars
  <2>1. UNCHANGED <<engStatus, payVars, chatVars, crashes, call>>
    BY <1>5 DEF vars
  <2>2. QED
    BY <2>1, EngagementMoves DEF IInv, TypeOK
<1>6. QED
  BY <1>1, <1>2, <1>3, <1>4, <1>5 DEF Next

\* The inductive invariant holds in every reachable state.
LEMMA Invariant == Spec => []IInv
  BY InitInvariant, StepInvariant, PTL DEF Spec

\* Types are kept, and only a chat that exists carries the Work started line.
THEOREM TypeCorrect == Spec => []TypeOK
<1>1. IInv => TypeOK
  BY DEF IInv
<1>2. QED
  BY <1>1, Invariant, PTL

\* markSucceeded settles an engagement at most once, whatever number of keys race and
\* however many calls are lost.
THEOREM SettledOnce == Spec => []OneSettlement
<1>1. IInv => OneSettlement
  BY DEF IInv
<1>2. QED
  BY <1>1, Invariant, PTL

\* No engagement is in progress, delivered, disputed or completed unless one of its
\* payments succeeded (settleEngagement, replay).
THEOREM NoUnpaidWork == Spec => []WorkIsPaid
<1>1. IInv => WorkIsPaid
  BY DEF IInv
<1>2. QED
  BY <1>1, Invariant, PTL

\* Once succeeded or failed a payment keeps its status: only an owner writes it, and the
\* owner of a decided payment is gone (markProcessing, markSucceeded, markFailed).
THEOREM DecisionsAreFinal == Spec => DecidedStays
<1> DEFINE Decided(k) == status[k] \in {"succeeded", "failed"}
<1>1. ASSUME IInv, [Next]_vars, NEW k \in Keys, Decided(k) PROVE status'[k] = status[k]
  <2>1. \A c \in Calls : call[c].step \in OwnerSteps => call[c].key # k
    BY <1>1 DEF IInv, CallsOK, CallOK, InFlight
  <2>2. ASSUME NEW c \in Calls, CallStep(c) PROVE status'[k] = status[k]
    BY <1>1, <2>1, <2>2
    DEF CallStep, Create, MarkProcessing, ConfirmPayment, MarkFailed, MarkSucceeded, FinishReplay,
        SettleEngagement, StartEngagement, CreateConversation, AnnounceWorkStarted,
        HasWorkChatStarted, CreateNotification, payVars, OwnerSteps, IInv, TypeOK
  <2>3. CASE UNCHANGED status
    BY <2>3
  <2>4. QED
    BY <1>1, <2>2, <2>3
    DEF Next, Crash, CreatePayment, Replay, WithdrawPendingPayment, TransitionEngagement, vars,
        payVars
<1>2. IInv /\ [Next]_vars => [\A k \in Keys : Decided(k) => status'[k] = status[k]]_vars
  BY <1>1
<1>3. QED
  BY <1>2, Invariant, PTL DEF Spec, DecidedStays
====
