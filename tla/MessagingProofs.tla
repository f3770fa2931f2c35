---- MODULE MessagingProofs ----
(***************************************************************************)
(* Proofs about Messaging: for any number of sends, polls and reads at     *)
(* once, of messages and client ids, a repeated send gets its first        *)
(* message, the start of a conversation is announced once, and receipts    *)
(* and badges tell one story.                                              *)
(***************************************************************************)
EXTENDS Messaging, FiniteSetTheorems, TLAPS

\* Steps of a send that has stored its message.
Sending == {"preview", "count", "notify"}

\* What holds of a call, given the messages there are: one with a client id is somebody's,
\* polls, reads and announcements are too, and a send past its insert has its message.
CallOK(k, ms) ==
  /\ k.cid # None \/ k.step \in {"count", "notify", "deliver", "read"} => k.who \in Users
  /\ k.step \in Sending => \E m \in ms : m.id = k.msg /\ m.cid = k.cid /\ m.from = k.who

CallsOK == \A c \in Calls : CallOK(call[c], messages)

\* No two sends carry the same message.
OwnMessages ==
  \A c, d \in Calls : c # d /\ call[c].step \in Sending /\ call[d].step \in Sending
                        => call[c].msg # call[d].msg

\* A client id names one message, and an answer names the message of its client id.
UniqueClientIds == \A m, n \in messages : m.cid # None /\ m.cid = n.cid => m = n
AnswersOK ==
  \A a \in answers :
    a.cid # None /\ \E m \in messages : m.cid = a.cid /\ m.id = a.id /\ m.from = a.who

\* One send at most is about to announce, and only while nothing was announced; once it was,
\* there is a message whose send is over.
OneAnnouncer == \A c, d \in Calls : call[c].step = "notify" /\ call[d].step = "notify" => c = d
NothingAnnounced == \A u \in Users : notices[u] = 0
Announced ==
  /\ OneAnnouncer
  /\ (\E c \in Calls : call[c].step = "notify") => NothingAnnounced
  /\ NothingAnnounced
     \/ \E m \in messages : m.from # None
                            /\ \A c \in Calls : call[c].step \in Sending => call[c].msg # m.id
  /\ StartAnnouncedAtMostOnce

IInv ==
  /\ TypeOK /\ IsFiniteSet(messages) /\ CallsOK /\ OwnMessages
  /\ UniqueClientIds /\ AnswersOK /\ Announced /\ ReadIsDelivered

----
\* The two participants, each the other's peer.
LEMMA Peers ==
  /\ \A u \in Users : Peer(u) \in Users /\ Peer(u) # u /\ Users = {u, Peer(u)}
  /\ None \notin Users /\ None \notin ClientIds /\ 0 \in Times /\ 1 \in Times
<1>1. PICK u \in Users, p \in Users : u # p /\ Users = {u, p}
  BY MessagingAssumption
<1>2. \A x \in Users : Peer(x) \in Users /\ Peer(x) # x
  BY <1>1 DEF Peer
<1> QED BY <1>1, <1>2, MessagingAssumption DEF Times

LEMMA CallOfType ==
  ASSUME NEW step \in Steps, NEW u \in Users \cup {None}, NEW k \in ClientIds \cup {None},
         NEW at \in Times
  PROVE  /\ CallOf(step, u, k, at) \in CallType
         /\ CallOf(step, u, k, at).step = step /\ CallOf(step, u, k, at).who = u
         /\ CallOf(step, u, k, at).cid = k
BY MessagingAssumption DEF CallOf, CallType

LEMMA IdleType ==
  /\ Idle \in CallType /\ Idle.step = "idle" /\ Idle.cid = None
  /\ \A ms : CallOK(Idle, ms)
BY Peers, MessagingAssumption DEF Idle, CallOf, CallType, CallOK, Steps, Sending

\* One slot changes and messages are only added: what calls and announcements rely on stays,
\* unless the call is about to announce.
LEMMA SlotMoves ==
  ASSUME IInv, NEW c \in Calls, NEW k \in CallType, call' = [call EXCEPT ![c] = k],
         messages \subseteq messages', UNCHANGED notices, CallOK(k, messages'),
         k.step # "notify",
         k.step \in Sending =>
           \/ call[c].step \in Sending /\ k.msg = call[c].msg
           \/ \A m \in messages : m.id # k.msg
  PROVE  call' \in [Calls -> CallType] /\ CallsOK' /\ OwnMessages' /\ Announced'
<1>1. call' \in [Calls -> CallType] /\ \A d \in Calls : call'[d] = IF d = c THEN k ELSE call[d]
  BY DEF IInv, TypeOK
<1>2. ASSUME NEW d \in Calls, d # c PROVE CallOK(call[d], messages')
  BY DEF IInv, CallsOK, CallOK
<1>3. CallsOK'
  BY <1>1, <1>2 DEF CallsOK
<1>4. ASSUME NEW d \in Calls, d # c, call[d].step \in Sending, k.step \in Sending
      PROVE  call[d].msg # k.msg
  BY <1>4 DEF IInv, OwnMessages, CallsOK, CallOK
<1>5. OwnMessages'
  BY <1>1, <1>4 DEF IInv, OwnMessages
<1>6. \A d \in Calls : call'[d].step = "notify" => d # c /\ call[d].step = "notify"
  BY <1>1
<1>7. StartAnnouncedAtMostOnce'
  BY DEF IInv, Announced, StartAnnouncedAtMostOnce
<1>8. ASSUME NEW m \in messages, \A d \in Calls : call[d].step \in Sending => call[d].msg # m.id
      PROVE  \A d \in Calls : call'[d].step \in Sending => call'[d].msg # m.id
  BY <1>1, <1>8
<1>9. NothingAnnounced' \/ \E m \in messages' : m.from # None /\
         \A d \in Calls : call'[d].step \in Sending => call'[d].msg # m.id
  BY <1>8 DEF IInv, Announced, NothingAnnounced
<1>10. OneAnnouncer' /\ ((\E d \in Calls : call'[d].step = "notify") => NothingAnnounced')
  BY <1>6 DEF IInv, Announced, NothingAnnounced, OneAnnouncer
<1> QED BY <1>1, <1>3, <1>5, <1>7, <1>9, <1>10 DEF Announced

\* No slot changes.
LEMMA SlotsStay ==
  ASSUME IInv, UNCHANGED <<call, messages, notices>>
  PROVE  call' \in [Calls -> CallType] /\ CallsOK' /\ OwnMessages' /\ Announced'
BY DEF IInv, TypeOK, CallsOK, OwnMessages, Announced, OneAnnouncer, NothingAnnounced,
       StartAnnouncedAtMostOnce

\* A call of a participant begins.
LEMMA Begins ==
  ASSUME IInv, NEW c \in Calls, NEW step \in {"insert", "deliver", "read"},
         NEW u \in Users, NEW k \in ClientIds \cup {None}, NEW at \in Times,
         Begin(c, CallOf(step, u, k, at)), UNCHANGED <<messages, notices>>
  PROVE  call' \in [Calls -> CallType] /\ CallsOK' /\ OwnMessages' /\ Announced'
<1> DEFINE n == CallOf(step, u, k, at)
<1>1. n \in CallType /\ n.step = step /\ n.who = u /\ n.cid = k
  BY CallOfType DEF Steps
<1>2. call' = [call EXCEPT ![c] = n]
  BY DEF Begin
<1> HIDE DEF n
<1>3. CallOK(n, messages') /\ n.step \notin Sending
  BY <1>1 DEF CallOK, Sending
<1> QED BY <1>1, <1>2, <1>3, SlotMoves DEF Sending

LEMMA Ends ==
  ASSUME IInv, NEW c \in Calls, Finish(c), messages \subseteq messages', UNCHANGED notices
  PROVE  call' \in [Calls -> CallType] /\ CallsOK' /\ OwnMessages' /\ Announced'
BY IdleType, SlotMoves DEF Finish, Sending

\* An answer that names a message of its client id, sent by the one who asks.
LEMMA AnswersKept ==
  ASSUME IInv, NEW u \in Users, NEW k \in ClientIds \cup {None}, NEW m \in messages,
         m.cid = k, m.from = u, messages' = messages,
         answers' = answers \cup Answers(u, k, m.id) \/ UNCHANGED answers
  PROVE  AnswersOK' /\ answers' \subseteq [who : Users, cid : ClientIds, id : Ids]
<1>1. m.id \in Ids
  BY DEF IInv, TypeOK, Message
<1>2. \A a \in Answers(u, k, m.id) :
         /\ a \in [who : Users, cid : ClientIds, id : Ids]
         /\ a.who = u /\ a.cid = k /\ a.id = m.id /\ a.cid # None
  BY <1>1 DEF Answers
<1> QED BY <1>2 DEF IInv, TypeOK, AnswersOK

\* What the steps that add no message have to keep.
LEMMA RowsStay ==
  ASSUME IInv, UNCHANGED messages
  PROVE  IsFiniteSet(messages)' /\ UniqueClientIds' /\ (UNCHANGED answers => AnswersOK')
BY DEF IInv, UniqueClientIds, AnswersOK

\* The part of the types that these steps leave alone, or set within bounds.
RestTyped ==
  /\ type \in {"connection", "work"} /\ standing \in WorkStatus \cup {"active", "ended"}
  /\ messages \subseteq Message
  /\ previewAt \in Times /\ clock \in Times
  /\ archived \subseteq Users /\ deleted \subseteq Users
  /\ readAt \in [Users -> Times] /\ deliveredAt \in [Users -> Times]
  /\ notices \in [Users -> Nat]

LEMMA TypeParts ==
  TypeOK <=> /\ RestTyped /\ call \in [Calls -> CallType]
             /\ answers \subseteq [who : Users, cid : ClientIds, id : Ids]
BY DEF TypeOK, RestTyped

\* What a step has to show.
LEMMA Together ==
  ASSUME RestTyped', answers' \subseteq [who : Users, cid : ClientIds, id : Ids],
         call' \in [Calls -> CallType] /\ CallsOK' /\ OwnMessages' /\ Announced',
         IsFiniteSet(messages)', UniqueClientIds', AnswersOK', ReadIsDelivered'
  PROVE  IInv'
BY DEF IInv, TypeOK, RestTyped

\* The same of a step that answers nothing, or adds no message.
LEMMA AnswersStay ==
  ASSUME IInv, UNCHANGED <<messages, answers>>
  PROVE  AnswersOK' /\ answers' \subseteq [who : Users, cid : ClientIds, id : Ids]
BY DEF IInv, TypeOK, AnswersOK

LEMMA CallFacts ==
  ASSUME IInv, NEW c \in Calls
  PROVE  /\ call[c] \in CallType /\ CallOK(call[c], messages)
         /\ call[c].who \in Users \cup {None} /\ call[c].cid \in ClientIds \cup {None}
         /\ call[c].at \in Times /\ call[c].msg \in 0..MaxId
BY DEF IInv, TypeOK, CallType, CallsOK

LEMMA GotoStep ==
  ASSUME IInv, NEW c \in Calls, NEW step \in Steps, Goto(c, step)
  PROVE  LET k == [call[c] EXCEPT !.step = step] IN
         /\ call' = [call EXCEPT ![c] = k] /\ k \in CallType /\ k.step = step
         /\ k.who = call[c].who /\ k.cid = call[c].cid /\ k.msg = call[c].msg
BY CallFacts DEF Goto, CallType

----
LEMMA InitInv == Init => IInv
<1> SUFFICES ASSUME Init PROVE IInv OBVIOUS
<1>1. call \in [Calls -> CallType] /\ \A c \in Calls : call[c] = Idle
  BY IdleType DEF Init
<1>2. TypeOK
  BY <1>1, Peers DEF Init, TypeOK, WorkStatus
<1>3. CallsOK /\ OwnMessages /\ OneAnnouncer /\ \A c \in Calls : call[c].step # "notify"
  BY <1>1, IdleType DEF CallsOK, OwnMessages, OneAnnouncer, Sending
<1>4. NothingAnnounced /\ StartAnnouncedAtMostOnce
  BY Peers DEF Init, NothingAnnounced, StartAnnouncedAtMostOnce
<1>5. IsFiniteSet(messages) /\ UniqueClientIds /\ AnswersOK
  BY FS_EmptySet DEF Init, UniqueClientIds, AnswersOK
<1>6. ReadIsDelivered
  BY DEF Init, ReadIsDelivered
<1> QED BY <1>2, <1>3, <1>4, <1>5, <1>6 DEF IInv, Announced

\* A send: the lookup finds nobody's, or the sender's own, message.
LEMMA SendKeeps ==
  ASSUME IInv, NEW c \in Calls, NEW u \in Users, NEW k \in ClientIds \cup {None},
         SendMessage(c, u, k)
  PROVE  IInv'
<1>1. UNCHANGED <<type, standing, messages, previewAt, readAt, deliveredAt, archived, deleted,
                  notices, clock>>
  BY DEF SendMessage, chat, inbox
<1>2. RestTyped' /\ ReadIsDelivered'
  BY <1>1, TypeParts DEF IInv, RestTyped, ReadIsDelivered
<1>3. CASE Begin(c, CallOf("insert", u, k, 0)) /\ UNCHANGED answers
  <2>1. call' \in [Calls -> CallType] /\ CallsOK' /\ OwnMessages' /\ Announced'
    BY <1>1, <1>3, Begins, Peers
  <2> QED BY <1>1, <1>2, <1>3, <2>1, AnswersStay, RowsStay, Together
<1>4. CASE \E m \in WithClientId(k) :
             /\ m.from = u
             /\ answers' = answers \cup Answers(u, k, m.id)
             /\ UNCHANGED call
  <2>1. PICK m \in messages : /\ m.from = u /\ m.cid = k
                              /\ answers' = answers \cup Answers(u, k, m.id)
                              /\ UNCHANGED call
    BY <1>4 DEF WithClientId
  <2>2. AnswersOK' /\ answers' \subseteq [who : Users, cid : ClientIds, id : Ids]
    BY <1>1, <2>1, AnswersKept
  <2>3. call' \in [Calls -> CallType] /\ CallsOK' /\ OwnMessages' /\ Announced'
    BY <1>1, <2>1, SlotsStay
  <2> QED BY <1>1, <1>2, <2>2, <2>3, RowsStay, Together
<1> QED BY <1>3, <1>4 DEF SendMessage

\* The insert: no row has the client id, and the id is new.
LEMMA CreateKeeps ==
  ASSUME IInv, NEW c \in Calls, CreateMessage(c)
  PROVE  IInv'
<1> DEFINE u == call[c].who
           k == call[c].cid
<1>0. UNCHANGED <<type, standing, previewAt, readAt, deliveredAt, archived, deleted, notices,
                  clock>>
  BY DEF CreateMessage, chat, inbox
<1>1. ReadIsDelivered'
  BY <1>0 DEF IInv, ReadIsDelivered
<1>2. /\ u \in Users \cup {None} /\ k \in ClientIds \cup {None} /\ (k # None => u \in Users)
      /\ clock \in Times /\ call[c].step = "insert"
  BY CallFacts DEF CallOK, CreateMessage, IInv, TypeOK
<1>3. ASSUME NEW id \in Ids, Clashes(k) = {}, AppendMessage(c, id), UNCHANGED answers
      PROVE  IInv'
  <2> DEFINE m == [id |-> id, at |-> clock, from |-> u, cid |-> k]
             n == [call[c] EXCEPT !.step = "preview", !.at = clock, !.msg = id]
  <2>1. /\ messages' = messages \cup {m} /\ \A x \in messages : x.id # id
        /\ call' = [call EXCEPT ![c] = n]
    BY <1>3 DEF AppendMessage, IInv, TypeOK
  <2>2. /\ m.id = id /\ m.from = u /\ m.cid = k /\ m \in Message
    BY <1>2 DEF Message
  <2>3. /\ n \in CallType /\ n.step = "preview" /\ n.msg = id /\ n.who = u /\ n.cid = k
    <3>1. id \in 0..MaxId /\ call[c] \in CallType /\ "preview" \in Steps
      BY CallFacts, MessagingAssumption DEF Ids, Steps
    <3> QED BY <1>2, <3>1 DEF CallType
  <2>4. \A x \in messages : k # None => x.cid # k
    BY <1>3 DEF Clashes, WithClientId
  <2> HIDE DEF m, n, k, u
  <2>5. CallOK(n, messages')
    BY <1>2, <2>1, <2>2, <2>3 DEF CallOK
  <2>6. call' \in [Calls -> CallType] /\ CallsOK' /\ OwnMessages' /\ Announced'
    BY <1>0, <2>1, <2>3, <2>5, SlotMoves
  <2>7. IsFiniteSet(messages)'
    BY <2>1, FS_AddElement DEF IInv
  <2>8. UniqueClientIds' /\ AnswersOK'
    BY <1>3, <2>1, <2>2, <2>4 DEF IInv, UniqueClientIds, AnswersOK
  <2>9. RestTyped'
    BY <1>0, <2>1, <2>2, TypeParts DEF IInv, RestTyped
  <2>10. answers' \subseteq [who : Users, cid : ClientIds, id : Ids]
    BY <1>3, TypeParts DEF IInv
  <2> QED BY <1>1, <2>6, <2>7, <2>8, <2>9, <2>10, Together
<1>4. ASSUME NEW m \in Clashes(k), Finish(c), UNCHANGED messages,
             IF m.from = u THEN Answer(c, m.id) ELSE UNCHANGED answers
      PROVE  IInv'
  <2>1. m \in messages /\ m.cid = k /\ k # None
    BY <1>4 DEF Clashes, WithClientId
  <2>2. AnswersOK' /\ answers' \subseteq [who : Users, cid : ClientIds, id : Ids]
    <3>1. CASE m.from = u
      BY <1>2, <1>4, <2>1, <3>1, AnswersKept DEF Answer
    <3>2. CASE m.from # u
      BY <1>4, <3>2, AnswersStay
    <3> QED BY <3>1, <3>2
  <2>3. call' \in [Calls -> CallType] /\ CallsOK' /\ OwnMessages' /\ Announced'
    BY <1>0, <1>4, Ends
  <2>4. RestTyped'
    BY <1>0, <1>4, TypeParts DEF IInv, RestTyped
  <2> QED BY <1>1, <1>4, <2>2, <2>3, <2>4, RowsStay, Together
<1> QED BY <1>3, <1>4 DEF CreateMessage

\* What a send answers in the end: its own message.
LEMMA OwnAnswer ==
  ASSUME IInv, NEW c \in Calls, call[c].step \in Sending, call[c].who # None,
         UNCHANGED messages, Answer(c, call[c].msg)
  PROVE  AnswersOK' /\ answers' \subseteq [who : Users, cid : ClientIds, id : Ids]
<1>1. PICK m \in messages : m.id = call[c].msg /\ m.cid = call[c].cid /\ m.from = call[c].who
  BY CallFacts DEF CallOK
<1>2. call[c].who \in Users /\ call[c].cid \in ClientIds \cup {None}
  BY CallFacts
<1> QED BY <1>1, <1>2, AnswersKept DEF Answer

LEMMA PreviewKeeps ==
  ASSUME IInv, NEW c \in Calls, UpdateConversationPreview(c)
  PROVE  IInv'
<1>0. /\ UNCHANGED <<type, standing, messages, readAt, deliveredAt, archived, deleted, notices,
                     clock>>
      /\ previewAt' = call[c].at /\ call[c].step = "preview"
  BY DEF UpdateConversationPreview, chat, inbox
<1>1. ReadIsDelivered' /\ RestTyped'
  BY <1>0, CallFacts, TypeParts DEF IInv, ReadIsDelivered, RestTyped
<1>2. CASE Goto(c, "count") /\ UNCHANGED answers /\ call[c].who # None
  <2> DEFINE k == [call[c] EXCEPT !.step = "count"]
  <2>1. /\ call' = [call EXCEPT ![c] = k] /\ k \in CallType /\ k.step = "count"
        /\ k.who = call[c].who /\ k.cid = call[c].cid /\ k.msg = call[c].msg
    BY <1>2, GotoStep DEF Steps
  <2> HIDE DEF k
  <2>2. CallOK(k, messages')
    BY <1>0, <1>2, <2>1, CallFacts DEF CallOK, Sending
  <2>3. call' \in [Calls -> CallType] /\ CallsOK' /\ OwnMessages' /\ Announced'
    BY <1>0, <2>1, <2>2, SlotMoves DEF Sending
  <2> QED BY <1>0, <1>1, <1>2, <2>3, AnswersStay, RowsStay, Together
<1>3. CASE Finish(c) /\ (IF call[c].who = None THEN UNCHANGED answers ELSE Answer(c, call[c].msg))
  <2>1. AnswersOK' /\ answers' \subseteq [who : Users, cid : ClientIds, id : Ids]
    BY <1>0, <1>3, OwnAnswer, AnswersStay DEF Sending
  <2>2. call' \in [Calls -> CallType] /\ CallsOK' /\ OwnMessages' /\ Announced'
    BY <1>0, <1>3, Ends
  <2> QED BY <1>0, <1>1, <2>1, <2>2, RowsStay, Together
<1> QED BY <1>2, <1>3 DEF UpdateConversationPreview

\* The one message there is, when a count says so.
LEMMA OnlyMessage ==
  ASSUME IInv, NEW m \in messages, NEW n \in messages, m.from # None, n.from # None, m # n
  PROVE  ~(Cardinality(UserMessages) <= 1)
<1>1. IsFiniteSet(UserMessages) /\ {m, n} \subseteq UserMessages
  BY FS_Subset DEF IInv, UserMessages
<1>2. /\ IsFiniteSet({m}) /\ Cardinality({m}) = 1
      /\ Cardinality({m, n}) = 2
  <2>1. IsFiniteSet({m}) /\ Cardinality({m}) = 1
    BY FS_Singleton
  <2>2. {m, n} = {m} \cup {n} /\ n \notin {m}
    OBVIOUS
  <2>3. Cardinality({m} \cup {n}) = Cardinality({m}) + 1
    BY <2>1, <2>2, FS_AddElement
  <2> QED BY <2>1, <2>2, <2>3
<1>3. Cardinality({m, n}) <= Cardinality(UserMessages)
  BY <1>1, FS_Subset
<1>4. Cardinality(UserMessages) \in Nat
  BY <1>1, FS_CardinalityType
<1> QED BY <1>2, <1>3, <1>4

\* A count: whoever goes on to announce has the only message there is, so that nobody else
\* is about to and nothing was announced.
LEMMA CountKeeps ==
  ASSUME IInv, NEW c \in Calls, CountUserMessages(c)
  PROVE  IInv'
<1>0. /\ UNCHANGED <<type, standing, messages, previewAt, readAt, deliveredAt, archived, deleted,
                     notices, clock>>
      /\ call[c].step = "count"
  BY DEF CountUserMessages, chat, inbox
<1>1. ReadIsDelivered' /\ RestTyped'
  BY <1>0, TypeParts DEF IInv, ReadIsDelivered, RestTyped
<1>2. call[c].who \in Users /\ call[c].who # None
  BY <1>0, CallFacts, Peers DEF CallOK
<1>3. CASE IsFirstMessage(call[c].who) /\ Goto(c, "notify") /\ UNCHANGED answers
  <2> DEFINE k == [call[c] EXCEPT !.step = "notify"]
  <2>1. /\ call' = [call EXCEPT ![c] = k] /\ k \in CallType /\ k.step = "notify"
        /\ k.who = call[c].who /\ k.cid = call[c].cid /\ k.msg = call[c].msg
    BY <1>3, GotoStep DEF Steps
  <2> HIDE DEF k
  <2>2. /\ call' \in [Calls -> CallType]
        /\ \A d \in Calls : call'[d] = IF d = c THEN k ELSE call[d]
    BY <2>1 DEF IInv, TypeOK
  <2>3. PICK m \in messages : m.id = call[c].msg /\ m.from = call[c].who
    BY <1>0, CallFacts DEF CallOK, Sending
  <2>4. \A n \in messages : n.from # None => n = m
    BY <1>2, <1>3, <2>3, OnlyMessage DEF IsFirstMessage
  <2>5. ASSUME NEW d \in Calls, d # c, call[d].step = "notify" PROVE FALSE
    <3>1. call[d].who \in Users /\ call[d].who # None
      BY <2>5, CallFacts, Peers DEF CallOK
    <3>2. PICK n \in messages : n.id = call[d].msg /\ n.from = call[d].who
      BY <2>5, CallFacts DEF CallOK, Sending
    <3>3. call[d].msg # call[c].msg
      BY <1>0, <2>5 DEF IInv, OwnMessages, Sending
    <3> QED BY <2>3, <2>4, <3>1, <3>2, <3>3
  <2>6. NothingAnnounced
    BY <1>0, <2>3, <2>4 DEF IInv, Announced, Sending
  <2>7. Announced'
    BY <1>0, <2>2, <2>5, <2>6
    DEF IInv, Announced, OneAnnouncer, NothingAnnounced, StartAnnouncedAtMostOnce
  <2>8. CallsOK'
    BY <1>0, <1>2, <2>1, <2>2 DEF IInv, CallsOK, CallOK, Sending
  <2>9. OwnMessages'
    BY <1>0, <2>1, <2>2 DEF IInv, OwnMessages, Sending
  <2> QED BY <1>0, <1>1, <1>3, <2>2, <2>7, <2>8, <2>9, AnswersStay, RowsStay, Together
<1>4. CASE Finish(c) /\ Answer(c, call[c].msg)
  <2>1. AnswersOK' /\ answers' \subseteq [who : Users, cid : ClientIds, id : Ids]
    BY <1>0, <1>2, <1>4, OwnAnswer DEF Sending
  <2>2. call' \in [Calls -> CallType] /\ CallsOK' /\ OwnMessages' /\ Announced'
    BY <1>0, <1>4, Ends
  <2> QED BY <1>0, <1>1, <2>1, <2>2, RowsStay, Together
<1> QED BY <1>3, <1>4 DEF CountUserMessages

\* The announcement: it is the first, and its message is not carried by any send any more.
LEMMA NotifyKeeps ==
  ASSUME IInv, NEW c \in Calls, NotifyPeer(c)
  PROVE  IInv'
<1> DEFINE p == Peer(call[c].who)
<1>0. /\ UNCHANGED <<type, standing, messages, previewAt, readAt, deliveredAt, archived, deleted,
                     clock>>
      /\ call[c].step = "notify" /\ notices' = [notices EXCEPT ![p] = @ + 1]
      /\ Finish(c) /\ Answer(c, call[c].msg)
  BY DEF NotifyPeer, chat, inbox
<1>1. call[c].who \in Users /\ call[c].who # None /\ p \in Users
  BY <1>0, CallFacts, Peers DEF CallOK
<1>2. NothingAnnounced /\ \A d \in Calls : call[d].step = "notify" => d = c
  BY <1>0 DEF IInv, Announced, OneAnnouncer
<1>3. \A x \in Users : notices'[x] = IF x = p THEN 1 ELSE 0
  BY <1>0, <1>1, <1>2 DEF IInv, TypeOK, NothingAnnounced
<1>4. StartAnnouncedAtMostOnce'
  BY <1>3, Peers DEF StartAnnouncedAtMostOnce
<1>5. ReadIsDelivered' /\ RestTyped'
  BY <1>0, <1>1, TypeParts DEF IInv, ReadIsDelivered, RestTyped
<1>6. /\ call' \in [Calls -> CallType]
      /\ \A d \in Calls : call'[d] = IF d = c THEN Idle ELSE call[d]
  BY <1>0, IdleType DEF Finish, IInv, TypeOK
<1>7. CallsOK' /\ OwnMessages'
  BY <1>0, <1>6, IdleType DEF IInv, CallsOK, OwnMessages, Sending
<1>8. Announced'
  <2>1. \A d \in Calls : call'[d].step # "notify"
    BY <1>2, <1>6, IdleType
  <2>2. PICK m \in messages : m.id = call[c].msg /\ m.from = call[c].who
    BY <1>0, CallFacts DEF CallOK, Sending
  <2>3. \A d \in Calls : call'[d].step \in Sending => call'[d].msg # m.id
    BY <1>0, <1>6, <2>2, IdleType DEF IInv, OwnMessages, Sending
  <2>4. m \in messages' /\ m.from # None
    BY <1>0, <1>1, <2>2
  <2> QED BY <1>4, <2>1, <2>3, <2>4 DEF Announced, OneAnnouncer
<1>9. AnswersOK' /\ answers' \subseteq [who : Users, cid : ClientIds, id : Ids]
  BY <1>0, <1>1, OwnAnswer DEF Sending
<1> QED BY <1>0, <1>5, <1>6, <1>7, <1>8, <1>9, RowsStay, Together

----
\* The steps that add no message, answer nothing and announce nothing.
LEMMA RestKeeps ==
  ASSUME IInv, UNCHANGED <<messages, answers, notices>>, RestTyped', ReadIsDelivered',
         call' \in [Calls -> CallType] /\ CallsOK' /\ OwnMessages' /\ Announced'
  PROVE  IInv'
BY AnswersStay, RowsStay, Together

\* A poll or a read of a participant begins, a system line too, or nothing does.
LEMMA PollsKeep ==
  ASSUME IInv, NEW c \in Calls, NEW u \in Users, NEW scope, NEW to \in WorkStatus,
         \/ ListMyConversations(c, u, scope) \/ ListMessages(c, u) \/ MarkRead(c, u)
         \/ OnEngagementStatusChanged(c, to)
  PROVE  IInv'
<1>1. UNCHANGED <<type, messages, previewAt, readAt, deliveredAt, archived, deleted, notices,
                  answers, clock>>
  BY DEF ListMyConversations, ListMessages, MarkRead, OnEngagementStatusChanged, chat, inbox
<1>2. standing' \in WorkStatus \cup {"active", "ended"}
  BY DEF ListMyConversations, ListMessages, MarkRead, OnEngagementStatusChanged, chat, IInv, TypeOK
<1>3. RestTyped' /\ ReadIsDelivered'
  BY <1>1, <1>2, TypeParts DEF IInv, RestTyped, ReadIsDelivered
<1>4. previewAt \in Times /\ clock \in Times /\ None \in ClientIds \cup {None}
  BY DEF IInv, TypeOK
<1>5. CASE ListMyConversations(c, u, scope)
  BY <1>1, <1>3, <1>4, <1>5, Begins, RestKeeps DEF ListMyConversations
<1>6. CASE ListMessages(c, u)
  <2>1. CASE UNCHANGED call
    BY <1>1, <1>3, <2>1, SlotsStay, RestKeeps
  <2>2. CASE ~UNCHANGED call
    <3>1. PICK m \in Older(pager.before) : Begin(c, CallOf("deliver", u, None, m.at))
      BY <1>6, <2>2 DEF ListMessages
    <3>2. m.at \in Times
      BY DEF Older, IInv, TypeOK, Message
    <3> QED BY <1>1, <1>3, <1>4, <3>1, <3>2, Begins, RestKeeps
  <2> QED BY <2>1, <2>2
<1>7. CASE MarkRead(c, u)
  BY <1>1, <1>3, <1>4, <1>7, Begins, RestKeeps DEF MarkRead
<1>8. CASE OnEngagementStatusChanged(c, to)
  <2>1. CASE UNCHANGED call
    BY <1>1, <1>3, <2>1, SlotsStay, RestKeeps
  <2>2. CASE Begin(c, CallOf("insert", None, None, 0))
    <3> DEFINE k == CallOf("insert", None, None, 0)
    <3>1. k \in CallType /\ k.step = "insert" /\ k.cid = None
      BY CallOfType, Peers DEF Steps
    <3>2. call' = [call EXCEPT ![c] = k]
      BY <2>2 DEF Begin
    <3> HIDE DEF k
    <3>3. CallOK(k, messages') /\ k.step \notin Sending
      BY <3>1 DEF CallOK, Sending
    <3>4. call' \in [Calls -> CallType] /\ CallsOK' /\ OwnMessages' /\ Announced'
      BY <1>1, <3>1, <3>2, <3>3, SlotMoves
    <3> QED BY <1>1, <1>3, <3>4, RestKeeps
  <2> QED BY <1>8, <2>1, <2>2 DEF OnEngagementStatusChanged
<1> QED BY <1>5, <1>6, <1>7, <1>8

\* The watermarks: a delivery only raises its own, a read writes both.
LEMMA WatermarksKeep ==
  ASSUME IInv, NEW c \in Calls, MarkParticipantDelivered(c) \/ MarkParticipantRead(c)
  PROVE  IInv'
<1> DEFINE u == call[c].who
           at == call[c].at
<1>0. /\ UNCHANGED <<type, standing, messages, previewAt, archived, deleted, notices, answers,
                     clock>>
      /\ call[c].step \in {"deliver", "read"} /\ Finish(c)
  BY DEF MarkParticipantDelivered, MarkParticipantRead, chat
<1>1. u \in Users /\ at \in Times
  BY <1>0, CallFacts DEF CallOK
<1>2. \A x \in Users : /\ readAt[x] \in Nat /\ deliveredAt[x] \in Nat /\ at \in Nat
                       /\ readAt[x] <= deliveredAt[x]
  BY <1>1 DEF IInv, TypeOK, Times, ReadIsDelivered
<1>3. CASE MarkParticipantDelivered(c)
  <2>1. /\ readAt' = readAt
        /\ deliveredAt' = [deliveredAt EXCEPT ![u] = IF @ < at THEN at ELSE @]
    BY <1>3 DEF MarkParticipantDelivered
  <2>2. RestTyped'
    BY <1>0, <1>1, <2>1, TypeParts DEF IInv, RestTyped
  <2>3. ReadIsDelivered'
    BY <1>1, <1>2, <2>1, TypeParts DEF IInv, RestTyped, ReadIsDelivered
  <2> QED BY <1>0, <2>2, <2>3, Ends, RestKeeps
<1>4. CASE MarkParticipantRead(c)
  <2>1. /\ readAt' = [readAt EXCEPT ![u] = at]
        /\ deliveredAt' = [deliveredAt EXCEPT ![u] = at]
    BY <1>4 DEF MarkParticipantRead, DeliveredByRead
  <2>2. RestTyped'
    BY <1>0, <1>1, <2>1, TypeParts DEF IInv, RestTyped
  <2>3. ReadIsDelivered'
    BY <1>1, <1>2, <2>1, TypeParts DEF IInv, RestTyped, ReadIsDelivered
  <2> QED BY <1>0, <2>2, <2>3, Ends, RestKeeps
<1> QED BY <1>3, <1>4

\* The steps without calls.
LEMMA FilingKeeps ==
  ASSUME IInv,
         \/ EndConnection \/ Tick
         \/ \E u \in Users : \/ ArchiveForParticipant(u) \/ UnarchiveForParticipant(u)
                             \/ SoftDeleteForParticipant(u)
  PROVE  IInv'
<1>1. /\ UNCHANGED <<type, messages, previewAt, readAt, deliveredAt, notices, answers, call>>
      /\ archived' \subseteq Users /\ deleted' \subseteq Users
      /\ standing' \in {standing, "ended"}
  BY DEF EndConnection, Tick, ArchiveForParticipant, UnarchiveForParticipant,
         SoftDeleteForParticipant, chat, inbox, IInv, TypeOK
<1>2. clock' \in Times
  BY MessagingAssumption
  DEF EndConnection, Tick, ArchiveForParticipant, UnarchiveForParticipant,
      SoftDeleteForParticipant, IInv, TypeOK, Times
<1>3. RestTyped' /\ ReadIsDelivered'
  BY <1>1, <1>2, TypeParts DEF IInv, RestTyped, ReadIsDelivered
<1> QED BY <1>1, <1>3, SlotsStay, RestKeeps

LEMMA InvStep == IInv /\ [Next]_vars => IInv'
<1>1. ASSUME IInv, Next PROVE IInv'
  <2>1. ASSUME NEW c \in Calls, NEW u \in Users, NEW k \in ClientIds \cup {None},
               SendMessage(c, u, k)
        PROVE  IInv'
    BY <1>1, <2>1, SendKeeps
  <2>2. ASSUME NEW c \in Calls, NEW u \in Readers, NEW scope \in {"inbox", "archived"},
               ListMyConversations(c, u, scope) \/ ListMessages(c, u) \/ MarkRead(c, u)
        PROVE  IInv'
    <3>1. u \in Users /\ "delivered" \in WorkStatus
      BY MessagingAssumption DEF WorkStatus
    <3> QED BY <1>1, <2>2, <3>1, PollsKeep
  <2>3. ASSUME NEW c \in Calls, NEW to \in WorkStatus, OnEngagementStatusChanged(c, to)
        PROVE  IInv'
    <3>1. PICK u \in Users : TRUE
      BY MessagingAssumption
    <3> QED BY <1>1, <2>3, <3>1, PollsKeep
  <2>4. ASSUME NEW c \in Calls,
               \/ CreateMessage(c) \/ UpdateConversationPreview(c) \/ CountUserMessages(c)
               \/ NotifyPeer(c) \/ MarkParticipantDelivered(c) \/ MarkParticipantRead(c)
        PROVE  IInv'
    BY <1>1, <2>4, CreateKeeps, PreviewKeeps, CountKeeps, NotifyKeeps, WatermarksKeep
  <2>5. ASSUME \/ EndConnection \/ Tick
               \/ \E u \in Readers : \/ ArchiveForParticipant(u) \/ UnarchiveForParticipant(u)
                                     \/ SoftDeleteForParticipant(u)
        PROVE  IInv'
    BY <1>1, <2>5, FilingKeeps, MessagingAssumption
  <2>6. \/ \E c \in Calls, u \in Users, k \in ClientIds \cup {None} : SendMessage(c, u, k)
        \/ \E c \in Calls, u \in Readers, scope \in {"inbox", "archived"} :
             ListMyConversations(c, u, scope) \/ ListMessages(c, u) \/ MarkRead(c, u)
        \/ \E c \in Calls, to \in WorkStatus : OnEngagementStatusChanged(c, to)
        \/ \E c \in Calls :
             \/ CreateMessage(c) \/ UpdateConversationPreview(c) \/ CountUserMessages(c)
             \/ NotifyPeer(c) \/ MarkParticipantDelivered(c) \/ MarkParticipantRead(c)
        \/ \E u \in Readers : \/ ArchiveForParticipant(u) \/ UnarchiveForParticipant(u)
                              \/ SoftDeleteForParticipant(u)
        \/ EndConnection \/ Tick
    BY <1>1 DEF Next
  <2> QED BY <2>1, <2>2, <2>3, <2>4, <2>5, <2>6
<1>2. ASSUME IInv, UNCHANGED vars PROVE IInv'
  <2>1. UNCHANGED <<type, standing, messages, previewAt, readAt, deliveredAt, archived, deleted,
                    notices, answers, clock, call>>
    BY <1>2 DEF vars, chat, inbox
  <2>2. RestTyped' /\ ReadIsDelivered'
    BY <1>2, <2>1, TypeParts DEF IInv, RestTyped, ReadIsDelivered
  <2> QED BY <1>2, <2>1, <2>2, SlotsStay, RestKeeps
<1> QED BY <1>1, <1>2

----
\* Every answer to sends of one client id names the same message, the sender's own.
THEOREM RepeatsGetTheirMessage == Spec => []RepeatsAnsweredWithOriginal
<1>1. IInv => RepeatsAnsweredWithOriginal
  <2> SUFFICES ASSUME IInv, NEW a \in answers, NEW b \in answers, a.cid = b.cid
      PROVE  a.id = b.id /\ \E m \in WithClientId(a.cid) : m.id = a.id /\ m.from = a.who
    BY DEF RepeatsAnsweredWithOriginal
  <2>1. PICK m \in messages : m.cid = a.cid /\ m.id = a.id /\ m.from = a.who
    BY DEF IInv, AnswersOK
  <2>2. PICK n \in messages : n.cid = b.cid /\ n.id = b.id
    BY DEF IInv, AnswersOK
  <2>3. a.cid # None /\ m = n
    BY <2>1, <2>2 DEF IInv, AnswersOK, UniqueClientIds
  <2> QED BY <2>1, <2>2, <2>3 DEF WithClientId
<1> QED BY InitInv, InvStep, <1>1, PTL DEF Spec

\* The start of a conversation is announced at most once, however many first messages there
\* are at once.
THEOREM AnnouncedOnce == Spec => []StartAnnouncedAtMostOnce
<1>1. IInv => StartAnnouncedAtMostOnce
  BY DEF IInv, Announced
<1> QED BY InitInv, InvStep, <1>1, PTL DEF Spec

\* Read implies delivered, and the sender's receipt agrees with the recipient's badge.
THEOREM ReceiptsAlwaysAgree == Spec => []ReceiptsAgree
<1>1. IInv => ReceiptsAgree
  <2> SUFFICES ASSUME IInv, NEW m \in UserMessages
      PROVE  (ReceiptStatus(m) = "read") <=> ~Unread(Peer(m.from), m)
    BY DEF IInv, ReceiptsAgree, ReceiptMatchesUnread
  <2>1. m.from \in Users /\ m.from # None /\ m.at \in Nat
    BY DEF UserMessages, IInv, TypeOK, Message, Times
  <2>2. Peer(m.from) \in Users /\ Peer(m.from) # m.from /\ readAt[Peer(m.from)] \in Nat
    BY <2>1, Peers DEF IInv, TypeOK, Times
  <2> QED BY <2>1, <2>2 DEF ReceiptStatus, Unread
<1> QED BY InitInv, InvStep, <1>1, PTL DEF Spec

----
\* The ids of a walk's pages.
Shown == {pager.seen[i] : i \in DOMAIN pager.seen}
PagerType ==
  [who : Users \cup {None}, before : Nat \X Nat, seen : Seq(Ids), had : SUBSET Ids,
   more : BOOLEAN]
UniqueIds == \A m, n \in messages : m.id = n.id => m = n
NoneTwice == \A i, j \in DOMAIN pager.seen : pager.seen[i] = pager.seen[j] => i = j

\* What was there at the start was shown already, or is older than the cursor and will
\* be, and not when the walk is over; nothing that was shown is older than the cursor.
WalkOK ==
  /\ pager \in PagerType /\ UniqueIds /\ NoneTwice
  /\ pager.who = None => pager = NoPage
  /\ pager.had \cup Shown \subseteq {m.id : m \in messages}
  /\ \A m \in messages :
       /\ m.id \in pager.had => m.id \in Shown \/ (pager.more /\ Before(Key(m), pager.before))
       /\ m.id \in Shown => ~Before(Key(m), pager.before)

\* Keys are pairs of numbers, each message's own.
LEMMA MessageKeys ==
  ASSUME TypeOK, NEW m \in messages
  PROVE  /\ m.at \in Nat /\ m.at <= MaxTime /\ m.id \in Nat /\ m.id \in Ids
         /\ Key(m) \in Nat \X Nat /\ Key(m)[1] = m.at /\ Key(m)[2] = m.id
BY MessagingAssumption DEF TypeOK, Message, Key, Times, Ids

\* A page: the newest of what is older than the cursor is shown and becomes the cursor.
LEMMA PageWalk ==
  ASSUME IInv, WalkOK, NEW c \in Calls, NEW u \in Users, ListMessages(c, u)
  PROVE  WalkOK'
<1> DEFINE older == Older(pager.before)
           had == {n.id : n \in messages}
<1>1. UNCHANGED messages /\ UniqueIds'
  BY DEF ListMessages, WalkOK, UniqueIds
<1>2. CASE older = {} /\ pager' = [pager EXCEPT !.who = u, !.more = FALSE]
  <2>1. /\ pager' \in PagerType /\ pager'.who = u
        /\ pager'.seen = pager.seen /\ pager'.had = pager.had /\ pager'.before = pager.before
    BY <1>2 DEF WalkOK, PagerType
  <2>2. \A m \in messages : ~Before(Key(m), pager.before)
    BY <1>2 DEF Older
  <2>3. QED
    BY <1>1, <2>1, <2>2, Peers DEF WalkOK, Shown, NoneTwice
<1>3. ASSUME NEW m \in older, Newest(m, older),
             pager' = [who |-> u, before |-> Key(m), seen |-> Append(pager.seen, m.id),
                       had |-> IF pager.who = None THEN had ELSE pager.had,
                       more |-> Cardinality(older) > 1]
      PROVE  WalkOK'
  <2>1. m \in messages /\ Before(Key(m), pager.before)
    BY DEF Older
  <2>2. had \subseteq Ids
    BY MessageKeys DEF IInv
  <2>3. /\ pager'.seen = Append(pager.seen, m.id) /\ pager'.before = Key(m) /\ pager'.who = u
        /\ pager'.had = (IF pager.who = None THEN had ELSE pager.had)
        /\ pager'.more = (Cardinality(older) > 1)
    BY <1>3
  <2>4. pager' \in PagerType
    BY <1>3, <2>1, <2>2, MessageKeys DEF WalkOK, PagerType, IInv
  <2>5. pager.seen \in Seq(Ids) /\ pager.before \in Nat \X Nat
    BY DEF WalkOK, PagerType
  <2>6. Shown' = Shown \cup {m.id} /\ m.id \notin Shown
    <3>1. m.id \notin Shown
      BY <2>1 DEF WalkOK
    <3>2. m.id \in Ids
      BY <2>1, <2>2
    <3>3. QED
      BY <2>3, <2>5, <3>1, <3>2 DEF Shown
  <2>7. NoneTwice'
    BY <2>1, <2>3, <2>5, <2>6 DEF NoneTwice, WalkOK, Shown
  <2>8. \A n \in messages : n # m /\ Before(Key(n), pager.before) => Before(Key(n), Key(m))
    BY <1>3, <2>1, MessageKeys DEF Newest, Older, Before, IInv, Key
  <2>9. \A n \in messages : Before(Key(n), Key(m)) => Before(Key(n), pager.before) /\ n # m
    BY <2>1, <2>5, MessageKeys DEF Before, IInv
  <2>10. (pager'.had \cup Shown') \subseteq {n.id : n \in messages'}
    BY <1>1, <2>1, <2>3, <2>6 DEF WalkOK
  <2>11. ASSUME NEW n \in messages, n.id \in pager'.had
         PROVE  n.id \in Shown' \/ (pager'.more /\ Before(Key(n), pager'.before))
    <3>1. n.id \in Shown \/ Before(Key(n), pager.before)
      <4>1. CASE pager.who = None
        <5>1. pager.before = <<MaxTime + 1, 0>>
          BY <4>1 DEF WalkOK, NoPage
        <5>2. Key(n)[1] \in Nat /\ Key(n)[1] <= MaxTime
          BY MessageKeys DEF IInv
        <5>3. QED
          BY <5>1, <5>2, MessagingAssumption DEF Before
      <4>2. CASE pager.who # None
        BY <2>3, <2>11, <4>2 DEF WalkOK
      <4>3. QED
        BY <4>1, <4>2
    <3>2. CASE n = m \/ n.id \in Shown
      BY <2>6, <3>2
    <3>3. CASE n # m /\ Before(Key(n), pager.before)
      <4>1. Cardinality(older) > 1
        <5>1. IsFiniteSet(older) /\ {m, n} \subseteq older
          BY <3>3, <2>1, FS_Subset DEF Older, IInv
        <5>2. Cardinality(older) \in Nat /\ Cardinality(older) # 0 /\ Cardinality(older) # 1
          BY <3>3, <5>1, FS_EmptySet, FS_Singleton, FS_CardinalityType
        <5>3. QED
          BY <5>2
      <4>2. QED
        BY <2>3, <2>8, <3>3, <4>1
    <3>4. QED
      BY <3>1, <3>2, <3>3
  <2>12. ASSUME NEW n \in messages, n.id \in Shown' PROVE ~Before(Key(n), pager'.before)
    BY <2>1, <2>3, <2>6, <2>9, <2>12 DEF WalkOK, UniqueIds
  <2>13. QED
    BY <1>1, <2>3, <2>4, <2>7, <2>10, <2>11, <2>12, Peers DEF WalkOK
<1>4. QED
  BY <1>2, <1>3 DEF ListMessages

\* A message sent between two pages has an id of its own: the walk does not miss it, for it
\* was not there at the start.
LEMMA NewMessage ==
  ASSUME IInv, WalkOK, NEW c \in Calls, NEW id \in Ids, AppendMessage(c, id), UNCHANGED pager
  PROVE  WalkOK'
<1>1. PICK m : m.id = id /\ messages' = messages \cup {m} /\ \A n \in messages : n.id # id
  BY DEF AppendMessage
<1>2. UniqueIds'
  BY <1>1 DEF WalkOK, UniqueIds
<1>3. id \notin pager.had \cup Shown
  BY <1>1 DEF WalkOK
<1>4. QED
  BY <1>1, <1>2, <1>3 DEF WalkOK, Shown, NoneTwice

\* Only a page and a new message concern a walk.
LEMMA WalkInductive ==
  /\ Init => WalkOK
  /\ IInv /\ WalkOK /\ [Next]_vars => WalkOK'
<1>1. ASSUME Init PROVE WalkOK
  BY <1>1, MessagingAssumption DEF Init, WalkOK, NoPage, PagerType, UniqueIds, NoneTwice, Shown
<1>2. ASSUME IInv, WalkOK, [Next]_vars PROVE WalkOK'
  <2>1. CASE UNCHANGED <<messages, pager>>
    BY <1>2, <2>1 DEF WalkOK, Shown, NoneTwice, UniqueIds
  <2>2. ASSUME NEW c \in Calls, NEW u \in Users, ListMessages(c, u) PROVE WalkOK'
    BY <1>2, <2>2, PageWalk
  <2>3. ASSUME NEW c \in Calls, CreateMessage(c) PROVE WalkOK'
    BY <1>2, <2>1, <2>3, NewMessage DEF CreateMessage
  <2>4. QED
    BY <1>2, <2>1, <2>2, <2>3, MessagingAssumption
    DEF Next, vars, SendMessage, UpdateConversationPreview, CountUserMessages, NotifyPeer,
        OnEngagementStatusChanged, EndConnection, ListMyConversations, MarkParticipantDelivered,
        MarkRead, MarkParticipantRead, ArchiveForParticipant, UnarchiveForParticipant,
        SoftDeleteForParticipant, Tick
<1>3. QED
  BY <1>1, <1>2

\* Whoever walks the thread to its end is shown every message of the start, each once,
\* however many arrive between the pages and however many share a time.
THEOREM PagesAreWhole == Spec => []PagesMissNothing
<1>1. WalkOK => PagesMissNothing
  BY DEF WalkOK, NoneTwice, PagesMissNothing, Shown
<1>2. QED
  BY <1>1, WalkInductive, InitInv, InvStep, PTL DEF Spec
====
