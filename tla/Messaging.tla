---- MODULE Messaging ----
(***************************************************************************)
(* One conversation of two participants after it was opened:               *)
(* messaging.service.ts over prisma-messaging.repository.ts.  A send, a    *)
(* poll of the inbox, a poll of the thread and a mark-read are calls that  *)
(* read first and write later, one database call per step; they overlap.   *)
(* No step is ever forced, so a call lost in a crash is one that stays     *)
(* where it is.                                                            *)
(*                                                                         *)
(* Time is a clock that may stand still between two writes: rows can carry *)
(* the same creation time, as rows of one millisecond do.  Attachments are *)
(* the subject of Records; the opening of the conversation is in Payments  *)
(* and Connections.  A definition followed by its correct form is a slip   *)
(* that some property excludes.                                            *)
(***************************************************************************)
EXTENDS Naturals, Sequences, FiniteSets

CONSTANTS
  Users,       \* the two participants
  ClientIds,   \* clientMessageIds a client may send (and repeat)
  MaxId,       \* message ids are 1..MaxId, drawn in any order
  Calls,       \* slots for the API calls in flight
  MaxTime,     \* how far the clock runs
  Readers,     \* the participants who poll, read and file the conversation (all may send)
  None

ASSUME MessagingAssumption ==
  /\ \E u, p \in Users : u # p /\ Users = {u, p}
  /\ None \notin Users \cup ClientIds
  /\ Readers \subseteq Users
  /\ MaxId \in Nat /\ MaxTime \in Nat \ {0}

VARIABLES
  type,         \* connection or work
  standing,     \* status of the connection or of the engagement behind it
  messages,     \* the rows: id, creation time, sender (None: system), client id
  previewAt,    \* last_message_at, 0 for null
  readAt,       \* last_read_at of each participant
  deliveredAt,  \* last_delivered_at of each participant
  archived,     \* participants with archived_at
  deleted,      \* participants with deleted_at
  notices,      \* conversation_started notifications, by recipient
  answers,      \* what sends answered: who, client id, message id
  pager,        \* a participant walking back through the thread
  clock, call

inbox == <<readAt, deliveredAt, archived, deleted>>
chat == <<type, standing>>
vars == <<chat, messages, previewAt, inbox, notices, answers, pager, clock, call>>

Ids == 1..MaxId
Times == 0..MaxTime
WorkStatus == {"in_progress", "delivered", "disputed", "completed", "cancelled"}
WritableWorkStatuses == {"in_progress", "delivered", "disputed"}
Message == [id : Ids, at : Times, from : Users \cup {None}, cid : ClientIds \cup {None}]

Writable == IF type = "connection" THEN standing = "active"
                                   ELSE standing \in WritableWorkStatuses
Peer(u) == CHOOSE p \in Users : p # u
UserMessages == {m \in messages : m.from # None}
WithClientId(k) == {m \in messages : k # None /\ m.cid = k}

\* A call: its step, the caller, the client id sent, the time and the message it carries.
CallOf(step, u, k, at) == [step |-> step, who |-> u, cid |-> k, at |-> at, msg |-> 0]
Idle == CallOf("idle", None, None, 0)
Begin(c, k) == call[c] = Idle /\ call' = [call EXCEPT ![c] = k]
Goto(c, step) == call' = [call EXCEPT ![c].step = step]
Finish(c) == call' = [call EXCEPT ![c] = Idle]

NoPage == [who |-> None, before |-> <<MaxTime + 1, 0>>, seen |-> <<>>, had |-> {}, more |-> FALSE]

Init ==
  /\ \/ type = "connection" /\ standing = "active"
     \/ type = "work" /\ standing = "in_progress"
  /\ messages = {} /\ previewAt = 0
  /\ readAt = [u \in Users |-> 0] /\ deliveredAt = [u \in Users |-> 0]
  /\ archived = {} /\ deleted = {}
  /\ notices = [u \in Users |-> 0]
  /\ answers = {}
  /\ pager = NoPage
  /\ clock = 1
  /\ call = [c \in Calls |-> Idle]

----
\* The answer a send gives: the message it created, or the one its client id names (kept
\* here for the sends that have a client id).
Answers(u, k, id) == {[who |-> u, cid |-> k, id |-> id] : j \in {k} \ {None}}
Answer(c, id) == answers' = answers \cup Answers(call[c].who, call[c].cid, id)

\* The bound on the messages: an insert is begun while there are ids.
IdsLeft == Cardinality(messages) < MaxId

\* sendMessage, up to the lookup by client id: a used id is answered at once with the
\* sender's own message, and refused when it is the other party's.
SendMessage(c, u, k) ==
  /\ Writable
  /\ \/ /\ WithClientId(k) = {} /\ IdsLeft
        /\ Begin(c, CallOf("insert", u, k, 0))
        /\ UNCHANGED answers
     \/ \E m \in WithClientId(k) :
          /\ m.from = u
          /\ answers' = answers \cup Answers(u, k, m.id)
          /\ UNCHANGED call
  /\ UNCHANGED <<chat, messages, previewAt, inbox, notices, pager, clock>>

\* Rows the unique (conversation, client id) index sets against an insert.
ClashesNever(k) == {}
Clashes(k) == WithClientId(k)

AppendMessage(c, id) ==
  /\ id \notin {m.id : m \in messages}
  /\ messages' = messages \cup
       {[id |-> id, at |-> clock, from |-> call[c].who, cid |-> call[c].cid]}
  /\ call' = [call EXCEPT ![c].step = "preview", ![c].at = clock, ![c].msg = id]

\* createMessage; a lost race on the client id is answered like the lookup.
CreateMessage(c) ==
  /\ call[c].step = "insert"
  /\ \/ /\ Clashes(call[c].cid) = {}
        /\ \E id \in Ids : AppendMessage(c, id)
        /\ UNCHANGED answers
     \/ \E m \in Clashes(call[c].cid) :
          /\ IF m.from = call[c].who THEN Answer(c, m.id) ELSE UNCHANGED answers
          /\ Finish(c)
          /\ UNCHANGED messages
  /\ UNCHANGED <<chat, previewAt, inbox, notices, pager, clock>>

\* updateConversationPreview, whatever the preview has become meanwhile.
UpdateConversationPreview(c) ==
  /\ call[c].step = "preview"
  /\ previewAt' = call[c].at
  /\ IF type = "connection" /\ call[c].who # None
     THEN Goto(c, "count") /\ UNCHANGED answers
     ELSE /\ Finish(c)
          /\ IF call[c].who = None THEN UNCHANGED answers ELSE Answer(c, call[c].msg)
  /\ UNCHANGED <<chat, messages, inbox, notices, pager, clock>>

\* Whether the send opened the conversation, from a count taken after its insert.
IsFirstOfSender(u) == Cardinality({m \in UserMessages : m.from = u}) <= 1
IsFirstMessage(u) == Cardinality(UserMessages) <= 1

\* countUserMessages.
CountUserMessages(c) ==
  /\ call[c].step = "count"
  /\ IF IsFirstMessage(call[c].who) THEN Goto(c, "notify") /\ UNCHANGED answers
                                    ELSE Finish(c) /\ Answer(c, call[c].msg)
  /\ UNCHANGED <<chat, messages, previewAt, inbox, notices, pager, clock>>

\* createNotification for the peer.
NotifyPeer(c) ==
  /\ call[c].step = "notify"
  /\ notices' = [notices EXCEPT ![Peer(call[c].who)] = @ + 1]
  /\ Finish(c) /\ Answer(c, call[c].msg)
  /\ UNCHANGED <<chat, messages, previewAt, inbox, pager, clock>>

----
\* The marketplace moves the engagement, then onEngagementStatusChanged adds a system line
\* for a delivery, a dispute and a completion (a cancellation and a revision add none).
Moves == {<<"in_progress", "delivered">>, <<"in_progress", "cancelled">>,
          <<"delivered", "in_progress">>, <<"delivered", "disputed">>,
          <<"delivered", "completed">>, <<"disputed", "completed">>,
          <<"disputed", "cancelled">>}
OnEngagementStatusChanged(c, to) ==
  /\ type = "work" /\ <<standing, to>> \in Moves
  /\ standing' = to
  /\ IF to \in {"delivered", "disputed", "completed"}
     THEN IdsLeft /\ Begin(c, CallOf("insert", None, None, 0))
     ELSE call[c] = Idle /\ UNCHANGED call
  /\ UNCHANGED <<type, messages, previewAt, inbox, notices, answers, pager, clock>>

\* The connection ends: its conversation becomes read-only.
EndConnection ==
  /\ type = "connection" /\ standing = "active" /\ standing' = "ended"
  /\ UNCHANGED <<type, messages, previewAt, inbox, notices, answers, pager, clock, call>>

----
\* listMyConversations lists the conversation in one scope and will mark it delivered up
\* to the last message of the listing.
InScope(u, scope) == u \notin deleted /\ (u \in archived <=> scope = "archived")
ListMyConversations(c, u, scope) ==
  /\ InScope(u, scope) /\ previewAt # 0
  /\ Begin(c, CallOf("deliver", u, None, previewAt))
  /\ UNCHANGED <<chat, messages, previewAt, inbox, notices, answers, pager, clock>>

\* Rows before a cursor, newest first: by creation time, then by id.
BeforeByTime(p, q) == p[1] < q[1]
Before(p, q) == p[1] < q[1] \/ (p[1] = q[1] /\ p[2] < q[2])
Key(m) == <<m.at, m.id>>
Older(cursor) == {m \in messages : Before(Key(m), cursor)}

\* One page of the thread: here a page is one message (limit 1), and there is a next page
\* when the query for limit + 1 rows finds one more.
Newest(m, S) == \A n \in S \ {m} : m.at > n.at \/ (m.at = n.at /\ m.id > n.id)

\* listMessages from the newest message or from the cursor of the last page; an incoming
\* message on the page will be marked delivered.  An empty page ends the walk.
ListMessages(c, u) ==
  /\ \/ pager.who = None
     \/ pager.who = u /\ pager.more
  /\ LET older == Older(pager.before)  had == {n.id : n \in messages} IN
     \/ /\ older = {}
        /\ pager' = [pager EXCEPT !.who = u, !.more = FALSE]
        /\ call[c] = Idle /\ UNCHANGED call
     \/ \E m \in older :
          /\ Newest(m, older)
          /\ pager' = [who |-> u, before |-> Key(m), seen |-> Append(pager.seen, m.id),
                       had |-> IF pager.who = None THEN had ELSE pager.had,
                       more |-> Cardinality(older) > 1]
          /\ IF m.from \in {u, None} THEN call[c] = Idle /\ UNCHANGED call
                                     ELSE Begin(c, CallOf("deliver", u, None, m.at))
  /\ UNCHANGED <<chat, messages, previewAt, inbox, notices, answers, clock>>

\* markParticipantDelivered only raises the watermark.
MarkParticipantDelivered(c) ==
  /\ call[c].step = "deliver"
  /\ deliveredAt' = [deliveredAt EXCEPT ![call[c].who] = IF @ < call[c].at THEN call[c].at ELSE @]
  /\ Finish(c)
  /\ UNCHANGED <<chat, messages, previewAt, readAt, archived, deleted, notices, answers, pager,
                 clock>>

\* markRead takes the time first and writes it later.
MarkRead(c, u) ==
  /\ Begin(c, CallOf("read", u, None, clock))
  /\ UNCHANGED <<chat, messages, previewAt, inbox, notices, answers, pager, clock>>

\* markParticipantRead overwrites both watermarks: read implies delivered.
DeliveredByReadKept(u, at) == deliveredAt[u]
DeliveredByRead(u, at) == at
MarkParticipantRead(c) ==
  LET u == call[c].who IN
  /\ call[c].step = "read"
  /\ readAt' = [readAt EXCEPT ![u] = call[c].at]
  /\ deliveredAt' = [deliveredAt EXCEPT ![u] = DeliveredByRead(u, call[c].at)]
  /\ Finish(c)
  /\ UNCHANGED <<chat, messages, previewAt, archived, deleted, notices, answers, pager, clock>>

\* archiveConversationForMe, also run for a party who has reviewed the finished work
\* (archiveWorkConversationForReviewer); unarchiveConversationForMe; deleteConversationForMe.
ArchiveForParticipant(u) ==
  /\ archived' = archived \cup {u}
  /\ UNCHANGED <<chat, messages, previewAt, readAt, deliveredAt, deleted, notices, answers,
                 pager, clock, call>>
UnarchiveForParticipant(u) ==
  /\ archived' = archived \ {u}
  /\ UNCHANGED <<chat, messages, previewAt, readAt, deliveredAt, deleted, notices, answers,
                 pager, clock, call>>
SoftDeleteForParticipant(u) ==
  /\ archived' = archived \cup {u} /\ deleted' = deleted \cup {u}
  /\ UNCHANGED <<chat, messages, previewAt, readAt, deliveredAt, notices, answers, pager,
                 clock, call>>

Tick == /\ clock < MaxTime /\ clock' = clock + 1
        /\ UNCHANGED <<chat, messages, previewAt, inbox, notices, answers, pager, call>>

Next ==
  \/ \E c \in Calls, u \in Users, k \in ClientIds \cup {None} : SendMessage(c, u, k)
  \/ \E c \in Calls, u \in Readers :
       \/ \E scope \in {"inbox", "archived"} : ListMyConversations(c, u, scope)
       \/ ListMessages(c, u) \/ MarkRead(c, u)
  \/ \E c \in Calls :
       \/ CreateMessage(c) \/ UpdateConversationPreview(c) \/ CountUserMessages(c)
       \/ NotifyPeer(c) \/ MarkParticipantDelivered(c) \/ MarkParticipantRead(c)
       \/ \E to \in WorkStatus : OnEngagementStatusChanged(c, to)
  \/ \E u \in Readers :
       ArchiveForParticipant(u) \/ UnarchiveForParticipant(u) \/ SoftDeleteForParticipant(u)
  \/ EndConnection \/ Tick

Spec == Init /\ [][Next]_vars

----
\* countUnreadForUser, for this conversation: a user message of the other party after
\* last_read_at; archived and deleted conversations do not count.
Unread(u, m) == m.from \notin {None, u} /\ m.at > readAt[u]
CountUnread(u) ==
  IF u \notin archived \cup deleted /\ \E m \in messages : Unread(u, m) THEN 1 ELSE 0

\* computeMessageReceiptStatus of a sender's own message, from the peer's watermarks.
ReceiptStatusStrict(m) ==
  IF readAt[Peer(m.from)] > m.at THEN "read"
  ELSE IF deliveredAt[Peer(m.from)] >= m.at THEN "delivered" ELSE "sent"
ReceiptStatus(m) ==
  IF readAt[Peer(m.from)] >= m.at THEN "read"
  ELSE IF deliveredAt[Peer(m.from)] >= m.at THEN "delivered" ELSE "sent"

----
Steps == {"idle", "insert", "preview", "count", "notify", "deliver", "read"}
CallType == [step : Steps, who : Users \cup {None}, cid : ClientIds \cup {None}, at : Times,
             msg : 0..MaxId]

\* Every variable keeps its type.
TypeOK ==
  /\ type \in {"connection", "work"} /\ standing \in WorkStatus \cup {"active", "ended"}
  /\ messages \subseteq Message
  /\ previewAt \in Times /\ clock \in Times
  /\ readAt \in [Users -> Times] /\ deliveredAt \in [Users -> Times]
  /\ archived \subseteq Users /\ deleted \subseteq Users
  /\ notices \in [Users -> Nat]
  /\ answers \subseteq [who : Users, cid : ClientIds, id : Ids]
  /\ call \in [Calls -> CallType]

\* A repeated send is answered with the message it created the first time: every send with
\* one client id that was answered named the same message, and that message is the
\* sender's own, in sendMessage's two lookups and through the lost race of createMessage.
RepeatsAnsweredWithOriginal ==
  \A a \in answers : \A b \in answers :
    a.cid = b.cid =>
      /\ a.id = b.id
      /\ \E m \in WithClientId(a.cid) : m.id = a.id /\ m.from = a.who

\* The start of a conversation is announced at most once, to one party, whichever of two
\* first messages counts first (sendMessage announces new conversations only).
StartAnnouncedAtMostOnce == \A u \in Users : notices[u] + notices[Peer(u)] <= 1

\* Read implies delivered, through overlapping polls and reads: the receipt of no message
\* can be read while its delivery is denied.
ReadIsDelivered == \A u \in Users : readAt[u] <= deliveredAt[u]

\* The sender's receipt and the recipient's badge agree: a message shows as read to its
\* sender exactly when it no longer counts as unread to the other party, for messages of
\* the same millisecond as the reading too.
ReceiptMatchesUnread ==
  \A m \in UserMessages : (ReceiptStatus(m) = "read") <=> ~Unread(Peer(m.from), m)

\* A party who walks the thread to its end has met every message that was there at the
\* start, each once, whatever was sent between the pages (listMessages' cursor).
PagesMissNothing ==
  /\ \A i, j \in DOMAIN pager.seen : pager.seen[i] = pager.seen[j] => i = j
  /\ pager.who # None /\ ~pager.more =>
       pager.had \subseteq {pager.seen[i] : i \in DOMAIN pager.seen}

\* Receipts and badges of both parties tell one story.
ReceiptsAgree == ReadIsDelivered /\ ReceiptMatchesUnread
====
