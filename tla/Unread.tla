---- MODULE Unread ----
(***************************************************************************)
(* The unread dot of one work request: its updated_at against when each    *)
(* party last viewed it (prisma-marketplace.repository.ts).  A write by    *)
(* one party stamps that party's view, and the ORM stamps updated_at a     *)
(* little later; both are stamps of the time before the commit.  Opening   *)
(* the request stamps a view in the database and leaves updated_at alone.  *)
(*                                                                         *)
(* Time counts milliseconds in which something happens: no two stamps of   *)
(* different calls are equal, and the clocks of the hosts agree.           *)
(***************************************************************************)
EXTENDS Naturals, Slots

CONSTANTS MaxStamp    \* bound on time

ASSUME UnreadAssumption == MaxStamp \in Nat

Sides == {"sender", "recipient"}
OtherSide(s) == CHOOSE o \in Sides : o # s

VARIABLES
  nowStamp,
  dot,        \* the row: updated_at and the two last_viewed_at; updated 0 before it exists
  owed,       \* history: a change of the other side, and no view was stamped since its stamp
  caughtUp    \* history: the side opened the request, and nothing was committed since

unreadVars == <<nowStamp, dot, owed, caughtUp>>

UnreadInit ==
  /\ nowStamp = 0
  /\ dot = [updated |-> 0, viewed |-> [s \in Sides |-> 0]]
  /\ owed = [s \in Sides |-> FALSE] /\ caughtUp = [s \in Sides |-> FALSE]

\* The flag of fromEntity, and the rows that countUnreadWorkRequests counts.
IsUnread(s) == dot.viewed[s] = 0 \/ dot.updated > dot.viewed[s]
CountsAsUnread(s) == dot.updated > dot.viewed[s]

\* A view stamped by one side crosses the writes of the other that are under way.
Crossed(s) ==
  [c \in Calls |-> IF call[c].step = "writeRequest" /\ call[c].side # s
                   THEN [call[c] EXCEPT !.crossed = TRUE] ELSE call[c]]

\* createWorkRequest, updateWorkRequest, the acceptance and the withdrawal take their stamps:
\* the actor's view, and updated_at at that time or the next.  A listing that closes rejects
\* the request with no view stamped at all.
TakeStamps(c, s, views) ==
  /\ call[c] = Idle /\ nowStamp + 2 <= MaxStamp
  /\ dot.updated = 0 => s = "sender" /\ views /\ \A d \in Calls : call[d] = Idle
  /\ \E lag \in {0, 1} :
       /\ nowStamp' = nowStamp + 1 + lag
       /\ call' = [IF views THEN Crossed(s) ELSE call
                   EXCEPT ![c] = [step |-> "writeRequest", side |-> s, views |-> views,
                                  stamp |-> nowStamp + 1, updated |-> nowStamp + 1 + lag,
                                  crossed |-> FALSE]]
  /\ UNCHANGED <<dot, owed, caughtUp>>
UpdateRequest(c, s) == TakeStamps(c, s, TRUE)
RejectOnClosedListing(c) == TakeStamps(c, "recipient", FALSE)

\* The sides whose view a write stamps.
ViewsOfBoth(k) == IF k.views THEN Sides ELSE {}
ViewsOf(k) == IF k.views THEN {k.side} ELSE {}

CommitWrite(c) ==
  LET k == call[c]  o == OtherSide(k.side) IN
  /\ At(c, "writeRequest")
  /\ dot' = [updated |-> k.updated,
             viewed |-> [s \in Sides |-> IF s \in ViewsOf(k) THEN k.stamp ELSE dot.viewed[s]]]
  /\ owed' = [owed EXCEPT ![o] = ~k.crossed, ![k.side] = FALSE]
  /\ caughtUp' = [s \in Sides |-> FALSE]
  /\ Finish(c) /\ UNCHANGED nowStamp

\* markWorkRequestViewed: a statement of its own, which answers with the row.
UpdatedByOrm(t) == t
UpdatedByView(t) == dot.updated
MarkWorkRequestViewed(s) ==
  /\ dot.updated > 0 /\ nowStamp < MaxStamp
  /\ nowStamp' = nowStamp + 1
  /\ dot' = [updated |-> UpdatedByView(nowStamp + 1),
             viewed |-> [dot.viewed EXCEPT ![s] = nowStamp + 1]]
  /\ owed' = [owed EXCEPT ![s] = FALSE] /\ caughtUp' = [caughtUp EXCEPT ![s] = TRUE]
  /\ call' = Crossed(s)

UnreadNext ==
  \/ \E s \in Sides : MarkWorkRequestViewed(s)
  \/ \E c \in Calls :
       \/ RejectOnClosedListing(c) \/ CommitWrite(c)
       \/ \E s \in Sides : UpdateRequest(c, s)

----
\* "Only the other side is unread": a change shows as unread to the other party until it views
\* the request, unless a view was stamped while the change was being written; and who has
\* opened the request is not told again, by the other's view or by its own, until it changes.
\* The flag of the request and the count in the summary always agree.
UnreadIsUnseen ==
  \A s \in Sides :
    /\ owed[s] => IsUnread(s)
    /\ caughtUp[s] => ~IsUnread(s)
    /\ dot.updated > 0 => (IsUnread(s) <=> CountsAsUnread(s))
====
