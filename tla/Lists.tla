---- MODULE Lists ----
(***************************************************************************)
(* The lists that are read page by page with a keyset cursor: the likes    *)
(* and comments of a post, the posts of a user, saved services, and the    *)
(* users, disputes and account actions that staff look at.  Rows have a    *)
(* time, which they may share, and an id; between pages rows appear and    *)
(* disappear, and a like taken back and given again, or a dispute that is  *)
(* written to, has the id it had and a new time.  The feed, which mixes    *)
(* two lists, is the module Feed.                                          *)
(***************************************************************************)
EXTENDS Feed

CONSTANTS
  RowIds,      \* numbers, drawn in any order
  PageLimit    \* rows per page

ASSUME ListsAssumption ==
  RowIds \subseteq Nat /\ IsFiniteSet(RowIds) /\ PageLimit \in Nat \ {0}

VARIABLES
  list,     \* the list's kind, and its rows
  reader    \* the walk: the cursor, what was shown, what was there at the start

walking == <<list, reader>>

Kinds == {"likes", "comments", "posts of a user", "saved services", "account actions", "users",
          "disputes"}
NoReader == [on |-> FALSE, ended |-> FALSE, changes |-> 0, cursor |-> NoCursor,
             shown |-> <<>>, had |-> {}]

ListsInit == list = [kind |-> "none", rows |-> {}] /\ reader = NoReader

\* Before the walk, rows of any ids.
FillList ==
  /\ list.kind = "none"
  /\ \E kind \in Kinds, ids \in SUBSET RowIds : \E at \in [ids -> Times] :
       list' = [kind |-> kind, rows |-> {[id |-> i, at |-> at[i]] : i \in ids}]
  /\ UNCHANGED reader

----
\* Comments are read in the order of the conversation, everything else newest first.
OldestFirst(p, q) == p.at < q.at \/ (p.at = q.at /\ p.id < q.id)
NewestFirst(p, q) == p.at > q.at \/ (p.at = q.at /\ p.id > q.id)
Follows(kind, p, q) == IF kind = "comments" THEN OldestFirst(p, q) ELSE NewestFirst(p, q)

\* The query: rows after the cursor (saveKeyset and its like), one more than a page has.
AfterCursor(p) == reader.on => Follows(list.kind, reader.cursor, p)
RowsToTakePage == PageLimit
RowsToTake == PageLimit + 1
Preceding(rows) == [p \in rows |-> {q \in rows : Follows(list.kind, q, p)}]
Query ==
  LET rows == {p \in list.rows : AfterCursor(p)}
  IN FirstOf(RowsToTake, InOrder(rows, Preceding(rows)))

\* One page; the additional row says hasMore, and the last row shown is the next cursor.
NextPage(kind) ==
  LET rows == Query
      more == Len(rows) > PageLimit
      page == FirstOf(PageLimit, rows)
  IN /\ list.kind = kind /\ ~reader.ended
     /\ reader' = [reader EXCEPT !.on = TRUE, !.ended = ~more, !.shown = @ \o page,
                                 !.cursor = IF page = <<>> THEN @ ELSE page[Len(page)],
                                 !.had = IF reader.on THEN @ ELSE list.rows]
     /\ UNCHANGED list

ListLikes == NextPage("likes")
ListComments == NextPage("comments")
ListUserPosts == NextPage("posts of a user")
ListSavedServices == NextPage("saved services")
ListAccountActions == NextPage("account actions")
SearchUsers == NextPage("users")
ListDisputes == NextPage("disputes")

\* Between pages (bound: MaxChanges) a row disappears, which account actions never do: a like
\* or save is taken back, a comment or post deleted or hidden, a service withdrawn, a
\* dispute resolved.  Or one appears, at the latest time.
Changing == reader.on /\ ~reader.ended /\ reader.changes < MaxChanges
RemoveRow ==
  /\ Changing /\ list.kind # "account actions"
  /\ \E p \in list.rows :
       /\ list' = [list EXCEPT !.rows = @ \ {p}]
       /\ reader' = [reader EXCEPT !.changes = @ + 1, !.had = @ \ {p}]
AddRow ==
  /\ Changing
  /\ \E i \in RowIds \ {p.id : p \in list.rows} : \E at \in Times :
       /\ \A t \in Times : t <= at
       /\ list' = [list EXCEPT !.rows = @ \cup {[id |-> i, at |-> at]}]
  /\ reader' = [reader EXCEPT !.changes = @ + 1]

ListsNext ==
  \/ FillList \/ RemoveRow \/ AddRow
  \/ ListLikes \/ ListComments \/ ListUserPosts \/ ListSavedServices \/ ListAccountActions
  \/ SearchUsers \/ ListDisputes

----
\* Whoever walks a list to its end is shown each row of the start that was there throughout,
\* and none twice, whatever appears and disappears between the pages and however many rows
\* share a creation time.
ListsMissNothing ==
  /\ \A i, j \in DOMAIN reader.shown : reader.shown[i] = reader.shown[j] => i = j
  /\ reader.ended => reader.had \subseteq {reader.shown[i] : i \in DOMAIN reader.shown}

\* Nobody who walks the feed or a list to its end misses a row that was there throughout, or
\* meets one twice (one cursor per pool or list, compared by time and then by id).
PagesLoseNothing == FeedMissesNothing /\ ListsMissNothing
====
