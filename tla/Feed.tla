---- MODULE Feed ----
(***************************************************************************)
(* A viewer walks the feed page by page: listFeed of posts.service.ts over *)
(* listPool of prisma-posts.repository.ts and feed-cursor.ts.  A page is   *)
(* mixed from two pools, posts of the viewer and of connections, and       *)
(* public posts of everybody else, and its cursor remembers a place in     *)
(* each.  Between pages posts appear and disappear, and the viewer is      *)
(* connected to their authors or disconnected from them: each page reads   *)
(* the connections anew, and a post changes its pool with its author.      *)
(***************************************************************************)
EXTENDS Ordered

CONSTANTS
  PostIds,   \* numbers, drawn in any order
  NewIds,    \* those of them that are published during the walk
  Times,     \* creation times; posts may share one
  FeedAuthors, \* the users other than the viewer, who is "self"
  AuthorOf,  \* who writes which post
  Limit,     \* posts per page
  Slack,     \* how many more a pool is read for (5 in the code)
  MaxChanges \* bound on the changes during a walk

ASSUME FeedAssumption ==
  /\ NewIds \subseteq PostIds /\ PostIds \subseteq Nat \ {0} /\ IsFiniteSet(PostIds)
  /\ Times \subseteq Nat /\ Limit \in Nat \ {0} /\ Slack \in Nat \ {0}
  /\ MaxChanges \in Nat
  /\ "self" \notin FeedAuthors /\ AuthorOf \in [PostIds -> FeedAuthors \cup {"self"}]

VARIABLES
  wall,    \* the posts that are not deleted
  peerIds, \* the authors the viewer is connected to
  walk     \* the viewer's walk: cursors, what was shown, what was there at the start, the ids
           \* that are not used yet, and the authors who were connected or disconnected since

feeding == <<wall, peerIds, walk>>

FeedPost == [id : PostIds, at : Times, to : {"public", "connections"}]

\* The pool a post is in for this viewer: the viewer's own and those of connections, public ones
\* of everybody else, or neither.  A page is made of rows: posts in the pools of that moment.
Pools == {"social", "discovery", "hidden"}
FromCircle(id) == AuthorOf[id] \in peerIds \cup {"self"}
PoolOf(p) ==
  IF FromCircle(p.id) THEN "social" ELSE IF p.to = "public" THEN "discovery" ELSE "hidden"
FeedRow == [id : PostIds, at : Times, pool : Pools]
FeedRowOf(p) == [id |-> p.id, at |-> p.at, pool |-> PoolOf(p)]
FeedRows == {FeedRowOf(p) : p \in wall}
Visible(p) == p.pool # "hidden"

NoCursor == [at |-> 0, id |-> 0]
NoWalk == [on |-> FALSE, ended |-> FALSE, social |-> NoCursor, discovery |-> NoCursor,
           shown |-> <<>>, had |-> {}, fresh |-> NewIds, moved |-> {}, changes |-> 0]

FeedInit == wall = {} /\ peerIds = {} /\ walk = NoWalk

\* Before the walk, a post of each other id, when it was made and for whom, and the connections.
PublishPosts ==
  /\ wall = {} /\ ~walk.on
  /\ \E at \in [PostIds \ NewIds -> Times],
        to \in [PostIds \ NewIds -> {"public", "connections"}] :
       wall' = {[id |-> i, at |-> at[i], to |-> to[i]] : i \in PostIds \ NewIds}
  /\ peerIds' \in SUBSET FeedAuthors
  /\ UNCHANGED walk

----
\* cursorWhere: by creation time, then by id, newest first.
Precedes(p, q) == p.at > q.at \/ (p.at = q.at /\ p.id > q.id)
AfterByTime(cursor, p) == cursor = NoCursor \/ cursor.at > p.at
After(cursor, p) == cursor = NoCursor \/ Precedes(cursor, p)

\* listPool: the next rows of a pool after its cursor.
Ahead(rows) == [p \in rows |-> {q \in rows : Precedes(q, p)}]
ListPool(pool, cursor) ==
  LET rows == {p \in pool : After(cursor, p)}
  IN FirstOf(Limit + Slack, InOrder(rows, Ahead(rows)))

SocialRows == ListPool({p \in FeedRows : p.pool = "social"}, walk.social)
DiscoveryRows == ListPool({p \in FeedRows : p.pool = "discovery"}, walk.discovery)

CeilTenths(n) == (n + 9) \div 10
SocialTarget == CeilTenths(7 * Limit)
DiscoveryTarget == (3 * Limit) \div 10

\* The mixing of listFeed: every fourth post comes from discovery if it may, the others from
\* the social pool if they may, and a pool may always go on when the other has ended.
MayTakeToTarget(taken, target, rows, otherTaken, otherTarget, other) ==
  taken < Len(rows) /\ taken < target
MayTake(taken, target, rows, otherTaken, otherTarget, other) ==
  /\ taken < Len(rows)
  /\ taken < target \/ otherTaken >= Len(other) \/ otherTaken >= otherTarget

Pick(socialRows, discoveryRows, m, slot) ==
  LET s == m.social  d == m.discovery
      social == MayTake(s, SocialTarget, socialRows, d, DiscoveryTarget, discoveryRows)
      discovery == MayTake(d, DiscoveryTarget, discoveryRows, s, SocialTarget, socialRows)
  IN IF discovery /\ (slot % 4 = 0 \/ ~social)
       THEN [m EXCEPT !.discovery = @ + 1, !.page = Append(@, discoveryRows[d + 1])]
     ELSE IF social THEN [m EXCEPT !.social = @ + 1, !.page = Append(@, socialRows[s + 1])]
     ELSE m
Mix(socialRows, discoveryRows) ==
  LET mixed[slot \in 0..Limit] ==
        IF slot = 0 THEN [social |-> 0, discovery |-> 0, page |-> <<>>]
        ELSE Pick(socialRows, discoveryRows, mixed[slot - 1], slot)
  IN mixed[Limit]

Cursor(rows, taken, cursor) ==
  IF taken = 0 THEN cursor ELSE [at |-> rows[taken].at, id |-> rows[taken].id]

\* One page, from the start or from the last cursor; the walk ends with hasMore false.
ListFeed ==
  LET social == SocialRows  discovery == DiscoveryRows  m == Mix(social, discovery) IN
  /\ ~walk.ended
  /\ walk' = [walk EXCEPT
       !.on = TRUE,
       !.ended = ~(/\ Len(m.page) >= Limit
                   /\ \/ m.social < Len(social) \/ m.discovery < Len(discovery)
                      \/ Len(social) = Limit + Slack \/ Len(discovery) = Limit + Slack),
       !.social = Cursor(social, m.social, @),
       !.discovery = Cursor(discovery, m.discovery, @),
       !.shown = @ \o m.page,
       !.had = IF walk.on THEN @ ELSE {p \in FeedRows : Visible(p)}]
  /\ UNCHANGED <<wall, peerIds>>

\* Between two pages a post is deleted, or a new one appears at the latest time, or the viewer
\* is connected to an author or disconnected (bound: MaxChanges).
FeedChanging == walk.on /\ ~walk.ended /\ walk.changes < MaxChanges
RemovePost ==
  /\ FeedChanging
  /\ \E p \in wall :
       /\ wall' = wall \ {p}
       /\ walk' = [walk EXCEPT !.changes = @ + 1, !.had = {q \in @ : q.id # p.id}]
  /\ UNCHANGED peerIds
PublishPost ==
  /\ FeedChanging
  /\ \E p \in FeedPost :
       /\ p.id \in walk.fresh /\ \A t \in Times : t <= p.at
       /\ wall' = wall \cup {p}
       /\ walk' = [walk EXCEPT !.changes = @ + 1, !.fresh = @ \ {p.id}]
  /\ UNCHANGED peerIds
Reconnect ==
  /\ FeedChanging
  /\ \E a \in FeedAuthors :
       /\ peerIds' = IF a \in peerIds THEN peerIds \ {a} ELSE peerIds \cup {a}
       /\ walk' = [walk EXCEPT !.changes = @ + 1, !.moved = @ \cup {a}]
  /\ UNCHANGED wall

FeedNext == PublishPosts \/ ListFeed \/ RemovePost \/ PublishPost \/ Reconnect

----
\* A viewer who walks to the end of the feed meets every post that was visible at the start
\* and was not deleted, and none twice, though each page takes a different share of the two
\* pools and posts may be as old as one another (listFeed's mixing and two cursors).  That does
\* not hold of the posts of an author who was connected or disconnected during the walk: each
\* page reads the connections anew, such a post changes to a pool whose cursor may be before it
\* or past it, and it may be missed, or shown a second time, from the other pool, but no more.
FeedMissesNothing ==
  /\ \A i, j \in DOMAIN walk.shown : walk.shown[i].id = walk.shown[j].id =>
       \/ i = j
       \/ /\ walk.shown[i].pool # walk.shown[j].pool
          /\ AuthorOf[walk.shown[i].id] \in walk.moved
  /\ walk.ended => {p \in walk.had : AuthorOf[p.id] \notin walk.moved}
                     \subseteq {walk.shown[i] : i \in DOMAIN walk.shown}
====
