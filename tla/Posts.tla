---- MODULE Posts ----
(***************************************************************************)
(* One post, its likes, saves and comments: posts.service.ts over          *)
(* prisma-posts.repository.ts.  Each mutation first reads (is the post     *)
(* there, may the viewer see it, is there a like already) and then writes, *)
(* one database call per step.  Connections come and go meanwhile.         *)
(*                                                                         *)
(* Authors are never deleted: nothing in the code sets users.deleted_at.   *)
(* The feed is the module Feed; images are the subject of Media.           *)
(***************************************************************************)
EXTENDS Naturals, Integers, FiniteSets, Slots

CONSTANTS
  Author,      \* of the post
  Viewers,     \* the other users
  Comments,    \* comments that can be made
  MaxLikes     \* how often a viewer likes again

ASSUME PostsAssumption ==
  Author \notin Viewers /\ None \notin Viewers /\ MaxLikes \in Nat

VARIABLES
  post,        \* none, live or deleted
  visibility,  \* public or connections
  peers,       \* users with an active connection to the author
  likes, saves,
  comments,    \* author of each comment, None when it was not made
  removed,     \* comments with deleted_at
  likedTimes,  \* how often a like of each viewer was created
  notices,     \* notifications to the author: likes, by user, and comments
  postsCount   \* users.posts_count of the author

posting == <<post, visibility, peers, likes, saves, comments, removed, likedTimes, notices,
             postsCount>>
Everyone == Viewers \cup {Author}

PostsInit ==
  /\ post = "none" /\ visibility = "public"
  /\ peers = {}
  /\ likes = {} /\ saves = {}
  /\ comments = [k \in Comments |-> None] /\ removed = {}
  /\ likedTimes = [u \in Viewers |-> 0]
  /\ notices = [likes |-> [u \in Everyone |-> 0], comments |-> {}]
  /\ postsCount = 0

\* A connection with the author is made or ends.
ChangeConnection(u) ==
  /\ peers' = IF u \in peers THEN peers \ {u} ELSE peers \cup {u}
  /\ UNCHANGED <<post, visibility, likes, saves, comments, removed, likedTimes, notices,
                 postsCount, call>>

----
\* viewerCanSeePost, of a post that is not deleted.
ViewerCanSeePost(u) == u = Author \/ visibility = "public" \/ u \in peers
RequireVisiblePost(u) == post = "live" /\ ViewerCanSeePost(u)

\* savedPostWhere, after the save itself.
SavedPostWhereOthers(u) ==
  visibility = "public" \/ (visibility = "connections" /\ u \in peers)
SavedPostWhere(u) ==
  \/ u = Author \/ visibility = "public"
  \/ visibility = "connections" /\ u \in peers
ListSaved(u) == u \in saves /\ post = "live" /\ SavedPostWhere(u)

\* The author's page: listByAuthor of a viewer who is connected or not.
ListByAuthor(u) ==
  post = "live" /\ visibility \in
    IF u = Author \/ u \in peers THEN {"public", "connections"} ELSE {"public"}

\* The two pools of the feed.
SocialPool(u) == post = "live" /\ (u = Author \/ u \in peers)
DiscoveryPool(u) == post = "live" /\ visibility = "public" /\ ~(u = Author \/ u \in peers)

----
Step(step, u) == [step |-> step, who |-> u]

\* create: the row, then the author's counter.
CreatePost(c) ==
  /\ post = "none" /\ post' = "live" /\ visibility' \in {"public", "connections"}
  /\ Begin(c, Step("countPost", Author))
  /\ UNCHANGED <<peers, likes, saves, comments, removed, likedTimes, notices,
                 postsCount>>

\* softDelete: two that overlap both find the post, and both count.
DeletePost(c) ==
  /\ post = "live" /\ Begin(c, Step("deletePost", Author)) /\ UNCHANGED posting
SoftDeletePost(c) ==
  /\ At(c, "deletePost")
  /\ post' = "deleted" /\ Goto(c, "uncountPost")
  /\ UNCHANGED <<visibility, peers, likes, saves, comments, removed, likedTimes, notices,
                 postsCount>>
IncrementPostsCount(c) ==
  /\ \/ At(c, "countPost") /\ postsCount' = postsCount + 1
     \/ At(c, "uncountPost") /\ postsCount' = postsCount - 1
  /\ Finish(c)
  /\ UNCHANGED <<post, visibility, peers, likes, saves, comments, removed, likedTimes, notices>>

\* like, up to the insert.
Like(c, u) ==
  /\ RequireVisiblePost(u) /\ u \notin likes
  /\ u \in Viewers => likedTimes[u] < MaxLikes
  /\ Begin(c, Step("like", u)) /\ UNCHANGED posting

\* Whether a like is announced: by the call whose insert created it, to another user.
AnnouncesRepeats(u) == u # Author
Announces(u) == u \notin likes /\ u # Author

CreateLike(c) ==
  LET u == call[c].who IN
  /\ At(c, "like")
  /\ likes' = likes \cup {u}
  /\ likedTimes' = [v \in Viewers |-> likedTimes[v] + IF v \in {u} \ likes THEN 1 ELSE 0]
  /\ IF Announces(u) THEN Goto(c, "announceLike") ELSE Finish(c)
  /\ UNCHANGED <<post, visibility, peers, saves, comments, removed, notices, postsCount>>
NotifyPostLiked(c) ==
  /\ At(c, "announceLike")
  /\ notices' = [notices EXCEPT !.likes[call[c].who] = @ + 1]
  /\ Finish(c)
  /\ UNCHANGED <<post, visibility, peers, likes, saves, comments, removed, likedTimes,
                 postsCount>>

\* unlike; notifications stay.
Unlike(c, u) ==
  /\ RequireVisiblePost(u) /\ Begin(c, Step("unlike", u)) /\ UNCHANGED posting
DeleteLike(c) ==
  /\ At(c, "unlike")
  /\ likes' = likes \ {call[c].who} /\ Finish(c)
  /\ UNCHANGED <<post, visibility, peers, saves, comments, removed, likedTimes, notices,
                 postsCount>>

\* save; unsave asks for nothing.
Save(c, u) ==
  /\ RequireVisiblePost(u) /\ u \notin saves
  /\ Begin(c, Step("save", u)) /\ UNCHANGED posting
CreateSave(c) ==
  /\ At(c, "save")
  /\ saves' = saves \cup {call[c].who} /\ Finish(c)
  /\ UNCHANGED <<post, visibility, peers, likes, comments, removed, likedTimes, notices,
                 postsCount>>
Unsave(u) ==
  /\ saves' = saves \ {u}
  /\ UNCHANGED <<post, visibility, peers, likes, comments, removed, likedTimes, notices,
                 postsCount, call>>

\* createComment and its notification.
Comment(c, u, k) ==
  /\ RequireVisiblePost(u) /\ comments[k] = None
  /\ Begin(c, [step |-> "comment", who |-> u, comment |-> k]) /\ UNCHANGED posting
CreateComment(c) ==
  LET k == call[c] IN
  /\ At(c, "comment") /\ comments[k.comment] = None
  /\ comments' = [comments EXCEPT ![k.comment] = k.who]
  /\ IF k.who = Author THEN Finish(c) ELSE Goto(c, "announceComment")
  /\ UNCHANGED <<post, visibility, peers, likes, saves, removed, likedTimes, notices, postsCount>>
NotifyPostCommented(c) ==
  /\ At(c, "announceComment")
  /\ notices' = [notices EXCEPT !.comments = @ \cup {call[c].comment}]
  /\ Finish(c)
  /\ UNCHANGED <<post, visibility, peers, likes, saves, comments, removed, likedTimes,
                 postsCount>>

\* deleteComment: by its author or the author of the post, also when it is no longer visible.
MayDeleteComment(u, k) == comments[k] # None /\ u \in {comments[k], Author}
DeleteComment(c, u, k) ==
  /\ post = "live" /\ k \notin removed /\ MayDeleteComment(u, k)
  /\ Begin(c, [step |-> "deleteComment", who |-> u, comment |-> k]) /\ UNCHANGED posting
SoftDeleteComment(c) ==
  /\ At(c, "deleteComment")
  /\ removed' = removed \cup {call[c].comment} /\ Finish(c)
  /\ UNCHANGED <<post, visibility, peers, likes, saves, comments, likedTimes, notices,
                 postsCount>>

PostsNext ==
  \/ \E u \in Viewers : ChangeConnection(u)
  \/ \E u \in Everyone : Unsave(u)
  \/ \E c \in Calls :
       \/ CreatePost(c) \/ DeletePost(c) \/ SoftDeletePost(c) \/ IncrementPostsCount(c)
       \/ CreateLike(c) \/ NotifyPostLiked(c) \/ DeleteLike(c) \/ CreateSave(c)
       \/ CreateComment(c) \/ NotifyPostCommented(c) \/ SoftDeleteComment(c)
       \/ \E u \in Everyone :
            \/ Like(c, u) \/ Unlike(c, u) \/ Save(c, u)
            \/ \E k \in Comments : Comment(c, u, k) \/ DeleteComment(c, u, k)

----
\* However often a user taps like, at once or again, the author is told at most once for
\* each time the like came into being, and never of a like of their own (like's insert
\* decides, not its read).
LikeAnnouncedOnce ==
  /\ \A u \in Viewers : notices.likes[u] <= likedTimes[u]
  /\ notices.likes[Author] = 0

\* Five places of the code say who sees a post, and they agree at every moment: the single
\* read and every mutation, the saved list, the author's page and the feed, where exactly
\* one of the two pools holds it.
VisibilityAgrees ==
  \A u \in Everyone :
    LET sees == RequireVisiblePost(u) IN
    /\ u \in saves => (ListSaved(u) <=> sees)
    /\ ListByAuthor(u) <=> sees
    /\ sees <=> (SocialPool(u) \/ DiscoveryPool(u))
    /\ ~(SocialPool(u) /\ DiscoveryPool(u))

\* The author is told of each like once at most and never of their own, and the five places that
\* say who sees a post agree at every moment.
PostsAgree == LikeAnnouncedOnce /\ VisibilityAgrees
====
