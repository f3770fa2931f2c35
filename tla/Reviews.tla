---- MODULE Reviews ----
(***************************************************************************)
(* The double-blind reviews of one engagement: reviews.service.ts,         *)
(* review-state.ts, review-sql.ts and review-window.ts.  Each party may    *)
(* review the other once, within the window that opens at completion; a    *)
(* review is public once both exist or the window has closed.  A submit    *)
(* reads first and inserts later, and two submits of one party overlap.    *)
(* The instant of a request (review-clock.ts) is fixed when it arrives.    *)
(* Nothing in the code sets an engagement's deleted_at: it stays null.     *)
(***************************************************************************)
EXTENDS Media

CONSTANTS
  Client, Provider,  \* the two parties
  Texts,             \* rating and text of a review, after normalizeReviewBody
  Window,            \* REVIEW_WINDOW_MS
  MaxTime

ASSUME ReviewsAssumption ==
  /\ Client # Provider /\ None \notin {Client, Provider}
  /\ Window \in Nat \ {0} /\ MaxTime \in Nat
  /\ None \notin [text : Texts, media : SUBSET Assets]

VARIABLES
  clock,
  closesAt,  \* review_window_closes_at, None until the engagement is completed
  review,    \* the row of each reviewer, or None
  seen,      \* parties who have been shown the other's review
  accepted,  \* contents whose submit was answered with success, by party
  blind      \* whether the author, when sending the stored review, had not seen the other's

reviewing == <<clock, closesAt, review, seen, accepted, blind>>

Parties == {Client, Provider}
Other(u) == IF u = Client THEN Provider ELSE Client
Content == [text : Texts, media : SUBSET Assets]

ReviewsInit ==
  /\ clock = 0 /\ closesAt = None
  /\ review = [u \in Parties |-> None]
  /\ seen = {}
  /\ accepted = [u \in Parties |-> {}]
  /\ blind = [u \in Parties |-> TRUE]

\* The engagement is completed (marketplace): the window opens.
CompleteEngagement ==
  /\ closesAt = None /\ closesAt' = clock + Window
  /\ UNCHANGED <<clock, review, seen, accepted, blind, media, call>>

Tick ==
  /\ clock < MaxTime /\ clock' = clock + 1
  /\ UNCHANGED <<closesAt, review, seen, accepted, blind, media, call>>

----
\* isReviewPublic, of one of u's.
IsReviewPublicOnceWritten(asOf, counterpartExists) == closesAt # None
IsReviewPublic(asOf, counterpartExists) ==
  closesAt # None /\ (counterpartExists \/ asOf >= closesAt)

\* buildReviewState for a party: whether a submit is offered, whether any review of the
\* engagement is public, and whether the counterpart's review is shown.
MinePublic(u, asOf) ==
  review[u] # None /\ IsReviewPublic(asOf, review[Other(u)] # None)
OtherPublic(u, asOf) ==
  review[Other(u)] # None /\ IsReviewPublic(asOf, review[u] # None)
WindowClosed(asOf) == closesAt # None /\ asOf >= closesAt
BuildReviewState(u, asOf) ==
  [canSubmit   |-> closesAt # None /\ review[u] = None /\ ~WindowClosed(asOf),
   published   |-> MinePublic(u, asOf) \/ OtherPublic(u, asOf),
   counterpart |-> IF OtherPublic(u, asOf) THEN review[Other(u)] ELSE None]

\* publishedReviewSql: the rows of u that the public lists and the averages count.
PublishedReviewSqlWhenPaired(u, asOf) ==
  review[u] # None /\ closesAt # None /\ review[Other(u)] # None
PublishedReviewSql(u, asOf) ==
  /\ review[u] # None /\ closesAt # None
  /\ review[Other(u)] # None \/ asOf >= closesAt

\* A party reads the review state or a public list.
ReadReviews(u) ==
  /\ \/ BuildReviewState(u, clock).counterpart # None
     \/ PublishedReviewSql(Other(u), clock)
  /\ seen' = seen \cup {u}
  /\ UNCHANGED <<clock, closesAt, review, accepted, blind, media, call>>

----
\* finishSubmit: the answer carries the counterpart's review.
FinishSubmit(c, u, content) ==
  /\ accepted' = [accepted EXCEPT ![u] = @ \cup {content}]
  /\ seen' = IF review[Other(u)] # None THEN seen \cup {u} ELSE seen

\* Whether a submit that arrived at asOf is in time.
InTimeOnceCompleted(asOf) == closesAt # None
InTime(asOf) == closesAt # None /\ asOf < closesAt

\* submit up to its insert.  A party that has a review is answered from it; otherwise the
\* window must be open and the images ready, the party's own and of purpose review.
Submit(c, u, content) ==
  /\ closesAt # None
  /\ \/ /\ review[u] = content /\ call[c] = Idle /\ UNCHANGED call
        /\ FinishSubmit(c, u, content)
     \/ /\ review[u] = None /\ InTime(clock)
        /\ ReadyOwned(u, content.media)
        /\ \A a \in content.media : Purpose[a] = "review"
        /\ Begin(c, [step |-> "insert", who |-> u, content |-> content, asOf |-> clock,
                     blind |-> u \notin seen])
        /\ UNCHANGED <<seen, accepted>>
  /\ UNCHANGED <<clock, closesAt, review, blind, media>>

\* The insert, or the lost race on the (engagement, reviewer) index, whose winner is read
\* again in a call of its own.
InsertReview(c) ==
  LET k == call[c] IN
  /\ At(c, "insert")
  /\ IF review[k.who] = None
     THEN /\ InTime(k.asOf)
          /\ review' = [review EXCEPT ![k.who] = k.content]
          /\ blind' = [blind EXCEPT ![k.who] = k.blind]
          /\ Goto(c, "answer")
     ELSE Goto(c, "raced") /\ UNCHANGED <<review, blind>>
  /\ UNCHANGED <<clock, closesAt, seen, accepted, media>>

\* Whether a submit that lost the race is a repeat of the winner (sameReviewContent).
RepeatOfAnyWinner(u, content) == TRUE
RepeatOfWinner(u, content) == review[u] = content

AnswerSubmit(c) ==
  LET k == call[c] IN
  /\ \/ At(c, "answer") /\ FinishSubmit(c, k.who, k.content)
     \/ /\ At(c, "raced")
        /\ IF RepeatOfWinner(k.who, k.content) THEN FinishSubmit(c, k.who, k.content)
                                               ELSE UNCHANGED <<seen, accepted>>
  /\ Finish(c)
  /\ UNCHANGED <<clock, closesAt, review, blind, media>>

ReviewsNext ==
  \/ CompleteEngagement \/ Tick
  \/ \E u \in Parties : \/ ReadReviews(u)
                        \/ \E c \in Calls, k \in Content : Submit(c, u, k)
  \/ \E c \in Calls : InsertReview(c) \/ AnswerSubmit(c)

\* The reviews with the assets they show.
ReviewsStep == (MediaNext /\ UNCHANGED reviewing) \/ ReviewsNext

----
ReviewsTypeOK ==
  /\ clock \in 0..MaxTime /\ closesAt \in Nat \cup {None}
  /\ review \in [Parties -> Content \cup {None}]
  /\ seen \subseteq Parties
  /\ \A u \in Parties : accepted[u] \subseteq Content
  /\ blind \in [Parties -> BOOLEAN]

\* Every submit that was answered with success is the review that stands: of two different
\* submits that overlap at most one is accepted, and a repeat is never refused for its own
\* content (submit's lookup, unique index and comparison after the lost race).
AcceptedReviewStands ==
  \A u \in Parties : \A k \in accepted[u] : review[u] = k

\* A party who has seen the other's review can no longer choose what to write: whatever was
\* stored was sent blind (the reason for the window and for hiding the counterpart).
DoubleBlind == \A u \in Parties : review[u] # None => blind[u]

\* The two statements of "public" agree at every instant: what a party is shown in the
\* engagement's review state is what lists and averages publish (review-state.ts against
\* review-sql.ts), and a public review comes with no further submit.
PublicationAgrees ==
  \A u \in Parties, asOf \in 0..MaxTime :
    LET state == BuildReviewState(u, asOf) IN
    /\ state.counterpart # None <=> PublishedReviewSql(Other(u), asOf)
    /\ state.published <=> \E p \in Parties : PublishedReviewSql(p, asOf)
    /\ state.canSubmit => state.counterpart = None

\* Reviews are blind until both may be read: nobody writes after having seen the other's, and
\* every place that shows reviews agrees on when that is.
BlindUntilPublished == DoubleBlind /\ PublicationAgrees
====
