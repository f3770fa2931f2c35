---- MODULE RecordsProofs ----
(***************************************************************************)
(* The theorems about Records, for any number of calls, users, files and   *)
(* keys.  First the invariants of the parts that stand alone in a process: *)
(* the budgets, the signing keys, the signed URLs and the cards of the     *)
(* staff portal; then the invariant of all parts together, the part that   *)
(* is served by its own invariant and the others by what they showed when  *)
(* it began.                                                               *)
(***************************************************************************)
EXTENDS Records, AssetsProofs, PeopleProofs

----
(* RateLimit: any number of addresses and buckets. *)

Bucket == [tokens : 0..Capacity, idle : 0..IdleTicks]
Owners == Addresses \cup SharedBuckets

RateTyped ==
  /\ DOMAIN buckets \subseteq Addresses /\ buckets \in [DOMAIN buckets -> Bucket]
  /\ shared \in [SharedBuckets -> Bucket]
  /\ allowance \in [Owners -> 0..Capacity]

\* The meter of a bucket has been refilled once for each tick the bucket was not seen, so
\* that a bucket may only be forgotten when its meter is full.
NotAhead == \A a \in DOMAIN buckets : buckets[a].tokens <= allowance[a]
RefilledWhileIdle ==
  \A a \in DOMAIN buckets : buckets[a].idle <= allowance[a] \/ allowance[a] = Capacity
ForgottenFull == \A a \in Addresses \ DOMAIN buckets : allowance[a] = Capacity
SharedNotAhead == \A b \in SharedBuckets : shared[b].tokens <= allowance[b]

RateInv == RateTyped /\ NotAhead /\ RefilledWhileIdle /\ ForgottenFull /\ SharedNotAhead

----
\* The constants, in the form the steps use.
LEMMA RateBounds ==
  /\ Capacity \in Nat /\ IdleTicks \in Nat /\ 1 <= Capacity /\ Capacity <= IdleTicks
  /\ Addresses \cap SharedBuckets = {}
BY RateLimitAssumption DEF SharedBuckets

\* The smaller of two numbers.
LEMMA MinOfTwo ==
  ASSUME NEW x \in Int, NEW y \in Int
  PROVE  Min({x, y}) = IF x <= y THEN x ELSE y
<1> DEFINE m == IF x <= y THEN x ELSE y
<1>1. m \in {x, y} /\ \A z \in {x, y} : m <= z
  OBVIOUS
<1>2. \A n \in {x, y} : (\A z \in {x, y} : n <= z) => n = m
  OBVIOUS
<1> QED BY <1>1, <1>2 DEF Min

\* What a request takes from a bucket, and a tick gives it.
LEMMA TakeType ==
  ASSUME NEW b \in Bucket
  PROVE  /\ Take(b) \in Bucket /\ Take(b).idle = 0
         /\ Take(b).tokens = IF b.tokens >= 1 THEN b.tokens - 1 ELSE b.tokens
BY RateBounds DEF Take, Bucket

\* A refilled bucket is a bucket.
LEMMA RefilledType ==
  ASSUME NEW b \in Bucket
  PROVE  /\ Refilled(b) \in Bucket
         /\ Refilled(b).tokens = IF b.tokens + 1 <= Capacity THEN b.tokens + 1 ELSE Capacity
         /\ Refilled(b).idle = IF b.idle + 1 <= IdleTicks THEN b.idle + 1 ELSE IdleTicks
<1>1. b.tokens \in 0..Capacity /\ b.idle \in 0..IdleTicks
  BY DEF Bucket
<1>2. /\ Min({b.tokens + 1, Capacity}) = IF b.tokens + 1 <= Capacity THEN b.tokens + 1 ELSE Capacity
      /\ Min({b.idle + 1, IdleTicks}) = IF b.idle + 1 <= IdleTicks THEN b.idle + 1 ELSE IdleTicks
  BY <1>1, RateBounds, MinOfTwo
<1>3. /\ Refilled(b).tokens = Min({b.tokens + 1, Capacity})
      /\ Refilled(b).idle = Min({b.idle + 1, IdleTicks})
      /\ Refilled(b) = [tokens |-> Refilled(b).tokens, idle |-> Refilled(b).idle]
  BY DEF Refilled
<1>4. Refilled(b).tokens \in 0..Capacity /\ Refilled(b).idle \in 0..IdleTicks
  BY <1>1, <1>2, <1>3, RateBounds
<1> QED BY <1>2, <1>3, <1>4 DEF Bucket

\* A new bucket is full.
LEMMA FullType == Full \in Bucket /\ Full.tokens = Capacity /\ Full.idle = 0
BY RateBounds DEF Full, Bucket

\* The charge of one owner: its meter loses what its bucket loses.
LEMMA ChargeKeeps ==
  ASSUME allowance \in [Owners -> 0..Capacity], NEW owner \in Owners, NEW b \in Bucket,
         b.tokens <= allowance[owner], Charge(owner, b)
  PROVE  /\ allowance' \in [Owners -> 0..Capacity]
         /\ \A o \in Owners : o # owner => allowance'[o] = allowance[o]
         /\ Take(b).tokens <= allowance'[owner]
<1>1. b.tokens \in 0..Capacity /\ allowance[owner] \in 0..Capacity
  BY DEF Bucket
<1>2. /\ \A o \in Owners : allowance'[o] =
           IF o # owner THEN allowance[o]
           ELSE IF b.tokens >= 1 THEN allowance[owner] - 1 ELSE allowance[owner]
      /\ allowance' = [o \in Owners |-> allowance'[o]]
  BY DEF Charge
<1>3. \A o \in Owners : allowance'[o] \in 0..Capacity
  BY <1>1, <1>2, RateBounds
<1> QED BY <1>1, <1>2, <1>3, TakeType

----
\* There are no buckets at first.
LEMMA RateStart == RateInit => RateInv
<1> SUFFICES ASSUME RateInit PROVE RateInv OBVIOUS
<1>1. DOMAIN buckets = {} /\ buckets \in [DOMAIN buckets -> Bucket]
  BY DEF RateInit
<1>2. shared \in [SharedBuckets -> Bucket] /\ \A b \in SharedBuckets : shared[b].tokens = Capacity
  BY FullType DEF RateInit
<1>3. /\ allowance \in [Owners -> 0..Capacity] /\ \A o \in Owners : allowance[o] = Capacity
  BY RateBounds DEF RateInit, Owners
<1>4. RateTyped
  BY <1>1, <1>2, <1>3 DEF RateTyped
<1> QED BY <1>1, <1>2, <1>3, <1>4, RateBounds
        DEF RateInv, NotAhead, RefilledWhileIdle, ForgottenFull, SharedNotAhead, Owners

\* After the sweep the same holds of the buckets that are left: those that went were full.
LEMMA SweepKeeps ==
  ASSUME RateInv, NEW examined \in SUBSET DOMAIN buckets
  PROVE  LET left == Swept(examined) IN
         /\ DOMAIN left \subseteq DOMAIN buckets /\ left \in [DOMAIN left -> Bucket]
         /\ \A a \in DOMAIN left : left[a] = buckets[a]
         /\ \A a \in Addresses \ DOMAIN left : allowance[a] = Capacity
<1> DEFINE left == Swept(examined)
<1>1. /\ DOMAIN left = {d \in DOMAIN buckets : ~(d \in examined /\ Expired(buckets[d]))}
      /\ \A a \in DOMAIN left : left[a] = buckets[a]
      /\ left = [a \in DOMAIN left |-> left[a]]
  BY DEF Swept
<1>2. ASSUME NEW a \in DOMAIN buckets, a \notin DOMAIN left PROVE allowance[a] = Capacity
  <2>1. buckets[a].idle >= IdleTicks /\ buckets[a] \in Bucket
    BY <1>1, <1>2 DEF Expired, RateInv, RateTyped
  <2>2. allowance[a] \in 0..Capacity
    BY DEF RateInv, RateTyped, Owners
  <2> QED BY <2>1, <2>2, RateBounds DEF RateInv, RefilledWhileIdle, Bucket
<1>3. \A a \in DOMAIN left : left[a] \in Bucket
  BY <1>1 DEF RateInv, RateTyped
<1> QED BY <1>1, <1>2, <1>3 DEF RateInv, ForgottenFull

\* A request charged to a shared bucket.
LEMMA SharedKeeps ==
  ASSUME RateInv, NEW examined \in SUBSET DOMAIN buckets, NEW b \in SharedBuckets,
         FromShared(b), buckets' = Swept(examined)
  PROVE  RateInv'
<1>1. shared[b] \in Bucket /\ b \in Owners /\ shared[b].tokens <= allowance[b]
  BY DEF RateInv, RateTyped, SharedNotAhead, Owners
<1>2. /\ allowance' \in [Owners -> 0..Capacity]
      /\ \A o \in Owners : o # b => allowance'[o] = allowance[o]
      /\ Take(shared[b]).tokens <= allowance'[b]
  BY <1>1, ChargeKeeps DEF FromShared, RateInv, RateTyped
<1>3. \A a \in Addresses : allowance'[a] = allowance[a]
  BY <1>2, RateBounds DEF Owners
<1>4. shared' = [shared EXCEPT ![b] = Take(shared[b])]
  BY DEF FromShared
<1>5. shared' \in [SharedBuckets -> Bucket] /\ SharedNotAhead'
  BY <1>1, <1>2, <1>4, TakeType DEF RateInv, RateTyped, SharedNotAhead, Owners
<1>6. /\ DOMAIN buckets' \subseteq DOMAIN buckets /\ buckets' \in [DOMAIN buckets' -> Bucket]
      /\ \A a \in DOMAIN buckets' : buckets'[a] = buckets[a]
      /\ \A a \in Addresses \ DOMAIN buckets' : allowance[a] = Capacity
  BY SweepKeeps
<1>7. RateTyped'
  BY <1>2, <1>5, <1>6 DEF RateInv, RateTyped
<1>8. NotAhead' /\ RefilledWhileIdle' /\ ForgottenFull'
  BY <1>3, <1>6 DEF RateInv, RateTyped, NotAhead, RefilledWhileIdle, ForgottenFull
<1> QED BY <1>5, <1>7, <1>8 DEF RateInv

\* A request charged to a bucket of its own: the one that is left of it, or a full one, when
\* its meter is full.
LEMMA OwnKeeps ==
  ASSUME RateInv, NEW examined \in SUBSET DOMAIN buckets, NEW a \in Addresses, NEW b,
         b = IF a \in DOMAIN Swept(examined) THEN Swept(examined)[a] ELSE Full,
         buckets' = [d \in DOMAIN Swept(examined) \cup {a} |->
                       IF d = a THEN Take(b) ELSE Swept(examined)[d]],
         Charge(a, b), UNCHANGED shared
  PROVE  RateInv'
<1> DEFINE left == Swept(examined)
<1>1. /\ DOMAIN left \subseteq DOMAIN buckets /\ left \in [DOMAIN left -> Bucket]
      /\ \A d \in DOMAIN left : left[d] = buckets[d]
      /\ \A d \in Addresses \ DOMAIN left : allowance[d] = Capacity
  BY SweepKeeps
<1> HIDE DEF left
<1>2. b \in Bucket /\ a \in Owners /\ b.tokens <= allowance[a]
  <2>1. CASE a \in DOMAIN left
    BY <1>1, <2>1 DEF left, RateInv, NotAhead, Owners
  <2>2. CASE a \notin DOMAIN left
    <3>1. b = Full /\ allowance[a] = Capacity
      BY <1>1, <2>2 DEF left
    <3> QED BY <3>1, FullType, RateBounds DEF Owners
  <2> QED BY <2>1, <2>2
<1>3. /\ allowance' \in [Owners -> 0..Capacity]
      /\ \A o \in Owners : o # a => allowance'[o] = allowance[o]
      /\ Take(b).tokens <= allowance'[a]
  BY <1>2, ChargeKeeps DEF RateInv, RateTyped
<1>4. /\ DOMAIN buckets' = DOMAIN left \cup {a}
      /\ \A d \in DOMAIN left : d # a => buckets'[d] = buckets[d]
      /\ buckets'[a] = Take(b) /\ buckets' \in [DOMAIN buckets' -> Bucket]
  <2>1. /\ DOMAIN buckets' = DOMAIN left \cup {a}
        /\ \A d \in DOMAIN buckets' : buckets'[d] = IF d = a THEN Take(b) ELSE left[d]
        /\ buckets' = [d \in DOMAIN buckets' |-> buckets'[d]]
    BY DEF left
  <2>2. \A d \in DOMAIN buckets' : buckets'[d] \in Bucket
    BY <1>1, <1>2, <2>1, TakeType
  <2> QED BY <1>1, <2>1, <2>2
<1>5. DOMAIN buckets' \subseteq Addresses
  BY <1>1, <1>4 DEF RateInv, RateTyped
<1>6. RateTyped'
  BY <1>3, <1>4, <1>5 DEF RateInv, RateTyped
<1>7. /\ NotAhead' /\ RefilledWhileIdle'
  <2>1. ASSUME NEW d \in DOMAIN buckets'
        PROVE  /\ buckets'[d].tokens <= allowance'[d]
               /\ buckets'[d].idle <= allowance'[d] \/ allowance'[d] = Capacity
    <3>1. CASE d = a
      <4>1. allowance'[a] \in 0..Capacity
        BY <1>2, <1>3
      <4> QED BY <1>2, <1>3, <1>4, <3>1, <4>1, RateBounds, TakeType
    <3>2. CASE d # a
      <4>1. d \in DOMAIN buckets /\ buckets'[d] = buckets[d] /\ allowance'[d] = allowance[d]
        BY <1>1, <1>3, <1>4, <1>5, <3>2 DEF Owners
      <4> QED BY <4>1 DEF RateInv, NotAhead, RefilledWhileIdle
    <3> QED BY <3>1, <3>2
  <2> QED BY <2>1 DEF NotAhead, RefilledWhileIdle
<1>8. ForgottenFull'
  BY <1>1, <1>3, <1>4 DEF ForgottenFull, Owners
<1>9. SharedNotAhead'
  BY <1>3, RateBounds DEF RateInv, SharedNotAhead, Owners
<1> QED BY <1>6, <1>7, <1>8, <1>9 DEF RateInv

\* A charge, of an own bucket or a shared one, keeps the invariant.
LEMMA ConsumeKeeps ==
  ASSUME RateInv, NEW a \in Addresses, Consume(a)
  PROVE  RateInv'
<1>1. PICK examined \in SUBSET DOMAIN buckets :
        LET left == Swept(examined) IN
        \/ FromShared("fallback") /\ buckets' = left
        \/ FromShared("overflow") /\ buckets' = left
        \/ /\ LET b == IF a \in DOMAIN left THEN left[a] ELSE Full IN
              /\ buckets' = [d \in DOMAIN left \cup {a} |-> IF d = a THEN Take(b) ELSE left[d]]
              /\ Charge(a, b)
           /\ UNCHANGED shared
  BY DEF Consume
<1>2. "fallback" \in SharedBuckets /\ "overflow" \in SharedBuckets
  BY DEF SharedBuckets
<1> QED BY <1>1, <1>2, SharedKeeps, OwnKeeps

\* A tick: bucket and meter gain a token alike.
LEMMA TickKeeps == RateInv /\ RateTick => RateInv'
<1> SUFFICES ASSUME RateInv, RateTick PROVE RateInv' OBVIOUS
<1>1. /\ DOMAIN buckets' = DOMAIN buckets
      /\ \A a \in DOMAIN buckets : buckets'[a] = Refilled(buckets[a]) /\ buckets[a] \in Bucket
      /\ buckets' = [a \in DOMAIN buckets |-> buckets'[a]]
  BY DEF RateTick, RateInv, RateTyped
<1>2. /\ shared' \in [SharedBuckets -> Bucket]
      /\ \A b \in SharedBuckets : shared'[b] = Refilled(shared[b]) /\ shared[b] \in Bucket
  BY RefilledType DEF RateTick, RateInv, RateTyped
<1>3. /\ allowance' \in [Owners -> 0..Capacity]
      /\ \A o \in Owners : /\ allowance[o] \in 0..Capacity
                           /\ allowance'[o] = IF allowance[o] + 1 <= Capacity
                                              THEN allowance[o] + 1 ELSE Capacity
  <2>1. \A o \in Owners : allowance[o] \in 0..Capacity
    BY DEF RateInv, RateTyped
  <2>2. \A o \in Owners : Min({allowance[o] + 1, Capacity}) =
          IF allowance[o] + 1 <= Capacity THEN allowance[o] + 1 ELSE Capacity
    BY <2>1, RateBounds, MinOfTwo
  <2>3. allowance' = [o \in Owners |-> Min({allowance[o] + 1, Capacity})]
    BY DEF RateTick, RateInv, RateTyped
  <2>4. \A o \in Owners : Min({allowance[o] + 1, Capacity}) \in 0..Capacity
    BY <2>1, <2>2, RateBounds
  <2> QED BY <2>1, <2>2, <2>3, <2>4
<1>4. RateTyped'
  BY <1>1, <1>2, <1>3, RefilledType DEF RateInv, RateTyped
<1>5. NotAhead' /\ RefilledWhileIdle'
  <2>1. ASSUME NEW a \in DOMAIN buckets
        PROVE  /\ buckets'[a].tokens <= allowance'[a]
               /\ buckets'[a].idle <= allowance'[a] \/ allowance'[a] = Capacity
    <3>1. /\ buckets[a].tokens \in 0..Capacity /\ buckets[a].idle \in 0..IdleTicks
          /\ a \in Owners
      BY <1>1 DEF Bucket, RateInv, RateTyped, Owners
    <3>2. /\ buckets[a].tokens <= allowance[a]
          /\ buckets[a].idle <= allowance[a] \/ allowance[a] = Capacity
      BY DEF RateInv, NotAhead, RefilledWhileIdle
    <3>3. /\ buckets'[a].tokens = IF buckets[a].tokens + 1 <= Capacity
                                  THEN buckets[a].tokens + 1 ELSE Capacity
          /\ buckets'[a].idle = IF buckets[a].idle + 1 <= IdleTicks
                                THEN buckets[a].idle + 1 ELSE IdleTicks
      BY <1>1, RefilledType
    <3> QED BY <1>3, <3>1, <3>2, <3>3, RateBounds
  <2> QED BY <1>1, <2>1 DEF NotAhead, RefilledWhileIdle
<1>6. ForgottenFull'
  BY <1>1, <1>3, RateBounds DEF RateInv, ForgottenFull, Owners
<1>7. SharedNotAhead'
  <2>1. ASSUME NEW b \in SharedBuckets PROVE shared'[b].tokens <= allowance'[b]
    <3>1. shared[b].tokens \in 0..Capacity /\ shared[b].tokens <= allowance[b] /\ b \in Owners
      BY <1>2 DEF Bucket, RateInv, SharedNotAhead, Owners
    <3>2. shared'[b].tokens = IF shared[b].tokens + 1 <= Capacity
                              THEN shared[b].tokens + 1 ELSE Capacity
      BY <1>2, RefilledType
    <3> QED BY <1>3, <3>1, <3>2, RateBounds
  <2> QED BY <2>1 DEF SharedNotAhead
<1> QED BY <1>4, <1>5, <1>6, <1>7 DEF RateInv

\* Every request and every tick keeps the invariant.
LEMMA RateKept == RateInv /\ [RateNext]_rating => RateInv'
<1>1. RateInv /\ RateNext => RateInv'
  BY ConsumeKeeps, TickKeeps DEF RateNext
<1>2. RateInv /\ UNCHANGED rating => RateInv'
  BY DEF rating, RateInv, RateTyped, NotAhead, RefilledWhileIdle, ForgottenFull, SharedNotAhead
<1> QED BY <1>1, <1>2

\* The invariant compares each bucket with its meter.
LEMMA RateShows == RateInv => BudgetHolds
<1> SUFFICES ASSUME RateInv PROVE BudgetHolds
  OBVIOUS
<1>1. DOMAIN allowance = Owners /\ \A o \in Owners : allowance[o] \in 0..Capacity
  BY DEF RateInv, RateTyped
<1> QED BY <1>1, RateBounds DEF RateInv, NotAhead, SharedNotAhead, BudgetHolds

----
(* SigningKeys: any number of keys and of requests that wait. *)

\* The pause after the last refresh.
Pause == IF failures = 0 THEN Gap ELSE Backoff[failures]

KeysTyped ==
  /\ KeysTypeOK
  /\ inFlight \in [on : BOOLEAN, age : 0..Timeout, body : SUBSET Kids, answered : BOOLEAN]

\* A key is served now, or for how long not is what revokedFor says; what an answer or a
\* document holds was served when the provider answered.
ServedNow == \A k \in published : revokedFor[k] = 0
AnsweredLately ==
  inFlight.answered => inFlight.on /\ \A k \in inFlight.body : revokedFor[k] <= inFlight.age
FetchedLately ==
  document.age < MaxStale => \A k \in document.keys : revokedFor[k] <= document.age + Timeout
PauseKept == Pause <= sinceFetch + delay
AnswerIsOfAKey == lastAnswer.is = "key" => lastAnswer.kid \in Kids

KeysInv ==
  KeysTyped /\ ServedNow /\ AnsweredLately /\ FetchedLately /\ PauseKept /\ AnswerIsOfAKey
    /\ RevokedKeyExpires

\* The times are ordered, and no pause is longer than the last.
LEMMA KeyBounds ==
  /\ Fresh \in Nat \ {0} /\ MaxStale \in Nat \ {0} /\ Gap \in Nat \ {0} /\ Timeout \in Nat \ {0}
  /\ Fresh < MaxStale /\ Len(Backoff) \in Nat \ {0}
  /\ \A i \in 1..Len(Backoff) : Backoff[i] \in Nat /\ Gap <= Backoff[i] /\ Backoff[i] <= MaxDelay
  /\ MaxDelay \in Nat /\ Gap <= MaxDelay
  /\ MaxRevoked \in Nat /\ MaxRevoked = MaxStale + Timeout + 1
<1>1. Len(Backoff) \in Nat \ {0} /\ \A i \in 1..Len(Backoff) : Backoff[i] \in Nat \ {0}
  BY SigningKeysAssumption
<1>2. LastDelay \in Nat /\ \A i \in 1..Len(Backoff) : Gap <= Backoff[i] /\ Backoff[i] <= LastDelay
  BY <1>1, SigningKeysAssumption DEF LastDelay
<1> QED BY <1>1, <1>2, SigningKeysAssumption DEF MaxDelay, Most, MaxRevoked

\* The pause is one of those configured.
LEMMA PauseBounds ==
  ASSUME KeysTyped
  PROVE  Pause \in Nat /\ Gap <= Pause /\ Pause <= MaxDelay
BY KeyBounds DEF Pause, KeysTyped, KeysTypeOK

\* Without a document no key is accepted.
LEMMA KeysStart == KeysInit => KeysInv
<1> SUFFICES ASSUME KeysInit PROVE KeysInv
  OBVIOUS
<1>1. KeysTyped
  BY KeyBounds DEF KeysInit, KeysTyped, KeysTypeOK, NoDocument, NoFetch
<1>2. PauseKept
  BY KeyBounds DEF KeysInit, PauseKept, Pause
<1> QED BY <1>1, <1>2, KeyBounds DEF KeysInit, KeysInv, ServedNow, AnsweredLately, FetchedLately,
      AnswerIsOfAKey,
        RevokedKeyExpires, NoDocument, NoFetch, NoAnswer

\* The document at hand answers with a key only while it may be used.
LEMMA OutcomeIsFresh ==
  ASSUME KeysInv, NEW k \in Kids
  PROVE  /\ Outcome(k).is = "key" => revokedFor[k] < MaxStale + Timeout
         /\ Outcome(k).kid = k
<1>1. ASSUME Outcome(k).is = "key" PROVE document.age < MaxStale /\ k \in document.keys
  BY <1>1 DEF Outcome, Usable
<1>2. document.age \in 0..MaxStale /\ revokedFor[k] \in 0..MaxRevoked
  BY DEF KeysInv, KeysTyped, KeysTypeOK
<1> QED BY <1>1, <1>2, KeyBounds DEF KeysInv, FetchedLately, Outcome

\* Dropping concerns a document that is too old only.
LEMMA DropOldKeeps ==
  ASSUME KeysInv
  PROVE  /\ DropOld \in [age : 0..MaxStale, keys : SUBSET Kids]
         /\ DropOld.age < MaxStale => DropOld = document
BY KeyBounds DEF KeysInv, KeysTyped, KeysTypeOK, DropOld, NoDocument, Usable

\* Every answer, refresh, failure and tick keeps the ages in step.
LEMMA KeysKept ==
  ASSUME KeysInv, [KeysNext]_keysVars
  PROVE  KeysInv'
<1>1. KeysTyped /\ ServedNow /\ AnsweredLately /\ FetchedLately /\ PauseKept /\ AnswerIsOfAKey
        /\ RevokedKeyExpires
  BY DEF KeysInv
<1> USE DEF KeysTyped, KeysTypeOK
<1>2. ASSUME NEW k \in Kids, Rotate(k) PROVE KeysInv'
  <2>1. /\ UNCHANGED <<document, inFlight, delay, failures, waiting, sinceFetch, lastAnswer>>
        /\ revokedFor' = [revokedFor EXCEPT ![k] = 0]
        /\ published' \subseteq Kids /\ published' \subseteq published \cup {k}
    BY <1>1, <1>2 DEF Rotate
  <2>2. \A z \in Kids : revokedFor'[z] = IF z = k THEN 0 ELSE revokedFor[z]
    BY <1>1, <2>1
  <2>3. KeysTyped'
    BY <1>1, <2>1, KeyBounds
  <2>4. ServedNow' /\ AnsweredLately'
    BY <1>1, <2>1, <2>2 DEF ServedNow, AnsweredLately
  <2>5. FetchedLately'
    BY <1>1, <2>1, <2>2, KeyBounds DEF FetchedLately
  <2>6. RevokedKeyExpires' /\ AnswerIsOfAKey'
    BY <1>1, <2>1, <2>2, KeyBounds DEF RevokedKeyExpires, AnswerIsOfAKey
  <2> QED BY <1>1, <2>1, <2>3, <2>4, <2>5, <2>6 DEF KeysInv, PauseKept, Pause
\* A request is answered from the document at hand.
<1>3. ASSUME NEW k \in Kids, lastAnswer' = Outcome(k), document' = DropOld, KeysTyped',
             UNCHANGED <<published, revokedFor, inFlight, delay, failures, sinceFetch>>
      PROVE  KeysInv'
  <2>1. FetchedLately'
    BY <1>1, <1>3, DropOldKeeps DEF FetchedLately
  <2>2. RevokedKeyExpires' /\ AnswerIsOfAKey'
    BY <1>3, OutcomeIsFresh DEF RevokedKeyExpires, AnswerIsOfAKey
  <2>3. ServedNow' /\ AnsweredLately' /\ PauseKept'
    BY <1>1, <1>3 DEF ServedNow, AnsweredLately, PauseKept, Pause
  <2> QED BY <1>3, <2>1, <2>2, <2>3 DEF KeysInv
<1>4. ASSUME NEW r \in Requests, NEW k \in Kids, AnswerAtOnce(r, k) PROVE KeysInv'
  BY <1>1, <1>3, <1>4, DropOldKeeps DEF AnswerAtOnce
<1>5. ASSUME NEW r \in Requests, Resume(r) PROVE KeysInv'
  <2> PICK k : k = waiting[r]
    OBVIOUS
  <2>1. /\ k \in Kids /\ lastAnswer' = Outcome(k) /\ document' = DropOld
        /\ waiting' = [waiting EXCEPT ![r] = 0]
        /\ UNCHANGED <<published, revokedFor, inFlight, delay, failures, sinceFetch>>
    BY <1>1, <1>5 DEF Resume
  <2>2. document' \in [age : 0..MaxStale, keys : SUBSET Kids]
    BY <2>1, DropOldKeeps
  <2>3. waiting' \in [Requests -> Kids \cup {0}]
    BY <1>1, <2>1
  <2>4. KeysTypeOK'
    BY <1>1, <2>1, <2>2, <2>3
  <2>5. KeysTyped'
    <3>1. inFlight' = inFlight
      BY <2>1
    <3>2. inFlight' \in [on : BOOLEAN, age : 0..Timeout, body : SUBSET Kids, answered : BOOLEAN]
      BY <1>1, <3>1
    <3> QED BY <2>4, <3>2
  <2> QED BY <1>3, <2>1, <2>5
<1>6. ASSUME NEW r \in Requests, NEW k \in Kids, BeginRefresh(r, k) PROVE KeysInv'
  <2>1. /\ UNCHANGED <<published, revokedFor, document, delay, failures, sinceFetch>>
        /\ lastAnswer' = NoAnswer /\ waiting' = [waiting EXCEPT ![r] = k]
    BY <1>6 DEF BeginRefresh
  <2>3. inFlight' \in [on : BOOLEAN, age : 0..Timeout, body : SUBSET Kids, answered : BOOLEAN]
    <3>1. inFlight' = inFlight \/ inFlight' = [NoFetch EXCEPT !.on = TRUE]
      BY <1>6 DEF BeginRefresh
    <3>2. [NoFetch EXCEPT !.on = TRUE]
            \in [on : BOOLEAN, age : 0..Timeout, body : SUBSET Kids, answered : BOOLEAN]
      <4>1. 0 \in 0..Timeout
        BY KeyBounds
      <4>2. NoFetch = [on |-> FALSE, age |-> 0, body |-> {}, answered |-> FALSE]
        BY Zenon DEF NoFetch, NoDocument
      <4>3. PICK n : n = NoFetch
        OBVIOUS
      <4>4. n \in [on : BOOLEAN, age : 0..Timeout, body : SUBSET Kids, answered : BOOLEAN]
        BY <4>1, <4>2, <4>3
      <4>5. [n EXCEPT !.on = TRUE]
              \in [on : BOOLEAN, age : 0..Timeout, body : SUBSET Kids, answered : BOOLEAN]
        BY <4>4
      <4> QED BY <4>3, <4>5
    <3> QED BY <1>1, <3>1, <3>2
  <2>4. waiting' \in [Requests -> Kids \cup {0}]
    BY <1>1, <2>1
  <2>5. KeysTypeOK'
    BY <1>1, <2>1, <2>4
  <2>6. KeysTyped'
    BY <2>3, <2>5 DEF KeysTyped
  <2>2. AnsweredLately'
    BY <1>1, <1>6 DEF BeginRefresh, AnsweredLately, NoFetch
  <2> QED BY <1>1, <2>1, <2>2, <2>6 DEF KeysInv, ServedNow, FetchedLately, PauseKept, Pause,
          AnswerIsOfAKey, RevokedKeyExpires, NoAnswer
<1>7. ASSUME ProviderAnswers PROVE KeysInv'
  <2>1. inFlight'.answered /\ inFlight'.body = published /\ inFlight'.age = inFlight.age
          /\ KeysTyped'
    BY <1>1, <1>7 DEF ProviderAnswers
  <2>2. AnsweredLately'
    BY <1>1, <1>7, <2>1 DEF ProviderAnswers, AnsweredLately, ServedNow
  <2> QED BY <1>1, <1>7, <2>1, <2>2 DEF ProviderAnswers, KeysInv, ServedNow, FetchedLately,
        PauseKept, Pause,
          AnswerIsOfAKey, RevokedKeyExpires, NoAnswer
<1>8. ASSUME AcceptDocument PROVE KeysInv'
  <2>1. /\ document'.age = 0 /\ document'.keys = inFlight.body /\ inFlight.answered
        /\ failures' = 0 /\ delay' = Gap /\ sinceFetch' = 0 /\ ~inFlight'.answered
        /\ lastAnswer'.is = "none" /\ UNCHANGED <<published, revokedFor>>
    BY <1>8 DEF AcceptDocument, NoFetch, NoAnswer
  <2>2. KeysTyped'
    BY <1>1, <1>8, KeyBounds DEF AcceptDocument, NoFetch, NoDocument
  <2>3. FetchedLately'
    <3>1. \A k \in inFlight.body : revokedFor[k] \in Nat /\ revokedFor[k] <= inFlight.age
      BY <1>1, <2>1 DEF AnsweredLately
    <3> QED BY <1>1, <2>1, <3>1, KeyBounds DEF FetchedLately
  <2>4. PauseKept'
    BY <2>1, KeyBounds DEF PauseKept, Pause
  <2> QED BY <1>1, <2>1, <2>2, <2>3, <2>4 DEF KeysInv, ServedNow, AnsweredLately, AnswerIsOfAKey,
          RevokedKeyExpires
<1>9. ASSUME NoteFailure PROVE KeysInv'
  <2> PICK n : n = Least(failures + 1, Len(Backoff))
    OBVIOUS
  <2>1. n \in 1..Len(Backoff) /\ n # 0
    BY <1>1, KeyBounds DEF Least
  <2>2. /\ failures' = n /\ delay' = Backoff[n] /\ sinceFetch' = 0 /\ document' = DropOld
        /\ ~inFlight'.answered /\ lastAnswer'.is = "none" /\ UNCHANGED <<published, revokedFor>>
    BY <1>9 DEF NoteFailure, NoFetch, NoAnswer
  <2>3. KeysTyped'
    BY <1>1, <1>9, <2>1, <2>2, KeyBounds, DropOldKeeps DEF NoteFailure, NoFetch, NoDocument
  <2>4. FetchedLately'
    BY <1>1, <2>2, DropOldKeeps DEF FetchedLately
  <2>5. PauseKept'
    BY <2>1, <2>2, KeyBounds DEF PauseKept, Pause
  <2> QED BY <1>1, <2>2, <2>3, <2>4, <2>5 DEF KeysInv, ServedNow, AnsweredLately, AnswerIsOfAKey,
          RevokedKeyExpires
<1>10. ASSUME KeysTick PROVE KeysInv'
  <2>1. /\ document'.keys = document.keys
        /\ document'.age = IF document.age + 1 < MaxStale THEN document.age + 1 ELSE MaxStale
        /\ document' \in [age : 0..MaxStale, keys : SUBSET Kids]
    <3> PICK n : n = Least(document.age + 1, MaxStale)
      OBVIOUS
    <3>1. n = (IF document.age + 1 < MaxStale THEN document.age + 1 ELSE MaxStale)
            /\ n \in 0..MaxStale
      BY <1>1, KeyBounds DEF Least
    <3>2. document' = [document EXCEPT !.age = n]
      BY <1>1, <1>10 DEF KeysTick, Least
    <3> QED BY <1>1, <3>1, <3>2
  <2>2. \A k \in Kids : /\ revokedFor'[k] \in 0..MaxRevoked /\ revokedFor'[k] <= revokedFor[k] + 1
                        /\ k \in published => revokedFor'[k] = 0
    <3> SUFFICES ASSUME NEW k \in Kids
                 PROVE  /\ revokedFor'[k] \in 0..MaxRevoked /\ revokedFor'[k] <= revokedFor[k] + 1
                        /\ k \in published => revokedFor'[k] = 0
      OBVIOUS
    <3>1. revokedFor'[k] = IF k \in published THEN 0 ELSE Least(revokedFor[k] + 1, MaxRevoked)
      BY <1>1, <1>10 DEF KeysTick
    <3>2. revokedFor[k] \in 0..MaxRevoked /\ MaxRevoked \in Nat
      BY <1>1, KeyBounds
    <3> QED BY <3>1, <3>2 DEF Least
  <2>3. /\ inFlight' \in [on : BOOLEAN, age : 0..Timeout, body : SUBSET Kids, answered : BOOLEAN]
        /\ inFlight'.answered = inFlight.answered /\ inFlight'.body = inFlight.body
        /\ inFlight'.age = IF inFlight.on THEN inFlight.age + 1 ELSE inFlight.age
    <3>1. CASE inFlight.on
      <4> PICK n : n = inFlight.age + 1
        OBVIOUS
      <4>1. inFlight.age < Timeout /\ inFlight' = [inFlight EXCEPT !.age = n]
        BY <1>1, <1>10, <3>1 DEF KeysTick
      <4>2. n \in 0..Timeout
        BY <1>1, <4>1, KeyBounds
      <4> QED BY <1>1, <3>1, <4>1, <4>2
    <3>2. CASE ~inFlight.on
      BY <1>1, <1>10, <3>2 DEF KeysTick
    <3> QED BY <3>1, <3>2
  <2>4. /\ delay' = (IF delay = 0 THEN 0 ELSE delay - 1)
             /\ UNCHANGED <<published, failures, waiting>>
        /\ sinceFetch' = (IF sinceFetch + 1 < MaxDelay THEN sinceFetch + 1 ELSE MaxDelay)
        /\ lastAnswer'.is = "none"
    BY <1>10 DEF KeysTick, Least, NoAnswer
  <2>5. KeysTyped'
    <3>1. revokedFor' \in [Kids -> 0..MaxRevoked]
      BY <1>10, <2>2 DEF KeysTick
    <3> QED BY <1>1, <2>1, <2>3, <2>4, <3>1, KeyBounds
  <2>6. PauseKept'
    BY <1>1, <2>4, PauseBounds, KeyBounds DEF PauseKept, Pause
  <2>7. FetchedLately'
    <3> SUFFICES ASSUME document'.age < MaxStale, NEW k \in document.keys
                 PROVE  revokedFor'[k] <= document'.age + Timeout
      BY <2>1 DEF FetchedLately
    <3>1. document.age \in Nat /\ document.age < MaxStale /\ document'.age = document.age + 1
            /\ k \in Kids
      BY <1>1, <2>1, KeyBounds
    <3>2. revokedFor[k] \in Nat /\ revokedFor[k] <= document.age + Timeout
      BY <1>1, <3>1 DEF FetchedLately
    <3> QED BY <2>2, <3>1, <3>2, KeyBounds
  <2>8. AnsweredLately'
    <3> SUFFICES ASSUME inFlight.answered, NEW k \in inFlight.body
                 PROVE  revokedFor'[k] <= inFlight'.age
      BY <1>1, <1>10, <2>3 DEF AnsweredLately, KeysTick
    <3>1. k \in Kids /\ revokedFor[k] \in Nat /\ revokedFor[k] <= inFlight.age
            /\ inFlight.age \in Nat
      BY <1>1 DEF AnsweredLately
    <3>2. inFlight'.age = inFlight.age + 1
      BY <1>1, <2>3 DEF AnsweredLately
    <3>3. revokedFor'[k] <= revokedFor[k] + 1 /\ revokedFor'[k] \in Nat
      BY <2>2, <3>1, KeyBounds
    <3> QED BY <3>1, <3>2, <3>3
  <2>9. ServedNow'
    BY <1>1, <2>2, <2>4 DEF ServedNow
  <2> QED BY <2>4, <2>5, <2>6, <2>7, <2>8, <2>9 DEF KeysInv, AnswerIsOfAKey, RevokedKeyExpires
<1>11. CASE UNCHANGED keysVars
  BY <1>1, <1>11 DEF keysVars, KeysInv, ServedNow, AnsweredLately, FetchedLately, PauseKept, Pause,
     AnswerIsOfAKey, RevokedKeyExpires
<1> QED BY <1>2, <1>4, <1>5, <1>6, <1>7, <1>8, <1>9, <1>10, <1>11 DEF KeysNext

\* A refresh starts late enough.
LEMMA RefreshIsSpaced ==
  ASSUME KeysInv, [KeysNext]_keysVars, inFlight'.on, ~inFlight.on
  PROVE  /\ document.age >= Fresh
         /\ sinceFetch >= Gap
         /\ failures > 0 => sinceFetch >= Backoff[failures]
<1>1. KeysTyped /\ PauseKept
  BY DEF KeysInv
<1>2. \E r \in Requests, k \in Kids : BeginRefresh(r, k)
  BY <1>1 DEF KeysNext, keysVars, Rotate, AnswerAtOnce, Resume, ProviderAnswers, AcceptDocument,
     NoteFailure,
     KeysTick, KeysTyped, NoFetch
<1>3. document.age \in Nat /\ ~(document.age < Fresh) /\ delay \in Nat /\ ~(delay > 0)
        /\ sinceFetch \in Nat /\ failures \in Nat
  BY <1>1, <1>2, KeyBounds DEF BeginRefresh, Answered, NoRefreshDue, KeysTyped, KeysTypeOK
<1> QED BY <1>1, <1>3, PauseBounds, KeyBounds DEF PauseKept, Pause

----
(* SignedUrls: any number of requests and files, and any limit. *)

\* The cache counts the end of an entry from when the signature arrived, storage from when it
\* was made: the cache is behind by no more than the way took.
UrlEntry ==
  {e \in [file : UrlFiles, expires : Nat, until : Nat] : e.expires <= e.until + MaxLag}
UrlCall ==
  {Idle} \cup [step : {"sign"}, file : UrlFiles]
    \cup {k \in [step : {"signed"}, file : UrlFiles, until : Nat] :
            urlTime <= k.until - UrlTtl + MaxLag}
    \cup {k \in [step : {"url"}, file : UrlFiles, left : Int] : k.left > UrlMargin - MaxLag}
OneEach(es) == \A i, j \in DOMAIN es : es[i].file = es[j].file => i = j

UrlsInv ==
  /\ urlTime \in Nat /\ urls \in Seq(UrlEntry) /\ call \in [Calls -> UrlCall]
  /\ OneEach(urls) /\ Len(urls) <= UrlLimit

\* kept are entries of s at some places, each once.
Picked(kept, s, places) ==
  \E at \in [DOMAIN kept -> places] :
    /\ \A i, j \in DOMAIN kept : at[i] = at[j] => i = j
    /\ \A i \in DOMAIN kept : kept[i] = s[at[i]]

\* What is kept of a sequence are its entries at the places kept, each once.
LEMMA KeptPlaces ==
  ASSUME NEW S, NEW s \in Seq(S), NEW places \in SUBSET DOMAIN s
  PROVE  /\ Kept(s, places) \in Seq(S) /\ Len(Kept(s, places)) <= Len(s)
         /\ Picked(Kept(s, places), s, places)
<1>1. Len(s) \in Nat /\ DOMAIN s = 1..Len(s) /\ \A i \in places : i \in Nat /\ s[i] \in S
  OBVIOUS
<1>2. IsFiniteSet(places) /\ Cardinality(places) \in Nat /\ Cardinality(places) <= Len(s)
  <2>1. IsFiniteSet(1..Len(s)) /\ Cardinality(1..Len(s)) = Len(s)
    BY <1>1, FS_Interval
  <2>2. IsFiniteSet(places) /\ Cardinality(places) <= Cardinality(1..Len(s))
    BY <1>1, <2>1, FS_Subset
  <2> QED BY <2>1, <2>2, FS_CardinalityType
<1>a. PICK ahead : ahead = [i \in places |-> {j \in places : j < i}]
  OBVIOUS
<1>b. PICK at : at = InOrder(places, ahead)
  OBVIOUS
<1>3. Orders(ahead, places) /\ \A i \in places : ahead[i] = {j \in places : j < i}
  BY <1>1, <1>a DEF Orders
<1>4. /\ at \in Seq(places) /\ Len(at) \in Nat
      /\ \A i, j \in 1..Len(at) : i < j => at[i] \in ahead[at[j]]
  BY <1>2, <1>3, <1>b, InOrderPlaces
<1>c. PICK m \in Nat : m = Len(at)
  BY <1>4
<1>5. at \in [1..m -> places]
  BY <1>4, <1>c
<1>6. \A i, j \in 1..m : i < j => at[i] < at[j]
  BY <1>3, <1>4, <1>5, <1>c
<1>7. Kept(s, places) = [i \in 1..m |-> s[at[i]]]
  BY <1>a, <1>b, <1>c DEF Kept
<1>8. \A i, j \in 1..m : at[i] = at[j] => i = j
  <2> SUFFICES ASSUME NEW i \in 1..m, NEW j \in 1..m, at[i] = at[j] PROVE i = j
    OBVIOUS
  <2>1. at[i] \in Nat /\ at[j] \in Nat
    BY <1>1, <1>5
  <2>2. ~(i < j) /\ ~(j < i)
    BY <1>6, <2>1
  <2> QED BY <2>2
<1>9. m <= Len(s)
  <2>1. at = [i \in 1..Cardinality(places) |->
                CHOOSE p \in places : Cardinality(ahead[p]) = i - 1]
    BY <1>b DEF InOrder
  <2>2. m = Cardinality(places)
    BY <1>2, <1>c, <2>1
  <2> QED BY <1>2, <2>2
<1>d. PICK kept : kept = [i \in 1..m |-> s[at[i]]]
  OBVIOUS
<1>10. /\ kept \in Seq(S) /\ Len(kept) = m /\ DOMAIN kept = 1..m
       /\ \A i \in 1..m : kept[i] = s[at[i]]
  BY <1>1, <1>5, <1>d
<1>11. Picked(kept, s, places)
  BY <1>5, <1>8, <1>10 DEF Picked
<1> QED BY <1>7, <1>9, <1>10, <1>11, <1>d

\* So entries of one file each remain so.
LEMMA KeptUrls ==
  ASSUME NEW es \in Seq(UrlEntry), OneEach(es), NEW places \in SUBSET DOMAIN es
  PROVE  /\ Kept(es, places) \in Seq(UrlEntry) /\ OneEach(Kept(es, places))
         /\ Len(Kept(es, places)) <= Len(es)
         /\ \A i \in DOMAIN Kept(es, places) : \E j \in places : Kept(es, places)[i] = es[j]
<1>1. PICK kept : kept = Kept(es, places)
  OBVIOUS
<1>2. kept \in Seq(UrlEntry) /\ Len(kept) <= Len(es) /\ Picked(kept, es, places)
  BY <1>1, KeptPlaces
<1>3. PICK at \in [DOMAIN kept -> places] :
        /\ \A i, j \in DOMAIN kept : at[i] = at[j] => i = j
        /\ \A i \in DOMAIN kept : kept[i] = es[at[i]]
  BY <1>2 DEF Picked
<1>4. \A i \in DOMAIN kept : at[i] \in places /\ at[i] \in DOMAIN es
  OBVIOUS
<1>5. OneEach(kept)
  BY <1>3, <1>4 DEF OneEach
<1> QED BY <1>1, <1>2, <1>3, <1>4, <1>5

\* After evict the cache keeps to its limit.
LEMMA Evicted ==
  ASSUME NEW es \in Seq(UrlEntry), OneEach(es)
  PROVE  /\ Evict(es) \in Seq(UrlEntry) /\ OneEach(Evict(es))
         /\ Len(Evict(es)) <= UrlLimit
<1>1. UrlLimit \in Nat \ {0}
  BY SignedUrlsAssumption
<1>a. PICK fresh : fresh = Kept(es, {i \in DOMAIN es : ~Due(es[i])})
  OBVIOUS
<1>2. fresh \in Seq(UrlEntry) /\ OneEach(fresh)
  BY <1>a, KeptUrls
<1>3. CASE Len(es) <= UrlLimit
  BY <1>3 DEF Evict
<1>4. CASE ~(Len(es) <= UrlLimit) /\ Len(fresh) <= UrlLimit
  BY <1>2, <1>4, <1>a DEF Evict
<1>5. CASE ~(Len(es) <= UrlLimit) /\ ~(Len(fresh) <= UrlLimit)
  <2>1. Len(fresh) \in Nat /\ DOMAIN fresh = 1..Len(fresh)
    BY <1>2
  <2>a. PICK n \in Nat : n = Len(fresh)
    BY <2>1
  <2>b. PICK lo : lo = n - UrlLimit + 1
    OBVIOUS
  <2>c. PICK last : last = SubSeq(fresh, lo, n)
    OBVIOUS
  <2>2. lo \in Nat /\ 1 <= lo /\ lo <= n
    BY <1>1, <1>5, <2>a, <2>b
  <2>3. \A i \in lo..n : fresh[i] \in UrlEntry
    BY <1>2, <2>1, <2>2, <2>a
  <2>4. /\ SubSeq(fresh, lo, n) \in Seq(UrlEntry)
        /\ Len(SubSeq(fresh, lo, n)) = n - lo + 1
        /\ \A i \in 1..(n - lo + 1) : SubSeq(fresh, lo, n)[i] = fresh[lo + i - 1]
    <3>1. lo \in Int /\ n \in Int
      BY <2>2
    <3> QED BY <2>2, <2>3, <3>1, SubSeqProperties
  <2>5. /\ last \in Seq(UrlEntry) /\ Len(last) = UrlLimit /\ DOMAIN last = 1..UrlLimit
        /\ \A i \in 1..UrlLimit : last[i] = fresh[lo + i - 1] /\ lo + i - 1 \in DOMAIN fresh
    <3>1. n - lo + 1 = UrlLimit
      BY <1>1, <2>b
    <3>2. \A i \in 1..UrlLimit : lo + i - 1 \in 1..n
      BY <1>1, <2>2, <3>1
    <3> QED BY <1>1, <2>1, <2>4, <2>a, <2>c, <3>1, <3>2
  <2>6. OneEach(last)
    <3> SUFFICES \A i, j \in 1..UrlLimit : last[i].file = last[j].file => i = j
      BY <2>5 DEF OneEach
    <3> SUFFICES ASSUME NEW i \in 1..UrlLimit, NEW j \in 1..UrlLimit,
                        last[i].file = last[j].file
                 PROVE  i = j
      OBVIOUS
    <3>1. lo + i - 1 = lo + j - 1
      BY <1>2, <2>5 DEF OneEach
    <3> QED BY <1>1, <2>2, <3>1
  <2>7. Evict(es) = last
    BY <1>5, <1>a, <2>a, <2>b, <2>c DEF Evict
  <2> QED BY <1>1, <2>5, <2>6, <2>7
<1> QED BY <1>3, <1>4, <1>5

\* Nothing is cached at first.
LEMMA UrlsStart == SignedUrlsInit /\ SlotsInit => UrlsInv
<1> SUFFICES ASSUME SignedUrlsInit, SlotsInit PROVE UrlsInv
  OBVIOUS
<1>1. urlTime = 0 /\ urls = <<>> /\ call = [c \in Calls |-> Idle]
  BY DEF SignedUrlsInit, SlotsInit
<1>2. Idle \in UrlCall
  BY DEF UrlCall
<1>3. Len(urls) <= UrlLimit /\ OneEach(urls) /\ urls \in Seq(UrlEntry)
  BY <1>1, SignedUrlsAssumption DEF OneEach
<1> QED BY <1>1, <1>2, <1>3 DEF UrlsInv

\* A call that is written is one of the calls.
LEMMA UrlCallWritten ==
  ASSUME UrlsInv, NEW c \in Calls, NEW k \in UrlCall, call' = [call EXCEPT ![c] = k],
         UNCHANGED signing
  PROVE  UrlsInv'
<1>1. UrlCall' = UrlCall
  BY DEF UrlCall, signing
<1>2. call' \in [Calls -> UrlCall]
  BY DEF UrlsInv
<1> QED BY <1>1, <1>2 DEF UrlsInv, signing, OneEach

\* The kinds of calls are told apart by their steps.
LEMMA UrlCalls ==
  ASSUME NEW k \in UrlCall
  PROVE  /\ k.step \in {"idle", "sign", "signed", "url"}
         /\ k.step = "sign" => k.file \in UrlFiles
         /\ k.step = "signed" => /\ k.file \in UrlFiles /\ k.until \in Nat
                                 /\ urlTime <= k.until - UrlTtl + MaxLag
                                 /\ k \in [step : {"signed"}, file : UrlFiles, until : Nat]
         /\ k.step = "url" => k \in [step : {"url"}, file : UrlFiles, left : Int]
                                /\ k.left > UrlMargin - MaxLag
BY DEF UrlCall, Idle

\* Every step of the cache keeps its invariant.
LEMMA UrlsKept ==
  ASSUME UrlsInv, [SignedUrlsNext]_<<signing, call>>
  PROVE  UrlsInv'
<1>1. /\ UrlTtl \in Nat /\ UrlMargin \in Nat /\ UrlTtl > UrlMargin /\ UrlLimit \in Nat \ {0}
      /\ MaxLag \in Nat /\ MaxLag <= UrlMargin
  BY SignedUrlsAssumption
<1>2. /\ urlTime \in Nat /\ urls \in Seq(UrlEntry) /\ call \in [Calls -> UrlCall]
      /\ OneEach(urls) /\ Len(urls) <= UrlLimit
  BY DEF UrlsInv
<1>3. Idle \in UrlCall
  BY DEF UrlCall
<1>4. \A file \in UrlFiles, until \in Nat : until - urlTime > UrlMargin - MaxLag =>
        Given(file, until) \in UrlCall
  BY <1>1, <1>2 DEF UrlCall, Given
<1>5. ASSUME NEW c \in Calls, NEW file \in UrlFiles, GetCached(c, file) PROVE UrlsInv'
  <2>1. PICK e \in Entries(file) : ~Due(e) /\ Begin(c, Given(file, e.until))
    BY <1>5 DEF GetCached
  <2>2. PICK i \in DOMAIN urls : e = urls[i]
    BY <2>1 DEF Entries, ToSet
  <2>3. e \in UrlEntry
    BY <1>2, <2>2
  <2>4. e.expires \in Nat /\ e.until \in Nat /\ e.expires <= e.until + MaxLag
    BY <2>3 DEF UrlEntry
  <2>5. urlTime < e.expires - UrlMargin
    BY <1>1, <1>2, <2>1, <2>4 DEF Due
  <2>6. e.until - urlTime > UrlMargin - MaxLag
    BY <1>1, <1>2, <2>4, <2>5
  <2>7. Given(file, e.until) \in UrlCall
    BY <1>4, <2>4, <2>6
  <2> QED BY <1>5, <2>1, <2>7, UrlCallWritten DEF GetCached, Begin
<1>6. ASSUME NEW c \in Calls, NEW file \in UrlFiles, GetMissed(c, file) PROVE UrlsInv'
  <2> DEFINE k == [step |-> "sign", file |-> file]
  <2>1. k \in UrlCall /\ UrlCall' = UrlCall
    BY <1>6 DEF UrlCall, GetMissed
  <2>2. urlTime' = urlTime /\ urls' = Without(file) /\ call' = [call EXCEPT ![c] = k]
    BY <1>6 DEF GetMissed, Begin
  <2>3. /\ Without(file) \in Seq(UrlEntry) /\ OneEach(Without(file))
        /\ Len(Without(file)) <= Len(urls)
    BY <1>2, KeptUrls DEF Without
  <2>4. Len(Without(file)) <= UrlLimit
    BY <1>1, <1>2, <2>3
  <2> HIDE DEF k
  <2>5. call' \in [Calls -> UrlCall]
    BY <1>2, <2>1, <2>2
  <2> QED BY <1>2, <2>1, <2>2, <2>3, <2>4, <2>5 DEF UrlsInv, OneEach
<1>7. ASSUME NEW c \in Calls, CreateSignedUrl(c) PROVE UrlsInv'
  <2>2. call[c] \in UrlCall /\ call[c].step = "sign" /\ call[c].file \in UrlFiles
    BY <1>2, <1>7, UrlCalls DEF CreateSignedUrl, At
  <2>3. PICK k : /\ k = [step |-> "signed", file |-> call[c].file, until |-> urlTime + UrlTtl]
    OBVIOUS
  <2>4. k \in UrlCall
    BY <1>1, <1>2, <2>2, <2>3 DEF UrlCall
  <2>5. call' = [call EXCEPT ![c] = k] \/ call' = [call EXCEPT ![c] = Idle]
    BY <1>2, <1>7, <2>3 DEF CreateSignedUrl, Finish
  <2> QED BY <1>3, <1>7, <2>4, <2>5, UrlCallWritten DEF CreateSignedUrl
<1>8. ASSUME NEW c \in Calls, SetUrl(c) PROVE UrlsInv'
  <2>1. /\ call[c].file \in UrlFiles /\ call[c].until \in Nat
        /\ urlTime <= call[c].until - UrlTtl + MaxLag
    BY <1>2, <1>8, UrlCalls DEF SetUrl, At
  <2>2. PICK file \in UrlFiles, until \in Nat : file = call[c].file /\ until = call[c].until
    BY <2>1
  <2>3. PICK e : e = [file |-> file, expires |-> urlTime + UrlTtl, until |-> until]
    OBVIOUS
  <2>4. e \in UrlEntry /\ e.file = file
    BY <1>1, <1>2, <2>1, <2>2, <2>3 DEF UrlEntry
  <2>5. PICK rest : rest = Without(file)
    OBVIOUS
  <2>6. /\ rest \in Seq(UrlEntry) /\ OneEach(rest)
        /\ \A i \in DOMAIN rest : rest[i].file # file
    BY <1>2, <2>5, KeptUrls DEF Without
  <2>7. Append(rest, e) \in Seq(UrlEntry) /\ OneEach(Append(rest, e))
    <3> PICK n \in Nat : n = Len(rest) /\ DOMAIN rest = 1..n
      BY <2>6
    <3>1. PICK es : es = Append(rest, e)
      OBVIOUS
    <3>2. /\ es \in Seq(UrlEntry) /\ DOMAIN es = 1..(n + 1) /\ es[n + 1] = e
          /\ \A i \in 1..n : es[i] = rest[i]
      BY <2>4, <2>6, <3>1
    <3>3. \A i \in 1..(n + 1) : i \in 1..n \/ i = n + 1
      OBVIOUS
    <3>4. OneEach(es)
      BY <2>4, <2>6, <3>2, <3>3 DEF OneEach
    <3> QED BY <3>1, <3>2, <3>4
  <2>8. /\ urls' = Evict(Append(rest, e)) /\ urlTime' = urlTime
        /\ call' = [call EXCEPT ![c] = Given(file, until)]
    BY <1>8, <2>2, <2>3, <2>5 DEF SetUrl
  <2>9. Given(file, until) \in UrlCall
    BY <1>1, <1>2, <1>4, <2>1, <2>2
  <2>10. /\ Evict(Append(rest, e)) \in Seq(UrlEntry) /\ OneEach(Evict(Append(rest, e)))
         /\ Len(Evict(Append(rest, e))) <= UrlLimit
    BY <2>7, Evicted
  <2>11. UrlCall' = UrlCall /\ call' \in [Calls -> UrlCall]
    BY <1>2, <2>8, <2>9 DEF UrlCall
  <2> QED BY <1>2, <2>8, <2>10, <2>11 DEF UrlsInv, OneEach
<1>9. ASSUME NEW c \in Calls, UseUrl(c) PROVE UrlsInv'
  BY <1>3, <1>9, UrlCallWritten DEF UseUrl, Finish
<1>10. ASSUME PassTime PROVE UrlsInv'
  <2>1. urlTime' = urlTime + 1 /\ urls' = urls /\ call' = call
    BY <1>10 DEF PassTime
  <2>2. ASSUME NEW c \in Calls PROVE call[c] \in UrlCall'
    <3>1. call[c] \in UrlCall
      BY <1>2
    <3>2. CASE call[c].step = "signed"
      <4>1. /\ call[c].until \in Nat /\ urlTime - (call[c].until - UrlTtl) < MaxLag
            /\ call[c] \in [step : {"signed"}, file : UrlFiles, until : Nat]
        BY <1>10, <3>1, <3>2, UrlCalls DEF PassTime, At
      <4>2. urlTime' <= call[c].until - UrlTtl + MaxLag
        BY <1>1, <1>2, <2>1, <4>1
      <4> QED BY <4>1, <4>2 DEF UrlCall
    <3>3. CASE call[c].step # "signed"
      BY <3>1, <3>3 DEF UrlCall
    <3> QED BY <3>2, <3>3
  <2>3. call' \in [Calls -> UrlCall']
    BY <1>2, <2>1, <2>2
  <2> QED BY <1>2, <2>1, <2>3 DEF UrlsInv, OneEach
<1>11. CASE UNCHANGED <<signing, call>>
  BY <1>2, <1>11 DEF UrlsInv, UrlCall, signing, OneEach
<1> QED BY <1>5, <1>6, <1>7, <1>8, <1>9, <1>10, <1>11 DEF SignedUrlsNext

\* What is given out lasts, and the cache keeps to its limit.
LEMMA UrlsShow == UrlsInv => UrlsLast
<1> SUFFICES ASSUME UrlsInv PROVE UrlsLast
  OBVIOUS
<1>1. ASSUME NEW c \in Calls, At(c, "url") PROVE call[c].left > UrlMargin - MaxLag
  BY <1>1, UrlCalls DEF UrlsInv, At
<1> QED BY <1>1 DEF UrlsInv, UrlsLast, OneEach

----
(* Operations: any number of callers of the cards. *)

Known == States \cup {"unavailable", "refused", "not_available", "not_configured"}
Entry == [state : Known, age : 0..Oldest, since : 0..Oldest]
\* What the cache says was so at most the time of a load before it was stored.
EntrySound(e) == e = None \/ (e \in Entry /\ e.since <= e.age + LoadTicks)

FetchCall == [step : {"fetch"}, card : Cards, previous : Entry \cup {None}, spent : 0..LoadTicks]
ProbeCall == [step : {"probe"}, card : Cards \cup {"health"}, previous : Entry \cup {None},
              spent : 0..LoadTicks]
FetchedCall == [step : {"fetched"}, card : Cards, previous : Entry \cup {None},
                spent : 0..LoadTicks, result : Known, since : 0..LoadTicks]
CardCall == [step : {"card"}, card : Cards, state : Known, stale : BOOLEAN, since : Nat]
JoinedCall == [step : {"joined"}, card : Cards, on : Calls]

CallSound(k) ==
  \/ k = Idle
  \/ k \in FetchCall \cup ProbeCall /\ EntrySound(k.previous)
  \/ k \in FetchedCall /\ EntrySound(k.previous) /\ k.since <= k.spent
  \/ k \in CardCall /\ k.since < LoadTicks + (IF k.stale THEN StaleTicks ELSE FreshTicks)
  \/ k \in JoinedCall

OperationsTyped ==
  /\ cards \in [Cards -> Entry \cup {None}] /\ \A id \in Cards : EntrySound(cards[id])
  /\ inflight \in [Cards -> Calls \cup {None}]
  /\ probing \in [shared : BOOLEAN, queries : {0, 1}]
  /\ probing.queries = IF probing.shared THEN 1 ELSE 0
  /\ DOMAIN call = Calls /\ \A c \in Calls : CallSound(call[c])

\* The refresh of a card that is in flight is the one call that loads it, and those that
\* joined wait for it.
LoadsInFlight ==
  /\ \A c \in Calls, id \in Cards : Loading(c, id) => inflight[id] = c
  /\ \A id \in Cards : inflight[id] # None => Loading(inflight[id], id)
  /\ \A c \in Calls : At(c, "joined") => inflight[call[c].card] = call[c].on

OperationsInv == OperationsTyped /\ LoadsInFlight

\* The times are ordered, and None is no call.
LEMMA Ticks ==
  /\ FreshTicks \in Nat \ {0} /\ StaleTicks \in Nat \ {0} /\ LoadTicks \in Nat \ {0}
  /\ FreshTicks <= StaleTicks /\ Oldest \in Nat /\ Oldest = StaleTicks + LoadTicks
  /\ None \notin Calls /\ "health" \notin Cards
BY OperationsAssumption DEF Oldest

\* The invariant holds what is asked of the cards.
LEMMA OperationsShow == OperationsInv => CardsHold
<1> SUFFICES ASSUME OperationsInv PROVE CardsHold
  OBVIOUS
<1>1. \A c \in Calls : At(c, "card") =>
        call[c].since < LoadTicks + (IF call[c].stale THEN StaleTicks ELSE FreshTicks)
  BY DEF OperationsInv, OperationsTyped, CallSound, At, Idle, FetchCall, ProbeCall, FetchedCall,
     JoinedCall
<1>2. \A c, d \in Calls, id \in Cards : Loading(c, id) /\ Loading(d, id) => c = d
  BY DEF OperationsInv, LoadsInFlight
<1>3. ASSUME NEW c \in Calls, At(c, "joined") PROVE Loading(call[c].on, call[c].card)
  <2>1. call[c].card \in Cards /\ call[c].on \in Calls
    BY <1>3 DEF OperationsInv, OperationsTyped, CallSound, At, Idle, FetchCall, ProbeCall,
       FetchedCall, CardCall, JoinedCall
  <2>2. inflight[call[c].card] = call[c].on
    BY <1>3 DEF OperationsInv, LoadsInFlight
  <2> QED BY <2>1, <2>2, Ticks DEF OperationsInv, LoadsInFlight
<1>4. probing.queries <= 1
  BY DEF OperationsInv, OperationsTyped
<1> QED BY <1>1, <1>2, <1>3, <1>4 DEF CardsHold

\* Nothing is cached or loaded at first.
LEMMA OperationsStart == OperationsInit /\ SlotsInit => OperationsInv
BY DEF OperationsInit, SlotsInit, OperationsInv, OperationsTyped, EntrySound, CallSound,
   LoadsInFlight, Loading, At, Idle

\* The kind of a call is the step it is at.
LEMMA StepKinds ==
  ASSUME NEW k, CallSound(k)
  PROVE  /\ k.step = "fetch" => k \in FetchCall /\ EntrySound(k.previous)
         /\ k.step = "probe" => k \in ProbeCall /\ EntrySound(k.previous)
         /\ k.step = "fetched" => k \in FetchedCall /\ EntrySound(k.previous) /\ k.since <= k.spent
         /\ k.step = "joined" => k \in JoinedCall
BY DEF CallSound, Idle, FetchCall, ProbeCall, FetchedCall, CardCall, JoinedCall

\* A step after which the same calls load the same cards.
LEMMA LoadsStay ==
  ASSUME OperationsInv, OperationsTyped', UNCHANGED inflight,
         \A c \in Calls, id \in Cards : Loading(c, id)' <=> Loading(c, id),
         \A c \in Calls : At(c, "joined")' =>
           (At(c, "joined") /\ call'[c] = call[c]) \/ inflight[call'[c].card] = call'[c].on
  PROVE  OperationsInv'
<1>1. \A id \in Cards : inflight[id] # None => inflight[id] \in Calls
  BY DEF OperationsInv, OperationsTyped
<1> QED BY <1>1 DEF OperationsInv, LoadsInFlight, Loading, At

\* The smaller of two numbers.
LEMMA MinOfTwoTicks ==
  ASSUME NEW x \in Int, NEW y \in Int
  PROVE  Min({x, y}) = IF x <= y THEN x ELSE y
<1> DEFINE m == IF x <= y THEN x ELSE y
<1>1. m \in {x, y} /\ \A z \in {x, y} : m <= z
  OBVIOUS
<1>2. \A n \in {x, y} : (\A z \in {x, y} : n <= z) => n = m
  OBVIOUS
<1> QED BY <1>1, <1>2 DEF Min

\* An entry gets older together with what it says.
LEMMA AgedSound ==
  ASSUME NEW e, EntrySound(e)
  PROVE  EntrySound(Aged(e)) /\ Aged(e) \in Entry \cup {None}
<1>1. CASE e = None
  BY <1>1 DEF Aged, EntrySound
<1>2. CASE e # None
  <2>1. e \in Entry /\ e.since <= e.age + LoadTicks /\ e.age \in 0..Oldest /\ e.since \in 0..Oldest
    BY <1>2 DEF EntrySound, Entry
  <2>2. /\ Grown(e.age) = IF e.age + 1 <= Oldest THEN e.age + 1 ELSE Oldest
        /\ Grown(e.since) = IF e.since + 1 <= Oldest THEN e.since + 1 ELSE Oldest
    BY <2>1, Ticks, MinOfTwoTicks DEF Grown
  <2>3. Grown(e.age) \in 0..Oldest /\ Grown(e.since) \in 0..Oldest
        /\ Grown(e.since) <= Grown(e.age) + LoadTicks
    BY <2>1, <2>2, Ticks
  <2>4. Aged(e) = [state |-> e.state, age |-> Grown(e.age), since |-> Grown(e.since)]
    BY <1>2 DEF Aged
  <2> QED BY <2>1, <2>3, <2>4 DEF Entry, EntrySound
<1> QED BY <1>1, <1>2

\* An entry that is stored says what was so during its load.
LEMMA LoadedSound ==
  ASSUME NEW k, NEW result \in Known, CallSound(k), k.step \in {"fetch", "probe"}, k.card \in Cards
  PROVE  CallSound(Loaded(k, result)) /\ Loaded(k, result).step = "fetched"
         /\ Loaded(k, result).card = k.card
BY StepKinds, Ticks DEF Loaded, CallSound, FetchCall, ProbeCall, FetchedCall

\* Every step of a load, of those that join it and of time keeps the invariant.
LEMMA OperationsKept ==
  ASSUME OperationsInv, [OperationsNext]_<<operating, call>>
  PROVE  OperationsInv'
<1>1. OperationsTyped /\ LoadsInFlight
  BY DEF OperationsInv
<1>2. \A c \in Calls : CallSound(call[c])
  BY DEF OperationsInv, OperationsTyped
<1>3. ASSUME NEW id \in Cards PROVE Reported(id) \cup Failures(id) \subseteq Known
  BY DEF Reported, Failures, Known
<1>4. ASSUME OperationsTick PROVE OperationsInv'
  <2>1. ASSUME NEW c \in Calls
        PROVE  /\ CallSound(call'[c]) /\ call'[c].step = call[c].step
               /\ call[c].step \in {"fetch", "probe", "fetched"} => call'[c].card = call[c].card
               /\ call[c].step = "joined" => call'[c] = call[c]
    <3>1. call'[c] = Carried(call[c]) /\ CallSound(call[c])
            /\ (call[c].step \in {"fetch", "probe", "fetched"} => call[c].spent < LoadTicks)
      BY <1>2, <1>4 DEF OperationsTick
    <3>2. CASE call[c].step \in {"fetch", "probe"}
      <4>1. call'[c] = [call[c] EXCEPT !.previous = Aged(@), !.spent = @ + 1]
        BY <3>1, <3>2 DEF Carried
      <4>2. call[c] \in FetchCall \cup ProbeCall /\ EntrySound(call[c].previous)
        BY <3>1, <3>2, StepKinds
      <4>3. call[c].spent + 1 \in 0..LoadTicks
        BY <3>1, <3>2, <4>2, Ticks DEF FetchCall, ProbeCall
      <4>4. EntrySound(Aged(call[c].previous)) /\ Aged(call[c].previous) \in Entry \cup {None}
        BY <4>2, AgedSound
      <4> QED BY <4>1, <4>2, <4>3, <4>4 DEF CallSound, FetchCall, ProbeCall
    <3>3. CASE call[c].step = "fetched"
      <4>1. call'[c] = [call[c] EXCEPT !.previous = Aged(@), !.spent = @ + 1, !.since = @ + 1]
        BY <3>1, <3>3 DEF Carried
      <4>2. call[c] \in FetchedCall /\ EntrySound(call[c].previous)
              /\ call[c].since <= call[c].spent
        BY <3>1, <3>3, StepKinds
      <4>3. call[c].spent + 1 \in 0..LoadTicks /\ call[c].since + 1 \in 0..LoadTicks
              /\ call[c].since + 1 <= call[c].spent + 1
        BY <3>1, <3>3, <4>2, Ticks DEF FetchedCall
      <4>4. EntrySound(Aged(call[c].previous)) /\ Aged(call[c].previous) \in Entry \cup {None}
        BY <4>2, AgedSound
      <4> QED BY <4>1, <4>2, <4>3, <4>4 DEF CallSound, FetchedCall
    <3>4. CASE call[c].step \notin {"fetch", "probe", "fetched"}
      BY <3>1, <3>4 DEF Carried
    <3> QED BY <3>2, <3>3, <3>4
  <2>2. OperationsTyped'
    <3>1. ASSUME NEW id \in Cards
          PROVE  EntrySound(cards'[id]) /\ cards'[id] \in Entry \cup {None}
      BY <1>1, <1>4, AgedSound DEF OperationsTick, OperationsTyped
    <3>2. DOMAIN cards' = Cards /\ cards' = [id \in Cards |-> cards'[id]]
            /\ UNCHANGED <<inflight, probing>> /\ DOMAIN call' = Calls
      BY <1>4 DEF OperationsTick
    <3> QED BY <1>1, <2>1, <3>1, <3>2 DEF OperationsTyped
  <2> QED BY <1>4, <2>1, <2>2, LoadsStay DEF OperationsTick, Loading, At
<1>5. ASSUME ProbeSettles PROVE OperationsInv'
  <2>1. PICK status \in Reported("database") :
          call' = [c \in Calls |-> IF At(c, "probe") THEN DatabaseStatus(call[c], status)
                                ELSE call[c]]
    BY <1>5 DEF ProbeSettles
  <2>2. status \in Known
    BY DEF Reported, Known
  <2>3. ASSUME NEW c \in Calls, At(c, "probe")
        PROVE  /\ CallSound(call'[c]) /\ call'[c].step # "joined"
               /\ \A id \in Cards : Loading(c, id)' <=> Loading(c, id)
    <3>1. call'[c] = DatabaseStatus(call[c], status) /\ call[c] \in ProbeCall
      BY <1>2, <2>1, <2>3, StepKinds DEF At
    <3>2. CASE call[c].card = "health"
      BY <3>1, <3>2, <2>3, Ticks DEF DatabaseStatus, CallSound, Idle, Loading, At
    <3>3. CASE call[c].card # "health"
      <4>1. call'[c] = Loaded(call[c], status) /\ call[c].card \in Cards
        BY <3>1, <3>3 DEF DatabaseStatus, ProbeCall
      <4>2. CallSound(call'[c]) /\ call'[c].step = "fetched" /\ call'[c].card = call[c].card
        BY <1>2, <2>2, <2>3, <4>1, LoadedSound DEF At
      <4> QED BY <2>3, <4>2 DEF Loading, At
    <3> QED BY <3>2, <3>3
  <2>4. \A c \in Calls : ~At(c, "probe") => call'[c] = call[c]
    BY <2>1
  <2>5. OperationsTyped'
    <3>1. DOMAIN call' = Calls /\ \A c \in Calls : CallSound(call'[c])
      BY <1>2, <2>1, <2>3, <2>4
    <3>2. probing' = [shared |-> FALSE, queries |-> 0]
      <4>1. probing.queries = 1
        BY <1>1, <1>5 DEF ProbeSettles, OperationsTyped
      <4> QED BY <1>5, <4>1 DEF ProbeSettles
    <3> QED BY <1>1, <1>5, <3>1, <3>2 DEF OperationsTyped, ProbeSettles
  <2> QED BY <1>5, <2>3, <2>4, <2>5, LoadsStay DEF ProbeSettles, Loading, At
<1>6. ASSUME NEW c \in Calls, NEW k, CallSound(k), call' = [call EXCEPT ![c] = k],
             UNCHANGED <<cards, inflight>>, probing' \in [shared : BOOLEAN, queries : {0, 1}],
             probing'.queries = IF probing'.shared THEN 1 ELSE 0,
             \A id \in Cards :
               (k.step \in {"fetch", "probe", "fetched"} /\ k.card = id) <=> Loading(c, id),
             k.step = "joined" => inflight[k.card] = k.on
      PROVE  OperationsInv'
  <2>1. call'[c] = k /\ (\A d \in Calls : d # c => call'[d] = call[d]) /\ DOMAIN call' = Calls
    BY <1>1, <1>6 DEF OperationsTyped
  <2>2. OperationsTyped'
    BY <1>1, <1>6, <2>1 DEF OperationsTyped
  <2> QED BY <1>6, <2>1, <2>2, LoadsStay DEF Loading, At
<1>7. /\ probing \in [shared : BOOLEAN, queries : {0, 1}]
      /\ probing.queries = IF probing.shared THEN 1 ELSE 0
  BY <1>1 DEF OperationsTyped
<1>8. SharedProbe => /\ probing' \in [shared : BOOLEAN, queries : {0, 1}]
                     /\ probing'.queries = IF probing'.shared THEN 1 ELSE 0
  BY <1>7 DEF SharedProbe
<1>9. ASSUME NEW c \in Calls, GetHealth(c) PROVE OperationsInv'
  <2> PICK k : k = [step |-> "probe", card |-> "health", previous |-> None, spent |-> 0]
    OBVIOUS
  <2>1. CallSound(k)
    BY Ticks DEF CallSound, ProbeCall, EntrySound
  <2>2. /\ k.step = "probe" /\ k.card = "health" /\ \A id \in Cards : ~Loading(c, id) /\ k.card # id
        /\ call' = [call EXCEPT ![c] = k] /\ SharedProbe /\ UNCHANGED <<cards, inflight>>
    BY <1>9, Ticks DEF GetHealth, Begin, Loading, At, Idle
  <2> QED BY <1>6, <1>8, <2>1, <2>2
<1>10. ASSUME NEW c \in Calls, ProbeDeadline(c) PROVE OperationsInv'
  <2> PICK k : k = DatabaseStatus(call[c], "unavailable")
    OBVIOUS
  <2>1. call[c] \in ProbeCall /\ call[c].step = "probe" /\ "unavailable" \in Known
    BY <1>2, <1>10, StepKinds DEF ProbeDeadline, At, Known
  <2>2. call' = [call EXCEPT ![c] = k] /\ UNCHANGED operating
    BY <1>10 DEF ProbeDeadline
  <2>3. CASE call[c].card = "health"
    <3>1. k = Idle
      BY <2>3 DEF DatabaseStatus
    <3>2. CallSound(k) /\ k.step = "idle" /\ \A id \in Cards : ~Loading(c, id)
      BY <2>1, <2>3, <3>1, Ticks DEF CallSound, Idle, Loading, At
    <3> QED BY <1>6, <1>7, <2>2, <3>2 DEF operating
  <2>4. CASE call[c].card # "health"
    <3>1. k = Loaded(call[c], "unavailable") /\ call[c].card \in Cards
      BY <2>1, <2>4 DEF DatabaseStatus, ProbeCall
    <3>2. CallSound(k) /\ k.step = "fetched" /\ k.card = call[c].card
      BY <1>2, <2>1, <3>1, LoadedSound
    <3> QED BY <1>6, <1>7, <2>1, <2>2, <3>2 DEF operating, Loading, At
  <2> QED BY <2>3, <2>4
<1>11. ASSUME NEW c \in Calls, CardLoads(c) PROVE OperationsInv'
  <2>1. PICK result \in Reported(call[c].card) \cup Failures(call[c].card) :
          call' = [call EXCEPT ![c] = Loaded(call[c], result)]
    BY <1>11 DEF CardLoads
  <2> PICK k : k = Loaded(call[c], result)
    OBVIOUS
  <2>2. call[c].card \in Cards /\ call[c].step = "fetch"
    BY <1>2, <1>11, StepKinds DEF CardLoads, At, FetchCall
  <2>3. CallSound(k) /\ k.step = "fetched" /\ k.card = call[c].card
    BY <1>2, <1>3, <2>2, LoadedSound
  <2> QED BY <1>6, <1>7, <1>11, <2>1, <2>2, <2>3 DEF CardLoads, operating, Loading, At
<1>12. ASSUME NEW c \in Calls, UseCard(c) PROVE OperationsInv'
  <2> PICK k : k = Idle
    OBVIOUS
  <2>1. CallSound(k) /\ k.step = "idle" /\ call' = [call EXCEPT ![c] = k]
    BY <1>12 DEF CallSound, Idle, UseCard, Finish
  <2> QED BY <1>6, <1>7, <1>12, <2>1 DEF UseCard, operating, Loading, At
<1>13. ASSUME NEW c \in Calls, NEW id \in Cards, CardNotConfigured(c, id) PROVE OperationsInv'
  <2> PICK k : k = CardShown(id, "not_configured", FALSE, 0)
    OBVIOUS
  <2>1. CallSound(k) /\ k.step = "card"
    BY Ticks DEF CardShown, CallSound, CardCall, Known
  <2>2. (\A i \in Cards : ~Loading(c, i)) /\ call' = [call EXCEPT ![c] = k] /\ UNCHANGED operating
    BY <1>13 DEF CardNotConfigured, Begin, Loading, At, Idle
  <2> QED BY <1>6, <1>7, <2>1, <2>2 DEF operating
<1>14. ASSUME NEW id \in Cards, NEW e, EntrySound(e), e # None, NEW stale \in BOOLEAN,
              e.age < IF stale THEN StaleTicks ELSE FreshTicks
       PROVE  CallSound(Copy(id, e, stale)) /\ Copy(id, e, stale).step = "card"
  BY <1>14, Ticks DEF Copy, CardShown, CallSound, CardCall, EntrySound, Entry
<1>15. ASSUME NEW c \in Calls, NEW id \in Cards, CardCached(c, id) PROVE OperationsInv'
  <2> PICK k : k = Copy(id, cards[id], FALSE)
    OBVIOUS
  <2>1. CallSound(k) /\ k.step = "card"
    BY <1>1, <1>14, <1>15 DEF CardCached, FreshCard, OperationsTyped
  <2>2. (\A i \in Cards : ~Loading(c, i)) /\ call' = [call EXCEPT ![c] = k] /\ UNCHANGED operating
    BY <1>15 DEF CardCached, Begin, Loading, At, Idle
  <2> QED BY <1>6, <1>7, <2>1, <2>2 DEF operating
<1>16. ASSUME NEW c \in Calls, NEW id \in Cards, CardJoined(c, id) PROVE OperationsInv'
  <2> PICK k : k = [step |-> "joined", card |-> id, on |-> inflight[id]]
    OBVIOUS
  <2>1. CallSound(k)
    BY <1>1, <1>16 DEF CardJoined, OperationsTyped, CallSound, JoinedCall
  <2>2. (\A i \in Cards : ~Loading(c, i)) /\ call' = [call EXCEPT ![c] = k] /\ UNCHANGED operating
    BY <1>16 DEF CardJoined, Begin, Loading, At, Idle
  <2>3. k.step = "joined" /\ inflight[k.card] = k.on
    OBVIOUS
  <2> QED BY <1>6, <1>7, <2>1, <2>2, <2>3 DEF operating
<1>17. ASSUME NEW c \in Calls, NEW id \in Cards, CardRefresh(c, id) PROVE OperationsInv'
  <2>1. PICK step \in {"fetch", "probe"} : call' = [call EXCEPT ![c] = CardLoad(step, id)]
    BY <1>17 DEF CardRefresh, Begin
  <2> PICK k : k = CardLoad(step, id)
    OBVIOUS
  <2>2. /\ k.step \in {"fetch", "probe"} /\ k.card = id
        /\ CallSound(k)
    BY <1>1, Ticks DEF CardLoad, CallSound, FetchCall, ProbeCall, OperationsTyped
  <2>3. call'[c] = k /\ (\A d \in Calls : d # c => call'[d] = call[d]) /\ DOMAIN call' = Calls
          /\ call[c] = Idle
    BY <1>1, <1>17, <2>1 DEF OperationsTyped, CardRefresh, Begin
  <2>4. /\ inflight' = [inflight EXCEPT ![id] = c] /\ inflight[id] = None /\ UNCHANGED cards
        /\ probing' \in [shared : BOOLEAN, queries : {0, 1}]
        /\ probing'.queries = IF probing'.shared THEN 1 ELSE 0
    BY <1>7, <1>8, <1>17 DEF CardRefresh
  <2>5. OperationsTyped'
    BY <1>1, <2>2, <2>3, <2>4 DEF OperationsTyped
  <2>6. inflight'[id] = c /\ \A i \in Cards : i # id => inflight'[i] = inflight[i]
    BY <1>1, <2>4 DEF OperationsTyped
  <2>7. \A d \in Calls : At(d, "joined") => call[d].card # id /\ call[d].card \in Cards
    BY <1>1, <1>2, <2>4, StepKinds, Ticks DEF LoadsInFlight, At, JoinedCall
  <2>8. \A d \in Calls, i \in Cards : Loading(d, i)' <=> Loading(d, i) \/ (d = c /\ i = id)
    BY <2>2, <2>3 DEF Loading, At, Idle
  <2>9. \A d \in Calls : At(d, "joined")' => At(d, "joined") /\ call'[d] = call[d]
    BY <2>2, <2>3 DEF At, Idle
  <2>10. \A i \in Cards : inflight[i] # None => inflight[i] \in Calls
    BY <1>1 DEF OperationsTyped
  <2>11. LoadsInFlight'
    <3>1. \A d \in Calls, i \in Cards : Loading(d, i)' => inflight'[i] = d
      BY <1>1, <2>4, <2>6, <2>8, Ticks DEF LoadsInFlight
    <3>2. \A i \in Cards : inflight'[i] # None => Loading(inflight[i], i)'
      <4> SUFFICES ASSUME NEW i \in Cards, inflight'[i] # None
                   PROVE  Loading(inflight[i], i)'
        OBVIOUS
      <4> PICK d : d = inflight'[i]
        OBVIOUS
      <4>1. d \in Calls /\ (Loading(d, i) \/ (d = c /\ i = id))
        BY <1>1, <2>6, <2>10 DEF LoadsInFlight
      <4>2. call'[d].step \in {"fetch", "probe", "fetched"} /\ call'[d].card = i
        BY <2>8, <4>1 DEF Loading, At
      <4> QED BY <4>1, <4>2 DEF Loading, At
    <3>3. \A d \in Calls : At(d, "joined")' => inflight'[call'[d].card] = call'[d].on
      BY <1>1, <2>6, <2>7, <2>9 DEF LoadsInFlight
    <3> QED BY <3>1, <3>2, <3>3 DEF LoadsInFlight
  <2> QED BY <2>5, <2>11 DEF OperationsInv
<1>18. ASSUME NEW c \in Calls, RefreshEnds(c) PROVE OperationsInv'
  <2> PICK k : k = call[c]
    OBVIOUS
  <2>1. /\ k \in FetchedCall /\ EntrySound(k.previous) /\ k.since <= k.spent /\ k.step = "fetched"
        /\ k.card \in Cards /\ k.since \in 0..LoadTicks /\ k.result \in Known
    BY <1>2, <1>18, StepKinds DEF RefreshEnds, At, FetchedCall
  <2>2. ASSUME NEW state \in Known
        PROVE  CallSound(CardShown(k.card, state, FALSE, k.since))
    BY <2>1, Ticks DEF CardShown, CallSound, CardCall
  <2>3. \E card :
          /\ Resolves(c, k, card) /\ CallSound(card) /\ card.step = "card"
          /\ \/ UNCHANGED cards
             \/ \E state \in Known :
                  cards' = [cards EXCEPT ![k.card] = [state |-> state, age |-> 0,
                    since |-> k.since]]
    <3>1. CASE /\ Keepable(k.previous) /\ UNCHANGED cards
               /\ Resolves(c, k, Copy(k.card, k.previous, TRUE))
      BY <1>14, <2>1, <3>1 DEF Keepable
    <3>2. CASE Resolves(c, k, CardShown(k.card, "unavailable", FALSE, k.since)) /\ UNCHANGED cards
      BY <2>2, <3>2 DEF Known, CardShown
    <3>3. CASE \E state \in {"not_available", k.result} : Stores(c, k, state)
      BY <2>1, <2>2, <3>3 DEF Known, Stores, CardShown
    <3> QED BY <1>18, <3>1, <3>2, <3>3 DEF RefreshEnds
  <2>4. PICK card :
          /\ Resolves(c, k, card) /\ CallSound(card) /\ card.step = "card"
          /\ \/ UNCHANGED cards
             \/ \E state \in Known :
                  cards' = [cards EXCEPT ![k.card] = [state |-> state, age |-> 0,
                    since |-> k.since]]
    BY <2>3
  <2>5. Loading(c, k.card) /\ inflight[k.card] = c
    BY <1>1, <2>1 DEF Loading, At, LoadsInFlight
  <2>6. /\ inflight' = [inflight EXCEPT ![k.card] = None] /\ UNCHANGED probing
        /\ DOMAIN call' = Calls
        /\ \A d \in Calls : d = c \/ (At(d, "joined") /\ call[d].on = c) => call'[d] = card
        /\ \A d \in Calls : ~(d = c \/ (At(d, "joined") /\ call[d].on = c)) => call'[d] = call[d]
    BY <1>18, <2>4, <2>5 DEF Resolves, RefreshEnds
  <2>7. cards' \in [Cards -> Entry \cup {None}] /\ \A id \in Cards : EntrySound(cards'[id])
    <3>1. CASE UNCHANGED cards
      BY <1>1, <3>1 DEF OperationsTyped
    <3>2. ASSUME NEW state \in Known,
                 cards' = [cards EXCEPT ![k.card] = [state |-> state, age |-> 0, since |-> k.since]]
          PROVE  cards' \in [Cards -> Entry \cup {None}] /\ \A id \in Cards : EntrySound(cards'[id])
      <4> PICK e : e = [state |-> state, age |-> 0, since |-> k.since]
        OBVIOUS
      <4>1. e \in Entry /\ EntrySound(e)
        BY <2>1, Ticks DEF Entry, EntrySound
      <4> QED BY <1>1, <2>1, <3>2, <4>1 DEF OperationsTyped
    <3> QED BY <2>4, <3>1, <3>2
  <2>8. \A d \in Calls : CallSound(call'[d])
    BY <1>2, <2>4, <2>6
  <2>9. OperationsTyped'
    BY <1>1, <2>1, <2>6, <2>7, <2>8 DEF OperationsTyped
  <2>10. \A d \in Calls : At(d, "joined")' =>
           At(d, "joined") /\ call'[d] = call[d] /\ call[d].on # c /\ call[d].card \in Cards
    BY <1>2, <2>4, <2>6, StepKinds DEF At, JoinedCall
  <2>11. \A d \in Calls, i \in Cards : Loading(d, i)' => Loading(d, i) /\ d # c
    BY <2>4, <2>6 DEF Loading, At
  <2>12. \A d \in Calls, i \in Cards : Loading(d, i) /\ d # c => Loading(d, i)'
    BY <2>6 DEF Loading, At
  <2>13. inflight'[k.card] = None /\ \A i \in Cards : i # k.card => inflight'[i] = inflight[i]
    BY <1>1, <2>1, <2>6 DEF OperationsTyped
  <2>14. \A i \in Cards : inflight[i] # None => inflight[i] \in Calls
    BY <1>1 DEF OperationsTyped
  <2>15. \A i \in Cards : Loading(c, i) => i = k.card
    BY DEF Loading
  <2>16. LoadsInFlight'
    <3>1. \A d \in Calls, i \in Cards : Loading(d, i)' => inflight'[i] = d
      BY <1>1, <2>5, <2>11, <2>13 DEF LoadsInFlight
    <3>2. \A i \in Cards : inflight'[i] # None => Loading(inflight[i], i)'
      <4> SUFFICES ASSUME NEW i \in Cards, inflight'[i] # None
                   PROVE  Loading(inflight[i], i)'
        OBVIOUS
      <4> PICK d : d = inflight[i]
        OBVIOUS
      <4>1. i # k.card /\ inflight'[i] = d /\ d # None /\ d \in Calls
        BY <2>13, <2>14
      <4>2. Loading(d, i) /\ d # c
        BY <1>1, <2>15, <4>1 DEF LoadsInFlight
      <4>3. call'[d].step \in {"fetch", "probe", "fetched"} /\ call'[d].card = i
        BY <2>12, <4>1, <4>2 DEF Loading, At
      <4> QED BY <4>1, <4>3 DEF Loading, At
    <3>3. \A d \in Calls : At(d, "joined")' => inflight'[call'[d].card] = call'[d].on
      BY <1>1, <2>5, <2>10, <2>13 DEF LoadsInFlight
    <3> QED BY <3>1, <3>2, <3>3 DEF LoadsInFlight
  <2> QED BY <2>9, <2>16 DEF OperationsInv
<1>19. CASE UNCHANGED <<operating, call>>
  BY <1>1, <1>19 DEF operating, OperationsInv, OperationsTyped, LoadsInFlight, Loading, At
<1> QED BY <1>4, <1>5, <1>9, <1>10, <1>11, <1>12, <1>13, <1>15, <1>16, <1>17, <1>18, <1>19
        DEF OperationsNext

----
(* All parts together. *)

\* A step is one of the part that is served, and leaves the others alone.
LEMMA PartsStep ==
  ASSUME [Next]_vars
  PROVE  /\ served' = served
         /\ served = "reviews" => [ReviewsStep]_<<media, reviewing, call>>
         /\ served = "invoices" => [InvoicesNext]_<<media, invoicing, call>>
         /\ served # "reviews" => UNCHANGED reviewing
         /\ served # "invoices" => UNCHANGED invoicing
         /\ served \notin {"reviews", "invoices"} => UNCHANGED media
         /\ served = "accounts" => [AccountsNext]_<<accounts, call>>
         /\ served # "accounts" => UNCHANGED accounts
         /\ served = "posts" => [PostsNext]_<<posting, call>>
         /\ served # "posts" => UNCHANGED posting
         /\ served = "offerings" => [OfferingsNext]_<<offering, call>>
         /\ served # "offerings" => UNCHANGED offering
         /\ served = "jobs" => [JobsNext]_<<jobs, call>>
         /\ served # "jobs" => UNCHANGED jobs
         /\ served = "labels" => [LabelsNext]_<<labelling, call>>
         /\ served # "labels" => UNCHANGED labelling
         /\ served = "discovery" => [DiscoveryNext]_<<discovering, call>>
         /\ served # "discovery" => UNCHANGED discovering
         /\ served = "attachments" => [AttachmentsNext]_<<filing, call>>
         /\ served # "attachments" => UNCHANGED filing
         /\ served = "unread" => [UnreadNext]_<<unreadVars, call>>
         /\ served # "unread" => UNCHANGED unreadVars
         /\ served = "operations" => [OperationsNext]_<<operating, call>>
         /\ served # "operations" => UNCHANGED operating
         /\ served = "feed" => [FeedNext]_feeding
         /\ served # "feed" => UNCHANGED feeding
         /\ served = "lists" => [ListsNext]_walking
         /\ served # "lists" => UNCHANGED walking
         /\ served = "skills" => [SkillsNext]_<<skilled, call>>
         /\ served # "skills" => UNCHANGED skilled
         /\ served = "urls" => [SignedUrlsNext]_<<signing, call>>
         /\ served # "urls" => UNCHANGED signing
         /\ served = "keys" => [KeysNext]_keysVars
         /\ served # "keys" => UNCHANGED keysVars
         /\ served = "rate" => [RateNext]_rating
         /\ served # "rate" => UNCHANGED rating
         /\ served = "terms" => [TermsNext]_terms
         /\ served # "terms" => UNCHANGED terms
         /\ served \in {"feed", "lists", "keys", "rate", "terms"} => UNCHANGED call
BY DEF Next, vars, RecordsNext, ReviewsPart, PeopleNext, MarketNext, FilesNext, AloneNext, records,
   people, market, files, alone

\* The steps of the calls that are shown something: reads of discovery, the staff cards, and
\* signed URLs.
DiscoverySteps == {"found", "shown"}
CardSteps == {"fetch", "probe", "fetched", "joined", "card"}
UrlSteps == {"url"}
ReadSteps == DiscoverySteps \cup CardSteps \cup UrlSteps
Outside(steps) ==
  /\ DOMAIN call = Calls
  /\ \A c \in Calls : "step" \in DOMAIN call[c] /\ call[c].step \notin steps

\* A call that is written at another step.
LEMMA SlotWritten ==
  ASSUME Outside(ReadSteps), NEW c \in Calls, NEW k, "step" \in DOMAIN k,
         k.step \notin ReadSteps, call' = [call EXCEPT ![c] = k]
  PROVE  Outside(ReadSteps)'
BY DEF Outside

LEMMA SlotMoves ==
  ASSUME Outside(ReadSteps), NEW c \in Calls
  PROVE  /\ Finish(c) => Outside(ReadSteps)'
         /\ \A step : step \notin ReadSteps /\ Goto(c, step) => Outside(ReadSteps)'
         /\ \A k : "step" \in DOMAIN k /\ k.step \notin ReadSteps /\ Begin(c, k)
                     => Outside(ReadSteps)'
<1>1. ASSUME Finish(c) PROVE Outside(ReadSteps)'
  <2>1. "step" \in DOMAIN Idle /\ Idle.step \notin ReadSteps /\ call' = [call EXCEPT ![c] = Idle]
    BY <1>1 DEF Finish, Idle, ReadSteps, DiscoverySteps, CardSteps, UrlSteps
  <2> QED BY <2>1, SlotWritten
<1>2. ASSUME NEW step, step \notin ReadSteps, Goto(c, step) PROVE Outside(ReadSteps)'
  <2> PICK k : k = [call[c] EXCEPT !.step = step]
    OBVIOUS
  <2>1. call' = [call EXCEPT ![c] = k] /\ "step" \in DOMAIN k /\ k.step = step
    BY <1>2 DEF Goto, Outside
  <2> QED BY <1>2, <2>1, SlotWritten
<1>3. ASSUME NEW k, "step" \in DOMAIN k, k.step \notin ReadSteps, Begin(c, k)
      PROVE  Outside(ReadSteps)'
  BY <1>3, SlotWritten DEF Begin
<1> QED BY <1>1, <1>2, <1>3

LEMMA AccountsDoNotRead ==
  ASSUME Outside(ReadSteps), [AccountsNext]_<<accounts, call>>
  PROVE  Outside(ReadSteps)'
<1> USE DEF ReadSteps, DiscoverySteps, CardSteps, UrlSteps
<1>1. ASSUME NEW c \in Calls, NEW u \in Users, NEW p \in Phones \cup {None}, Bootstrap(c, u, p)
      PROVE  Outside(ReadSteps)'
  <2>1. PICK r : Begin(c, [step |-> "create", who |-> u, row |-> r])
    BY <1>1 DEF Bootstrap, BeginFor
  <2> QED BY <2>1, SlotMoves
<1>2. ASSUME NEW c \in Calls, CreateWithProfile(c) \/ WriteVerified(c)
      PROVE  Outside(ReadSteps)'
  BY <1>2, SlotMoves DEF CreateWithProfile, WriteVerified
<1>3. ASSUME NEW c \in Calls, NEW u \in Users, GetMe(c, u) PROVE Outside(ReadSteps)'
  <2>1. Begin(c, SyncOf(u, row[u])) /\ SyncOf(u, row[u]).step = "sync"
          /\ "step" \in DOMAIN SyncOf(u, row[u])
    BY <1>3 DEF GetMe, BeginFor, SyncOf
  <2> QED BY <2>1, SlotMoves
<1>4. ASSUME NEW c \in Calls, NEW u \in Users, NEW p \in Phones \cup {None}, UpdateMe(c, u, p)
      PROVE  Outside(ReadSteps)'
  <2>1. PICK b : Begin(c, [step |-> "update", who |-> u, phone |-> p, changed |-> b])
    BY <1>4 DEF UpdateMe, BeginFor
  <2> QED BY <2>1, SlotMoves
<1>5. ASSUME NEW c \in Calls, NEW u \in Users, NEW n \in 1..Names, Rename(c, u, n)
      PROVE  Outside(ReadSteps)'
  <2>1. Begin(c, [step |-> "rename", who |-> u, name |-> n])
    BY <1>5 DEF Rename, BeginFor
  <2> QED BY <2>1, SlotMoves
<1>6. ASSUME NEW c \in Calls, NEW r, UpdateOwn(c, r) PROVE Outside(ReadSteps)'
  <2>1. CASE Finish(c)
    BY <2>1, SlotMoves
  <2>2. CASE call' = [call EXCEPT ![c] = SyncOf(call[c].who, r)]
    <3> PICK k : k = SyncOf(call[c].who, r)
      OBVIOUS
    <3>1. call' = [call EXCEPT ![c] = k] /\ "step" \in DOMAIN k /\ k.step = "sync"
      BY <2>2 DEF SyncOf
    <3> QED BY <3>1, SlotWritten
  <2> QED BY <1>6, <2>1, <2>2 DEF UpdateOwn
<1>7. ASSUME NEW c \in Calls, WriteUpdate(c) \/ WriteName(c) PROVE Outside(ReadSteps)'
  BY <1>6, <1>7 DEF WriteUpdate, WriteName
<1>8. ASSUME NEW c \in Calls, SyncTrustedVerification(c) PROVE Outside(ReadSteps)'
  <2>1. Finish(c) \/ \E u, b : call' = [call EXCEPT ![c] =
                                          [step |-> "flag", who |-> u, verified |-> b]]
    BY <1>8 DEF SyncTrustedVerification
  <2>2. CASE Finish(c)
    BY <2>2, SlotMoves
  <2>3. ASSUME NEW u, NEW b,
               call' = [call EXCEPT ![c] = [step |-> "flag", who |-> u, verified |-> b]]
        PROVE  Outside(ReadSteps)'
    <3> PICK k : k = [step |-> "flag", who |-> u, verified |-> b]
      OBVIOUS
    <3>1. call' = [call EXCEPT ![c] = k] /\ "step" \in DOMAIN k /\ k.step = "flag"
      BY <2>3
    <3> QED BY <3>1, SlotWritten
  <2> QED BY <2>1, <2>2, <2>3
<1>9. CASE UNCHANGED call
  BY <1>9 DEF Outside
<1> QED BY <1>1, <1>2, <1>3, <1>4, <1>5, <1>7, <1>8, <1>9 DEF AccountsNext, ConfirmAtAuth

LEMMA PostsDoNotRead ==
  ASSUME Outside(ReadSteps), [PostsNext]_<<posting, call>>
  PROVE  Outside(ReadSteps)'
<1> USE DEF ReadSteps, DiscoverySteps, CardSteps, UrlSteps
<1>1. ASSUME NEW c \in Calls,
             \E s \in {"countPost", "deletePost", "like", "unlike", "save"} : \E u :
               Begin(c, Step(s, u))
      PROVE  Outside(ReadSteps)'
  <2>1. PICK s \in {"countPost", "deletePost", "like", "unlike", "save"} :
          \E u : Begin(c, [step |-> s, who |-> u])
    BY <1>1 DEF Step
  <2>2. PICK u : Begin(c, [step |-> s, who |-> u])
    BY <2>1
  <2> QED BY <2>2, SlotMoves
<1>2. ASSUME NEW c \in Calls,
             \E s \in {"comment", "deleteComment"} : \E u, k :
               Begin(c, [step |-> s, who |-> u, comment |-> k])
      PROVE  Outside(ReadSteps)'
  BY <1>2, SlotMoves
<1>3. ASSUME NEW c \in Calls,
             Finish(c) \/ \E s \in {"uncountPost", "announceLike", "announceComment"} : Goto(c, s)
      PROVE  Outside(ReadSteps)'
  BY <1>3, SlotMoves
<1>4. CASE UNCHANGED call
  BY <1>4 DEF Outside
<1>5. ASSUME NEW c \in Calls, CreatePost(c) \/ DeletePost(c) PROVE Outside(ReadSteps)'
  BY <1>1, <1>5 DEF CreatePost, DeletePost
<1>6. ASSUME NEW c \in Calls, SoftDeletePost(c) \/ CreateLike(c) \/ CreateComment(c)
      PROVE  Outside(ReadSteps)'
  BY <1>3, <1>6 DEF SoftDeletePost, CreateLike, CreateComment
<1>7. ASSUME NEW c \in Calls,
             \/ IncrementPostsCount(c) \/ NotifyPostLiked(c) \/ DeleteLike(c) \/ CreateSave(c)
             \/ NotifyPostCommented(c) \/ SoftDeleteComment(c)
      PROVE  Outside(ReadSteps)'
  BY <1>3, <1>7 DEF IncrementPostsCount, NotifyPostLiked, DeleteLike, CreateSave,
     NotifyPostCommented, SoftDeleteComment
<1>8. ASSUME NEW c \in Calls, NEW u \in Everyone, Like(c, u) \/ Unlike(c, u) \/ Save(c, u)
      PROVE  Outside(ReadSteps)'
  BY <1>1, <1>8 DEF Like, Unlike, Save
<1>9. ASSUME NEW c \in Calls, NEW u \in Everyone, NEW k \in Comments,
             Comment(c, u, k) \/ DeleteComment(c, u, k)
      PROVE  Outside(ReadSteps)'
  BY <1>2, <1>9 DEF Comment, DeleteComment
<1> QED BY <1>4, <1>5, <1>6, <1>7, <1>8, <1>9 DEF PostsNext, ChangeConnection, Unsave

LEMMA CatalogsDoNotRead ==
  ASSUME Outside(ReadSteps), [SkillsNext]_<<skilled, call>>
  PROVE  Outside(ReadSteps)'
<1> USE DEF ReadSteps, DiscoverySteps, CardSteps, UrlSteps
<1>1. ASSUME NEW c \in Calls, PlanBackfill(c) PROVE Outside(ReadSteps)'
  <2>1. PICK links : Begin(c, [step |-> "backfill", links |-> links])
    BY <1>1 DEF PlanBackfill
  <2> QED BY <2>1, SlotMoves
<1>2. ASSUME NEW c \in Calls, ApplyBackfill(c) PROVE Outside(ReadSteps)'
  <2>1. Finish(c)
    BY <1>2 DEF ApplyBackfill
  <2> QED BY <2>1, SlotMoves
<1>3. ASSUME SaveLegacy \/ SaveSelections PROVE UNCHANGED call
  BY <1>3 DEF SaveLegacy, SaveSelections, Rewrite
<1>4. ASSUME NEW r, SeedTaxonomy(r) PROVE UNCHANGED call
  BY <1>4 DEF SeedTaxonomy
<1>5. UNCHANGED call => Outside(ReadSteps)'
  BY DEF Outside
<1> QED BY <1>1, <1>2, <1>3, <1>4, <1>5 DEF SkillsNext

----
\* Each part while it is served, and what it shows while it is not.
ReviewsSound ==
  IF served = "reviews" THEN ReviewsInv ELSE AcceptedReviewStands /\ DoubleBlind
InvoicesSound ==
  IF served = "invoices" THEN InvoicesInv /\ DocumentsStored ELSE InvoicesInit
AssetsSound == served \notin {"reviews", "invoices"} => ReadyWasStored
AccountsSound ==
  IF served = "accounts" THEN OnePerUser => AccountsInv ELSE VerifiedWasConfirmed
PostsSound == IF served = "posts" THEN PostsInv ELSE PostsAgree
OfferingsSound == IF served = "offerings" THEN OfferingsInv ELSE ServiceListsAreWhole
JobsSound == IF served = "jobs" THEN JobsInv ELSE ListingsHold
LabelsSound == IF served = "labels" THEN LabelsInv ELSE LabelsAgree
FilingSound == IF served = "attachments" THEN FilingInv ELSE AttachmentsHold
UnreadSound == IF served = "unread" THEN UnreadInv ELSE UnreadIsUnseen
RateSound == IF served = "rate" THEN RateInv ELSE BudgetHolds
KeysSound == IF served = "keys" THEN KeysInv ELSE RevokedKeyExpires
FeedSound == IF served = "feed" THEN FeedInv ELSE FeedMissesNothing
ListsSound == IF served = "lists" THEN ListInv ELSE ListsMissNothing
DiscoverySound == served = "discovery" => DiscoveryInv
OperationsSound == IF served = "operations" THEN OperationsInv ELSE probing.queries <= 1
UrlsSound == IF served = "urls" THEN UrlsInv ELSE urls = <<>>
SkillsSound == IF served = "skills" THEN SkillsInv ELSE CatalogInv
TermsSound == IF served = "terms" THEN TermsInv ELSE DealIsKept
\* The calls of the other parts are shown nothing of the kind.
ReadsSound == served \notin {"discovery", "operations", "urls"} => Outside(ReadSteps)

RecordsInv ==
  /\ served \in Parts
  /\ ReviewsSound /\ InvoicesSound /\ AssetsSound
  /\ AccountsSound /\ PostsSound /\ OfferingsSound /\ JobsSound /\ LabelsSound
  /\ FilingSound /\ UnreadSound /\ RateSound /\ KeysSound /\ FeedSound /\ ListsSound
  /\ DiscoverySound /\ OperationsSound /\ UrlsSound /\ TermsSound /\ SkillsSound
  /\ ReadsSound

\* Every part begins with its invariant.
LEMMA RecordsStart == Init => RecordsInv
<1> SUFFICES ASSUME Init PROVE RecordsInv
  OBVIOUS
<1> USE DEF Init
<1>1. ReviewsSound /\ InvoicesSound /\ AssetsSound
  <2>1. ReviewsInv /\ AcceptedReviewStands /\ DoubleBlind /\ ReadyWasStored
    BY ReviewsStart, ReviewsShow DEF BlindUntilPublished
  <2>2. InvoicesInv
    BY InvoicesStart
  <2>3. DocumentsStored
    BY <2>1 DEF DocumentsStored, MediaInit, SlotsInit, At, Idle
  <2> QED BY <2>1, <2>2, <2>3 DEF ReviewsSound, InvoicesSound, AssetsSound
<1>2. AccountsSound
  BY AccountsStart, AccountsShow DEF AccountsSound
<1>3. PostsSound
  BY PostsStart, PostsShow DEF PostsSound
<1>4. OfferingsSound
  BY OfferingsStart, OfferingsShow DEF OfferingsSound
<1>5. JobsSound
  BY JobsStart, JobsShow DEF JobsSound
<1>6. LabelsSound
  BY LabelsStart, LabelsShow DEF LabelsSound
<1>7. FilingSound
  BY FilingStart, FilingShows DEF FilingSound
<1>8. UnreadSound
  BY UnreadStart DEF UnreadSound, UnreadInv
<1>9. RateSound
  BY RateStart, RateShows DEF RateSound
<1>10. KeysSound
  BY KeysStart DEF KeysSound, KeysInv
<1>11. DiscoverySound
  BY DiscoveryStart DEF DiscoverySound
<1>12. OperationsSound
  BY OperationsStart, OperationsShow DEF OperationsSound, CardsHold
<1>13. ReadsSound
  BY DEF ReadsSound, Outside, SlotsInit, Idle, ReadSteps, DiscoverySteps, CardSteps, UrlSteps
<1>14. FeedSound
  BY FeedStart, FeedShows DEF FeedSound
<1>15. ListsSound
  BY ListsStart, ListsShow DEF ListsSound
<1>16. UrlsSound
  BY UrlsStart DEF UrlsSound, SignedUrlsInit
<1>17. TermsSound
  BY TermsStart, TermsShow DEF TermsSound
<1>18. SkillsSound
  BY SkillsStart DEF SkillsSound, SkillsInv
<1> QED BY <1>1, <1>2, <1>3, <1>4, <1>5, <1>6, <1>7, <1>8, <1>9, <1>10, <1>11, <1>12, <1>13,
           <1>14, <1>15, <1>16, <1>17, <1>18
        DEF RecordsInv

\* A part that is kept by its invariant makes no call at one of these steps.
LEMMA CallsOfParts ==
  /\ ReviewsInv \/ InvoicesInv => Outside(ReadSteps)
  /\ OfferingsInv \/ JobsInv \/ LabelsInv => Outside(ReadSteps)
  /\ FilingInv \/ UnreadInv => Outside(ReadSteps)
  /\ DiscoveryInv => \A c \in Calls : call[c].step \notin CardSteps \cup UrlSteps
  /\ OperationsInv => \A c \in Calls : call[c].step \notin DiscoverySteps \cup UrlSteps
  /\ UrlsInv => \A c \in Calls : call[c].step \notin DiscoverySteps \cup CardSteps
<1> USE DEF Outside, ReadSteps, DiscoverySteps, CardSteps, UrlSteps, Idle
<1>1. ReviewsInv => Outside(ReadSteps)
  BY DEF ReviewsInv, ReviewCallsOK, ReviewCallOK, Completion, SubmitCall
<1>2. InvoicesInv => Outside(ReadSteps)
  BY DEF InvoicesInv, InvoiceCallsOK, InvoiceCallOK, GenerationOK, Generation, InvoiceSteps
<1>3. OfferingsInv => Outside(ReadSteps)
  BY DEF OfferingsInv, OfferingCalls, EditCall, SaveCall
<1>4. JobsInv => Outside(ReadSteps)
  BY DEF JobsInv, JobCall
<1>5. LabelsInv => Outside(ReadSteps)
  BY DEF LabelsInv, TagCall
<1>6. FilingInv => Outside(ReadSteps)
  BY DEF FilingInv, FilingTyped, FileCall
<1>7. UnreadInv => Outside(ReadSteps)
  BY DEF UnreadInv, UnreadTyped, Write
<1>8. DiscoveryInv => \A c \in Calls : call[c].step \notin CardSteps \cup UrlSteps
  BY DEF DiscoveryInv, DiscoveryTyped, FoundRead, ShownRead
<1>9. OperationsInv => \A c \in Calls : call[c].step \notin DiscoverySteps \cup UrlSteps
  BY DEF OperationsInv, OperationsTyped, CallSound, FetchCall, ProbeCall, FetchedCall, CardCall,
     JoinedCall
<1>10. UrlsInv => \A c \in Calls : call[c].step \notin DiscoverySteps \cup CardSteps
  <2>1. UrlsInv => \A c \in Calls : call[c].step \in {"idle", "sign", "signed", "url"}
    BY UrlCalls DEF UrlsInv
  <2> QED BY <2>1
<1> QED BY <1>1, <1>2, <1>3, <1>4, <1>5, <1>6, <1>7, <1>8, <1>9, <1>10

\* The same of the state after a step.
LEMMA CallsOfPartsNext ==
  /\ ReviewsInv' \/ InvoicesInv' => Outside(ReadSteps)'
  /\ OfferingsInv' \/ JobsInv' \/ LabelsInv' => Outside(ReadSteps)'
  /\ FilingInv' \/ UnreadInv' => Outside(ReadSteps)'
BY CallsOfParts, PTL

\* Every step keeps the part that is served, and leaves the others as they are.
LEMMA RecordsKept ==
  ASSUME RecordsInv, [Next]_vars
  PROVE  RecordsInv'
<1>1. served' = served /\ served \in Parts
  BY PartsStep DEF RecordsInv
<1>2. ReviewsSound'
  <2>1. CASE served = "reviews"
    BY <1>1, <2>1, PartsStep, ReviewsKept DEF RecordsInv, ReviewsSound
  <2>2. CASE served # "reviews"
    BY <1>1, <2>2, PartsStep
       DEF RecordsInv, ReviewsSound, AcceptedReviewStands, DoubleBlind, reviewing
  <2> QED BY <2>1, <2>2
<1>3. InvoicesSound'
  <2>1. CASE served = "invoices"
    BY <1>1, <2>1, PartsStep, InvoicesKept, DocumentsStayStored DEF RecordsInv, InvoicesSound
  <2>2. CASE served # "invoices"
    BY <1>1, <2>2, PartsStep DEF RecordsInv, InvoicesSound, InvoicesInit, invoicing
  <2> QED BY <2>1, <2>2
<1>4. AssetsSound'
  BY <1>1, PartsStep DEF RecordsInv, AssetsSound, ReadyWasStored, media
<1>5. AccountsSound'
  <2>1. CASE served = "accounts"
    BY <1>1, <2>1, PartsStep, AccountsKept DEF RecordsInv, AccountsSound
  <2>2. CASE served # "accounts"
    BY <1>1, <2>2, PartsStep DEF RecordsInv, AccountsSound, VerifiedWasConfirmed, accounts, Exists
  <2> QED BY <2>1, <2>2
<1>6. PostsSound'
  <2>1. CASE served = "posts"
    BY <1>1, <2>1, PartsStep, PostsKept DEF RecordsInv, PostsSound
  <2>2. CASE served # "posts"
    BY <1>1, <2>2, PartsStep
       DEF RecordsInv, PostsSound, PostsAgree, LikeAnnouncedOnce, VisibilityAgrees, posting,
           RequireVisiblePost, ViewerCanSeePost, ListSaved, SavedPostWhere, ListByAuthor,
           SocialPool, DiscoveryPool
  <2> QED BY <2>1, <2>2
<1>7. OfferingsSound'
  <2>1. CASE served = "offerings"
    BY <1>1, <2>1, PartsStep, OfferingsKept DEF RecordsInv, OfferingsSound
  <2>2. CASE served # "offerings"
    BY <1>1, <2>2, PartsStep DEF RecordsInv, OfferingsSound, ServiceListsAreWhole, offering
  <2> QED BY <2>1, <2>2
<1>8. JobsSound'
  <2>1. CASE served = "jobs"
    BY <1>1, <2>1, PartsStep, JobsKept DEF RecordsInv, JobsSound
  <2>2. CASE served # "jobs"
    BY <1>1, <2>2, PartsStep
       DEF RecordsInv, JobsSound, ListingsHold, JobListsAgree, ListingIsWhole, jobs, Accepts,
           Resolved, JobThere, CanReadListing, GetListing, CanSaveJob, ListSavedJobs, ListListings
  <2> QED BY <2>1, <2>2
<1>9. LabelsSound'
  <2>1. CASE served = "labels"
    BY <1>1, <2>1, PartsStep, LabelsKept DEF RecordsInv, LabelsSound
  <2>2. CASE served # "labels"
    BY <1>1, <2>2, PartsStep
       DEF RecordsInv, LabelsSound, LabelsAgree, labelling, Accepted, CategoryAccepted,
           SkillsAccepted, CustomAccepted, Resulting
  <2> QED BY <2>1, <2>2
<1>10. FilingSound'
  <2>1. CASE served = "attachments"
    BY <1>1, <2>1, PartsStep, FilingKept DEF RecordsInv, FilingSound
  <2>2. CASE served # "attachments"
    BY <1>1, <2>2, PartsStep
       DEF RecordsInv, FilingSound, AttachmentsHold, LimitHoldsUpToOverlap, EvidenceStands,
           LiveFiles, filing
  <2> QED BY <2>1, <2>2
<1>11. UnreadSound'
  <2>1. CASE served = "unread"
    BY <1>1, <2>1, PartsStep, UnreadKept DEF RecordsInv, UnreadSound
  <2>2. CASE served # "unread"
    BY <1>1, <2>2, PartsStep
       DEF RecordsInv, UnreadSound, UnreadIsUnseen, IsUnread, CountsAsUnread, unreadVars
  <2> QED BY <2>1, <2>2
<1>12. RateSound'
  <2>1. CASE served = "rate"
    BY <1>1, <2>1, PartsStep, RateKept DEF RecordsInv, RateSound
  <2>2. CASE served # "rate"
    BY <1>1, <2>2, PartsStep DEF RecordsInv, RateSound, BudgetHolds, rating
  <2> QED BY <2>1, <2>2
<1>13. KeysSound'
  <2>1. CASE served = "keys"
    BY <1>1, <2>1, PartsStep, KeysKept DEF RecordsInv, KeysSound
  <2>2. CASE served # "keys"
    BY <1>1, <2>2, PartsStep DEF RecordsInv, KeysSound, RevokedKeyExpires, keysVars
  <2> QED BY <2>1, <2>2
<1>14. DiscoverySound'
  BY <1>1, PartsStep, DiscoveryKept DEF RecordsInv, DiscoverySound
<1>15. OperationsSound'
  <2>1. CASE served = "operations"
    BY <1>1, <2>1, PartsStep, OperationsKept DEF RecordsInv, OperationsSound
  <2>2. CASE served # "operations"
    BY <1>1, <2>2, PartsStep DEF RecordsInv, OperationsSound, operating
  <2> QED BY <2>1, <2>2
<1>16. ReadsSound'
  <2> SUFFICES ASSUME served \notin {"discovery", "operations", "urls"}
               PROVE  Outside(ReadSteps)'
    BY <1>1 DEF ReadsSound
  <2>1. Outside(ReadSteps)
    BY DEF RecordsInv, ReadsSound
  <2>2. CASE served \in {"reviews", "invoices", "offerings", "jobs", "labels", "attachments",
                        "unread"}
    BY <1>1, <1>2, <1>3, <1>7, <1>8, <1>9, <1>10, <1>11, <2>2, CallsOfPartsNext
       DEF ReviewsSound, InvoicesSound, OfferingsSound, JobsSound, LabelsSound, FilingSound,
           UnreadSound
  <2>3. CASE served = "accounts"
    BY <2>1, <2>3, PartsStep, AccountsDoNotRead
  <2>4. CASE served = "posts"
    BY <2>1, <2>4, PartsStep, PostsDoNotRead
  <2>5. CASE served = "skills"
    BY <2>1, <2>5, PartsStep, CatalogsDoNotRead
  <2>7. CASE served \in {"feed", "lists", "keys", "rate", "terms"}
    BY <2>1, <2>7, PartsStep DEF Outside
  <2> QED BY <1>1, <2>2, <2>3, <2>4, <2>5, <2>7 DEF Parts
<1>17. FeedSound'
  <2>1. CASE served = "feed"
    BY <1>1, <2>1, PartsStep, FeedKept DEF RecordsInv, FeedSound
  <2>2. CASE served # "feed"
    BY <1>1, <2>2, PartsStep DEF RecordsInv, FeedSound, FeedMissesNothing, feeding
  <2> QED BY <2>1, <2>2
<1>18. ListsSound'
  <2>1. CASE served = "lists"
    BY <1>1, <2>1, PartsStep, ListsKept DEF RecordsInv, ListsSound
  <2>2. CASE served # "lists"
    BY <1>1, <2>2, PartsStep DEF RecordsInv, ListsSound, ListsMissNothing, walking
  <2> QED BY <2>1, <2>2
<1>19. UrlsSound'
  <2>1. CASE served = "urls"
    BY <1>1, <2>1, PartsStep, UrlsKept DEF RecordsInv, UrlsSound
  <2>2. CASE served # "urls"
    BY <1>1, <2>2, PartsStep DEF RecordsInv, UrlsSound, signing
  <2> QED BY <2>1, <2>2
<1>20. TermsSound'
  <2>1. CASE served = "terms"
    BY <1>1, <2>1, PartsStep, TermsKept DEF RecordsInv, TermsSound
  <2>2. CASE served # "terms"
    BY <1>1, <2>2, PartsStep
       DEF RecordsInv, TermsSound, DealIsKept, ChargedAsAgreed, DueAsAgreed, OnTheCalendar,
           ListUnscheduledCalendarEngagements, ListCalendarSchedules, terms
  <2> QED BY <2>1, <2>2
<1>21. SkillsSound'
  <2>1. CASE served = "skills"
    BY <1>1, <2>1, PartsStep, SkillsKept DEF RecordsInv, SkillsSound
  <2>2. CASE served # "skills"
    BY <1>1, <2>2, PartsStep
       DEF RecordsInv, SkillsSound, CatalogInv, SkillsTyped, OneSkillPerTerm, NamesAreTerms,
           LinksAreThere, There, skilled
  <2> QED BY <2>1, <2>2
<1> QED BY <1>1, <1>2, <1>3, <1>4, <1>5, <1>6, <1>7, <1>8, <1>9, <1>10, <1>11, <1>12, <1>13,
           <1>14, <1>15, <1>16, <1>17, <1>18, <1>19, <1>20, <1>21 DEF RecordsInv

----
(* What follows of Records. *)

\* In a behaviour of the parts the invariant holds in every state.
LEMMA RecordsAreSound == Spec => []RecordsInv
<1>1. Init => RecordsInv
  BY RecordsStart
<1>2. RecordsInv /\ [Next]_vars => RecordsInv'
  BY RecordsKept
<1> QED BY <1>1, <1>2, PTL DEF Spec

\* What a party was answered about its review is the review that stands, however submits
\* overlap and repeat (ReviewsService.submit, the loser of the unique key).
THEOREM AcceptedStands == Spec => []AcceptedReviewStands
<1>1. RecordsInv => AcceptedReviewStands
  BY ReviewsShow DEF RecordsInv, ReviewsSound
<1> QED BY <1>1, RecordsAreSound, PTL

\* Nobody's stored review was sent after having seen the other's, and every place that shows or
\* counts reviews agrees on which are public (submit, buildReviewState, publishedReviewSql).
THEOREM ReviewsAreBlind == Spec => []BlindUntilPublished
<1>1. RecordsInv => BlindUntilPublished
  BY ReviewsShow, Agreement DEF RecordsInv, ReviewsSound, BlindUntilPublished
<1> QED BY <1>1, RecordsAreSound, PTL

\* A generated invoice has a document that can be read and a number of its own, however many
\* generations overlap and wherever they fail (InvoicesService.generate).
THEOREM InvoicesAlwaysStand == Spec => []InvoicesStand
<1>1. InvoicesInit => InvoicesStand
  BY DEF InvoicesInit, NoInvoice, InvoicesStand, GeneratedHasDocument, OneNumberPerPayment
<1>2. RecordsInv => InvoicesStand
  BY <1>1, InvoicesShow DEF RecordsInv, InvoicesSound
<1> QED BY <1>2, RecordsAreSound, PTL

\* A file that is called ready is in storage as it was declared, and the files of a request
\* keep to their limit and stand once delivered, for any number of completions and of files
\* added at once.
THEOREM ReadyFilesAreStored == Spec => []FilesHold
<1>1. RecordsInv => ReadyWasStored
  BY ReviewsShow DEF RecordsInv, ReviewsSound, InvoicesSound, AssetsSound, DocumentsStored
<1>2. RecordsInv => AttachmentsHold
  BY FilingShows DEF RecordsInv, FilingSound
<1> QED BY <1>1, <1>2, RecordsAreSound, PTL DEF FilesHold

\* No client ever had more than its budget, however many addresses there are and whatever the
\* sweeps forget (consume, refill).
THEOREM BudgetsHold == Spec => []BudgetHolds
<1>1. RecordsInv => BudgetHolds
  BY RateShows DEF RecordsInv, RateSound
<1> QED BY <1>1, RecordsAreSound, PTL

\* When the requests of a user come one after the other, only a number that the user confirmed
\* is called verified (syncTrustedVerification).
THEOREM VerifiedWasAlwaysConfirmed == OnePerUser /\ Spec => []VerifiedWasConfirmed
<1> SUFFICES ASSUME OnePerUser PROVE Spec => []VerifiedWasConfirmed
  OBVIOUS
<1>1. RecordsInv => VerifiedWasConfirmed
  BY AccountsShow DEF RecordsInv, AccountsSound
<1> QED BY <1>1, RecordsAreSound, PTL

\* A like is announced once, and five queries agree on who sees a post (like, unlike,
\* requireVisiblePost).
THEOREM PostsAlwaysAgree == Spec => []PostsAgree
<1>1. RecordsInv => PostsAgree
  BY PostsShow DEF RecordsInv, PostsSound
<1> QED BY <1>1, RecordsAreSound, PTL

\* The lists and checks of a listing agree, and its price is a whole one, however edits overlap
\* (updateListing, resolveListingPricing).
THEOREM ListingsAlwaysHold == Spec => []ListingsHold
<1>1. RecordsInv => ListingsHold
  BY JobsShow DEF RecordsInv, JobsSound
<1> QED BY <1>1, RecordsAreSound, PTL

\* What a listing has as labels can be sent back, and the old ones are moved to what they stand
\* for, whatever edits meet the backfill (decideCustomCategory, taxonomyColumnPatch,
\* planServiceJobBackfill).
THEOREM LabelsAlwaysAgree == Spec => []LabelsAgree
<1>1. RecordsInv => LabelsAgree
  BY LabelsShow DEF RecordsInv, LabelsSound
<1> QED BY <1>1, RecordsAreSound, PTL

\* Nothing is shown that could not have been found while the request ran, for any number of
\* requests and items (public.service.ts, explore.service.ts).
THEOREM AnswersWereAlwaysVisible == Spec => []AnswersWereVisible
<1>1. RecordsInv => AnswersWereVisible
  <2> SUFFICES ASSUME RecordsInv PROVE AnswersWereVisible
    OBVIOUS
  <2>1. CASE served = "discovery"
    BY <2>1 DEF RecordsInv, DiscoverySound, DiscoveryInv
  <2>2. CASE served = "operations"
    BY <2>2, CallsOfParts
       DEF RecordsInv, OperationsSound, AnswersWereVisible, At, DiscoverySteps
  <2>3. CASE served = "urls"
    BY <2>3, CallsOfParts DEF RecordsInv, UrlsSound, AnswersWereVisible, At, DiscoverySteps
  <2>4. CASE served \notin {"discovery", "operations", "urls"}
    BY <2>4 DEF RecordsInv, ReadsSound, Outside, AnswersWereVisible, At, ReadSteps, DiscoverySteps
  <2> QED BY <2>1, <2>2, <2>3, <2>4
<1> QED BY <1>1, RecordsAreSound, PTL

\* Whoever reads the feed or a list to its end is shown each row that was there throughout, and
\* none twice, for any number of rows, pages and changes between them (cursorWhere,
\* saveKeyset, listFeed).  Excepted are the posts of authors to whom the viewer was connected, or
\* from whom disconnected, between two pages: of these, none is shown twice from one pool.
THEOREM PagesAlwaysLoseNothing == Spec => []PagesLoseNothing
<1>1. RecordsInv => PagesLoseNothing
  BY FeedShows, ListsShow DEF RecordsInv, FeedSound, ListsSound, PagesLoseNothing
<1> QED BY <1>1, RecordsAreSound, PTL

\* A skill that is offered is found under its name of today, and a profile that is sent back
\* keeps its links and texts, and has rows that can be stored unless an active skill has got the
\* name that is stored for an inactive one, for any catalogues, releases and lengths of lists
\* (writeTaxonomy, rankSkillSuggestions, resolveProfileSkills, updateOwn).
THEOREM SkillsAlwaysHold == Spec => []SkillsHold
<1>1. RecordsInv => SkillsHold
  BY SkillsShow DEF RecordsInv, SkillsSound, SkillsInv
<1> QED BY <1>1, RecordsAreSound, PTL

\* A deal is charged as agreed, due on the agreed day of the calendar, and in the calendars
\* of both parties, for any amounts, days and durations, whatever was proposed on the way
\* (acceptWorkRequest, transitionEngagement, getMyCalendar).  The calendar is that of one request:
\* the most rows an answer holds (200 with a date, 50 without) are left out.
THEOREM DealsAreAlwaysKept == Spec => []DealIsKept
<1>1. RecordsInv => DealIsKept
  BY TermsShow DEF RecordsInv, TermsSound
<1> QED BY <1>1, RecordsAreSound, PTL

\* The mark says "unread" exactly when the other side changed something that was not seen, up
\* to the views that crossed a change (markWorkRequestViewed).
THEOREM UnreadIsAlwaysUnseen == Spec => []UnreadIsUnseen
<1>1. RecordsInv => UnreadIsUnseen
  BY DEF RecordsInv, UnreadSound, UnreadInv
<1> QED BY <1>1, RecordsAreSound, PTL

\* The edits of a service have the effect of one after the other, and none after its removal,
\* for any number of them at once (update's FOR UPDATE lock).
THEOREM ServiceEditsFollowEachOther == Spec => ServiceEditsAreSerial
<1>1. RecordsInv => ServiceListsAreWhole
  BY OfferingsShow DEF RecordsInv, OfferingsSound
<1>2. RecordsInv /\ [Next]_vars =>
        [\A o \in Services : offers[o].state = "removed" => offers'[o] = offers[o]]_offering
  <2> SUFFICES ASSUME RecordsInv, [Next]_vars
               PROVE  \/ \A o \in Services : offers[o].state = "removed" => offers'[o] = offers[o]
                      \/ UNCHANGED offering
    OBVIOUS
  <2>1. CASE served = "offerings"
    BY <2>1, PartsStep, OfferingsKept DEF RecordsInv, OfferingsSound
  <2> QED BY <2>1, PartsStep
<1> QED BY <1>1, <1>2, RecordsAreSound, PTL DEF Spec, ServiceEditsAreSerial, RemovedServiceStays

\* A withdrawn key verifies nothing once the document that held it is too old, and fetches keep
\* to their pauses, for any keys, requests and pauses (JwksDocumentCache).
THEOREM KeysStayFresh == Spec => KeysAreFresh
<1>1. RecordsInv => RevokedKeyExpires
  BY DEF RecordsInv, KeysSound, KeysInv
<1>2. RecordsInv /\ [Next]_vars =>
        [inFlight'.on /\ ~inFlight.on =>
           /\ document.age >= Fresh
           /\ sinceFetch >= Gap
           /\ failures > 0 => sinceFetch >= Backoff[failures]]_keysVars
  <2> SUFFICES ASSUME RecordsInv, [Next]_vars, ~UNCHANGED keysVars, inFlight'.on, ~inFlight.on
               PROVE  /\ document.age >= Fresh
                      /\ sinceFetch >= Gap
                      /\ failures > 0 => sinceFetch >= Backoff[failures]
    OBVIOUS
  <2>1. served = "keys" /\ KeysInv /\ [KeysNext]_keysVars
    BY PartsStep DEF RecordsInv, KeysSound
  <2> QED BY <2>1, RefreshIsSpaced
<1> QED BY <1>1, <1>2, RecordsAreSound, PTL DEF Spec, KeysAreFresh, FetchesAreSpaced

\* What the caches give out lasts, or is as new as it says: a signed URL that anybody is given
\* can still be used, and a card of the staff portal is as new as it says and is loaded once at
\* a time (createSignedReadUrl, OperationsService.cached, sharedProbe).
THEOREM CachesAlwaysLast == Spec => []CachesLast
<1>1. RecordsInv => CardsHold
  <2> SUFFICES ASSUME RecordsInv PROVE CardsHold
    OBVIOUS
  <2>1. CASE served = "operations"
    BY <2>1, OperationsShow DEF RecordsInv, OperationsSound
  <2>2. ASSUME served # "operations" PROVE \A c \in Calls : call[c].step \notin CardSteps
    BY <2>2, CallsOfParts
       DEF RecordsInv, DiscoverySound, UrlsSound, ReadsSound, Outside, ReadSteps
  <2>3. CASE served # "operations"
    BY <2>2, <2>3 DEF RecordsInv, OperationsSound, CardsHold, At, Loading, CardSteps
  <2> QED BY <2>1, <2>3
<1>2. RecordsInv => UrlsLast
  <2> SUFFICES ASSUME RecordsInv PROVE UrlsLast
    OBVIOUS
  <2>1. CASE served = "urls"
    BY <2>1, UrlsShow DEF RecordsInv, UrlsSound
  <2>2. ASSUME served # "urls" PROVE \A c \in Calls : call[c].step \notin UrlSteps
    BY <2>2, CallsOfParts
       DEF RecordsInv, DiscoverySound, OperationsSound, ReadsSound, Outside, ReadSteps
  <2>3. ASSUME served # "urls" PROVE urls = <<>> /\ Len(urls) <= UrlLimit /\ DOMAIN urls = {}
    BY <2>3, SignedUrlsAssumption DEF RecordsInv, UrlsSound
  <2>4. CASE served # "urls"
    BY <2>2, <2>3, <2>4 DEF UrlsLast, At, UrlSteps
  <2> QED BY <2>1, <2>4
<1> QED BY <1>1, <1>2, RecordsAreSound, PTL DEF CachesLast
====
