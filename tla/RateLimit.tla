---- MODULE RateLimit ----
(***************************************************************************)
(* The budget of public requests: public-discovery-budget.ts, behind       *)
(* public-discovery-rate-limit.guard.ts.  Each client address has a token  *)
(* bucket in a map of bounded size; addresses that cannot be told share    *)
(* one bucket, and so do those that find the map full.  A request first    *)
(* lets a few buckets that were idle expire.                               *)
(*                                                                         *)
(* The code refills a bucket when it is next used; here it is refilled as  *)
(* time passes, one token per tick, which gives the same number of tokens  *)
(* at every use.  Which buckets a request examines for expiry (an iterator *)
(* that goes round) is left open.                                          *)
(***************************************************************************)
EXTENDS Integers, FiniteSets, FiniteSetsExt

CONSTANTS
  Addresses,    \* normalized client addresses, with Unknown for those that cannot be told
  Unknown,
  Capacity, MaxBuckets,
  IdleTicks,    \* PUBLIC_RATE_IDLE_MS
  Batch         \* cleanupBatch

\* The bounds of public-rate-limit.constants.ts: the longest burst is refilled long before a
\* bucket expires (64 tokens at 1 per second, 10 minutes).
ASSUME RateLimitAssumption ==
  /\ {Capacity, MaxBuckets, IdleTicks, Batch} \subseteq Nat \ {0}
  /\ Capacity <= IdleTicks
  /\ {"fallback", "overflow"} \cap Addresses = {}

VARIABLES
  buckets,     \* address -> tokens and time since it was last seen
  shared,      \* tokens of the two shared buckets, fallback and overflow
  allowance    \* of each bucket, what a meter that never forgets would still allow

rating == <<buckets, shared, allowance>>

SharedBuckets == {"fallback", "overflow"}
Full == [tokens |-> Capacity, idle |-> 0]

RateInit ==
  /\ buckets = <<>>
  /\ shared = [b \in SharedBuckets |-> Full]
  /\ allowance = [b \in Addresses \cup SharedBuckets |-> Capacity]

----
\* sweep: of the few buckets examined, those not seen for the idle time go.
ExpiredOrFull(b) == b.idle >= IdleTicks \/ Cardinality(DOMAIN buckets) = MaxBuckets
Expired(b) == b.idle >= IdleTicks
Swept(examined) ==
  [a \in {d \in DOMAIN buckets : ~(d \in examined /\ Expired(buckets[d]))} |-> buckets[a]]

\* take.
Take(b) == [tokens |-> IF b.tokens >= 1 THEN b.tokens - 1 ELSE b.tokens, idle |-> 0]
Charge(owner, b) ==
  allowance' = [allowance EXCEPT ![owner] = IF b.tokens >= 1 THEN @ - 1 ELSE @]

FromShared(b) ==
  /\ shared' = [shared EXCEPT ![b] = Take(@)] /\ Charge(b, shared[b])

\* consume.
Consume(a) ==
  \E examined \in SUBSET DOMAIN buckets :
    LET left == Swept(examined) IN
    /\ Cardinality(examined) <= Batch
    /\ \/ /\ a = Unknown /\ FromShared("fallback") /\ buckets' = left
       \/ /\ a # Unknown /\ a \notin DOMAIN left /\ Cardinality(DOMAIN left) >= MaxBuckets
          /\ FromShared("overflow") /\ buckets' = left
       \/ /\ a # Unknown
          /\ a \in DOMAIN left \/ Cardinality(DOMAIN left) < MaxBuckets
          /\ LET b == IF a \in DOMAIN left THEN left[a] ELSE Full IN
             /\ buckets' = [d \in DOMAIN left \cup {a} |-> IF d = a THEN Take(b) ELSE left[d]]
             /\ Charge(a, b)
          /\ UNCHANGED shared

\* One tick: a token for everyone.
Refilled(b) == [tokens |-> Min({b.tokens + 1, Capacity}), idle |-> Min({b.idle + 1, IdleTicks})]
RateTick ==
  /\ buckets' = [a \in DOMAIN buckets |-> Refilled(buckets[a])]
  /\ shared' = [b \in SharedBuckets |-> Refilled(shared[b])]
  /\ allowance' = [b \in DOMAIN allowance |-> Min({allowance[b] + 1, Capacity})]

RateNext == RateTick \/ \E a \in Addresses : Consume(a)

----
\* No client gets more out of its bucket than the burst and what has been refilled since,
\* over any stretch of time: not by staying away until its bucket expires, and not by filling
\* the map with other addresses ("A full map therefore sends new identities to the single
\* overflow bucket instead of deleting an exhausted one"); nor do all the clients of a shared
\* bucket together.
BudgetHolds ==
  /\ \A a \in DOMAIN buckets : buckets[a].tokens <= allowance[a]
  /\ \A b \in SharedBuckets : shared[b].tokens <= allowance[b]
  /\ \A b \in DOMAIN allowance : allowance[b] >= 0
====
