---- MODULE SigningKeys ----
(***************************************************************************)
(* The signing keys of one realm: JwksDocumentCache of jwks-document.ts.   *)
(* A request waits for a document that is fresh, or, when no refresh may   *)
(* be tried yet, for one that is not too old; one refresh serves everyone  *)
(* who waits.  Times are ages and delays, counted in ticks and cut off at  *)
(* the bound beyond which the code does not tell them apart.               *)
(*                                                                         *)
(* A document is the set of key ids it holds; what makes a document or a   *)
(* token malformed is a failed refresh or a refused token.  close() at the *)
(* end of the process is left out.                                         *)
(***************************************************************************)
EXTENDS Naturals, Sequences, FiniteSets

CONSTANTS
  Kids, Requests,
  Fresh, MaxStale, Gap, Timeout,   \* JWKS_FRESH_MS, ... in ticks
  Backoff                          \* JWKS_FAILURE_BACKOFF_MS

ASSUME SigningKeysAssumption ==
  /\ {Fresh, MaxStale, Gap, Timeout} \subseteq Nat \ {0} /\ Fresh < MaxStale
  /\ Backoff \in Seq(Nat \ {0}) /\ Backoff # <<>>
  /\ \A i \in 1..Len(Backoff) : Gap <= Backoff[i] /\ Backoff[i] <= Backoff[Len(Backoff)]

VARIABLES
  published, \* keys the provider serves
  revokedFor,\* how long each key has not been served
  document,  \* [age, keys]; age MaxStale is also "none"
  inFlight,  \* the refresh: none, or since when and what it was answered
  delay,     \* until nextAttemptAt
  failures,
  waiting,   \* requests that wait for the refresh, with the key id of their token
  sinceFetch,\* how long ago the last refresh ended
  lastAnswer \* key, unknown or unavailable, with the key id

keysVars == <<published, revokedFor, document, inFlight, delay, failures, waiting, sinceFetch,
              lastAnswer>>

Least(a, b) == IF a < b THEN a ELSE b
Most(a, b) == IF a < b THEN b ELSE a
MaxRevoked == MaxStale + Timeout + 1
NoDocument == [age |-> MaxStale, keys |-> {}]
NoFetch == [on |-> FALSE, age |-> 0, body |-> NoDocument.keys, answered |-> FALSE]
NoAnswer == [is |-> "none", kid |-> 0]
LastDelay == Backoff[Len(Backoff)]
MaxDelay == Most(Gap, LastDelay)

KeysInit ==
  /\ published = {} /\ revokedFor = [k \in Kids |-> MaxRevoked]
  /\ document = NoDocument /\ inFlight = NoFetch
  /\ delay = 0 /\ failures = 0 /\ waiting = [r \in Requests |-> 0]
  /\ sinceFetch = MaxDelay /\ lastAnswer = NoAnswer

\* The provider begins or ceases to serve a key.
Rotate(k) ==
  /\ published' = IF k \in published THEN published \ {k} ELSE published \cup {k}
  /\ revokedFor' = [revokedFor EXCEPT ![k] = 0]
  /\ UNCHANGED <<document, inFlight, delay, failures, waiting, sinceFetch, lastAnswer>>

----
\* What a request gets of the document at hand.
UsableWhatever(age) == TRUE
Usable(age) == age < MaxStale
Outcome(k) ==
  [is |-> IF ~Usable(document.age) THEN "unavailable"
          ELSE IF k \in document.keys THEN "key" ELSE "unknown", kid |-> k]
DropOld == IF Usable(document.age) THEN document ELSE NoDocument

\* ensureDocument without waiting: the document is fresh, or it is too early to try again.
NoRefreshDue == document.age < Fresh \/ delay > 0
NoRefreshDueOnceKnown(k) == document.age < Fresh /\ k \in document.keys
Answered(k) == NoRefreshDue

AnswerAtOnce(r, k) ==
  /\ waiting[r] = 0 /\ Answered(k)
  /\ lastAnswer' = Outcome(k) /\ document' = DropOld
  /\ UNCHANGED <<published, revokedFor, inFlight, delay, failures, waiting, sinceFetch>>

\* beginRefresh: join the refresh under way, or start one.
Joins == inFlight.on
BeginRefresh(r, k) ==
  /\ waiting[r] = 0 /\ ~Answered(k)
  /\ waiting' = [waiting EXCEPT ![r] = k]
  /\ inFlight' = IF Joins THEN inFlight ELSE [NoFetch EXCEPT !.on = TRUE]
  /\ lastAnswer' = NoAnswer
  /\ UNCHANGED <<published, revokedFor, document, delay, failures, sinceFetch>>

\* The provider answers with the keys it serves now ...
ProviderAnswers ==
  /\ inFlight.on /\ ~inFlight.answered
  /\ inFlight' = [inFlight EXCEPT !.answered = TRUE, !.body = published]
  /\ lastAnswer' = NoAnswer
  /\ UNCHANGED <<published, revokedFor, document, delay, failures, waiting, sinceFetch>>

\* ... and fetchDocument accepts the document that has arrived.
AcceptDocument ==
  /\ inFlight.on /\ inFlight.answered
  /\ document' = [age |-> 0, keys |-> inFlight.body]
  /\ inFlight' = NoFetch /\ failures' = 0 /\ delay' = Gap /\ sinceFetch' = 0
  /\ lastAnswer' = NoAnswer
  /\ UNCHANGED <<published, revokedFor, waiting>>

\* noteFailure: an error, a malformed document or the time limit.
NoteFailure ==
  /\ inFlight.on
  /\ delay' = Backoff[Least(failures + 1, Len(Backoff))]
  /\ failures' = Least(failures + 1, Len(Backoff))
  /\ document' = DropOld
  /\ inFlight' = NoFetch /\ sinceFetch' = 0 /\ lastAnswer' = NoAnswer
  /\ UNCHANGED <<published, revokedFor, waiting>>

\* A request that waited goes on with whatever document there is.
Resume(r) ==
  /\ waiting[r] # 0 /\ ~inFlight.on
  /\ lastAnswer' = Outcome(waiting[r]) /\ document' = DropOld
  /\ waiting' = [waiting EXCEPT ![r] = 0]
  /\ UNCHANGED <<published, revokedFor, inFlight, delay, failures, sinceFetch>>

\* Time passes; not while a request may go on, nor beyond the time limit of a fetch, which
\* aborts it.
KeysTick ==
  /\ inFlight.on \/ \A r \in Requests : waiting[r] = 0
  /\ inFlight.on => inFlight.age < Timeout
  /\ document' = [document EXCEPT !.age = Least(@ + 1, MaxStale)]
  /\ inFlight' = IF inFlight.on THEN [inFlight EXCEPT !.age = @ + 1] ELSE inFlight
  /\ delay' = IF delay = 0 THEN 0 ELSE delay - 1
  /\ revokedFor' = [k \in Kids |-> IF k \in published THEN 0
                                   ELSE Least(revokedFor[k] + 1, MaxRevoked)]
  /\ sinceFetch' = Least(sinceFetch + 1, MaxDelay)
  /\ lastAnswer' = NoAnswer
  /\ UNCHANGED <<published, failures, waiting>>

KeysNext ==
  \/ \E k \in Kids : Rotate(k)
  \/ \E r \in Requests, k \in Kids : AnswerAtOnce(r, k) \/ BeginRefresh(r, k)
  \/ \E r \in Requests : Resume(r)
  \/ ProviderAnswers \/ AcceptDocument \/ NoteFailure \/ KeysTick

----
\* Every variable keeps its type.
KeysTypeOK ==
  /\ published \subseteq Kids /\ revokedFor \in [Kids -> 0..MaxRevoked]
  /\ document \in [age : 0..MaxStale, keys : SUBSET Kids]
  /\ delay \in 0..MaxDelay /\ failures \in 0..Len(Backoff)
  /\ waiting \in [Requests -> Kids \cup {0}] /\ sinceFetch \in 0..MaxDelay

\* "A last-known-good document is used only until it is 15 minutes old": a key that the
\* provider ceased to serve verifies tokens no longer than that and the one fetch that may
\* have been on its way, whatever fails meanwhile and whoever waits (ensureDocument).
RevokedKeyExpires ==
  lastAnswer.is = "key" => revokedFor[lastAnswer.kid] < MaxStale + Timeout

\* Tokens with unknown keys never cause a fetch of their own: no refresh starts while the
\* document is fresh or before the pause after the last one is over, which grows with the
\* failures in a row (beginRefresh, nextAttemptAt).
FetchesAreSpaced ==
  [][inFlight'.on /\ ~inFlight.on =>
       /\ document.age >= Fresh
       /\ sinceFetch >= Gap
       /\ failures > 0 => sinceFetch >= Backoff[failures]]_keysVars

\* The document is fresh enough to drop a revoked key in time, and fetched no more often than
\* the pauses allow.
KeysAreFresh == []RevokedKeyExpires /\ FetchesAreSpaced
====
