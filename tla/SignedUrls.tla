---- MODULE SignedUrls ----
(***************************************************************************)
(* The process-local cache of signed read URLs: signed-read-url-cache.ts,  *)
(* as createSignedReadUrl of supabase.service.ts uses it.  Requests that   *)
(* miss ask storage for a signature, wait, and store what they got; time   *)
(* passes meanwhile.  The avatars and covers, which are public, and the    *)
(* decision who may read a file are not here; forget has no caller.        *)
(***************************************************************************)
EXTENDS Integers, SequencesExt, Ordered, Slots

CONSTANTS
  UrlFiles,      \* objects of private buckets
  UrlTtl,        \* SIGNED_READ_URL_TTL_SECONDS
  UrlMargin,     \* SIGNED_READ_URL_REUSE_MARGIN_MS
  UrlLimit,      \* SIGNED_READ_URL_CACHE_LIMIT
  MaxLag,        \* bound on the time between a signature and its arrival
  LastTick       \* bound on time

ASSUME SignedUrlsAssumption ==
  /\ UrlTtl \in Nat /\ UrlMargin \in Nat /\ UrlTtl > UrlMargin
  /\ UrlLimit \in Nat \ {0} /\ MaxLag \in Nat /\ MaxLag <= UrlMargin /\ LastTick \in Nat

VARIABLES
  urlTime,    \* Date.now
  urls        \* the Map, in order of insertion: file, expiresAtMs, and when storage ends it

signing == <<urlTime, urls>>

SignedUrlsInit == urlTime = 0 /\ urls = <<>>

\* get's and evict's test: an entry is not reused close to its end.
DueAtExpiry(e) == urlTime >= e.expires
Due(e) == urlTime >= e.expires - UrlMargin

Without(file) == Kept(urls, {i \in DOMAIN urls : urls[i].file # file})
Entries(file) == {e \in ToSet(urls) : e.file = file}
Given(file, until) == [step |-> "url", file |-> file, left |-> until - urlTime]

\* createSignedReadUrl, up to the call of storage: a hit answers, an entry that is due goes.
GetCached(c, file) ==
  /\ \E e \in Entries(file) : ~Due(e) /\ Begin(c, Given(file, e.until))
  /\ UNCHANGED signing
GetMissed(c, file) ==
  /\ \A e \in Entries(file) : Due(e)
  /\ urls' = Without(file)
  /\ Begin(c, [step |-> "sign", file |-> file])
  /\ UNCHANGED urlTime

\* Storage signs, for UrlTtl from its own now, or fails.
CreateSignedUrl(c) ==
  /\ At(c, "sign")
  /\ \/ call' = [call EXCEPT ![c] = [step |-> "signed", file |-> @.file,
                                     until |-> urlTime + UrlTtl]]
     \/ Finish(c)
  /\ UNCHANGED signing

\* evict: over the limit, what is due goes, then the oldest.
Evict(es) ==
  IF Len(es) <= UrlLimit THEN es
  ELSE LET fresh == Kept(es, {i \in DOMAIN es : ~Due(es[i])}) IN
       IF Len(fresh) <= UrlLimit THEN fresh
       ELSE SubSeq(fresh, Len(fresh) - UrlLimit + 1, Len(fresh))

\* The signature arrives: set, with the end counted from now, and the answer.
SetUrl(c) ==
  LET k == call[c] IN
  /\ At(c, "signed")
  /\ urls' = Evict(Append(Without(k.file), [file |-> k.file, expires |-> urlTime + UrlTtl,
                                            until |-> k.until]))
  /\ call' = [call EXCEPT ![c] = Given(k.file, k.until)]
  /\ UNCHANGED urlTime

UseUrl(c) == At(c, "url") /\ Finish(c) /\ UNCHANGED signing

\* Time passes; a signature is under way for at most MaxLag.
PassTime ==
  /\ urlTime < LastTick
  /\ \A c \in Calls : At(c, "signed") => urlTime - (call[c].until - UrlTtl) < MaxLag
  /\ urlTime' = urlTime + 1 /\ UNCHANGED <<urls, call>>

SignedUrlsNext ==
  \/ PassTime
  \/ \E c \in Calls :
       \/ CreateSignedUrl(c) \/ SetUrl(c) \/ UseUrl(c)
       \/ \E file \in UrlFiles : GetCached(c, file) \/ GetMissed(c, file)

----
\* Whoever is given a URL can still use it for the margin, less the time its signature once
\* took to arrive, from storage or from the cache, and whoever else signed the same file
\* meanwhile; and the cache never outgrows its limit nor holds a file twice.
UrlsLast ==
  /\ \A c \in Calls : At(c, "url") => call[c].left > UrlMargin - MaxLag
  /\ Len(urls) <= UrlLimit
  /\ \A i, j \in DOMAIN urls : urls[i].file = urls[j].file => i = j
====
