---- MODULE Operations ----
(***************************************************************************)
(* The operations cards of the staff portal (operations.service.ts) and    *)
(* the database probe they share with the health check (health.service.ts).*)
(* A card that was loaded lately is answered from a process-local cache; a *)
(* load under way is joined; a load that fails leaves the last good card,  *)
(* marked stale, for a while.  An overview asks for all the cards at once  *)
(* and waits for each: here a call asks for one.                           *)
(*                                                                         *)
(* The code subtracts times of the clock; here the ages of what is cached  *)
(* and carried grow tick by tick, up to Oldest, which no test below tells  *)
(* from more.                                                              *)
(***************************************************************************)
EXTENDS Integers, FiniteSetsExt, Slots

CONSTANTS
  Cards,         \* the cards asked for, of OPS_CARD_IDS
  SetUp,         \* those whose provider is configured
  States,        \* the states the providers are found in
  FreshTicks,    \* OPERATIONS_FRESH_MS
  StaleTicks,    \* OPERATIONS_STALE_MS
  LoadTicks      \* OPERATIONS_TIMEOUT_MS, and the probe's deadline within it

ASSUME OperationsAssumption ==
  /\ Cards \subseteq {"railway", "database", "supabase_project", "supabase_backup", "uptime"}
  /\ SetUp \subseteq Cards /\ "database" \in Cards => "database" \in SetUp
  /\ {FreshTicks, StaleTicks, LoadTicks} \subseteq Nat \ {0} /\ FreshTicks <= StaleTicks
  /\ None \notin Calls

VARIABLES
  cards,       \* the cache: state, age since fetchedAt, and since the provider said so
  inflight,    \* of each card, the call whose refresh the others join
  probing      \* inFlight is set, and the probes that run at the database

operating == <<cards, inflight, probing>>

Oldest == StaleTicks + LoadTicks

OperationsInit ==
  /\ cards = [id \in Cards |-> None]
  /\ inflight = [id \in Cards |-> None]
  /\ probing = [shared |-> FALSE, queries |-> 0]

----
\* The states the answer of a card's provider is read as.
Reported(id) == States \cap
  CASE id = "railway" -> {"up", "down", "unknown", "unavailable"}
    [] id = "database" -> {"up", "not_configured", "unavailable"}
    [] id = "supabase_project" -> {"up", "down", "degraded", "unknown", "unavailable"}
    [] id = "supabase_backup" ->
         {"up", "down", "degraded", "unknown", "not_available", "unavailable"}
    [] id = "uptime" -> {"up", "down", "degraded", "paused", "unknown", "unavailable"}

\* The failures of its requests: refused is the status without a backup in the plan.
Failures(id) == {"unavailable"} \cup (IF id = "supabase_backup" THEN {"refused"} ELSE {})

FreshCard(e) == e # None /\ e.age < FreshTicks
KeepableForever(e) == e # None
Keepable(e) == e # None /\ e.age < StaleTicks

CardShown(id, state, stale, since) ==
  [step |-> "card", card |-> id, state |-> state, stale |-> stale, since |-> since]
Copy(id, e, stale) == CardShown(id, e.state, stale, e.since)

CardLoad(step, id) == [step |-> step, card |-> id, previous |-> cards[id], spent |-> 0]
Loaded(k, result) ==
  [step |-> "fetched", card |-> k.card, previous |-> k.previous, spent |-> k.spent,
   result |-> result, since |-> 0]
Loading(c, id) == \E step \in {"fetch", "probe", "fetched"} : At(c, step) /\ call[c].card = id

----
\* The shared database probe.

\* sharedProbe: a probe that runs is joined.
SharedProbe ==
  probing' = IF probing.shared THEN probing
             ELSE [shared |-> TRUE, queries |-> probing.queries + 1]

\* getHealth, up to the probe.
GetHealth(c) ==
  /\ Begin(c, [step |-> "probe", card |-> "health", previous |-> None, spent |-> 0])
  /\ SharedProbe /\ UNCHANGED <<cards, inflight>>

\* What databaseStatus gives to the one who waits.
DatabaseStatus(k, status) == IF k.card = "health" THEN Idle ELSE Loaded(k, status)

\* The query ends, well or not: release, and everyone who still waits has the status.
ProbeSettles ==
  /\ probing.queries > 0
  /\ probing' = [shared |-> FALSE, queries |-> probing.queries - 1]
  /\ \E status \in Reported("database") :
       call' = [c \in Calls |-> IF At(c, "probe") THEN DatabaseStatus(call[c], status)
                                ELSE call[c]]
  /\ UNCHANGED <<cards, inflight>>

\* The deadline of one response: disconnected, while the query goes on.
ProbeDeadlineReleases(c) ==
  /\ At(c, "probe")
  /\ call' = [call EXCEPT ![c] = DatabaseStatus(@, "unavailable")]
  /\ probing' = [probing EXCEPT !.shared = FALSE]
  /\ UNCHANGED <<cards, inflight>>
ProbeDeadline(c) ==
  /\ At(c, "probe")
  /\ call' = [call EXCEPT ![c] = DatabaseStatus(@, "unavailable")]
  /\ UNCHANGED operating

----
\* overview and cached.

CardNotConfigured(c, id) ==
  /\ id \notin SetUp
  /\ Begin(c, CardShown(id, "not_configured", FALSE, 0))
  /\ UNCHANGED operating

CardCached(c, id) ==
  /\ id \in SetUp /\ FreshCard(cards[id])
  /\ Begin(c, Copy(id, cards[id], FALSE))
  /\ UNCHANGED operating

CardJoined(c, id) ==
  /\ id \in SetUp /\ ~FreshCard(cards[id]) /\ inflight[id] # None
  /\ Begin(c, [step |-> "joined", card |-> id, on |-> inflight[id]])
  /\ UNCHANGED operating

\* refresh, up to the first request of its loader.
CardRefresh(c, id) ==
  /\ id \in SetUp /\ ~FreshCard(cards[id]) /\ inflight[id] = None
  /\ inflight' = [inflight EXCEPT ![id] = c]
  /\ IF id = "database" THEN Begin(c, CardLoad("probe", id)) /\ SharedProbe
     ELSE Begin(c, CardLoad("fetch", id)) /\ UNCHANGED probing
  /\ UNCHANGED cards

\* The provider answers, or its requests fail; the rest of the answer is still to come.
CardLoads(c) ==
  /\ At(c, "fetch")
  /\ \E result \in Reported(call[c].card) \cup Failures(call[c].card) :
       call' = [call EXCEPT ![c] = Loaded(@, result)]
  /\ UNCHANGED operating

\* The refresh ends for the one who runs it and those who joined it.  A card that could be
\* loaded is stored; otherwise the previous one goes out as stale while it is usable.
Resolves(c, k, card) ==
  /\ call' = [d \in Calls |-> IF d = c \/ (At(d, "joined") /\ call[d].on = c)
                              THEN card ELSE call[d]]
  /\ inflight' = [inflight EXCEPT ![k.card] = IF @ = c THEN None ELSE @]
Stores(c, k, state) ==
  /\ cards' = [cards EXCEPT ![k.card] = [state |-> state, age |-> 0, since |-> k.since]]
  /\ Resolves(c, k, CardShown(k.card, state, FALSE, k.since))

RefreshEnds(c) ==
  LET k == call[c] IN
  /\ At(c, "fetched")
  /\ \/ /\ k.result \in {"unavailable", "refused"} /\ Keepable(k.previous)
        /\ Resolves(c, k, Copy(k.card, k.previous, TRUE)) /\ UNCHANGED cards
     \/ /\ k.result = "unavailable" /\ ~Keepable(k.previous)
        /\ Resolves(c, k, CardShown(k.card, "unavailable", FALSE, k.since)) /\ UNCHANGED cards
     \/ k.result = "refused" /\ ~Keepable(k.previous) /\ Stores(c, k, "not_available")
     \/ k.result \notin {"unavailable", "refused"} /\ Stores(c, k, k.result)
  /\ UNCHANGED probing

UseCard(c) == At(c, "card") /\ Finish(c) /\ UNCHANGED operating

----
\* Time passes; the timer of refresh and the probe's deadline end every load in time.
Grown(n) == Min({n + 1, Oldest})
Aged(e) == IF e = None THEN None
           ELSE [state |-> e.state, age |-> Grown(e.age), since |-> Grown(e.since)]
Carried(k) ==
  IF k.step \in {"fetch", "probe"}
  THEN [k EXCEPT !.previous = Aged(@), !.spent = @ + 1]
  ELSE IF k.step = "fetched"
  THEN [k EXCEPT !.previous = Aged(@), !.spent = @ + 1, !.since = @ + 1]
  ELSE k

OperationsTick ==
  /\ \A c \in Calls : call[c].step \in {"fetch", "probe", "fetched"} => call[c].spent < LoadTicks
  /\ cards' = [id \in Cards |-> Aged(cards[id])]
  /\ call' = [c \in Calls |-> Carried(call[c])]
  /\ UNCHANGED <<inflight, probing>>

OperationsNext ==
  \/ OperationsTick \/ ProbeSettles
  \/ \E c \in Calls :
       \/ GetHealth(c) \/ ProbeDeadline(c) \/ CardLoads(c) \/ RefreshEnds(c) \/ UseCard(c)
       \/ \E id \in Cards :
            CardNotConfigured(c, id) \/ CardCached(c, id) \/ CardJoined(c, id)
              \/ CardRefresh(c, id)

----
\* What a card says, its provider said less than the fresh time ago, or less than the stale
\* time if it is marked stale, and the time its load took; a card is loaded by one call at a
\* time, and those who wait for a load wait for one that is under way; and however many
\* responses gave up waiting for it, one probe runs at the database ("It does not start a
\* second query").
CardsHold ==
  /\ \A c \in Calls : At(c, "card") =>
       call[c].since < LoadTicks + (IF call[c].stale THEN StaleTicks ELSE FreshTicks)
  /\ \A c, d \in Calls, id \in Cards : Loading(c, id) /\ Loading(d, id) => c = d
  /\ \A c \in Calls : At(c, "joined") => Loading(call[c].on, call[c].card)
  /\ probing.queries <= 1
====
