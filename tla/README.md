# Mawahib backend: a verification project

TLA+ models of the Mawahib backend (NestJS, Prisma, Postgres, Supabase), their TLC runs and their
TLAPS proofs. Paths are relative to the repository; `modules/` stands for `src/modules/`.

The backend is a stateless HTTP server over one Postgres database. A handler reads rows, checks
them, and then writes, with an `await` at each call of the database, the identity provider, the
storage or the payment provider. Handlers of different requests, in one process or in several,
overlap at every `await`; the isolation level is READ COMMITTED; a handler may stop at any
`await`. What keeps the rows right is therefore a small number of devices: unique keys,
compare-and-set updates, row locks, one advisory lock per pair of users, idempotency keys and
client message ids, keyset cursors. Four structures live in a process instead: the budget of public
requests, the cache of signing keys, the cache of signed URLs, the cached cards of the staff
portal. The models are about these.

## Inventory

| Component | State it keeps | Operations | What is hard | What makes it correct |
|---|---|---|---|---|
| Marketplace (`modules/marketplace`) | listings, applications, work requests and their event log, engagements | apply, review, negotiate, withdraw, transition, close, archive, delete | decisions taken on earlier reads; several rows that must agree; handlers that stop between two writes | one engagement per request; work only for selected applicants; a deal's terms and phases |
| - listings and their readers | content, price, publication, saved jobs | edit, publish, close, save, catalog, detail | edits of a listing that changes state; lists that lag behind | a price that fits its type; who may see a listing |
| - terms, schedules, calendar | original, proposed and agreed terms, schedule rows | propose, merge, accept, total, due date, calendar window | null and absent fields, currency, ends of months | what is agreed is what is charged and scheduled |
| - files of a request | attachment rows | add, remove, list | a limit checked on an earlier count; evidence that moves | only own files; evidence stays after delivery |
| - unread dots | `updated_at`, two last views | every write, open, count | stamps taken before the commit | no dot for one's own change; a change is noticed |
| Payments (`modules/payments`) | payments with idempotency key and settlement key | create, replay, confirm, settle | two keys at once; lost calls and retries; cancellation while paying | one settlement; no unpaid work; paid work starts |
| Invoices (`modules/invoices`) | one invoice per payment, its document | generate, retry | overlapping generations, number collisions, failures after each write | a generated invoice can be read and has a number of its own |
| Messaging (`modules/messaging`) | conversation, messages, receipts, archive and delete flags | send, poll inbox and thread, read, archive, delete | client retries, equal timestamps, late messages | a message is stored once; pages miss nothing; receipts and badges agree |
| Connections (`modules/connections`) | requests in both directions, the connection | ask, accept, reject, cancel, end, open chat | crossed requests, double taps, the lock | one relationship, seen alike by both; told once |
| Reviews (`modules/reviews`) | one review per reviewer and engagement | submit, list | double submission, the closing window, two statements of what is public | a stored review was sent before its author saw the other's |
| Media (`modules/media`, `supabase.service.ts`) | assets and stored objects; the URL cache | open and complete an upload, sign a read URL | completions that race; URLs that outlive their signature | ready means stored as declared; a URL given out lasts |
| Staff and account status (`modules/staff`) | members, audit events, account status | admit, recover, permit, deactivate, emergency, suspend | two stores that fail apart; the last operator; late writes | somebody can always act, on what they saw |
| Users and profiles (`modules/users`) | account, username, number and its flag, skills | bootstrap, rename, change number, sync | flags written by id after a call to Auth | a number shown as verified was confirmed |
| Posts and feed (`modules/posts`) | posts, likes, saves, comments, notifications, a counter | post, like, comment, delete, page through | notices against toggles of a like, several statements of who may see, a feed mixed from two pools | one like, one notice; one rule of visibility; a walk loses nothing while connections stay |
| Services, portfolio, saved items | items with lists of media, packages, skills | create, edit, remove, save | whole-list edits that overlap | an edit's lists stay together |
| Explore and public discovery | none | search, detail | answers built from two reads | an answer shows only what its audience could see meanwhile |
| Taxonomy | skills, terms, categories | release, suggest, label, backfill | terms that change owner; two backfills against edits | one term, one skill; labels follow categories |
| Public rate limit | token buckets in a bounded map | consume, sweep | forgetting a bucket, the full map | no address gains by being forgotten |
| Authentication | cached signing keys | verify, refresh | refreshes that fail or race; keys that are withdrawn | no answer from a document that is too old |
| Notifications | rows | insert, list, mark | the inserting handlers | see payments, connections, messaging, posts |
| Staff reads and health (`modules/staff`, `modules/health`) | cached operations cards, the probe under way | overview, probe, lists of users and disputes | loads that are joined, fail or outlast their timer | a card is as new as it says; one probe at a time |
| Configuration, infrastructure | none | start-up checks, filters, guards | nothing is decided on them | not modelled |
| Seed data, acceptance scripts | none | drive the API from outside | | not modelled |

How they interact: the marketplace creates an engagement that waits for payment; payments settle
it through `settleEngagementAfterSuccessfulPayment`, which opens the work chat in messaging, which
inserts notifications; the client's replay repeats the settlement; a succeeded payment triggers an
invoice, fire and forget; reviews open when an engagement completes; connections open their own
conversations and decide who sees posts; the taxonomy's releases change what profiles and listings
may name; media assets serve reviews, invoices, posts, items and requests. All of it is by direct
call in one process and by shared rows; there is no queue.

`PROJECT.json` lists for every component its files and its modules, and every hazard at its line.

## Modules

| Module | Models |
|---|---|
| `MarketStates` | status sets and transition tables (`state-machines.ts`) |
| `WorkRequests` | every marketplace handler that changes a status (`marketplace.service.ts` over `prisma-marketplace.repository.ts`) |
| `Deal` | abstract: what the marketplace promises about one request |
| `Terms` | terms, money, deadlines, schedules and the calendar of one request |
| `Jobs` | the content of one listing, its price, and its readers |
| `Attachments`, `Unread` | the files and the unread dot of one request |
| `Payments` | `payments.service.ts`, the settlement, the opening and announcing of the work chat |
| `Connections` | `connections.service.ts`, `connection-lifecycle.ts`, `prisma-connections.repository.ts` |
| `Relationship` | abstract: what two users see of each other |
| `Messaging` | one conversation after it was opened |
| `Staff` | the staff life cycle over database and provider, portal admission, account status |
| `Media`, `Reviews`, `Invoices` | uploads; the two reviews of an engagement; one invoice per payment; they share the assets |
| `SignedUrls` | the cache of signed read URLs |
| `Accounts` | accounts, usernames, numbers and the verified flag |
| `Skills`, `Labels` | skill catalog and profile skills; category and label of a listing |
| `Posts`, `Feed`, `Lists` | one post; a walk through the mixed feed; a walk through the other paged lists |
| `Offerings` | services, portfolio projects, saves |
| `Discovery` | what guests and members are shown of a user |
| `SigningKeys`, `RateLimit` | key-set cache; token buckets |
| `Operations` | the cached operations cards of the staff portal and the database probe they share with the health check (`operations.service.ts`, `health.service.ts`) |
| `Ordered` | rows in an order, a page of so many of them, the entries of a map that are kept |
| `Slots` | the calls in flight, shared by the modules composed in `Records` |
| `Records` | the composition of all but marketplace statuses, payments, connections, messaging and staff |
| `MC*` | the constants of the TLC instances |
| `WorkRequestsProofs`, `PaymentsProofs`, `ConnectionsProofs`, `MessagingProofs`, `StaffProofs` | theorems about one component each, with their proofs |
| `AssetsProofs` | general lemmas (numbers, recursion, order, pages); the invariants of reviews, invoices, files, feed and lists |
| `PeopleProofs` | the invariants of accounts, services, posts, listings, labels, discovery, unread dots, terms and calendar, skills |
| `RecordsProofs` | the invariants of the four structures of a process, and the theorems about `Records` |

`PROJECT.json` maps each definition to the lines it stands for. A definition that stands directly
before the one it resembles (`IsOpenOrAccepted` before `IsOpen`) is a plausible slip in that code:
no specification uses it, and the property named with it in `PROJECT.json` fails when it takes the
other's place.

### From handlers to actions

A handler becomes one action that takes its reads as one snapshot, evaluates every guard and early
return, and leaves in `call[c]` what it is going to write, and then one action per database write
(a statement or a transaction). `Calls` is the set of slots for handlers in flight: with one slot
handlers run to the end before the next begins, with two every pair of handlers overlaps write by
write. Consecutive reads with no write of the same handler in between are merged unless a property
is about what happens between them (`Discovery`, `Attachments`, `Posts`, `Invoices`). A handler is
lost either by an explicit `Crash` (marketplace, payments, connections) or, where nothing forces a
step, by never going on. A refused request that changes nothing is no action.

Some modules keep history variables, which no guard reads: they remember what a property compares
with (`selected`, `seen`, `accepted`, `blind`, `issued`, `everConfirmed`, `evidence`, `owed`,
`caughtUp`, `revokedFor`, `allowance`).

- **WorkRequests.** Requests are identities; a job-posting request `r` also stands for its
  application (`application[r]`, unique per listing and applicant). `wrEngagement` is the foreign
  key, `engRequest` is what an engagement was created for. `revisedFrom` is the `from_status` of
  the latest `changes_requested` event, all that `cancelWorkRequestChanges` reads of the log. Terms
  are a small set; only `Payable` (amount above zero) is told apart, the rest is in `Terms`.
  `UpdateWorkRequest` writes by id; `AcceptWorkRequestTransactional` checks again under the row
  lock; engagement statuses are only ever written by compare-and-set, so their read and write are
  one step. `rejectOpenWorkRequestsForListing` is a read and an apply, because its read takes no
  lock. Applications that predate work requests (`Legacy`) get theirs lazily, as in
  `resolveWorkRequestForApplication`. There are more engagements than requests, so that a second
  one could appear.
- **Terms.** Money, add-ons and deadline of a proposal go through `mergeMoney` and its siblings
  with their absent and null fields; acceptance computes the amount the payment charges; the due
  date follows `engagement-schedule.ts` in civil dates, ends of months included; the calendar is
  the query over a window. One call runs at a time; `WorkRequests` has the overlaps.
- **Jobs, Attachments, Unread.** `Jobs` takes the listing's four price columns through
  `listing-pricing.ts` and asks every reader's query for its verdict. `Attachments` separates the
  count from the insert. `Unread` takes the stamps of a write before its commit, as the ORM and the
  service do: no two stamps of different calls are equal and host clocks agree.
- **Payments.** A payment is its idempotency key. `Create` inserts (the key is unique),
  `MarkProcessing` and `ConfirmPayment` are the provider's two calls with every outcome,
  `MarkSucceeded` is refused by the unique settlement key, `SettleEngagement` and `StartEngagement`
  are the read and the compare-and-set of the settlement, and the last four actions open and
  announce the chat. Cancellation of the request and the parties' own transitions happen meanwhile.
  The loser of a unique key on a conversation or on the announcement reads the winner's row, so
  find and create are one step there; for the notifications nothing is unique and they are two.
- **Connections.** One pair stands for all, since pairs share no row and no lock. A transaction is
  `LockPair`, `ReadAndPlan`, and the write with its commit, which releases the lock; a crash or the
  transaction's time limit rolls back. The plans are those of `connection-lifecycle.ts`. Callers
  who are not a party are refused before anything is written and are left out, as are the unlocked
  repository methods that no service calls.
- **Messaging.** A send is the lookup by client id, the insert (unique on conversation and client
  id; the loser is answered like the lookup), the preview, the count and the first-message
  notification; an insert is begun while ids are left (`IdsLeft`); polls stamp delivery and then
  answer; `pager` is a participant who walks back with the cursor of (time, id). The clock may
  stand still between two writes, so that rows share a time; ids are drawn in any order, as UUIDs
  are.
- **Staff.** A command reads membership and provider, then acts at the provider, then writes in a
  transaction that locks all memberships. Provider steps and database steps are separate actions,
  so each order in which two commands meet and each place where one stops is a behaviour. An
  account change carries the status its operator saw.
- **Media, Reviews, Invoices.** An upload is a row, a file the server does not see, and a
  completion that compares and then writes by id. A submit reads (window, earlier review, assets)
  and inserts later; the instant of a request is fixed when it arrives; the loser of the unique key
  is answered with the stored row if it is the same. A generation of an invoice is: number and
  insert, render, upload, asset row, filing; each may fail after the ones before it, and the
  failure paths (mark failed, remove the document) are steps too.
- **Accounts.** Each request reads the row, asks Auth, and writes the flag by id. With `OnePerUser`
  a client waits for its answer before it sends the next request; without it see
  `accounts_stale_flag`.
- **Posts, Feed, Lists, Offerings, Discovery.** `Posts` separates each check from its write. `Feed`
  is the cursor algorithm of `feed-cursor.ts` over a wall on which posts appear and are deleted
  during the walk (an id is used once). Each page reads the viewer's connections anew
  (posts.service.ts:155), and between pages the viewer may be connected to an author or
  disconnected (`Reconnect`): a page is made of rows, posts in the pools of that moment, and
  `walk.moved` remembers whose posts changed pools, for the property. `Lists` is the keyset of every other list, over rows that
  come and go. In `Offerings` a list is the set of edits its rows come from, and a delete removes
  what its statement could see. `Discovery` records everything that could be seen since a call
  began.
- **Skills, Labels.** A release is any of a set of catalogs that satisfy
  `assertBootstrapTaxonomy`, among them ones in which a term moves to another skill or two skills
  swap terms. The backfills run whenever they are started, against edits. Texts of skills are terms
  in their normal form, so that the unique key of a profile's rows (schema.prisma:332, on the text
  as it is written) is `Distinct`; with the limit on their number it makes a list `Savable`.
- **SigningKeys, RateLimit, SignedUrls.** These keep time. Ages are cut off at the bound beyond
  which the code does not tell them apart. The code refills a bucket on its next use; the model
  refills it as time passes, which gives the same tokens at every use. A signature reaches the
  cache at most `MaxLag` after it was made, and that is within the reuse margin (a minute); a call
  that took longer would break `UrlsLast`, and no timeout in the code excludes it.
- **Operations.** A card is answered from the cache, from a load of another request, or by a load
  of its own, whose end is the timer's or the provider's; a load that fails falls back on the card
  it had before. The probe is one query at the database for all who wait; one who gives up does not
  cancel it. The overview asks for all cards and waits for each, so a call asks for one. Ages of
  cached cards grow tick by tick up to `Oldest`, beyond which no test tells them apart.

**Composition.** `Reviews` and `Invoices` act on the assets of `Media`, `Accounts`, `Posts` and the
others on rows of their own; all of them share `Slots`. `served` picks the part whose requests a
behaviour has. That loses nothing: the parts' variables are disjoint (clients cannot open invoice
assets), no part reads another's, and every property speaks of one part, so a behaviour of several
is, for each property, a behaviour of its part with stutters.

## Runs

| Run | Calls at once | Instance | Shows |
|---|---|---|---|
| `market_serial` | 1 | a legacy-capable job request, a direct one, 2 engagements, 2 proposals, 1 listing | the rows agree between two calls |
| `market_races` | 2, crashes | a job request, 2 engagements, 1 proposal | what holds under every overlap, and refinement of `Deal` |
| `market_close_answers` | 1 | a job request | disagreement, below |
| `market_lost_update` | 2 | a job request | disagreement, below |
| `payments` | 2, 1 crash | 1 engagement, 2 keys | safety and liveness of paying |
| `payments_chat` | 2, 1 crash | 1 engagement, 1 key | disagreement, below |
| `connections` | 2, crashes | the pair | safety, refinement of `Relationship`, liveness |
| `messaging` | 2 | 2 participants, 2 messages, 1 client id, 2 instants, one of the two polls and reads | retries, the announcement, receipts, pages |
| `staff` | 2 | 2 members, one of them linked to the account | operators, and account changes on stale views |
| `records` | 2 | below | the parts composed in `Records`, one after the other |
| `accounts_stale_flag` | 2 of one user | 2 users, 2 numbers | disagreement, below |
| `terms_currency` | 1 | 1 price, 1 add-on | disagreement, below |

What the properties of `records` say, part by part:

| Property | Says |
|---|---|
| `AcceptedReviewStands` | what a submit was answered with is the review that stands |
| `BlindUntilPublished` | no stored review was sent by someone who had seen the other's, and the two statements of what is public agree |
| `InvoicesStand` | a generated invoice has a document that can be read and a number no other has |
| `FilesHold` | a ready file is stored as declared; the evidence of a request stays after delivery but for calls then under way, and the limit of its files is exceeded by no more than those add |
| `CachesLast` | a URL given out still lasts and the cache keeps to its limit; a staff card is as new as it says, one load of it runs at a time, and one probe at the database |
| `VerifiedWasConfirmed` | a number shown as verified is one Auth confirmed for that user |
| `PostsAgree` | the author is told of each like at most once and never of their own, and the five places that say who sees a post agree |
| `PagesLoseNothing` | a walk through feed or list shows each row that was there all the time, and none twice; excepted are posts of authors connected or disconnected between two pages, which may be missed, or shown once from either pool |
| `ServiceEditsAreSerial` | the lists of a service are those of one edit, and none changes after its removal |
| `KeysAreFresh` | a revoked key stops verifying in time, and refreshes keep the pauses between them |
| `BudgetHolds` | no bucket is ahead of a meter that never forgets |
| `DealIsKept` | what is charged, due and shown in the calendar (its row limits left out) follows what was agreed |
| `ListingsHold` | the four price columns make one price, an open listing has a date of posting, and readers and writers hold to one rule of visibility and of price |
| `SkillsHold` | a skill is found under its name of today, and what a profile saved survives every release and is saved again, unless an active skill got the name that is stored for an inactive one beside it |
| `LabelsAgree` | category, custom text and label agree, whatever edits and backfill wrote, and the owner can always send the listing back as it is |
| `AnswersWereVisible` | an answer shows only what its audience could see while it was made |
| `UnreadIsUnseen` | a dot stands for a change that was not seen, and a change leaves a dot, but for views that cross it |

Why the bounds are enough. Every race in this code is between two writers of one row, and two slots
give every such pair, in every order, with any number of complete calls before and after (slots are
reused without limit). Requests, payments, posts, reviews and items share no rows with others of
their kind except where the instance has two: two keys of one engagement, two invoices for two
numbers, two users for two phone numbers and two candidate usernames. `market_serial` has one job
request and one direct request, so that a change of the listing meets a request it must not touch,
and both draw on the same engagements; two applicants to one listing are not in an instance. Two
proposals tell old terms from new ones; two engagements let a second one appear; two messages and
two instants give every order of ids against times; two members let the last operator be removed
by the other. In `records`: three invoice documents for two overlapping generations and a repeat;
two likes' worth of toggles (`MaxLikes`); edits 0 to 3 (`MaxEdits`); six posts of the viewer and
two others, one of which may appear during the walk (`NewIds`), against a page of four, with two
times, every choice of who is connected and of which posts are public, and two changes to posts or
connections between the pages (`MaxChanges`); four rows against a page of two; ticks of the signing
keys are minutes (`Fresh` 10, `MaxStale` 15, as in the code), the back-offs are 1, 1, 2, 5; two
buckets in the map for three addresses and an unknown one, so that the map is full; a URL cache of
one entry for two files, so that it evicts; cards that are fresh for one tick, usable for two and
loaded within one, so that a load can outlast both; dates at the ends of a month, of a leap year's
February and of a year, so that every clamp happens. Counters that would grow for ever are cut off
in guards, and are named: `MaxCrashes`, `MaxTime`, `MaxId`, `MaxLikes`, `MaxEdits`, `MaxTexts`,
`MaxChanges`, `LastTick`, `MaxStamp`, `Window`'s clock.

Symmetry is used only among interchangeable values (calls, invoice numbers, the engagements of
`market_races`, the users and numbers of `accounts_stale_flag`), in runs without liveness.

`CHECK_DEADLOCK FALSE` is set everywhere but in `connections`: the instances have a fixed number of
rows and instants, and when all are used up, or all requests are rejected, nothing is left to do.
`connections` never stops and is checked for deadlock.

### Disagreements

- **`market_close_answers`.** A listing is closed while an applicant is selected and has not
  accepted: the request is rejected, the application stays `accepted`.
- **`market_lost_update`.** A decision taken on an earlier read overwrites an acceptance
  (`updateWorkRequest` writes by id): the engagement stays payable behind a rejected request.
  `market_serial` shows that the same invariant holds when handlers do not overlap.
- **`payments_chat`.** A call lost between starting the work and opening the chat is never made
  good by the retries that are to heal it.
- **`accounts_stale_flag`.** Two requests of one user at once: a request that only reads the
  profile marks as verified a number that the other has stored in between.
- **`terms_currency`.** A proposal without a price drops the frozen currency, and the add-ons are
  charged in the default one.

Each is quoted with its lines under `findings` in `PROJECT.json`. What else modelling showed, where
no document says otherwise, so no run is about it (the `hazards` have the lines):

- an accept agrees terms read before a decline and a new proposal (the accepting transaction
  checks the status again, not the terms);
- a cancellation between the success of a payment and the start of the work leaves a succeeded
  payment of a cancelled engagement, and a call lost between two writes a payment that stays
  pending or processing;
- previews are written last-writer-wins and may stay behind the newest message; a first message
  may be announced to nobody when the call is lost;
- overlapping edits of a project mix their media (a service's edits lock, a project's do not);
- a post deleted twice at once is counted down twice in `posts_count`;
- a view that overlaps a write of the other party may miss it: the dot is gone and the change was
  not seen;
- one file more than the limit per overlapping upload;
- a connection made or ended while the feed is read moves the author's posts between the pools of
  a page (posts.service.ts:155-178), each with a cursor of its own: posts are shown a second time,
  or never (the test "paginates without duplicates", posts.service.spec.ts:306, has fixed
  connections);
- a skill renamed to the text that a profile stores for another skill, now inactive, makes the
  profile impossible to save as it is shown: both rows have one text, and the answer is "Those
  skills conflict" (schema.prisma:332, prisma-user.repository.ts:215-221) until one is dropped.

### Fairness

Only `Payments` and `Connections` claim liveness. In `Payments` a process that is not lost runs its
calls (weak fairness of each call's steps), and a client without a final answer keeps sending the
same key (strong fairness of `Replay`, because the slots may be busy; payments.service.ts:250-252
gives the client that duty). In `Connections` calls go on (weak fairness), and Postgres serves the
waiters of a lock in turn (strong fairness of `LockPair`, since the lock is taken and freed
infinitely often). No fairness is assumed of users beginning anything. All other specifications are
safety only: no step is ever forced, which is how they contain every lost call.

## Proofs

All theorems hold for every value of the constants under the ASSUMEs of the modules: any number of
calls, requests, keys, members, messages, payments, addresses, posts and rows, lists of any length,
and any bound on time. Each component's proof follows one line: an inductive invariant (`IInv`, or
`<Part>Inv`), one lemma per action, a lemma that the invariant shows the property, the theorem from
them by `PTL`. The inductive invariants were checked by TLC before they were proved.

Five theorems have a hypothesis beyond the ASSUMEs. `VerifiedWasAlwaysConfirmed` assumes
`OnePerUser`, that a client waits for its answer; without it `accounts_stale_flag` shows the
property false (so the passing run says nothing of that overlap). The four theorems that begin "When handlers run one at a time" assume
`HandlersRunAlone`, one slot and no crash; without it `market_lost_update` shows one of them false,
and rows that a handler writes one after the other disagree while it is between the writes. So
`ApplicationTracksRequest` is neither checked nor proved for a handler that is lost between its two
writes, an application and a request written apart. The
assumptions on constants say what the code guarantees of its inputs: `isIsoDate` admits only days
of the calendar (`TermsAssumption`), `assertBootstrapTaxonomy` only releases in which a term
belongs to one skill (`SkillsAssumption`), a bucket is kept until it would be full (`Capacity <=
IdleTicks`), cards are fresh no longer than they are usable (`OperationsAssumption`), ids are
numbers in their order.

- **WorkRequestsProofs.** `TypeCorrect` proves `TypeOK` with two strengthenings: `CallsOK` (a call
  in flight writes to rows that exist, an accept carries payable terms and an accepted status is
  written only for a selected applicant's application) and `AcceptedWasSelected` (an accepted
  application was selected, or its request has an engagement). The second is needed because
  acceptance itself marks applications accepted: alone, `SelectedBeforeWork` is not inductive.
  `OneEngagement` follows from the row lock: the transaction looks at the link again, and links are
  never rewritten. `MarketImplementsDeal` shows that every step maps to a step of `Deal` or to a
  stutter; its heart is that only the accepting transaction writes agreed terms, together with the
  engagement and the link. What holds between complete handlers rests on `Serially`: what the call
  read is still true when it writes (`StillTrue`), and rows that belong together disagree only
  while the write that mends them is the call's next one (`RowsAgree`). The four invariants are what
  is left of it when no call is in flight; `RowsExist` had to be added because an update to
  `pending` must know that the turn was not a declined change's.
- **PaymentsProofs.** The invariant adds to `OneSettlement` and `WorkIsPaid` that a key being
  driven by a call belongs to that call alone (`OneOwner`), that a call about to settle holds a
  succeeded payment (`PayingEngagements`, `CallsOK`), and that settlement keys are those of
  succeeded payments (`SettlementKeys`). `DecisionsAreFinal` follows from `OneOwner`: a decided
  payment has no driver left.
- **ConnectionsProofs.** The one invariant needed beyond the properties is `CallsOK`: at most the
  holder of the lock is between its read and its write, and its plan is still the plan its rows
  call for. From it, four lemmas say what each write meets, and the refinement of `Relationship`
  and `NotifiedOnce` follow.
- **StaffProofs.** Types, and that a call in flight is about a member. The rest are step
  properties: a membership is written for one member at a time under the lock, after the count of
  active operators was taken again, so that `SomebodyCanAct` follows for any overlap of commands;
  `OnlyThroughPending` says a late write never reinstates anybody; the two theorems on accounts
  rest on the lock over actor and account, under which both are read again.
- **MessagingProofs.** Client ids are unique among stored messages and answers name such messages
  (`UniqueClientIds`, `AnswersOK`), which gives `RepeatsGetTheirMessage`; one
  send at most is about to announce, only while nothing was announced, and after that there is a
  message whose send is over, so that no later count is one (`Announced`);
  a stamp of reading is never written without the stamp of delivery. `PagesAreWhole` needs, of the
  walk, that every message of the start was shown or comes before the cursor with more to come, and
  that nothing shown comes before it (`WalkOK`); a page is defined by the newest of what is left,
  of which there is one because keys (time, id) are ordered and unique.
- **RecordsProofs: the composition.** `RecordsInv` says of each part: if it is served, its own
  invariant holds, and if not, what it showed when the behaviour began. The second half is needed
  because the slots are shared, and a property about calls (`At(c, "url")`) could be broken by
  another part's calls: `ReadsSound` says that no other part leaves a call at a step of the parts
  that answer reads. Every theorem on a part is `RecordsInv` with that part's lemma.
- **AssetsProofs, general lemmas.** The library's induction takes an operator as a parameter, which
  no installed prover can instantiate. `SetInduction` and `InductionTo` state it for *sets* of
  numbers and follow from the least element of a set (`LeastNumber`); `RecursionTo` says that a
  function defined by recursion exists. From these, `Ranking`: in a finite set with a strict order,
  the number of elements before one is one-to-one onto `0..n-1`, so `InOrder` of module `Ordered`
  is the sorted sequence (`InOrderPlaces`) and the first page has all that precedes its last row
  (`FirstRows`).
- **Reviews and invoices** (`AssetsProofs`). The heart of `ReviewsAreBlind` is `SeenTooLate`:
  whoever has been shown the other's review can no longer have a review of their own stored later,
  since it was shown only once both existed or once the window was over; hence a call that comes to
  insert was sent blind. `AcceptedStands` needs that a call which is about to answer knows the row
  that stands. For invoices, every document that a generation holds is its own and filed nowhere
  else (`OwnDocuments`), so the overwriting of a row by an overlapping generation never takes away
  the document of a generated invoice; the unique number gives the rest.
- **Files** (`AssetsProofs`). A call that counted leaves room for its file as the count stood, so
  live files are at most the limit and the calls that add (`RoomForAttaching`), and each call under
  way at delivery differs from the evidence by one file (`OneChangePerCall`).
- **Feed and lists** (`AssetsProofs`). Three facts about the walk: everything shown was passed by
  the cursor of the pool it was shown from, what was there at the start and not shown is still to
  come in the same pool unless its author is in `walk.moved`, and ids are unique among wall and
  walk. A change of connections disturbs the second only for the author it adds to `moved`. A page is a mix of two pools, each read in order; `MixedPage` says it
  takes a prefix of each, that it takes all of a pool only when it has less than was asked for, and
  `PoolAdvances` that the new cursor separates what was taken from the rest. For this an id must be
  used once: an earlier version of `Feed` allowed a removed post to come back under its id, which no
  database does, and the proof attempt found it. Lists have one cursor and a page of one query.
- **Accounts, services, posts, listings, labels, discovery, unread** (`PeopleProofs`). Each
  invariant is the property and what the calls in flight know: the row a request will write by id
  has the number it read (`AccountCall`); a locked edit is of the current version; a like that is
  still to be announced counts as one announcement (`AnnouncedAtMost`); an edit writes a whole
  price or none; the label of a listing is the one its category or text stands for; what a call has
  found was visible since it began (`SeesThePresent`); a stamp newer than the last view is owed,
  unless the view crossed the change (`NewerUnlessCrossed`).
- **Terms and calendar** (`PeopleProofs`). A request that is accepted and its engagement say the
  same (`DealSigned`), and the schedule is that of the agreed deadline and the start
  (`ScheduledAsSigned`). That a due date is so many days later is proved over `DayNumber`, the
  number of a day in the civil calendar: `NextDay` adds one to it, in each of the cases of a
  month's end, hence `AddCalendarDays` adds n by induction, and months are added with the day
  clamped to the last one of the month.
- **Skills** (`PeopleProofs`). A term belongs to one skill (`OneSkillPerTerm`), the name of a skill
  is its term (`NamesAreTerms`), and links are to skills that exist (`LinksAreThere`, for which
  releases never remove rows). So the search by a name has exactly one exact match, and the best
  tier of every other skill is worse. What a profile keeps is shown along the loops of `collapse` by
  induction over the drafts: links are those of the drafts, and no text is lost. The stored rows
  stay `Savable`; that those of a profile sent back are so again is shown along the same loops
  (`CollapsedDistinct`): two drafts have one text only if the names collide.
- **Rate limit, keys, signed URLs, cards** (`RecordsProofs`). A forgotten bucket was idle long
  enough for its meter to be full again (`RefilledWhileIdle`, `ForgottenFull`). A key in a
  document was withdrawn for no longer than the document is old and its fetch took
  (`FetchedLately`). An entry of the URL cache ends at most `MaxLag` after
  its signature does, and entries name a file once; the clean-up keeps entries at places of the old
  cache, each once (`KeptPlaces`). A card's age is bounded by its load's (`EntrySound`), and the one
  load in flight of a card is the one `inflight` names (`LoadsInFlight`).

The theorems called `TypeCorrect` and `OnlyThroughPending` name no property of a run: types are the
ground the other proofs stand on, and the last says more of staff than the runs ask.

Proving changed the form of some definitions: what a query returns in an order is `InOrder` of
module `Ordered`, since the provers cannot expand the sorting and selecting operators of the
library, and loops over a list are recursive functions, since they cannot expand its folds. The
numbers of states of the runs did not change by this. Overlapping arms of a CASE in the mix of a
page, of which TLC takes the first, were made exclusive.

Only model-checked: liveness (`PaidWorkStarts`, `StartedWorkIsAnnounced`, `EveryCallIsAnswered`),
which is out of reach of the proof system with the enabledness it rests on, and the runs that show
a disagreement. Every safety property of a passing run is proved.

## Not modelled

- **Configuration, infrastructure**: start-up checks, filters and guards; nothing that changes
  state. Of the staff's reads the details of one user or dispute are left out: single queries.
- **Seed fixtures and acceptance scripts** (`prisma/seed/marketplace.ts`, `scripts/`): they drive
  the API from outside. Of the seed only the reference data is part of production, and it is in
  `Skills`.
- **Tokens**: signatures and claims are checked by a library; only the cache of keys is modelled.
- **Texts, ranking, averages, layout**: content is a value that is told from another one; the order
  of search results and the averages of reviews are left out, and so is `reorder` of media.
- **The list of notifications**: single statements on rows of one user.
- **`devStartWork`** is part of `StartWork` in `WorkRequests` and left out of `Payments`; it is
  refused in production.
- **DTO validation and response mapping**: inputs are those a DTO admits; a response matters where
  a property is about who sees what.
- **Row limits of the calendar** (calendar-read.ts:21-24, 261-268): 200 entries with a date and 50
  without, and a flag when there are more. `Terms` has one request, which never reaches them, so
  `DealIsKept` says nothing of work beyond them.
- **"0 days" in a legacy deadline label** (work-request-terms.ts:158-170): a duration of zero, which
  the checks on input refuse, is never scheduled (engagement-schedule.ts:148-153). Durations of the
  model are one or more.
- **Liveness outside payments and connections**: the code has no duty there that a retry or a
  scheduler would meet.

What would come next: the settlement composed with invoices (a generation triggered by each
replay), and the marketplace with two listings' requests under one poster.
