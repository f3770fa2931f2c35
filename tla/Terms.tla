---- MODULE Terms ----
(***************************************************************************)
(* What is being agreed on: the terms of one work request, from its        *)
(* creation over proposals and acceptance to the amount charged and the    *)
(* dates in the calendar.  work-request-terms.ts, engagement-schedule.ts   *)
(* and listing-pricing.ts, with the handlers of marketplace.service.ts     *)
(* and prisma-marketplace.repository.ts that carry terms.  Who may do what *)
(* in which status, and overlapping calls, are the subject of              *)
(* WorkRequests; here one call runs at a time.                             *)
(*                                                                         *)
(* Terms are a money, the amounts of the add-ons and a deadline; texts are *)
(* left out.  Amounts are in the smallest unit, so that rounding to two    *)
(* decimals changes nothing.  A civil date is a triple, a moment is the    *)
(* civil day in Riyadh it falls on (businessTodayIso).  Durations are what *)
(* a request may be made with, one day or more: a legacy label can also    *)
(* say "0 days", which is never scheduled.  The calendar's row limits (200 *)
(* with a date, 50 without, and a flag when there are more) are left out:  *)
(* with one request they are never reached.                                *)
(***************************************************************************)
EXTENDS Integers, Sequences, SequencesExt

CONSTANTS
  Amounts,        \* positive amounts
  AddonAmounts,   \* of the add-ons a service offers
  Dates,          \* civil dates of deadlines, and the days on which something happens
  Durations,      \* values of a duration
  MaxDuration,    \* the longest one that is scheduled (ENGAGEMENT_SCHEDULE_DURATION_MAX)
  MaxRange,       \* days of the longest calendar view (CALENDAR_RANGE_MAX_DAYS)
  Nothing,
  Absent          \* a field a patch does not have

Currencies == {"SAR", "AED"}
DefaultCurrency == "SAR"
DurationUnits == {"days", "weeks", "months"}

VARIABLES
  today,
  request,     \* none, pending, changes_requested, changes_declined, accepted
  original,      \* termsJson
  proposed,    \* proposedTermsJson, Nothing when there is no proposal
  agreed,      \* agreedTermsJson
  engagement,  \* status, what is to be paid, and the day it started
  schedule,    \* engagement_schedules: the row, or Nothing
  listing      \* currency of the job listing, Nothing for other requests

terms == <<today, request, original, proposed, agreed, engagement, schedule, listing>>

----
(* Civil dates. *)
Leap(y) == y % 4 = 0 /\ (y % 100 # 0 \/ y % 400 = 0)
LastDay(y, m) == IF m = 2 THEN (IF Leap(y) THEN 29 ELSE 28)
                 ELSE IF m \in {4, 6, 9, 11} THEN 30 ELSE 31
IsDate(d) == d[2] \in 1..12 /\ d[3] \in 1..LastDay(d[1], d[2])
Earlier(d, e) ==
  \/ d[1] < e[1] \/ (d[1] = e[1] /\ d[2] < e[2])
  \/ (d[1] = e[1] /\ d[2] = e[2] /\ d[3] < e[3])

\* isIsoDate: the dates that come in are days of the calendar.
ASSUME TermsAssumption ==
  /\ Amounts \cup AddonAmounts \cup Durations \subseteq Nat \ {0}
  /\ MaxDuration \in Nat /\ MaxRange \in Nat \ {0}
  /\ Dates \subseteq Nat \X (1..12) \X (1..31) /\ (\A d \in Dates : IsDate(d))
  /\ Nothing # Absent

NextDay(d) ==
  IF d[3] < LastDay(d[1], d[2]) THEN <<d[1], d[2], d[3] + 1>>
  ELSE IF d[2] < 12 THEN <<d[1], d[2] + 1, 1>> ELSE <<d[1] + 1, 1, 1>>

\* addCalendarDays.
AddCalendarDays(d, n) ==
  LET day[i \in 0..n] == IF i = 0 THEN d ELSE NextDay(day[i - 1]) IN day[n]

\* addCalendarMonths: the same day n months later, or the last day of that month.
TargetMonth(d, n) ==
  <<d[1] + ((d[2] - 1 + n) \div 12), ((d[2] - 1 + n) % 12) + 1>>
AddCalendarMonthsOver(d, n) ==
  LET t == TargetMonth(d, n)  last == LastDay(t[1], t[2]) IN
  IF d[3] <= last THEN <<t[1], t[2], d[3]>>
  ELSE AddCalendarDays(<<t[1], t[2], last>>, d[3] - last)
AddCalendarMonths(d, n) ==
  LET t == TargetMonth(d, n)  last == LastDay(t[1], t[2]) IN
  <<t[1], t[2], IF d[3] <= last THEN d[3] ELSE last>>

\* Days since the first of March of the year 0, as the milliseconds of a UTC date count them.
DayNumber(d) ==
  LET year == IF d[2] > 2 THEN d[1] ELSE d[1] - 1  month == (d[2] + 9) % 12 IN
  (365 * year) + (year \div 4) - (year \div 100) + (year \div 400)
    + (((153 * month) + 2) \div 5) + d[3]

----
(* Deadlines and money. *)
MoneyOf(amount, currency) == [amount |-> amount, currency |-> currency]
Flexible == [type |-> "flexible"]
ExactDate(d) == [type |-> "exact_date", start |-> d]
DateRange(d, e) == [type |-> "date_range", start |-> d, end |-> e]
DurationOf(n, unit) == [type |-> "duration", value |-> n, unit |-> unit]

\* A deadline without dates: what a label can say (deadlineFromLabel).
LabelDeadlines == {Flexible} \cup {DurationOf(n, u) : n \in Durations, u \in DurationUnits}

\* validateDeadline: what a client may send today.
ValidDeadlines ==
  LabelDeadlines \cup {ExactDate(d) : d \in {e \in Dates : ~Earlier(e, today)}}
  \cup {DateRange(r[1], r[2]) :
          r \in {q \in Dates \X Dates : ~Earlier(q[1], today) /\ ~Earlier(q[2], q[1])}}

\* termsTotal: the price and the add-ons, in the currency of the price.
SumOf(amounts) == FoldLeft(+, 0, amounts)
TermsTotal(t) ==
  IF t.money = Nothing /\ t.addons = <<>> THEN Nothing
  ELSE MoneyOf((IF t.money = Nothing THEN 0 ELSE t.money.amount) + SumOf(t.addons),
               IF t.money = Nothing THEN DefaultCurrency ELSE t.money.currency)
Payable(t) == TermsTotal(t) # Nothing /\ TermsTotal(t).amount > 0

\* What an accepted request writes into the engagement's detail, and engagementChargeableTotal
\* of it, which is what a payment charges.
DetailOf(t) == [price |-> IF t.money = Nothing THEN 0 ELSE t.money.amount,
                currency |-> IF t.money = Nothing THEN DefaultCurrency ELSE t.money.currency,
                addons |-> t.addons]
PackagePrice(detail) == MoneyOf(detail.price, detail.currency)
ChargeableTotal(detail) == MoneyOf(detail.price + SumOf(detail.addons), detail.currency)

\* mergeMoney: the currency stays that of the base.
MergeMoney(base, patch) ==
  CASE patch = Absent -> base
    [] patch = Nothing -> Nothing
    [] OTHER -> MoneyOf(patch.amount,
                  IF base # Nothing THEN base.currency
                  ELSE IF patch.currency = Nothing THEN DefaultCurrency ELSE patch.currency)

\* mergeDeadline: a client sends whole deadlines.
MergeDeadline(base, patch) == IF patch = Absent THEN base ELSE patch

MergeTerms(base, patch) ==
  [base EXCEPT !.money = MergeMoney(@, patch.money), !.deadline = MergeDeadline(@, patch.deadline)]

----
(* Schedules. *)
Schedule(from, to, source) == [start |-> from, end |-> to, source |-> source]
ScheduleFromAgreedDeadline(deadline) ==
  CASE deadline # Nothing /\ deadline.type = "exact_date" ->
         Schedule(deadline.start, deadline.start, "agreed_terms")
    [] deadline # Nothing /\ deadline.type = "date_range" ->
         Schedule(deadline.start, deadline.end, "agreed_terms")
    [] OTHER -> Nothing
ScheduleFromDuration(deadline, anchor) ==
  IF deadline = Nothing \/ deadline.type # "duration" \/ deadline.value > MaxDuration THEN Nothing
  ELSE LET due == CASE deadline.unit = "months" -> AddCalendarMonths(anchor, deadline.value)
                    [] deadline.unit = "weeks" -> AddCalendarDays(anchor, 7 * deadline.value)
                    [] OTHER -> AddCalendarDays(anchor, deadline.value)
       IN Schedule(due, due, "resolved_duration")

----
(* The handlers. *)
NoTerms == [money |-> Nothing, addons |-> <<>>, deadline |-> Nothing]
NoEngagement == [status |-> "none", detail |-> DetailOf(NoTerms), started |-> Nothing]

TermsInit ==
  /\ today \in Dates /\ \A d \in Dates : ~Earlier(d, today)
  /\ request = "none" /\ original = NoTerms
  /\ proposed = Nothing /\ agreed = Nothing
  /\ engagement = NoEngagement /\ schedule = Nothing /\ listing = Nothing

Create(t) ==
  /\ request = "none" /\ request' = "pending" /\ original' = t
  /\ UNCHANGED <<today, proposed, agreed, engagement, schedule>>

\* createServiceWorkRequest: price and add-ons come from the catalog (serviceTerms), in the
\* currency of the service; the deadline from the client or the package's label.
CreateServiceWorkRequest ==
  \E a \in Amounts, c \in Currencies, addons \in {<<>>} \cup {<<x>> : x \in AddonAmounts},
     d \in {Nothing} \cup ValidDeadlines :
    /\ Create([money |-> MoneyOf(a, c), addons |-> addons, deadline |-> d])
    /\ UNCHANGED listing

\* createDirectWorkRequest: an amount, perhaps none and perhaps zero (resolveMoney).
DirectMoneys == {Nothing} \cup {MoneyOf(a, c) : a \in Amounts \cup {0}, c \in Currencies}
CreateDirectWorkRequest ==
  \E m \in DirectMoneys, d \in {Nothing} \cup ValidDeadlines :
    Create([money |-> m, addons |-> <<>>, deadline |-> d]) /\ UNCHANGED listing

\* apply: a fixed price of the listing or none (listingMoney), and no deadline.
CreateFromListing ==
  \E c \in Currencies : \E m \in {Nothing} \cup {MoneyOf(a, c) : a \in Amounts} :
    Create([NoTerms EXCEPT !.money = m]) /\ listing' = c

\* requestWorkRequestChanges: a patch of the original terms; the first amount for a listing
\* without one is in the listing's currency.
MoneyPatches ==
  {Absent, Nothing} \cup {MoneyOf(a, c) : a \in Amounts, c \in Currencies \cup {Nothing}}
ListingCurrency(patch) ==
  IF patch \notin {Absent, Nothing} /\ original.money = Nothing /\ listing # Nothing
  THEN [patch EXCEPT !.currency = IF @ = Nothing THEN listing ELSE @] ELSE patch

RequestWorkRequestChanges ==
  /\ request \in {"pending", "changes_declined"}
  /\ \E m \in MoneyPatches, d \in {Absent} \cup ValidDeadlines :
       proposed' = MergeTerms(original, [money |-> ListingCurrency(m), deadline |-> d])
  /\ request' = "changes_requested"
  /\ UNCHANGED <<today, original, agreed, engagement, schedule, listing>>

\* declineWorkRequestChanges and cancelWorkRequestChanges drop the proposal.
DropChanges(to) ==
  /\ request = "changes_requested" /\ request' = to /\ proposed' = Nothing
  /\ UNCHANGED <<today, original, agreed, engagement, schedule, listing>>

\* acceptWorkRequest takes the original terms, acceptWorkRequestChanges the proposal: the
\* engagement, its detail and, for dates, its schedule in one transaction.
TermsOnTheTable == IF request = "changes_requested" THEN proposed ELSE original
AcceptRequest ==
  /\ request \in {"pending", "changes_declined", "changes_requested"}
  /\ Payable(TermsOnTheTable)
  /\ request' = "accepted" /\ agreed' = TermsOnTheTable
  /\ engagement' = [NoEngagement EXCEPT !.status = "pending_payment",
                                        !.detail = DetailOf(TermsOnTheTable)]
  /\ schedule' = ScheduleFromAgreedDeadline(TermsOnTheTable.deadline)
  /\ UNCHANGED <<today, original, proposed, listing>>

\* transitionEngagementStatus resolves a duration when the work first starts, once.
ResolvesDurationOnEveryStart(from) == from # "none"
ResolvesDuration(from) == from = "pending_payment" /\ schedule = Nothing

StartWork(from) ==
  /\ engagement.status = from
  /\ engagement' = [engagement EXCEPT !.status = "in_progress",
                       !.started = IF from = "pending_payment" THEN today ELSE @]
  /\ schedule' = IF ~ResolvesDuration(from) THEN schedule
                 ELSE LET s == ScheduleFromDuration(agreed.deadline, today) IN
                      IF s = Nothing THEN schedule ELSE s
  /\ UNCHANGED <<today, request, original, proposed, agreed, listing>>
Deliver ==
  /\ engagement.status = "in_progress" /\ engagement' = [engagement EXCEPT !.status = "delivered"]
  /\ UNCHANGED <<today, request, original, proposed, agreed, schedule, listing>>

NewDay ==
  /\ \E d \in Dates : Earlier(today, d) /\ today' = d
  /\ UNCHANGED <<request, original, proposed, agreed, engagement, schedule, listing>>

TermsNext ==
  \/ NewDay
  \/ CreateServiceWorkRequest \/ CreateDirectWorkRequest \/ CreateFromListing
  \/ RequestWorkRequestChanges \/ AcceptRequest
  \/ \E to \in {"pending", "changes_declined"} : DropChanges(to)
  \/ \E from \in {"pending_payment", "delivered"} : StartWork(from)
  \/ Deliver

----
(* The calendar of a party, getMyCalendar: dated work that overlaps the view, and work without
   a date that is under way. *)
ScheduledStatuses == {"pending_payment", "in_progress", "delivered"}
UnscheduledStatuses == ScheduledStatuses
InclusiveCivilDaySpan(from, to) == DayNumber(to) - DayNumber(from) + 1
AssertCalendarRange(from, to) ==
  ~Earlier(to, from) /\ InclusiveCivilDaySpan(from, to) <= MaxRange

StartsInRange(start, end, from, to) == ~Earlier(to, start) /\ ~Earlier(start, from)
CivilDatesOverlap(start, end, from, to) == ~Earlier(to, start) /\ ~Earlier(end, from)
ListCalendarSchedules(from, to) ==
  /\ AssertCalendarRange(from, to) /\ engagement.status \in ScheduledStatuses
  /\ schedule # Nothing /\ CivilDatesOverlap(schedule.start, schedule.end, from, to)
ListUnscheduledCalendarEngagements ==
  engagement.status \in UnscheduledStatuses /\ schedule = Nothing

----
\* What a payment charges is what was agreed, price and add-ons together, and more than
\* nothing, whatever was proposed and dropped on the way (termsTotal, acceptWorkRequest,
\* engagementChargeableTotal).
ChargedAsAgreed ==
  engagement.status # "none" =>
    ChargeableTotal(engagement.detail) = TermsTotal(agreed) /\ TermsTotal(agreed).amount > 0

\* The date by which work is due is the one agreed; of a duration it is a real date, so many
\* days after the day the work first started, or the same day that many months later, or the
\* last of a shorter month; a revision does not move it (insertDurationSchedule).  Only a
\* duration beyond the longest one has no date.
DueAsAgreed ==
  engagement.started # Nothing /\ agreed.deadline # Nothing =>
    LET d == agreed.deadline  due == schedule.end  s == engagement.started IN
    CASE d.type = "flexible" -> schedule = Nothing
      [] d.type = "exact_date" -> schedule.start = d.start /\ due = d.start
      [] d.type = "date_range" -> schedule.start = d.start /\ due = d.end
      [] d.type = "duration" /\ d.value > MaxDuration -> schedule = Nothing
      [] OTHER ->
           /\ IsDate(due)
           /\ CASE d.unit = "days" -> DayNumber(due) - DayNumber(s) = d.value
                [] d.unit = "weeks" -> DayNumber(due) - DayNumber(s) = 7 * d.value
                [] OTHER -> /\ 12 * due[1] + due[2] = 12 * s[1] + s[2] + d.value
                            /\ due[3] = s[3] \/ due[3] = LastDay(due[1], due[2])

\* Work under way is in the calendar, without a date or in the view of every day from its
\* first to its last; a longer view that is answered shows what the views of its days show.
OnTheCalendar ==
  engagement.status # "none" =>
    \/ ListUnscheduledCalendarEngagements
    \/ \A d \in Dates \cup {schedule.start, schedule.end} :
         /\ ListCalendarSchedules(d, d) <=> ~Earlier(d, schedule.start) /\ ~Earlier(schedule.end, d)
         /\ \A from, to \in Dates :
              AssertCalendarRange(from, to) /\ ListCalendarSchedules(d, d)
                /\ ~Earlier(d, from) /\ ~Earlier(to, d)
              => ListCalendarSchedules(from, to)

\* The deal is kept: in money, in the date it is due, and in the calendars of both.
DealIsKept == ChargedAsAgreed /\ DueAsAgreed /\ OnTheCalendar

\* "Currency is frozen on the commercial work request": what is charged is in the currency
\* of the request's price, if it had one (mergeMoney).
CurrencyFrozen ==
  engagement.status # "none" /\ original.money # Nothing =>
    engagement.detail.currency = original.money.currency
====
