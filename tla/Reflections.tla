---------------------------- MODULE Reflections ----------------------------
(***************************************************************************)
(* The daily and weekly reviews: the scheduler claims the review of the    *)
(* day that has just ended and, on the first day of a week, the review of  *)
(* the week, whose days it freezes in a snapshot; /reflect reviews the     *)
(* present day at once; the worker runs the claimed reviews, which fail,   *)
(* are stopped, or are cut off by a restart. Sources: storage/reflection,  *)
(* runtime/workflows/reflection.py and weekly_reflection.py, the scheduler *)
(* and /reflect.                                                           *)
(***************************************************************************)
EXTENDS Integers, FiniteSets

CONSTANTS
  DaysPerWeek,   \* 7, or fewer
  MaxDate,       \* bound: the calendar
  MaxManual,     \* bound: /reflect
  MaxFailures,   \* bound: reviews that fail or are stopped
  MaxOutages     \* bound: restarts

ASSUME ReflectionScope == {DaysPerWeek, MaxDate} \subseteq Nat \ {0}
ASSUME ReflectionBounds == {MaxManual, MaxFailures, MaxOutages} \subseteq Nat

\* A date begins with the daily slot; the weekly slot is an hour later; the rest of
\* the day is one more instant. Delays of 900 and 3600 seconds end with the next instant.
PerDay   == 3
Moments  == PerDay .. MaxDate * PerDay + PerDay - 1
Days     == 0 .. MaxDate
Weeks    == 0 .. MaxDate \div DaysPerWeek
DateOf(t)   == t \div PerDay
DaySlot(d)  == (d + 1) * PerDay
WeekSlot(w) == w * DaysPerWeek * PerDay + 1
WeekOf(t)   == ((t - 1) \div PerDay) \div DaysPerWeek   \* _weekly_reflection_slot
DaysOf(w)   == {d \in Days : d \div DaysPerWeek = w - 1}
NotYet      == 0

VARIABLES
  clock,
  daily,      \* reflections: state, scheduled_at, retry_at
  weekly,     \* weekly_reflections: state, retry_at, and input_json's days
  reviews,    \* reviews in the worker's queue
  reviewing,  \* the review of the worker's turn
  manuals, mishaps, outages

reflVars == <<clock, daily, weekly, reviews, reviewing, manuals, mishaps, outages>>

Daily(d)  == <<"daily", d>>
Weekly(w) == <<"weekly", w>>
NoOne     == <<"none", 0>>
NoDay     == [state |-> "none", sched |-> NotYet, retry |-> NotYet]
Missing   == [d \in Days |-> NotYet]
NoWeek    == [state |-> "none", retry |-> NotYet, days |-> Missing]

-----------------------------------------------------------------------------
(***************************************************************************)
(* The scheduler's pass. The day that ended with the latest slot gets its  *)
(* row; a row of an earlier run by /reflect is reset for the full one.     *)
(***************************************************************************)
Ended(t) == DateOf(t) - 1

\* Slips: what /reflect reviewed counts as reviewed; only the reviews at work hold up the week.
SlottedOnce(r, slot) == IF r.state = "none" THEN [NoDay EXCEPT !.state = "pending", !.sched = slot] ELSE r
HoldsUpRunning(r)    == r.state = "running"

\* The upsert of claim_due_reflection.
Slotted(r, slot) ==
  IF r.state = "none" \/ (r.sched < slot /\ r.state # "running")
  THEN [state |-> "pending", sched |-> slot, retry |-> NotYet]
  ELSE r

DueDay(r) == r.state = "pending" /\ r.sched <= clock /\ r.retry <= clock

DailyIsDue ==
  LET d == Ended(clock) IN DueDay(Slotted(daily[d], DaySlot(d)))

ClaimDaily ==
  LET d == Ended(clock) IN
  /\ DailyIsDue
  /\ daily' = [daily EXCEPT ![d] = [Slotted(@, DaySlot(d)) EXCEPT !.state = "running"]]
  /\ reviews' = reviews \cup {Daily(d)}
  /\ UNCHANGED <<clock, weekly, reviewing, manuals, mishaps, outages>>

\* A day that the week waits for.
HoldsUp(r) == r.state \in {"pending", "running"}

\* The week to review: one that waits for its retry, or the one that has just ended.
NextWeek ==
  LET waiting == {w \in Weeks : weekly[w].state = "pending"}
  IN  IF waiting # {} THEN CHOOSE w \in waiting : \A v \in waiting : w <= v ELSE WeekOf(clock)

WeekIsDue ==
  /\ \A w \in Weeks : weekly[w].state # "running" /\ weekly[w].retry <= clock
  /\ weekly[NextWeek].state \in {"none", "pending"}
  /\ \A d \in DaysOf(NextWeek) : ~HoldsUp(daily[d])

\* weekly_reflection_source: the days as they are now.
Snapshot(w) ==
  [d \in Days |-> IF d \in DaysOf(w) /\ daily[d].state = "completed" THEN daily[d].sched ELSE NotYet]

ClaimWeekly ==
  LET w == NextWeek IN
  /\ ~DailyIsDue /\ WeekIsDue
  /\ weekly' = [weekly EXCEPT ![w].state = "running",
                              ![w].days = IF weekly[w].state = "none" THEN Snapshot(w) ELSE @]
  /\ reviews' = reviews \cup {Weekly(w)}
  /\ UNCHANGED <<clock, daily, reviewing, manuals, mishaps, outages>>

\* /reflect: the present day, whatever was made of it before.
Reflect ==
  LET d == DateOf(clock) IN
  /\ manuals < MaxManual
  /\ daily[d].state # "running"
  /\ daily' = [daily EXCEPT ![d] = [state |-> "running", sched |-> clock, retry |-> NotYet]]
  /\ reviews' = reviews \cup {Daily(d)}
  /\ manuals' = manuals + 1
  /\ UNCHANGED <<clock, weekly, reviewing, mishaps, outages>>

-----------------------------------------------------------------------------
(***************************************************************************)
(* The worker's turns. Each claim begins a turn of its own: its ledger row *)
(* is named after claimed_at, so that begin_turn always finds it new.      *)
(***************************************************************************)
BeginReview ==
  /\ reviewing = NoOne
  /\ \E r \in reviews : reviewing' = r /\ reviews' = reviews \ {r}
  /\ UNCHANGED <<clock, daily, weekly, manuals, mishaps, outages>>

\* commit_reflection and commit_weekly_reflection.
CommitReview ==
  /\ \/ \E d \in Days :
          /\ reviewing = Daily(d)
          /\ daily' = [daily EXCEPT ![d].state = "completed", ![d].retry = NotYet]
          /\ UNCHANGED weekly
     \/ \E w \in Weeks :
          /\ reviewing = Weekly(w)
          /\ weekly' = [weekly EXCEPT ![w].state = "completed", ![w].retry = NotYet]
          /\ UNCHANGED daily
  /\ reviewing' = NoOne
  /\ UNCHANGED <<clock, reviews, manuals, mishaps, outages>>

\* The turn fails or /stop cancels it: release_reflection, release_weekly_reflection.
GiveUpReview ==
  /\ mishaps < MaxFailures /\ mishaps' = mishaps + 1
  /\ \/ \E d \in Days :
          /\ reviewing = Daily(d)
          /\ daily' = [daily EXCEPT ![d].state = "pending", ![d].retry = clock + 1]
          /\ UNCHANGED weekly
     \/ \E w \in Weeks :
          /\ reviewing = Weekly(w)
          /\ weekly' = [weekly EXCEPT ![w].state = "pending", ![w].retry = clock + 1]
          /\ UNCHANGED daily
  /\ reviewing' = NoOne
  /\ UNCHANGED <<clock, reviews, manuals, outages>>

-----------------------------------------------------------------------------
\* The process ends and, some time later, starts: _initialize_database.
Recovered(r) == IF r.state = "running" THEN [r EXCEPT !.state = "pending"] ELSE r

Outage ==
  /\ outages < MaxOutages /\ outages' = outages + 1
  /\ \E t \in Moments : t >= clock /\ clock' = t
  /\ daily'  = [d \in Days |-> Recovered(daily[d])]
  /\ weekly' = [w \in Weeks |-> Recovered(weekly[w])]
  /\ reviews' = {} /\ reviewing' = NoOne
  /\ UNCHANGED <<manuals, mishaps>>

\* An instant lasts an hour or more: the scheduler, which looks at least once in a
\* minute, has taken what is due. The reviews take as long as they take.
ClockMoves ==
  /\ clock + 1 \in Moments
  /\ ~DailyIsDue /\ ~WeekIsDue
  /\ clock' = clock + 1
  /\ UNCHANGED <<daily, weekly, reviews, reviewing, manuals, mishaps, outages>>

ReflInit ==
  /\ clock \in {PerDay, PerDay + 1, PerDay + 2}
  /\ daily = [d \in Days |-> NoDay] /\ weekly = [w \in Weeks |-> NoWeek]
  /\ reviews = {} /\ reviewing = NoOne
  /\ manuals = 0 /\ mishaps = 0 /\ outages = 0

ReflNext ==
  \/ ClaimDaily \/ ClaimWeekly \/ Reflect
  \/ BeginReview \/ CommitReview \/ GiveUpReview
  \/ Outage \/ ClockMoves

ReflSpec == ReflInit /\ [][ReflNext]_reflVars

\* The scheduler and the worker go on, time passes; that a review's turn ends is no part
\* of it, since its rounds and time are not limited by default.
ReflFairness ==
  /\ WF_reflVars(ClaimDaily) /\ WF_reflVars(ClaimWeekly)
  /\ WF_reflVars(BeginReview) /\ WF_reflVars(ClockMoves)

FairReflSpec == ReflSpec /\ ReflFairness

-----------------------------------------------------------------------------
States == {"none", "pending", "running", "completed"}

\* The shape of the rows: the clock and every delay stay within the calendar.
ReflTypeOK ==
  /\ clock \in Moments
  /\ daily \in [Days -> [state : States, sched : 0 .. clock, retry : 0 .. clock + 1]]
  /\ weekly \in [Weeks -> [state : States, retry : 0 .. clock + 1, days : [Days -> 0 .. clock]]]
  /\ reviews \subseteq {Daily(d) : d \in Days} \cup {Weekly(w) : w \in Weeks}
  /\ reviewing \in {NoOne} \cup {Daily(d) : d \in Days} \cup {Weekly(w) : w \in Weeks}

\* A review is 'running' exactly while the worker has it, queued or in its turn:
\* no claim outlives its job (the day or the week would never be reviewed again,
\* and a running week holds up every later one), no job runs unclaimed.
ClaimHasJob ==
  LET held == reviews \cup {reviewing} IN
  /\ reviewing \notin reviews
  /\ \A d \in Days : daily[d].state = "running" <=> Daily(d) \in held
  /\ \A w \in Weeks : weekly[w].state = "running" <=> Weekly(w) \in held

\* What a week's review was given stays true: once its days are frozen in
\* input_json, none of them is reviewed again or for the first time.
FrozenWeekStands ==
  \A w \in Weeks : weekly[w].state # "none" =>
    /\ \A d \in DaysOf(w) : daily[d].state \in {"none", "completed"}
    /\ weekly[w].days = Snapshot(w)

\* Premise: no daily or weekly review works for ever.
ReflectionsEnd == []<>(reviewing = NoOne)

\* What /reflect made of a day covers part of it: once the day has ended, and if reviews
\* end, the full review is claimed before the next day ends.
ManualIsRedone ==
  ReflectionsEnd => \A d \in Days :
    (daily[d].state = "completed" /\ daily[d].sched < DaySlot(d) /\ Ended(clock) = d)
      ~> (daily[d].sched = DaySlot(d) \/ Ended(clock) > d)

\* weekly.py: "Let an already queued daily review finish before freezing its week": the
\* week that waits for a queued review is reviewed in the end, if reviews end.
WeekIsReviewed ==
  ReflectionsEnd => \A w \in Weeks : clock = WeekSlot(w) ~> weekly[w].state = "completed"
=============================================================================
