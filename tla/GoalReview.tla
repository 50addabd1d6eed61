----------------------------- MODULE GoalReview -----------------------------
(***************************************************************************)
(* One goal and its reviews: the scheduler claims it when it is due, a     *)
(* review turn stages its outcome in a draft and commits it, failures are  *)
(* retried, and the turn's ledger row, named after the slot it is for,     *)
(* keeps a slot from being reviewed twice. The dashboard edits the goal at *)
(* any time, the owner's turns while a review is parked. Sources:          *)
(* storage/agenda/crontabs.py, runtime/workflows/crontab.py,               *)
(* tools/agenda.py, storage/conversation.                                  *)
(***************************************************************************)
EXTENDS Integers, FiniteSets

CONSTANTS
  Rhythms,      \* the schedules: daily, interval, none
  Period,       \* ticks from one slot of a schedule to the next
  MaxTime,      \* bound: the clock
  MaxQueued,    \* bound: jobs of the goal in the worker's queue
  MaxEdits,     \* bound: edits on the dashboard
  MaxOwner,     \* bound: the owner's turns that change the goal
  MaxPauses,    \* bound: the owner's messages that a review is parked for
  MaxReboots    \* bound: restarts

ASSUME GoalScope == Rhythms \subseteq {"daily", "interval", "none"} /\ Period \in Nat \ {0}
ASSUME GoalBounds ==
  MaxTime \in Nat \ {0} /\ {MaxQueued, MaxEdits, MaxOwner, MaxPauses, MaxReboots} \subseteq Nat

NoTime == 0            \* the clock starts at 1
Soon   == 1            \* 900 seconds
Slots  == Nat \X {"first", "slot"}

VARIABLES
  now, rhythm,
  goal,      \* the row: status, next_review_at, retry_at, failure_count, review_claimed_at
  queued,    \* its jobs in the worker's queue
  review,    \* the worker's turn: its ledger row and draft, none or run or parked
  ledger,    \* turns: the rows begun; the state, started before its slot, an effect outside
  skipped,   \* history: rows for whose sake a slot was passed over
  lost,      \* history: a closed goal was opened again
  edits, owned, pauses, reboots

goalVars == <<now, rhythm, goal, queued, review, ledger, skipped, lost, edits, owned,
              pauses, reboots>>
counts   == <<rhythm, edits, owned, pauses, reboots>>

Open(g)   == g.status \in {"active", "waiting"}
Closed(g) == g.status \in {"done", "cancelled"}
NoDraft   == [status |-> "none", next |-> NoTime]
NewRow    == [state |-> "new", early |-> FALSE, effect |-> FALSE]
NoReview  == [stage |-> "none", id |-> <<NoTime, "first">>, draft |-> NoDraft]

-----------------------------------------------------------------------------
(***************************************************************************)
(* The store.                                                              *)
(***************************************************************************)
\* next_schedule_at: the next time of day, or one interval from now.
NextSlot(t) == IF rhythm = "daily" THEN (t \div Period + 1) * Period ELSE t + Period
NextAt(t)   == IF rhythm = "none" THEN now + Soon ELSE NextSlot(t)

DueAt(g)  == IF g.retry # NoTime THEN g.retry ELSE g.next
IsDue(g)  == Open(g) /\ DueAt(g) # NoTime /\ DueAt(g) <= now

\* The review is over without a decision on the goal: commit_autonomous_turn and
\* release_goal_claim with a delay.
MovedOn(g, at) ==
  IF Open(g)
  THEN [status |-> g.status, next |-> at, retry |-> NoTime, fails |-> 0, claimed |-> FALSE]
  ELSE g

\* _apply_goal_mutations: the draft's copy of the goal replaces the row.
Applied(g, d) ==
  IF d.status = "none" THEN g
  ELSE [status |-> d.status, next |-> d.next, retry |-> NoTime, fails |-> 0, claimed |-> FALSE]

\* Slips: the delays have no end; the claim is not released.
DeferredUncapped(g) == [g EXCEPT !.fails = @ + 1, !.retry = now + 1, !.claimed = FALSE]
DeferredHeld(g)     == [g EXCEPT !.fails = IF @ < 2 THEN @ + 1 ELSE @, !.retry = now + 1 + g.fails]

\* defer_goal_failure: 300 seconds, then longer.
Deferred(g) ==
  [status |-> g.status, next |-> g.next, retry |-> now + 1 + g.fails,
   fails |-> IF g.fails < 2 THEN g.fails + 1 ELSE g.fails, claimed |-> FALSE]

\* skip_goal_review: past the slot that is done already.
Skipped(g) ==
  [g EXCEPT !.next = IF Open(g) THEN NextAt(IF @ > now THEN @ ELSE now) ELSE @,
            !.retry = IF Open(g) THEN NoTime ELSE @, !.claimed = FALSE]

\* begin_turn.
Begun(id) ==
  LET row == IF id \in DOMAIN ledger THEN ledger[id] ELSE NewRow
  IN  IF row.state = "running" /\ row.effect THEN [row EXCEPT !.state = "needs_reconciliation"]
      ELSE IF row.state \in {"new", "running"}
      THEN [row EXCEPT !.state = "running", !.early = now < id[1]]
      ELSE row

Written(id, row) == [i \in DOMAIN ledger \cup {id} |-> IF i = id THEN row ELSE ledger[i]]
RowEnds(id, st)  == [ledger EXCEPT ![id].state = st]
WithGoal(g)   == goal' = g /\ lost' = (lost \/ (Closed(goal) /\ ~Closed(g)))

-----------------------------------------------------------------------------
(***************************************************************************)
(* The scheduler and the worker.                                           *)
(***************************************************************************)
Tick ==
  /\ now < MaxTime /\ now' = now + 1
  /\ UNCHANGED <<goal, queued, review, ledger, skipped, lost, counts>>

\* claim_due_goal.
ClaimGoal ==
  /\ IsDue(goal) /\ ~goal.claimed /\ queued < MaxQueued
  /\ goal' = [goal EXCEPT !.claimed = TRUE] /\ queued' = queued + 1
  /\ UNCHANGED <<now, review, ledger, skipped, lost, counts>>

\* Slip: the slot's row stands for the slot even if it ran ahead of it.
RowOfAhead(slot) == <<slot, "first">>

\* The ledger row of a review: a row of the slot that was finished ahead of it leaves
\* the slot to a second one.
RowOf(slot) ==
  LET first == Begun(<<slot, "first">>)
  IN  IF first.state \in {"completed", "cancelled"} /\ slot # NoTime /\ first.early
      THEN <<slot, "slot">> ELSE <<slot, "first">>

\* _complete_goal_turn up to its first await. It does not ask again whether the goal
\* is due; a goal that was opened again has no review time and fails at once.
ReviewStarts ==
  /\ review = NoReview /\ queued > 0 /\ queued' = queued - 1
  /\ LET id == RowOf(goal.next)  row == Begun(id)
     IN  \/ /\ row.state \in {"completed", "cancelled"}
            /\ WithGoal(Skipped(goal)) /\ skipped' = IF Open(goal) THEN skipped \cup {id} ELSE skipped
            /\ UNCHANGED <<ledger, review>>
         \/ /\ row.state = "needs_reconciliation"
            /\ WithGoal(MovedOn(goal, NextAt(now)))
            /\ ledger' = RowEnds(id, "completed") /\ UNCHANGED <<review, skipped>>
         \/ /\ row.state = "running" /\ ~Open(goal)
            /\ WithGoal([goal EXCEPT !.claimed = FALSE])
            /\ ledger' = Written(id, row) /\ UNCHANGED <<review, skipped>>
         \/ /\ row.state = "running" /\ Open(goal) /\ goal.next = NoTime
            /\ WithGoal(Deferred(goal))
            /\ ledger' = Written(id, row) /\ UNCHANGED <<review, skipped>>
         \/ /\ row.state = "running" /\ Open(goal) /\ goal.next # NoTime
            /\ review' = [NoReview EXCEPT !.stage = "run", !.id = id]
            /\ ledger' = Written(id, row) /\ UNCHANGED <<goal, lost, skipped>>
  /\ UNCHANGED <<now, counts>>

-----------------------------------------------------------------------------
(***************************************************************************)
(* The review turn.                                                        *)
(***************************************************************************)
Running == review.stage = "run"
Current == IF review.draft.status = "none" THEN goal.status ELSE review.draft.status

\* goal_review: the review time is the schedule's, or one the agent names.
Outcomes ==
  {[status |-> s, next |-> NoTime] : s \in {"blocked", "done", "cancelled"}}
  \cup {[status |-> "waiting", next |-> now + k] : k \in 1 .. 2}
  \cup IF rhythm = "none" THEN {[status |-> "active", next |-> now + k] : k \in 1 .. 2}
       ELSE {[status |-> "active", next |-> NextSlot(now)]}

Stage ==
  /\ Running /\ Current \notin {"done", "cancelled"}
  /\ review' \in {[review EXCEPT !.draft = d] : d \in Outcomes}
  /\ UNCHANGED <<now, goal, queued, ledger, skipped, lost, counts>>

ActsOutside ==
  /\ Running /\ ledger' = [ledger EXCEPT ![review.id].effect = TRUE]
  /\ UNCHANGED <<now, goal, queued, review, skipped, lost, counts>>

\* Slip: what was staged is kept over the pause instead of being written.
PauseUncommitted ==
  /\ Running /\ pauses < MaxPauses /\ pauses' = pauses + 1
  /\ review' = [review EXCEPT !.stage = "parked"]
  /\ UNCHANGED <<now, goal, queued, ledger, skipped, lost, rhythm, edits, owned, reboots>>

\* The owner writes: what was staged is written and has to be decided anew.
PauseReview ==
  /\ Running /\ pauses < MaxPauses /\ pauses' = pauses + 1
  /\ WithGoal(Applied(goal, review.draft))
  /\ review' = [review EXCEPT !.stage = "parked", !.draft = NoDraft]
  /\ UNCHANGED <<now, queued, ledger, skipped, rhythm, edits, owned, reboots>>

ResumeReview ==
  /\ review.stage = "parked" /\ review' = [review EXCEPT !.stage = "run"]
  /\ UNCHANGED <<now, goal, queued, ledger, skipped, lost, counts>>

\* commit_autonomous_turn of a review with an outcome, or of a closed goal.
ReviewEnds ==
  /\ Running /\ (review.draft.status # "none" \/ Closed(goal))
  /\ WithGoal(IF review.draft.status = "none" THEN MovedOn(goal, NextAt(now))
              ELSE Applied(goal, review.draft))
  /\ ledger' = RowEnds(review.id, "completed") /\ review' = NoReview
  /\ UNCHANGED <<now, queued, skipped, counts>>

\* A failure of the provider or the runtime before anything happened outside.
ReviewFails ==
  /\ Running /\ ~ledger[review.id].effect
  /\ WithGoal(Deferred(goal)) /\ review' = NoReview
  /\ UNCHANGED <<now, queued, ledger, skipped, counts>>

\* Out of budget, or failed after an effect: the owner is told.
ReviewGivenUp ==
  /\ Running
  /\ WithGoal(MovedOn(goal, NextAt(now)))
  /\ ledger' = RowEnds(review.id, "completed") /\ review' = NoReview
  /\ UNCHANGED <<now, queued, skipped, counts>>

\* /stop, also of a parked turn.
ReviewStopped ==
  /\ review # NoReview
  /\ WithGoal(MovedOn(goal, now + Soon))
  /\ ledger' = RowEnds(review.id, "cancelled") /\ review' = NoReview
  /\ UNCHANGED <<now, queued, skipped, counts>>

-----------------------------------------------------------------------------
(***************************************************************************)
(* The owner, the dashboard, restarts.                                     *)
(***************************************************************************)
\* goal_update and goal_finish of an owner turn, staged and committed: no review
\* runs beside it.
OwnerDecides(d) ==
  /\ owned < MaxOwner /\ owned' = owned + 1
  /\ ~Running /\ ~Closed(goal)
  /\ WithGoal(Applied(goal, d))
  /\ UNCHANGED <<now, queued, review, ledger, skipped, rhythm, edits, pauses, reboots>>

\* update_goal_owner: the review time stays, or goes if the goal is blocked.
Edit(st) ==
  /\ edits < MaxEdits /\ edits' = edits + 1
  /\ ~Closed(goal)
  /\ WithGoal([goal EXCEPT !.status = st, !.next = IF st = "blocked" THEN NoTime ELSE @,
                           !.claimed = FALSE])
  /\ UNCHANGED <<now, queued, review, ledger, skipped, rhythm, owned, pauses, reboots>>

\* cancel_goal.
CancelGoal ==
  /\ edits < MaxEdits /\ edits' = edits + 1
  /\ ~Closed(goal)
  /\ WithGoal([goal EXCEPT !.status = "cancelled", !.next = NoTime, !.claimed = FALSE])
  /\ UNCHANGED <<now, queued, review, ledger, skipped, rhythm, owned, pauses, reboots>>

\* Slip: a claim outlives the process whose queue it was for.
RestartClaimed ==
  /\ reboots < MaxReboots /\ reboots' = reboots + 1
  /\ queued' = 0 /\ review' = NoReview
  /\ goal' = [goal EXCEPT !.next = IF rhythm = "daily" /\ Open(goal) /\ @ > now
                                   THEN NextSlot(now) ELSE @]
  /\ UNCHANGED <<now, ledger, skipped, lost, rhythm, edits, owned, pauses>>

\* The queue is gone; the claims are released, and daily slots counted again.
RestartGoals ==
  /\ reboots < MaxReboots /\ reboots' = reboots + 1
  /\ queued' = 0 /\ review' = NoReview
  /\ goal' = [goal EXCEPT !.claimed = FALSE,
                          !.next = IF rhythm = "daily" /\ Open(goal) /\ @ > now
                                   THEN NextSlot(now) ELSE @]
  /\ UNCHANGED <<now, ledger, skipped, lost, rhythm, edits, owned, pauses>>

-----------------------------------------------------------------------------
GoalInit ==
  /\ now = 1 /\ rhythm \in Rhythms
  /\ goal = [status |-> "active", next |-> NextAt(1), retry |-> NoTime, fails |-> 0, claimed |-> FALSE]
  /\ queued = 0 /\ review = NoReview
  /\ ledger = [id \in {} |-> NewRow]
  /\ skipped = {} /\ lost = FALSE /\ edits = 0 /\ owned = 0 /\ pauses = 0 /\ reboots = 0

GoalWork == ReviewStarts \/ ReviewEnds \/ ReviewFails \/ ReviewGivenUp

GoalNext ==
  \/ Tick \/ ClaimGoal \/ GoalWork \/ Stage \/ ActsOutside \/ PauseReview \/ ResumeReview
  \/ ReviewStopped \/ (\E d \in Outcomes : OwnerDecides(d))
  \/ (\E st \in {"active", "waiting", "blocked"} : Edit(st)) \/ CancelGoal \/ RestartGoals

GoalSpec == GoalInit /\ [][GoalNext]_goalVars

\* The scheduler and the worker run; that a review ends is no part of it.
GoalFairness == WF_goalVars(ClaimGoal) /\ WF_goalVars(ReviewStarts)

FairGoalSpec == GoalSpec /\ GoalFairness

-----------------------------------------------------------------------------
(***************************************************************************)
(* Properties.                                                             *)
(***************************************************************************)
GoalRows == [status : {"active", "waiting", "blocked", "done", "cancelled"},
             next : Nat, retry : Nat, fails : 0 .. 2, claimed : BOOLEAN]
Drafts   == [status : {"none", "active", "waiting", "blocked", "done", "cancelled"}, next : Nat]
Reviews  == [stage : {"none", "run", "parked"}, id : Slots, draft : Drafts]
TurnRows == [state : {"running", "completed", "cancelled"}, early : BOOLEAN, effect : BOOLEAN]

GoalTypeOK ==
  /\ now \in 1 .. MaxTime /\ rhythm \in Rhythms
  /\ goal \in GoalRows /\ queued \in 0 .. MaxQueued /\ review \in Reviews
  /\ DOMAIN ledger \subseteq Slots /\ ledger \in [DOMAIN ledger -> TurnRows]
  /\ skipped \subseteq Slots /\ lost \in BOOLEAN
  /\ edits \in 0 .. MaxEdits /\ owned \in 0 .. MaxOwner
  /\ pauses \in 0 .. MaxPauses /\ reboots \in 0 .. MaxReboots

\* A claim is held by a job in the queue or by the review at work: otherwise the goal
\* would never be claimed again.
ClaimIsHeld == goal.claimed => queued > 0 \/ review # NoReview

\* crontab.py: "the slot itself still has to run": a slot is passed over only for the
\* sake of a review not started ahead of it, unless others change the goal or the owner
\* interrupts its reviews more than once.
SkippedHasRun == owned + edits = 0 /\ pauses <= 1 => \A id \in skipped : ~ledger[id].early

\* The same as the comment has it: the second interruption may again leave a job that
\* runs ahead of the slot, now under the row that was kept for the slot itself.
SlotStillRuns == owned + edits = 0 => \A id \in skipped : ~ledger[id].early

\* "closed goal cannot be updated": what was closed stays closed, whatever review of it
\* is at work, parked or queued then, unless the dashboard closed it.
ClosedStaysClosed == edits = 0 => ~lost

\* Premise: no review, with the owner turns it is parked for, lasts for ever.
ReviewsEnd == []<>(review = NoReview)

\* If reviews end, a goal that is due is reviewed, put off or closed: no failure, pause,
\* stop or restart leaves it due and unclaimed, or claimed by nobody.
DueIsReviewed == ReviewsEnd => IsDue(goal) ~> ~IsDue(goal)
=============================================================================
