---------------------------- MODULE GoalProofs ----------------------------
(***************************************************************************)
(* Proofs about GoalReview, for every slot length, bound and number of     *)
(* goal turns.  GoalCore (types, the shape of the one review, who holds    *)
(* the claim) is inductive by itself; SlotInv, about slots left behind,    *)
(* is inductive above it while the owner and the dashboard leave the goal  *)
(* alone and at most one review is paused: only then does the model owe    *)
(* every slot a review.  One lemma shows for each action that it keeps     *)
(* GoalCore, and one that it keeps SlotInv.                                *)
(***************************************************************************)
EXTENDS GoalReview, TLAPS

USE DEF Open, Closed, NoTime, Soon, Slots, NoDraft, NoReview, NewRow, Running

\* The review under way, the jobs that could start one, and what claims them.
ReviewAlive   == review.stage # "none"
Jobs    == queued + (IF ReviewAlive THEN 1 ELSE 0)
Claims  == IF goal.claimed THEN 1 ELSE 0

\* A job is left over that no claim waits for: a paused review came back.
Spare   == Jobs > Claims

\* Slots begun before their time, and slots whose review is over.
Ahead   == {id \in DOMAIN ledger : id[1] > now}
OverRows   == {id \in DOMAIN ledger : ledger[id].state \in {"completed", "cancelled"}}
Undisturbed == owned + edits = 0 /\ pauses <= 1

\* A review has a running row; what it has drafted names a time for an open goal only.
ReviewShape ==
  /\ ~ReviewAlive => review = NoReview
  /\ ReviewAlive => review.id \in DOMAIN ledger /\ ledger[review.id].state = "running"
  /\ review.stage = "parked" => review.draft = NoDraft
  /\ review.draft.status = "none" \/
       (review.draft.status \in {"active", "waiting"} <=> review.draft.next # NoTime)
ClosedUndrafted == edits = 0 /\ Closed(goal) => review.draft.status = "none"
ClaimedIsDue    == goal.claimed => IsDue(goal)
JobsClaimed     == Jobs <= Claims + pauses + owned + edits
OpenHasTime     == edits = 0 => (Open(goal) <=> goal.next # NoTime)

GoalCore == GoalTypeOK /\ ReviewShape /\ ClosedUndrafted /\ ClosedStaysClosed /\ ClaimedIsDue
            /\ ClaimIsHeld /\ JobsClaimed /\ OpenHasTime

\* The second row of a slot is begun in time, and a slot left behind is over.
SlotInTime   == Undisturbed => \A id \in DOMAIN ledger : id[2] = "slot" => ~ledger[id].early
SkippedEnded == Undisturbed => \A id \in skipped : id \in OverRows /\ ~ledger[id].early

\* A deferred goal, or a spare job, leaves no finished row ahead of its time.
RetryAhead   == Undisturbed /\ goal.retry # NoTime /\ goal.next > now => Ahead \cap OverRows = {}
SpareAhead   ==
  Undisturbed /\ Spare =>
    /\ goal.retry = NoTime \/ goal.next <= now
    /\ \A id \in Ahead : ReviewAlive /\ id = review.id
    /\ ReviewAlive /\ review.id[1] > now => review.id[1] = goal.next
Unpaused ==
  Undisturbed /\ pauses = 0 =>
    /\ Ahead = {} /\ (goal.retry # NoTime => goal.next <= now)
    /\ ReviewAlive => goal.next <= now /\ goal.claimed

SlotInv == SlotInTime /\ SkippedEnded /\ RetryAhead /\ SpareAhead /\ Unpaused

\* The next slot of a rhythm, and the time a draft may name, are times.
LEMMA NextSlotTime ==
  ASSUME NEW t \in Nat
  PROVE  NextSlot(t) \in Nat \ {0}
<1>1. t \div Period \in Nat
  BY GoalScope
<1>2. \A q \in Nat : (q + 1) * Period \in Nat \ {0}
  BY GoalScope
<1>. QED  BY <1>1, <1>2, GoalScope DEF NextSlot

\* The same for a slot counted from now.
LEMMA NextAtTime ==
  ASSUME now \in Nat, NEW t \in Nat
  PROVE  NextAt(t) \in Nat \ {0}
BY NextSlotTime DEF NextAt

\* What an outcome says: a time for an open goal, none for another.
LEMMA DraftTime ==
  ASSUME GoalTypeOK, NEW d \in Outcomes
  PROVE  /\ d.status \in {"active", "waiting", "blocked", "done", "cancelled"} /\ d.next \in Nat
         /\ d.status \in {"active", "waiting"} <=> d.next # NoTime
         /\ d = [status |-> d.status, next |-> d.next]
<1>1. now \in Nat /\ NextSlot(now) \in Nat \ {0}
  BY NextSlotTime, GoalBounds DEF GoalTypeOK
<1>. QED  BY <1>1, GoalBounds DEF Outcomes

\* The bounds are numbers.
LEMMA Bounds ==
  /\ MaxTime \in Nat \ {0} /\ MaxQueued \in Nat /\ MaxEdits \in Nat /\ MaxOwner \in Nat
  /\ MaxPauses \in Nat /\ MaxReboots \in Nat
BY GoalBounds

\* Time passes: nothing of a goal depends on the hour but that it is due.
LEMMA TickCore ==
  ASSUME GoalCore, Tick
  PROVE  GoalCore'
BY Bounds DEF GoalCore, Tick, counts, GoalTypeOK, GoalRows, ReviewShape, ClosedUndrafted, ClosedStaysClosed,
   ClaimedIsDue, IsDue, DueAt, ClaimIsHeld, JobsClaimed, Jobs, Claims, ReviewAlive, OpenHasTime

\* A claim takes a goal that is due, with one job.
LEMMA ClaimCore ==
  ASSUME GoalCore, ClaimGoal
  PROVE  GoalCore'
<1>1. ReviewShape' /\ ClosedUndrafted' /\ ClosedStaysClosed' /\ OpenHasTime'
  BY DEF GoalCore, ClaimGoal, counts, GoalTypeOK, GoalRows, ReviewShape, ClosedUndrafted,
     ClosedStaysClosed, OpenHasTime, ReviewAlive
<1>4. GoalTypeOK'
  <2>1. goal' \in GoalRows
    BY DEF GoalCore, ClaimGoal, GoalTypeOK, GoalRows
  <2>2. queued' \in 0 .. MaxQueued
    BY Bounds DEF GoalCore, ClaimGoal, GoalTypeOK
  <2>. QED  BY <2>1, <2>2 DEF GoalCore, ClaimGoal, counts, GoalTypeOK
<1>2. ClaimedIsDue'
  BY DEF GoalCore, GoalTypeOK, GoalRows, ClaimGoal, ClaimedIsDue, IsDue, DueAt
<1>3. ClaimIsHeld' /\ JobsClaimed'
  BY Bounds DEF GoalCore, GoalTypeOK, GoalRows, ClaimGoal, counts, ClaimIsHeld, JobsClaimed, Jobs, Claims, ReviewAlive
<1>. QED  BY <1>1, <1>2, <1>3, <1>4 DEF GoalCore

\* A draft belongs to a review that acts, of a goal that is open.
LEMMA StageCore ==
  ASSUME GoalCore, Stage
  PROVE  GoalCore'
<1>1. PICK d \in Outcomes : review' = [review EXCEPT !.draft = d]
  BY DEF Stage
<1>2. GoalTypeOK' /\ ReviewShape'
  BY <1>1, DraftTime, Bounds DEF GoalCore, Stage, counts, GoalTypeOK, Reviews, Drafts, ReviewShape, ReviewAlive
<1>3. ClosedUndrafted'
  BY <1>1 DEF GoalCore, GoalTypeOK, Reviews, Drafts, Stage, Current, counts, ClosedUndrafted
<1>4. ClosedStaysClosed' /\ OpenHasTime' /\ ClaimedIsDue' /\ ClaimIsHeld' /\ JobsClaimed'
  BY <1>1 DEF GoalCore, Stage, counts, GoalTypeOK, Reviews, ClosedStaysClosed, OpenHasTime,
     ClaimedIsDue, IsDue, DueAt, ClaimIsHeld, JobsClaimed, Jobs, Claims, ReviewAlive
<1>. QED  BY <1>2, <1>3, <1>4 DEF GoalCore

\* An effect outside marks the row of the review.
LEMMA ActsOutsideCore ==
  ASSUME GoalCore, ActsOutside
  PROVE  GoalCore'
<1>1. /\ DOMAIN ledger' = DOMAIN ledger
      /\ \A id \in DOMAIN ledger : /\ ledger'[id] \in TurnRows
                                   /\ ledger'[id].state = ledger[id].state
                                   /\ ledger'[id].early = ledger[id].early
  BY DEF GoalCore, GoalTypeOK, ActsOutside, TurnRows
<1>2. GoalTypeOK' /\ ReviewShape'
  BY <1>1 DEF GoalCore, ActsOutside, counts, GoalTypeOK, ReviewShape, ReviewAlive
<1>3. /\ ClosedUndrafted' /\ ClosedStaysClosed' /\ ClaimedIsDue' /\ ClaimIsHeld' /\ JobsClaimed'
      /\ OpenHasTime'
  BY DEF GoalCore, ActsOutside, counts, ClosedUndrafted, ClosedStaysClosed, ClaimedIsDue, IsDue,
     DueAt, ClaimIsHeld, JobsClaimed, Jobs, Claims, ReviewAlive, OpenHasTime
<1>. QED  BY <1>2, <1>3 DEF GoalCore

\* A parked review comes back without its draft.
LEMMA ResumeCore ==
  ASSUME GoalCore, ResumeReview
  PROVE  GoalCore'
<1>1. GoalTypeOK' /\ ReviewShape'
  BY DEF GoalCore, ResumeReview, counts, GoalTypeOK, Reviews, ReviewShape, ReviewAlive
<1>2. /\ ClosedUndrafted' /\ ClosedStaysClosed' /\ ClaimedIsDue' /\ ClaimIsHeld' /\ JobsClaimed'
      /\ OpenHasTime'
  BY DEF GoalCore, ResumeReview, counts, GoalTypeOK, Reviews, ClosedUndrafted, ClosedStaysClosed,
     ClaimedIsDue, IsDue, DueAt, ClaimIsHeld, JobsClaimed, Jobs, Claims, ReviewAlive, OpenHasTime
<1>. QED  BY <1>1, <1>2 DEF GoalCore
\* What is made of the goal's row when a review is over or put off.
LEMMA MovedOnRow ==
  ASSUME GoalTypeOK, NEW at \in Nat \ {0}
  PROVE  LET g == MovedOn(goal, at) IN
         /\ g \in GoalRows /\ g.status = goal.status
         /\ Open(goal) => g.next = at /\ g.retry = NoTime /\ ~g.claimed
         /\ ~Open(goal) => g = goal
<1>1. goal \in GoalRows
  BY DEF GoalTypeOK
<1>2. CASE Open(goal)
  BY <1>1, <1>2 DEF MovedOn, GoalRows
<1>3. CASE ~Open(goal)
  BY <1>1, <1>3 DEF MovedOn
<1>. QED  BY <1>2, <1>3

\* A deferred goal keeps its time and gives up its claim.
LEMMA DeferredRow ==
  ASSUME GoalTypeOK
  PROVE  LET g == Deferred(goal) IN
         /\ g \in GoalRows /\ g.status = goal.status /\ g.next = goal.next
         /\ ~g.claimed /\ g.retry > now
<1>1. goal \in GoalRows /\ now \in Nat
  BY DEF GoalTypeOK
<1>2. goal.fails \in 0 .. 2
  BY <1>1 DEF GoalRows
<1>3. (IF goal.fails < 2 THEN goal.fails + 1 ELSE goal.fails) \in 0 .. 2
  BY <1>2
<1>. QED  BY <1>1, <1>2, <1>3 DEF Deferred, GoalRows

\* A goal whose slot has been reviewed moves to the next one.
LEMMA SkippedRow ==
  ASSUME GoalTypeOK
  PROVE  LET g == Skipped(goal) IN
         /\ g \in GoalRows /\ g.status = goal.status /\ ~g.claimed
         /\ Open(goal) => g.next # NoTime /\ g.retry = NoTime
         /\ ~Open(goal) => g.next = goal.next /\ g.retry = goal.retry
<1>1. now \in Nat /\ goal.next \in Nat
  BY DEF GoalTypeOK, GoalRows
<1>2. NextAt(IF goal.next > now THEN goal.next ELSE now) \in Nat \ {0}
  BY <1>1, NextAtTime
<1>. QED  BY <1>1, <1>2 DEF Skipped, GoalTypeOK, GoalRows

\* A committed draft gives the goal its state and its time.
LEMMA AppliedRow ==
  ASSUME GoalTypeOK, NEW d \in Drafts, d.status # "none",
         d.status \in {"active", "waiting"} <=> d.next # NoTime
  PROVE  LET g == Applied(goal, d) IN
         /\ g \in GoalRows /\ g.status = d.status /\ g.next = d.next /\ g.retry = NoTime
         /\ ~g.claimed /\ (Open(g) <=> g.next # NoTime)
BY DEF Applied, Drafts, GoalRows

\* A row that ends changes its state, and no other row.
LEMMA EndedRow ==
  ASSUME GoalTypeOK, NEW id \in DOMAIN ledger, NEW st \in {"completed", "cancelled"}
  PROVE  LET l == RowEnds(id, st) IN
         /\ DOMAIN l = DOMAIN ledger /\ l \in [DOMAIN ledger -> TurnRows]
         /\ \A i \in DOMAIN ledger : /\ l[i].early = ledger[i].early
                                     /\ i # id => l[i] = ledger[i]
         /\ l[id].state = st
BY DEF RowEnds, GoalTypeOK, TurnRows

\* The worker's turn is over and leaves the goal as g.
ReviewOver(g) ==
  /\ ReviewAlive /\ review' = NoReview /\ WithGoal(g)
  /\ \/ UNCHANGED ledger
     \/ \E st \in {"completed", "cancelled"} : ledger' = RowEnds(review.id, st)
  /\ UNCHANGED <<now, queued, skipped, counts>>

\* A review that is over leaves a goal without a claim.
LEMMA ReviewOverCore ==
  ASSUME GoalCore, NEW g \in GoalRows, ReviewOver(g), ~g.claimed,
         edits = 0 /\ Closed(goal) => Closed(g),
         edits = 0 => (Open(g) <=> g.next # NoTime)
  PROVE  GoalCore'
<1>1. NoReview \in Reviews
  BY DEF Reviews, Drafts
<1>2. DOMAIN ledger' \subseteq Slots /\ ledger' \in [DOMAIN ledger' -> TurnRows]
  BY EndedRow DEF ReviewOver, GoalCore, GoalTypeOK, ReviewShape
<1>3. GoalTypeOK'
  BY <1>1, <1>2 DEF GoalCore, GoalTypeOK, ReviewOver, WithGoal, counts
<1>4. ReviewShape' /\ ClosedUndrafted' /\ ClosedStaysClosed' /\ OpenHasTime'
  BY DEF GoalCore, ReviewOver, WithGoal, counts, ReviewShape, ClosedUndrafted, ClosedStaysClosed,
     OpenHasTime, ReviewAlive
<1>5. ClaimedIsDue' /\ ClaimIsHeld' /\ JobsClaimed'
  BY Bounds DEF GoalCore, GoalTypeOK, ReviewOver, WithGoal, counts, ClaimedIsDue, ClaimIsHeld,
     JobsClaimed, Jobs, Claims, ReviewAlive
<1>. QED  BY <1>3, <1>4, <1>5 DEF GoalCore

\* The times a failed or stopped review may move the goal to.
LEMMA NextAtNow ==
  ASSUME GoalTypeOK
  PROVE  NextAt(now) \in Nat \ {0} /\ now + Soon \in Nat \ {0}
BY NextAtTime DEF GoalTypeOK

\* A review ends and its draft is applied.
LEMMA EndsCore ==
  ASSUME GoalCore, ReviewEnds
  PROVE  GoalCore'
<1>1. CASE review.draft.status = "none"
  <2>. DEFINE g == MovedOn(goal, NextAt(now))
  <2>1. g = goal /\ g \in GoalRows /\ ~g.claimed
    BY <1>1, NextAtNow, MovedOnRow DEF GoalCore, ReviewEnds, ClaimedIsDue, IsDue
  <2>2. ReviewOver(g)
    BY <1>1 DEF ReviewEnds, ReviewOver, ReviewAlive
  <2>. QED  BY <2>1, <2>2, ReviewOverCore DEF GoalCore, OpenHasTime
<1>2. CASE review.draft.status # "none"
  <2>. DEFINE g == Applied(goal, review.draft)
  <2>1. review.draft \in Drafts
    BY DEF GoalCore, GoalTypeOK, Reviews
  <2>2. g \in GoalRows /\ ~g.claimed /\ (Open(g) <=> g.next # NoTime)
    BY <1>2, <2>1, AppliedRow DEF GoalCore, ReviewShape
  <2>3. ReviewOver(g)
    BY <1>2 DEF ReviewEnds, ReviewOver, ReviewAlive
  <2>4. edits = 0 => ~Closed(goal)
    BY <1>2 DEF GoalCore, ClosedUndrafted
  <2>. QED  BY <2>2, <2>3, <2>4, ReviewOverCore
<1>. QED  BY <1>1, <1>2

\* A review fails and is deferred.
LEMMA FailsCore ==
  ASSUME GoalCore, ReviewFails
  PROVE  GoalCore'
<1>. DEFINE g == Deferred(goal)
<1>1. g \in GoalRows /\ g.status = goal.status /\ g.next = goal.next /\ ~g.claimed
  BY DeferredRow DEF GoalCore
<1>2. ReviewOver(g)
  BY DEF ReviewFails, ReviewOver, ReviewAlive
<1>3. edits = 0 => (Open(g) <=> g.next # NoTime)
  BY <1>1 DEF GoalCore, OpenHasTime
<1>4. edits = 0 /\ Closed(goal) => Closed(g)
  BY <1>1
<1>. QED  BY <1>1, <1>2, <1>3, <1>4, ReviewOverCore

\* The goal is left to its next slot, or to another try, if it is open.
LEMMA MovedOnOver ==
  ASSUME GoalCore, NEW at \in Nat \ {0}, ReviewOver(MovedOn(goal, at))
  PROVE  GoalCore'
<1>. DEFINE g == MovedOn(goal, at)
<1>1. g \in GoalRows /\ g.status = goal.status
  BY MovedOnRow DEF GoalCore
<1>2. ~g.claimed
  BY MovedOnRow DEF GoalCore, ClaimedIsDue, IsDue
<1>3. edits = 0 => (Open(g) <=> g.next # NoTime)
  <2>1. CASE Open(goal)
    BY <2>1, MovedOnRow DEF GoalCore
  <2>2. CASE ~Open(goal)
    BY <2>2, MovedOnRow DEF GoalCore, OpenHasTime
  <2>. QED  BY <2>1, <2>2
<1>4. edits = 0 /\ Closed(goal) => Closed(g)
  BY <1>1
<1>. QED  BY <1>1, <1>2, <1>3, <1>4, ReviewOverCore

\* A review is given up, with its goal moved on.
LEMMA GivenUpCore ==
  ASSUME GoalCore, ReviewGivenUp
  PROVE  GoalCore'
<1>1. ReviewOver(MovedOn(goal, NextAt(now)))
  BY DEF ReviewGivenUp, ReviewOver, ReviewAlive
<1>. QED  BY <1>1, NextAtNow, MovedOnOver DEF GoalCore

\* A review is stopped before it acted.
LEMMA StoppedCore ==
  ASSUME GoalCore, ReviewStopped
  PROVE  GoalCore'
<1>1. ReviewAlive
  BY DEF ReviewStopped, GoalCore, ReviewShape
<1>2. ReviewOver(MovedOn(goal, now + Soon))
  BY <1>1 DEF ReviewStopped, ReviewOver
<1>. QED  BY <1>2, NextAtNow, MovedOnOver DEF GoalCore

\* A paused review leaves a job behind and keeps or gives back the claim.
LEMMA PauseCore ==
  ASSUME GoalCore, PauseReview
  PROVE  GoalCore'
<1>. DEFINE g == Applied(goal, review.draft)
<1>1. review.draft \in Drafts /\ goal \in GoalRows
  BY DEF GoalCore, GoalTypeOK, Reviews
<1>2. /\ g \in GoalRows
      /\ edits = 0 => (Open(g) <=> g.next # NoTime)
      /\ edits = 0 /\ Closed(goal) => g = goal
      /\ g = goal \/ ~g.claimed
  <2>1. CASE review.draft.status = "none"
    BY <1>1, <2>1 DEF Applied, GoalCore, OpenHasTime
  <2>2. CASE review.draft.status # "none"
    BY <1>1, <2>2, AppliedRow DEF GoalCore, ReviewShape, ClosedUndrafted
  <2>. QED  BY <2>1, <2>2
<1>3. GoalTypeOK'
  <2>1. review' \in Reviews
    BY DEF PauseReview, GoalCore, GoalTypeOK, Reviews, Drafts
  <2>2. pauses' \in 0 .. MaxPauses
    BY Bounds DEF PauseReview, GoalCore, GoalTypeOK
  <2>3. goal' \in GoalRows /\ lost' \in BOOLEAN
    BY <1>2 DEF PauseReview, WithGoal, GoalCore, GoalTypeOK
  <2>. QED  BY <2>1, <2>2, <2>3 DEF GoalCore, GoalTypeOK, PauseReview
<1>4. ReviewShape'
  BY DEF GoalCore, GoalTypeOK, PauseReview, Reviews, ReviewShape, ReviewAlive
<1>5. ClosedUndrafted' /\ ClosedStaysClosed' /\ OpenHasTime'
  BY <1>2 DEF GoalCore, GoalTypeOK, Reviews, PauseReview, WithGoal, ClosedUndrafted, ClosedStaysClosed,
     OpenHasTime
<1>6. ReviewAlive /\ ReviewAlive' /\ queued' = queued /\ goal' = g /\ now' = now /\ pauses' = pauses + 1
      /\ edits' = edits /\ owned' = owned
  BY DEF PauseReview, WithGoal, ReviewAlive, GoalCore, GoalTypeOK, Reviews
<1>7. ClaimedIsDue' /\ ClaimIsHeld'
  BY <1>2, <1>6 DEF GoalCore, ClaimedIsDue, ClaimIsHeld, IsDue, DueAt, ReviewAlive
<1>8. JobsClaimed'
  BY <1>2, <1>6 DEF GoalCore, GoalTypeOK, GoalRows, JobsClaimed, Jobs, Claims
<1>. QED  BY <1>3, <1>4, <1>5, <1>7, <1>8 DEF GoalCore

\* The owner decides about the goal in a turn of their own.
LEMMA OwnerCore ==
  ASSUME GoalCore, NEW d \in Outcomes, OwnerDecides(d)
  PROVE  GoalCore'
<1>. DEFINE g == Applied(goal, d)
<1>1. d \in Drafts /\ d.status # "none"
  BY DraftTime DEF GoalCore, Drafts
<1>2. g \in GoalRows /\ ~g.claimed /\ (Open(g) <=> g.next # NoTime)
  BY <1>1, DraftTime, AppliedRow DEF GoalCore
<1>3. GoalTypeOK'
  <2>1. owned' \in 0 .. MaxOwner
    BY Bounds DEF OwnerDecides, GoalCore, GoalTypeOK
  <2>2. goal' \in GoalRows /\ lost' \in BOOLEAN
    BY <1>2 DEF OwnerDecides, WithGoal, GoalCore, GoalTypeOK
  <2>. QED  BY <2>1, <2>2 DEF GoalCore, GoalTypeOK, OwnerDecides
<1>4. ReviewShape' /\ ClosedUndrafted'
  BY DEF GoalCore, GoalTypeOK, Reviews, OwnerDecides, WithGoal, ReviewShape, ClosedUndrafted, ReviewAlive
<1>5. ClosedStaysClosed' /\ OpenHasTime'
  BY <1>2 DEF GoalCore, OwnerDecides, WithGoal, ClosedStaysClosed, OpenHasTime
<1>6. ClaimedIsDue' /\ ClaimIsHeld'
  BY <1>2 DEF OwnerDecides, WithGoal, ClaimedIsDue, ClaimIsHeld
<1>7. JobsClaimed'
  BY <1>2 DEF GoalCore, GoalTypeOK, GoalRows, OwnerDecides, WithGoal, JobsClaimed, Jobs, Claims, ReviewAlive
<1>. QED  BY <1>3, <1>4, <1>5, <1>6, <1>7 DEF GoalCore

\* The dashboard may reopen a goal that a review is about to close: nothing is said of
\* closed goals after an edit.
LEMMA EditedCore ==
  ASSUME GoalCore, NEW g \in GoalRows, ~g.claimed, WithGoal(g),
         edits < MaxEdits, edits' = edits + 1,
         UNCHANGED <<now, queued, review, ledger, skipped, rhythm, owned, pauses, reboots>>
  PROVE  GoalCore'
<1>1. GoalTypeOK'
  <2>1. edits' \in 0 .. MaxEdits /\ edits' # 0
    BY Bounds DEF GoalCore, GoalTypeOK
  <2>2. goal' \in GoalRows /\ lost' \in BOOLEAN
    BY DEF WithGoal, GoalCore, GoalTypeOK
  <2>. QED  BY <2>1, <2>2 DEF GoalCore, GoalTypeOK
<1>2. edits' # 0
  BY DEF GoalCore, GoalTypeOK
<1>3. ReviewShape' /\ ClosedUndrafted' /\ ClosedStaysClosed' /\ OpenHasTime'
  BY <1>2 DEF GoalCore, ReviewShape, ClosedUndrafted, ClosedStaysClosed, OpenHasTime, ReviewAlive
<1>4. ClaimedIsDue' /\ ClaimIsHeld'
  BY DEF WithGoal, ClaimedIsDue, ClaimIsHeld
<1>5. JobsClaimed'
  BY DEF GoalCore, GoalTypeOK, GoalRows, WithGoal, JobsClaimed, Jobs, Claims, ReviewAlive
<1>. QED  BY <1>1, <1>3, <1>4, <1>5 DEF GoalCore

\* The dashboard edits the goal.
LEMMA EditCore ==
  ASSUME GoalCore, NEW st \in {"active", "waiting", "blocked"}, Edit(st)
  PROVE  GoalCore'
<1>. DEFINE g == [goal EXCEPT !.status = st, !.next = IF st = "blocked" THEN NoTime ELSE @,
                              !.claimed = FALSE]
<1>1. g \in GoalRows /\ ~g.claimed
  BY DEF GoalCore, GoalTypeOK, GoalRows
<1>. QED  BY <1>1, EditedCore DEF Edit

\* The dashboard cancels the goal.
LEMMA CancelCore ==
  ASSUME GoalCore, CancelGoal
  PROVE  GoalCore'
<1>. DEFINE g == [goal EXCEPT !.status = "cancelled", !.next = NoTime, !.claimed = FALSE]
<1>1. g \in GoalRows /\ ~g.claimed
  BY DEF GoalCore, GoalTypeOK, GoalRows
<1>. QED  BY <1>1, EditedCore DEF CancelGoal

\* A restart makes the claims and the jobs anew.
LEMMA RestartCore ==
  ASSUME GoalCore, RestartGoals
  PROVE  GoalCore'
<1>1. /\ goal' \in GoalRows /\ goal'.status = goal.status /\ ~goal'.claimed
      /\ goal'.next # NoTime <=> goal.next # NoTime
  <2>. DEFINE n == IF rhythm = "daily" /\ Open(goal) /\ goal.next > now THEN NextSlot(now) ELSE goal.next
  <2>1. NextSlot(now) \in Nat \ {0} /\ goal \in GoalRows /\ now \in Nat
    BY NextSlotTime DEF GoalCore, GoalTypeOK
  <2>2. n \in Nat /\ (n # NoTime <=> goal.next # NoTime)
    BY <2>1 DEF GoalRows
  <2>3. goal' = [goal EXCEPT !.claimed = FALSE, !.next = n]
    BY <2>1 DEF RestartGoals, GoalRows
  <2>. HIDE DEF n
  <2>. QED  BY <2>1, <2>2, <2>3 DEF GoalRows
<1>2. review' = NoReview /\ queued' = 0 /\ NoReview \in Reviews
  BY DEF RestartGoals, Reviews, Drafts
<1>3. GoalTypeOK'
  <2>1. reboots' \in 0 .. MaxReboots /\ queued' \in 0 .. MaxQueued
    BY Bounds DEF RestartGoals, GoalCore, GoalTypeOK
  <2>. QED  BY <1>1, <1>2, <2>1 DEF RestartGoals, GoalCore, GoalTypeOK
<1>4. ReviewShape' /\ ClosedUndrafted' /\ ClosedStaysClosed' /\ OpenHasTime'
  BY <1>1, <1>2 DEF RestartGoals, GoalCore, ReviewShape, ClosedUndrafted, ClosedStaysClosed, OpenHasTime, ReviewAlive
<1>5. ClaimedIsDue' /\ ClaimIsHeld'
  BY <1>1 DEF ClaimedIsDue, ClaimIsHeld
<1>6. JobsClaimed'
  BY <1>1, <1>2 DEF RestartGoals, GoalCore, GoalTypeOK, JobsClaimed, Jobs, Claims, ReviewAlive
<1>. QED  BY <1>3, <1>4, <1>5, <1>6 DEF GoalCore
\* What begin_turn finds.
LEMMA BegunRow ==
  ASSUME GoalTypeOK, NEW id \in Slots
  PROVE  LET row == Begun(id) IN
         /\ row.state \in {"running", "completed", "cancelled", "needs_reconciliation"}
         /\ row.state = "running" =>
              /\ row \in TurnRows /\ (row.early <=> now < id[1])
              /\ id \in DOMAIN ledger => ledger[id].state = "running"
         /\ row.state \in {"completed", "cancelled"} => id \in DOMAIN ledger /\ row = ledger[id]
         /\ row.state = "needs_reconciliation" =>
              id \in DOMAIN ledger /\ ledger[id].state = "running"
<1>1. now \in Nat /\ id[1] \in Nat
  BY DEF GoalTypeOK
<1>2. CASE id \in DOMAIN ledger
  <2>1. ledger[id] \in TurnRows
    BY <1>2 DEF GoalTypeOK
  <2>2. ledger[id].state \in {"running", "completed", "cancelled"}
    BY <2>1 DEF TurnRows
  <2>3. CASE ledger[id].state \in {"completed", "cancelled"}
    BY <1>2, <2>3 DEF Begun
  <2>4. CASE ledger[id].state = "running" /\ ledger[id].effect
    BY <1>2, <2>1, <2>4 DEF Begun, TurnRows
  <2>5. CASE ledger[id].state = "running" /\ ~ledger[id].effect
    <3>1. Begun(id) = [ledger[id] EXCEPT !.state = "running", !.early = now < id[1]]
      BY <1>2, <2>5 DEF Begun
    <3>2. (now < id[1]) \in BOOLEAN
      OBVIOUS
    <3>3. Begun(id) \in TurnRows
      BY <2>1, <3>1, <3>2 DEF TurnRows
    <3>. QED  BY <1>2, <2>1, <2>5, <3>1, <3>3 DEF TurnRows
  <2>. QED  BY <2>2, <2>3, <2>4, <2>5
<1>3. CASE id \notin DOMAIN ledger
  <2>1. Begun(id) = [NewRow EXCEPT !.state = "running", !.early = now < id[1]]
    BY <1>3 DEF Begun
  <2>2. (now < id[1]) \in BOOLEAN
    OBVIOUS
  <2>3. Begun(id) = [state |-> "running", early |-> now < id[1], effect |-> FALSE]
    BY <2>1
  <2>4. Begun(id) \in TurnRows
    BY <2>2, <2>3 DEF TurnRows
  <2>5. Begun(id).state = "running" /\ (Begun(id).early <=> now < id[1])
    <3>. DEFINE b == now < id[1]
    <3>1. Begun(id) = [state |-> "running", early |-> b, effect |-> FALSE]
      BY <2>3
    <3>. HIDE DEF b
    <3>2. Begun(id).state = "running" /\ Begun(id).early = b
      BY <3>1
    <3>. QED  BY <3>2 DEF b
  <2>. HIDE DEF NewRow
  <2>. QED  BY <1>3, <2>4, <2>5
<1>. QED  BY <1>2, <1>3

\* The row a review of the slot takes: the second one only where the first was
\* early and is over.
LEMMA RowOfSlot ==
  ASSUME GoalTypeOK
  PROVE  LET id == RowOf(goal.next)  first == <<goal.next, "first">> IN
         /\ id \in Slots /\ id[1] = goal.next /\ id[2] \in {"first", "slot"}
         /\ id[2] = "slot" => /\ first \in DOMAIN ledger /\ ledger[first].early
                              /\ ledger[first].state \in {"completed", "cancelled"}
         /\ id[2] = "first" /\ goal.next # NoTime
            /\ id \in DOMAIN ledger /\ ledger[id].state \in {"completed", "cancelled"} =>
              ~ledger[id].early
<1>. DEFINE first == <<goal.next, "first">>
<1>1. goal.next \in Nat /\ first \in Slots
  BY DEF GoalTypeOK, GoalRows
<1>2. Begun(first).state \in {"completed", "cancelled"} =>
        first \in DOMAIN ledger /\ Begun(first) = ledger[first]
  BY <1>1, BegunRow
<1>3. first \in DOMAIN ledger /\ ledger[first].state \in {"completed", "cancelled"} =>
        Begun(first) = ledger[first]
  BY DEF Begun
<1>. QED  BY <1>1, <1>2, <1>3 DEF RowOf

\* A written row replaces one of its name, or is added.
LEMMA WrittenRows ==
  ASSUME NEW id, NEW row
  PROVE  LET l == Written(id, row) IN
         /\ DOMAIN l = DOMAIN ledger \cup {id} /\ l[id] = row
         /\ \A i \in DOMAIN ledger : i # id => l[i] = ledger[i]
BY DEF Written

\* The five things the start of a review comes to; only the last is a review.
StartsOver(id, g) ==
  /\ WithGoal(g) /\ review' = NoReview
  /\ \/ /\ id \in DOMAIN ledger /\ ledger[id].state \in {"completed", "cancelled"}
        /\ g = Skipped(goal) /\ ledger' = ledger
        /\ skipped' = IF Open(goal) THEN skipped \cup {id} ELSE skipped
     \/ /\ id \in DOMAIN ledger /\ ledger[id].state = "running" /\ skipped' = skipped
        /\ g = MovedOn(goal, NextAt(now)) /\ ledger' = RowEnds(id, "completed")
     \/ /\ ~Open(goal) /\ g = [goal EXCEPT !.claimed = FALSE] /\ skipped' = skipped
        /\ Begun(id).state = "running" /\ ledger' = Written(id, Begun(id))
     \/ /\ Open(goal) /\ goal.next = NoTime /\ g = Deferred(goal) /\ skipped' = skipped
        /\ Begun(id).state = "running" /\ ledger' = Written(id, Begun(id))

StartsReview(id) ==
  /\ Open(goal) /\ goal.next # NoTime /\ goal' = goal /\ lost' = lost /\ skipped' = skipped
  /\ Begun(id).state = "running" /\ ledger' = Written(id, Begun(id))
  /\ review' = [NoReview EXCEPT !.stage = "run", !.id = id]

\* A job that is taken finds its row over, or begins a review.
LEMMA StartsCases ==
  ASSUME GoalCore, ReviewStarts
  PROVE  /\ review = NoReview /\ queued > 0 /\ queued' = queued - 1 /\ UNCHANGED <<now, counts>>
         /\ \/ \E g \in GoalRows : StartsOver(RowOf(goal.next), g)
            \/ StartsReview(RowOf(goal.next))
<1>. DEFINE id == RowOf(goal.next)  row == Begun(id)
<1>1. /\ row.state \in {"completed", "cancelled"} => id \in DOMAIN ledger /\ row = ledger[id]
      /\ row.state = "needs_reconciliation" =>
           id \in DOMAIN ledger /\ ledger[id].state = "running"
  BY RowOfSlot, BegunRow DEF GoalCore
<1>2. /\ Skipped(goal) \in GoalRows /\ Deferred(goal) \in GoalRows
      /\ [goal EXCEPT !.claimed = FALSE] \in GoalRows
  BY SkippedRow, DeferredRow DEF GoalCore, GoalTypeOK, GoalRows
<1>3. MovedOn(goal, NextAt(now)) \in GoalRows
  BY NextAtNow, MovedOnRow DEF GoalCore
<1>. HIDE DEF id
<1>. SUFFICES (\E g \in GoalRows : StartsOver(id, g)) \/ StartsReview(id)
  BY DEF ReviewStarts, id
<1>4. CASE row.state \in {"completed", "cancelled"}
  <2>1. StartsOver(id, Skipped(goal))
    BY <1>1, <1>4 DEF ReviewStarts, StartsOver, id
  <2>. QED  BY <1>2, <2>1
<1>5. CASE row.state = "needs_reconciliation"
  <2>1. StartsOver(id, MovedOn(goal, NextAt(now)))
    BY <1>1, <1>5 DEF ReviewStarts, StartsOver, id
  <2>. QED  BY <1>3, <2>1
<1>6. CASE row.state = "running" /\ ~Open(goal)
  <2>1. StartsOver(id, [goal EXCEPT !.claimed = FALSE])
    BY <1>1, <1>6 DEF ReviewStarts, StartsOver, id
  <2>. QED  BY <1>2, <2>1
<1>7. CASE row.state = "running" /\ Open(goal) /\ goal.next = NoTime
  <2>1. StartsOver(id, Deferred(goal))
    BY <1>1, <1>7 DEF ReviewStarts, StartsOver, id
  <2>. QED  BY <1>2, <2>1
<1>8. CASE row.state = "running" /\ Open(goal) /\ goal.next # NoTime
  BY <1>8 DEF ReviewStarts, StartsReview, id
<1>9. row.state \in {"running", "completed", "cancelled", "needs_reconciliation"}
  BY RowOfSlot, BegunRow DEF GoalCore, id
<1>. QED  BY <1>4, <1>5, <1>6, <1>7, <1>8, <1>9

\* Where the row is over the goal moves on without a claim.
LEMMA StartsOverRow ==
  ASSUME GoalCore, NEW id \in Slots, NEW g \in GoalRows, StartsOver(id, g)
  PROVE  /\ g.status = goal.status /\ ~g.claimed
         /\ edits = 0 => (g.next # NoTime <=> goal.next # NoTime)
<1>1. CASE g = Skipped(goal)
  BY <1>1, SkippedRow DEF GoalCore, OpenHasTime
<1>2. CASE g = MovedOn(goal, NextAt(now))
  BY <1>2, NextAtNow, MovedOnRow DEF GoalCore, ClaimedIsDue, IsDue, OpenHasTime
<1>3. CASE g = [goal EXCEPT !.claimed = FALSE]
  BY <1>3 DEF GoalCore, GoalTypeOK, GoalRows
<1>4. CASE g = Deferred(goal)
  BY <1>4, DeferredRow DEF GoalCore
<1>. QED  BY <1>1, <1>2, <1>3, <1>4 DEF StartsOver

\* A row that is written has the type of a row.
LEMMA WrittenType ==
  ASSUME GoalTypeOK, NEW id \in Slots, Begun(id).state = "running", ledger' = Written(id, Begun(id))
  PROVE  DOMAIN ledger' \subseteq Slots /\ ledger' \in [DOMAIN ledger' -> TurnRows]
<1>1. Begun(id) \in TurnRows
  BY BegunRow
<1>. QED  BY <1>1, WrittenRows DEF Written, GoalTypeOK

\* A review starts, or finds its slot reviewed.
LEMMA StartsCore ==
  ASSUME GoalCore, ReviewStarts
  PROVE  GoalCore'
<1>. DEFINE id == RowOf(goal.next)
<1>0. id \in Slots /\ id[1] = goal.next
  BY RowOfSlot DEF GoalCore
<1>. HIDE DEF id
<1>1. review = NoReview /\ queued > 0 /\ queued' = queued - 1 /\ UNCHANGED <<now, counts>>
  BY StartsCases
<1>2. queued' \in 0 .. MaxQueued
  BY <1>1, Bounds DEF GoalCore, GoalTypeOK
<1>3. ASSUME NEW g \in GoalRows, StartsOver(id, g)
      PROVE  GoalCore'
  <2>1. /\ goal' = g /\ review' = NoReview /\ g.status = goal.status /\ ~g.claimed
        /\ lost' = lost
    BY <1>0, <1>3, StartsOverRow DEF StartsOver, WithGoal, GoalCore, GoalTypeOK
  <2>2. DOMAIN ledger' \subseteq Slots /\ ledger' \in [DOMAIN ledger' -> TurnRows]
    BY <1>0, <1>3, EndedRow, WrittenType DEF StartsOver, GoalCore, GoalTypeOK
  <2>3. skipped' \subseteq Slots
    BY <1>0, <1>3 DEF StartsOver, GoalCore, GoalTypeOK
  <2>4. GoalTypeOK'
    BY <1>1, <1>2, <2>1, <2>2, <2>3 DEF GoalCore, GoalTypeOK, counts
  <2>5. ReviewShape' /\ ClosedUndrafted' /\ ClosedStaysClosed'
    BY <1>1, <2>1 DEF GoalCore, ReviewShape, ClosedUndrafted, ClosedStaysClosed, ReviewAlive, counts
  <2>6. OpenHasTime'
    BY <1>0, <1>1, <1>3, <2>1, StartsOverRow DEF GoalCore, OpenHasTime, counts
  <2>7. ClaimedIsDue' /\ ClaimIsHeld'
    BY <2>1 DEF ClaimedIsDue, ClaimIsHeld
  <2>8. JobsClaimed'
    BY <1>1, <2>1 DEF GoalCore, GoalTypeOK, GoalRows, JobsClaimed, Jobs, Claims, ReviewAlive, counts
  <2>. QED  BY <2>4, <2>5, <2>6, <2>7, <2>8 DEF GoalCore
<1>4. ASSUME StartsReview(id)
      PROVE  GoalCore'
  <2>1. /\ goal' = goal /\ lost' = lost /\ skipped' = skipped /\ review' \in Reviews
        /\ review'.stage = "run" /\ review'.id = id /\ review'.draft = NoDraft
    BY <1>0, <1>4 DEF StartsReview, Reviews, Drafts
  <2>2. DOMAIN ledger' \subseteq Slots /\ ledger' \in [DOMAIN ledger' -> TurnRows]
    BY <1>0, <1>4, WrittenType DEF StartsReview, GoalCore
  <2>3. id \in DOMAIN ledger' /\ ledger'[id].state = "running"
    <3>1. ledger' = Written(id, Begun(id)) /\ Begun(id).state = "running"
      BY <1>4 DEF StartsReview
    <3>. QED  BY <3>1 DEF Written
  <2>4. GoalTypeOK'
    BY <1>1, <1>2, <2>1, <2>2 DEF GoalCore, GoalTypeOK, counts
  <2>5. ReviewShape' /\ ClosedUndrafted' /\ ClosedStaysClosed' /\ OpenHasTime'
    BY <1>1, <2>1, <2>3 DEF GoalCore, ReviewShape, ClosedUndrafted, ClosedStaysClosed, OpenHasTime,
       ReviewAlive, counts
  <2>6. ClaimedIsDue' /\ ClaimIsHeld'
    BY <1>1, <2>1 DEF GoalCore, ClaimedIsDue, ClaimIsHeld, IsDue, DueAt
  <2>7. JobsClaimed'
    BY <1>1, <2>1 DEF GoalCore, GoalTypeOK, GoalRows, JobsClaimed, Jobs, Claims, ReviewAlive, counts
  <2>. QED  BY <2>4, <2>5, <2>6, <2>7 DEF GoalCore
<1>. QED  BY <1>3, <1>4, StartsCases DEF id

\* At first the goal is open, unclaimed and unreviewed.
LEMMA GoalInitCore ==
  ASSUME GoalInit
  PROVE  GoalCore
<1>1. NextAt(1) \in Nat \ {0}
  BY NextSlotTime DEF GoalInit, NextAt
<1>2. GoalTypeOK
  <2>1. goal \in GoalRows /\ review \in Reviews
    BY <1>1 DEF GoalInit, GoalRows, Reviews, Drafts
  <2>2. DOMAIN ledger \subseteq Slots /\ ledger \in [DOMAIN ledger -> TurnRows]
    BY DEF GoalInit
  <2>3. /\ now \in 1 .. MaxTime /\ queued \in 0 .. MaxQueued /\ edits \in 0 .. MaxEdits
        /\ owned \in 0 .. MaxOwner /\ pauses \in 0 .. MaxPauses /\ reboots \in 0 .. MaxReboots
    BY Bounds DEF GoalInit
  <2>. QED  BY <2>1, <2>2, <2>3 DEF GoalInit, GoalTypeOK
<1>3. ReviewShape /\ ClosedUndrafted /\ ClosedStaysClosed /\ OpenHasTime
  BY <1>1 DEF GoalInit, ReviewShape, ClosedUndrafted, ClosedStaysClosed, OpenHasTime, ReviewAlive
<1>4. ClaimedIsDue /\ ClaimIsHeld /\ JobsClaimed
  BY DEF GoalInit, ClaimedIsDue, ClaimIsHeld, JobsClaimed, Jobs, Claims, ReviewAlive
<1>. QED  BY <1>2, <1>3, <1>4 DEF GoalCore

\* GoalCore is inductive.
LEMMA GoalNextCore ==
  ASSUME GoalCore, [GoalNext]_goalVars
  PROVE  GoalCore'
<1>1. CASE GoalNext
  BY <1>1, TickCore, ClaimCore, StartsCore, EndsCore, FailsCore, GivenUpCore, StageCore, ActsOutsideCore,
     PauseCore, ResumeCore, StoppedCore, OwnerCore, EditCore, CancelCore, RestartCore
  DEF GoalNext, GoalWork
<1>2. CASE UNCHANGED goalVars
  BY <1>2 DEF goalVars, GoalCore, GoalTypeOK, ReviewShape, ClosedUndrafted, ClosedStaysClosed,
     ClaimedIsDue, IsDue, DueAt, ClaimIsHeld, JobsClaimed, Jobs, Claims, ReviewAlive, OpenHasTime
<1>. QED  BY <1>1, <1>2
-----------------------------------------------------------------------------
\* The goal, its jobs and the states of its rows stay; the clock may go on.
LEMMA SlotsStay ==
  ASSUME GoalCore, SlotInv, UNCHANGED <<goal, queued, skipped, edits, owned, pauses>>,
         now' \in Nat, now' >= now, review'.id = review.id, ReviewAlive' = ReviewAlive,
         DOMAIN ledger' = DOMAIN ledger,
         \A id \in DOMAIN ledger : ledger'[id].state = ledger[id].state
                                   /\ ledger'[id].early = ledger[id].early
  PROVE  SlotInv'
<1>1. now \in Nat /\ \A id \in DOMAIN ledger : id[1] \in Nat
  BY DEF GoalCore, GoalTypeOK
<1>2. goal.next \in Nat
  BY DEF GoalCore, GoalTypeOK, GoalRows
<1>3. /\ Ahead' \subseteq Ahead /\ OverRows' = OverRows /\ (Undisturbed' <=> Undisturbed) /\ (Spare' <=> Spare)
      /\ goal.next > now' => goal.next > now
      /\ goal.next <= now => goal.next <= now'
  BY <1>1, <1>2 DEF Ahead, OverRows, Undisturbed, Spare, Jobs, Claims
<1>4. SlotInTime' /\ SkippedEnded'
  BY <1>3 DEF SlotInv, SlotInTime, SkippedEnded, OverRows
<1>5. RetryAhead' /\ Unpaused'
  BY <1>3 DEF SlotInv, RetryAhead, Unpaused
<1>6. SpareAhead'
  <2>1. review.id \in Slots
    BY DEF GoalCore, GoalTypeOK, Reviews
  <2>2. review.id[1] > now' => review.id[1] > now
    BY <1>1, <2>1
  <2>. QED  BY <1>3, <2>2 DEF SlotInv, SpareAhead
<1>. QED  BY <1>4, <1>5, <1>6 DEF SlotInv

\* Steps that leave slots as they are.
LEMMA QuietSlots ==
  ASSUME GoalCore, SlotInv, Tick \/ Stage \/ ActsOutside \/ ResumeReview \/ UNCHANGED goalVars
  PROVE  SlotInv'
<1>1. now \in Nat
  BY DEF GoalCore, GoalTypeOK
<1>2. CASE Tick
  BY <1>1, <1>2, SlotsStay DEF Tick, counts, ReviewAlive
<1>3. CASE Stage
  <2>1. review'.id = review.id /\ ReviewAlive' = ReviewAlive
    BY <1>3 DEF Stage, ReviewAlive, GoalCore, GoalTypeOK, Reviews
  <2>. QED  BY <1>1, <1>3, <2>1, SlotsStay DEF Stage, counts
<1>4. CASE ActsOutside
  BY <1>1, <1>4, SlotsStay DEF ActsOutside, counts, ReviewAlive, GoalCore, GoalTypeOK, TurnRows
<1>5. CASE ResumeReview
  <2>1. review'.id = review.id /\ ReviewAlive' = ReviewAlive
    BY <1>5 DEF ResumeReview, ReviewAlive, GoalCore, GoalTypeOK, Reviews
  <2>. QED  BY <1>1, <1>5, <2>1, SlotsStay DEF ResumeReview, counts
<1>6. CASE UNCHANGED goalVars
  BY <1>1, <1>6, SlotsStay DEF goalVars, ReviewAlive
<1>. QED  BY <1>2, <1>3, <1>4, <1>5, <1>6

\* A claim needs a goal that is due: its slot is not ahead.
LEMMA ClaimSlots ==
  ASSUME GoalCore, SlotInv, ClaimGoal
  PROVE  SlotInv'
<1>1. /\ goal'.next = goal.next /\ goal'.retry = goal.retry /\ goal'.claimed /\ ~goal.claimed
      /\ queued' = queued + 1 /\ UNCHANGED <<now, review, ledger, skipped, edits, owned, pauses>>
      /\ queued \in Nat
  BY DEF ClaimGoal, counts, GoalCore, GoalTypeOK, GoalRows
<1>2. /\ Ahead' = Ahead /\ OverRows' = OverRows /\ (Undisturbed' <=> Undisturbed) /\ (Spare' <=> Spare)
      /\ ReviewAlive' = ReviewAlive
  BY <1>1 DEF Ahead, OverRows, Undisturbed, Spare, Jobs, Claims, ReviewAlive
<1>3. SlotInTime' /\ SkippedEnded' /\ RetryAhead' /\ SpareAhead' /\ Unpaused'
  BY <1>1, <1>2 DEF SlotInv, SlotInTime, SkippedEnded, RetryAhead, SpareAhead, Unpaused
<1>. QED  BY <1>3 DEF SlotInv

\* Nothing is said of a goal that the owner or the dashboard changes.
LEMMA DisturbedSlots ==
  ASSUME GoalCore, (\E d \in Outcomes : OwnerDecides(d)) \/ CancelGoal
                   \/ \E st \in {"active", "waiting", "blocked"} : Edit(st)
  PROVE  SlotInv'
<1>1. owned' + edits' # 0
  BY DEF GoalCore, GoalTypeOK, OwnerDecides, CancelGoal, Edit
<1>. QED  BY <1>1 DEF SlotInv, SlotInTime, SkippedEnded, RetryAhead, SpareAhead, Unpaused, Undisturbed

\* A paused review leaves the spare job that Spare counts.
LEMMA PauseSlots ==
  ASSUME GoalCore, SlotInv, PauseReview
  PROVE  SlotInv'
<1>1. /\ pauses' = pauses + 1 /\ pauses \in Nat /\ owned' = owned /\ edits' = edits
      /\ ReviewAlive /\ ReviewAlive' /\ review'.id = review.id
      /\ UNCHANGED <<now, queued, ledger, skipped>> /\ now \in Nat
  BY DEF PauseReview, ReviewAlive, GoalCore, GoalTypeOK, Reviews
<1>2. CASE ~Undisturbed'
  BY <1>2 DEF SlotInv, SlotInTime, SkippedEnded, RetryAhead, SpareAhead, Unpaused
<1>3. CASE Undisturbed'
  <2>1. Undisturbed /\ pauses = 0 /\ pauses' # 0
    BY <1>1, <1>3 DEF Undisturbed
  <2>2. Ahead = {} /\ goal.next <= now
    BY <1>1, <2>1 DEF SlotInv, Unpaused
  <2>3. Ahead' = {} /\ OverRows' = OverRows /\ review.id \notin Ahead
    BY <1>1, <2>2 DEF Ahead, OverRows
  <2>4. goal'.retry = NoTime \/ goal' = goal
    BY DEF PauseReview, WithGoal, Applied
  <2>5. ~(review.id[1] > now)
    BY <1>1, <2>2 DEF GoalCore, ReviewShape, Ahead
  <2>6. SlotInTime' /\ SkippedEnded'
    BY <1>1, <2>1, <2>3 DEF SlotInv, SlotInTime, SkippedEnded
  <2>7. RetryAhead' /\ SpareAhead' /\ Unpaused'
    BY <1>1, <2>1, <2>2, <2>3, <2>4, <2>5 DEF RetryAhead, SpareAhead, Unpaused
  <2>. QED  BY <2>6, <2>7 DEF SlotInv
<1>. QED  BY <1>2, <1>3

\* A restart leaves no spare job.
LEMMA RestartSlots ==
  ASSUME GoalCore, SlotInv, RestartGoals
  PROVE  SlotInv'
<1>1. /\ queued' = 0 /\ ~ReviewAlive' /\ goal'.retry = goal.retry /\ ~goal'.claimed
      /\ goal'.next = goal.next \/ goal.next > now
      /\ UNCHANGED <<now, ledger, skipped, owned, edits, pauses>>
  BY DEF RestartGoals, ReviewAlive, GoalCore, GoalTypeOK, GoalRows
<1>2. /\ Ahead' = Ahead /\ OverRows' = OverRows /\ (Undisturbed' <=> Undisturbed) /\ ~Spare'
  BY <1>1 DEF Ahead, OverRows, Undisturbed, Spare, Jobs, Claims
<1>3. goal.next \in Nat /\ now \in Nat
  BY DEF GoalCore, GoalTypeOK, GoalRows
<1>4. SlotInTime' /\ SkippedEnded' /\ RetryAhead' /\ SpareAhead' /\ Unpaused'
  BY <1>1, <1>2, <1>3 DEF SlotInv, SlotInTime, SkippedEnded, RetryAhead, SpareAhead, Unpaused
<1>. QED  BY <1>4 DEF SlotInv
\* A job left over by an interrupted review is not claimed for a goal that is not due.
LEMMA SpareIsUnclaimed ==
  ASSUME GoalCore, SlotInv, Undisturbed, ReviewAlive, goal.next > now
  PROVE  \/ Spare /\ ~goal.claimed /\ goal.retry = NoTime /\ queued = 0
         \/ ~Spare /\ goal.retry # NoTime
<1>1. /\ queued \in Nat /\ owned + edits = 0 /\ pauses <= 1 /\ pauses \in Nat /\ owned \in Nat /\ edits \in Nat
      /\ goal.claimed \in BOOLEAN /\ now \in Nat /\ goal.next \in Nat
  BY DEF GoalCore, GoalTypeOK, GoalRows, Undisturbed
<1>2. goal.claimed => goal.retry # NoTime
  BY <1>1 DEF GoalCore, ClaimedIsDue, IsDue, DueAt
<1>3. CASE Spare
  <2>1. goal.retry = NoTime
    BY <1>1, <1>3 DEF SlotInv, SpareAhead
  <2>2. queued + 1 <= 0 + pauses + owned + edits
    BY <1>2, <2>1 DEF GoalCore, JobsClaimed, Jobs, Claims
  <2>. QED  BY <1>1, <1>2, <1>3, <2>1, <2>2
<1>4. CASE ~Spare
  BY <1>1, <1>2, <1>4 DEF Spare, Jobs, Claims
<1>. QED  BY <1>3, <1>4

\* A slot that is over without moving the goal back.
LEMMA OverSlots ==
  ASSUME GoalCore, SlotInv, NEW g \in GoalRows, ReviewOver(g), ~g.claimed,
         g.retry # NoTime => g.next = goal.next /\ (ledger' = ledger \/ g.next = NoTime)
  PROVE  SlotInv'
<1>1. /\ ReviewAlive /\ ~ReviewAlive' /\ goal' = g /\ review.id \in DOMAIN ledger
      /\ UNCHANGED <<now, queued, skipped, edits, owned, pauses>>
      /\ now \in Nat /\ queued \in Nat /\ g.next \in Nat /\ goal.next \in Nat
  BY DEF ReviewOver, WithGoal, counts, ReviewAlive, GoalCore, GoalTypeOK, GoalRows, ReviewShape
<1>2. /\ DOMAIN ledger' = DOMAIN ledger
      /\ \A i \in DOMAIN ledger : /\ ledger'[i].early = ledger[i].early
                                  /\ i # review.id => ledger'[i] = ledger[i]
      /\ ledger'[review.id].state \in {"running", "completed", "cancelled"}
      /\ ledger[review.id].state = "running"
  BY EndedRow DEF ReviewOver, GoalCore, GoalTypeOK, ReviewShape
<1>3. Ahead' = Ahead /\ OverRows \subseteq OverRows' /\ (Undisturbed' <=> Undisturbed)
      /\ (Spare' <=> queued > 0)
  BY <1>1, <1>2 DEF Ahead, OverRows, Undisturbed, Spare, Jobs, Claims
<1>4. CASE ~Undisturbed
  BY <1>3, <1>4 DEF SlotInv, SlotInTime, SkippedEnded, RetryAhead, SpareAhead, Unpaused
<1>5. CASE Undisturbed
  <2>1. SlotInTime' /\ SkippedEnded'
    BY <1>1, <1>2, <1>3, <1>5 DEF SlotInv, SlotInTime, SkippedEnded, OverRows
  <2>2. RetryAhead'
    <3>1. SUFFICES ASSUME g.retry # NoTime, g.next > now
                   PROVE  Ahead \cap OverRows' = {}
      BY <1>1, <1>3 DEF RetryAhead
    <3>2. g.next = goal.next /\ ledger' = ledger
      BY <1>1, <3>1
    <3>3. OverRows' = OverRows
      BY <3>2 DEF OverRows
    <3>4. CASE Spare
      BY <1>2, <1>5, <3>3, <3>4 DEF SlotInv, SpareAhead, OverRows
    <3>5. CASE ~Spare
      BY <1>1, <1>5, <3>1, <3>2, <3>3, <3>5, SpareIsUnclaimed DEF SlotInv, RetryAhead
    <3>. QED  BY <3>4, <3>5
  <2>3. SpareAhead'
    <3>1. SUFFICES ASSUME queued > 0
                   PROVE  (g.retry = NoTime \/ g.next <= now) /\ Ahead = {}
      BY <1>1, <1>3 DEF SpareAhead
    <3>2. Spare
      BY <1>1, <3>1 DEF Spare, Jobs, Claims
    <3>3. ~(goal.next > now)
      BY <1>1, <1>5, <3>1, <3>2, SpareIsUnclaimed
    <3>4. Ahead = {}
      BY <1>1, <1>5, <3>2, <3>3 DEF SlotInv, SpareAhead, Ahead
    <3>. QED  BY <1>1, <3>3, <3>4
  <2>4. Unpaused'
    BY <1>1, <1>3, <1>5 DEF SlotInv, Unpaused
  <2>. QED  BY <2>1, <2>2, <2>3, <2>4 DEF SlotInv
<1>. QED  BY <1>4, <1>5

\* The four ways a review ends.
LEMMA EndSlots ==
  ASSUME GoalCore, SlotInv, ReviewEnds \/ ReviewFails \/ ReviewGivenUp \/ ReviewStopped
  PROVE  SlotInv'
<1>0. /\ review.draft \in Drafts /\ NextAt(now) \in Nat \ {0} /\ now + Soon \in Nat \ {0}
      /\ goal \in GoalRows
  BY NextAtNow DEF GoalCore, GoalTypeOK, Reviews
<1>1. ASSUME NEW at \in Nat \ {0}, ReviewOver(MovedOn(goal, at))
      PROVE  SlotInv'
  <2>. DEFINE g == MovedOn(goal, at)
  <2>1. g \in GoalRows /\ ~g.claimed
    BY MovedOnRow DEF GoalCore, ClaimedIsDue, IsDue
  <2>2. CASE edits = 0
    <3>1. g.retry # NoTime => g.next = goal.next /\ g.next = NoTime
      BY <2>2, MovedOnRow DEF GoalCore, OpenHasTime
    <3>. QED  BY <1>1, <2>1, <3>1, OverSlots
  <2>3. CASE edits # 0
    BY <1>1, <2>3 DEF ReviewOver, counts, SlotInv, SlotInTime, SkippedEnded, RetryAhead, SpareAhead,
       Unpaused, Undisturbed, GoalCore, GoalTypeOK
  <2>. QED  BY <2>2, <2>3
<1>2. CASE ReviewEnds /\ review.draft.status = "none"
  <2>1. ReviewOver(MovedOn(goal, NextAt(now)))
    BY <1>2 DEF ReviewEnds, ReviewOver, ReviewAlive
  <2>. QED  BY <1>0, <1>1, <2>1
<1>3. CASE ReviewEnds /\ review.draft.status # "none"
  <2>. DEFINE g == Applied(goal, review.draft)
  <2>1. g \in GoalRows /\ ~g.claimed /\ g.retry = NoTime
    BY <1>0, <1>3, AppliedRow DEF GoalCore, ReviewShape
  <2>2. ReviewOver(g)
    BY <1>3 DEF ReviewEnds, ReviewOver, ReviewAlive
  <2>. QED  BY <2>1, <2>2, OverSlots
<1>4. CASE ReviewFails
  <2>1. ReviewOver(Deferred(goal)) /\ ledger' = ledger
    BY <1>4 DEF ReviewFails, ReviewOver, ReviewAlive
  <2>. QED  BY <2>1, DeferredRow, OverSlots DEF GoalCore
<1>5. CASE ReviewGivenUp
  <2>1. ReviewOver(MovedOn(goal, NextAt(now)))
    BY <1>5 DEF ReviewGivenUp, ReviewOver, ReviewAlive
  <2>. QED  BY <1>0, <1>1, <2>1
<1>6. CASE ReviewStopped
  <2>1. ReviewAlive
    BY <1>6 DEF ReviewStopped, GoalCore, ReviewShape
  <2>2. ReviewOver(MovedOn(goal, now + Soon))
    BY <1>6, <2>1 DEF ReviewStopped, ReviewOver
  <2>. QED  BY <1>0, <1>1, <2>2
<1>. QED  BY <1>2, <1>3, <1>4, <1>5, <1>6
\* When a job is taken, no row of a slot to come is finished already.
LEMMA JobInTime ==
  ASSUME GoalCore, SlotInv, Undisturbed, review = NoReview, queued > 0, goal.next > now
  PROVE  Ahead \cap OverRows = {}
<1>1. /\ ~ReviewAlive /\ queued \in Nat /\ goal.claimed \in BOOLEAN /\ now \in Nat /\ goal.next \in Nat
  BY DEF ReviewAlive, GoalCore, GoalTypeOK, GoalRows
<1>2. CASE Spare
  BY <1>1, <1>2 DEF SlotInv, SpareAhead
<1>3. CASE ~Spare
  <2>1. goal.claimed
    BY <1>1, <1>3 DEF Spare, Jobs, Claims
  <2>2. goal.retry # NoTime
    BY <1>1, <2>1 DEF GoalCore, ClaimedIsDue, IsDue, DueAt
  <2>. QED  BY <2>2 DEF SlotInv, RetryAhead
<1>. QED  BY <1>2, <1>3

\* The slot a starting review finds over was reviewed in its time.
LEMMA StartsSlots ==
  ASSUME GoalCore, SlotInv, ReviewStarts
  PROVE  SlotInv'
<1>. DEFINE job == RowOf(goal.next)  first == <<goal.next, "first">>
<1>1. /\ review = NoReview /\ ~ReviewAlive /\ queued > 0 /\ queued' = queued - 1
      /\ UNCHANGED <<now, edits, owned, pauses>> /\ (Undisturbed' <=> Undisturbed)
      /\ now \in Nat \ {0} /\ queued \in Nat /\ goal.next \in Nat /\ goal.claimed \in BOOLEAN
  BY StartsCases DEF counts, ReviewAlive, GoalCore, GoalTypeOK, GoalRows, Undisturbed
<1>2. CASE ~Undisturbed
  BY <1>1, <1>2 DEF SlotInv, SlotInTime, SkippedEnded, RetryAhead, SpareAhead, Unpaused
<1>3. CASE Undisturbed
  <2>1. job \in Slots /\ job[1] = goal.next /\ job[2] \in {"first", "slot"} /\ edits = 0
    BY <1>1, <1>3, RowOfSlot DEF GoalCore, GoalTypeOK, Undisturbed
  <2>2. job[2] = "slot" => goal.next <= now
    <3>1. SUFFICES ASSUME job[2] = "slot", goal.next > now  PROVE FALSE
      BY <1>1
    <3>2. first \in Ahead \cap OverRows
      BY <1>1, <3>1, RowOfSlot DEF GoalCore, Ahead, OverRows
    <3>. QED  BY <1>1, <1>3, <3>1, <3>2, JobInTime
  <2>3. /\ Begun(job).state = "running" =>
             /\ job \in DOMAIN ledger => job \notin OverRows
             /\ job[2] = "slot" => ~Begun(job).early
        /\ job \in OverRows /\ goal.next # NoTime => ~ledger[job].early
    <3>1. job \in DOMAIN ledger /\ job[2] = "slot" => ~ledger[job].early
      BY <1>3 DEF SlotInv, SlotInTime
    <3>2. Begun(job).state = "running" => (Begun(job).early <=> now < job[1])
      BY <2>1, BegunRow DEF GoalCore
    <3>3. Begun(job).state = "running" /\ job \in DOMAIN ledger => ledger[job].state = "running"
      BY <2>1, BegunRow DEF GoalCore
    <3>4. job \in OverRows /\ job[2] = "first" /\ goal.next # NoTime => ~ledger[job].early
      BY RowOfSlot DEF GoalCore, OverRows
    <3>. QED  BY <1>1, <2>1, <2>2, <3>1, <3>2, <3>3, <3>4 DEF OverRows
  <2>. HIDE DEF job
  <2>4. ASSUME Begun(job).state = "running", ledger' = Written(job, Begun(job)), skipped' = skipped
        PROVE  /\ SlotInTime' /\ SkippedEnded' /\ OverRows' = OverRows
               /\ Ahead' = Ahead \cup (IF goal.next > now THEN {job} ELSE {})
    <3>1. /\ DOMAIN ledger' = DOMAIN ledger \cup {job} /\ ledger'[job] = Begun(job)
          /\ \A i \in DOMAIN ledger : i # job => ledger'[i] = ledger[i]
      BY <2>4 DEF Written
    <3>2. OverRows' = OverRows
      BY <2>3, <2>4, <3>1 DEF OverRows
    <3>3. SlotInTime'
      BY <1>1, <1>3, <2>3, <2>4, <3>1 DEF SlotInv, SlotInTime
    <3>4. SkippedEnded'
      BY <1>1, <1>3, <2>3, <2>4, <3>1, <3>2 DEF SlotInv, SkippedEnded, OverRows
    <3>5. Ahead' = Ahead \cup (IF goal.next > now THEN {job} ELSE {})
      BY <1>1, <2>1, <3>1 DEF Ahead
    <3>. QED  BY <3>2, <3>3, <3>4, <3>5
  <2>5. ASSUME NEW g \in GoalRows, StartsOver(job, g)
        PROVE  SlotInv'
    <3>1. goal' = g /\ ~g.claimed /\ ~ReviewAlive' /\ (g.retry = NoTime \/ g.next = NoTime)
      <4>1. goal' = g /\ ~g.claimed /\ ~ReviewAlive'
        BY <2>1, <2>5, StartsOverRow DEF StartsOver, WithGoal, ReviewAlive
      <4>2. g = Skipped(goal) => g.retry = NoTime \/ g.next = NoTime
        BY <2>1, SkippedRow DEF GoalCore, OpenHasTime
      <4>3. g = MovedOn(goal, NextAt(now)) => g.retry = NoTime \/ g.next = NoTime
        BY <2>1, NextAtNow, MovedOnRow DEF GoalCore, OpenHasTime
      <4>4. ~Open(goal) /\ g = [goal EXCEPT !.claimed = FALSE] => g.next = NoTime
        BY <2>1 DEF GoalCore, GoalTypeOK, GoalRows, OpenHasTime
      <4>5. goal.next = NoTime /\ g = Deferred(goal) => g.next = NoTime
        BY DeferredRow DEF GoalCore
      <4>. QED  BY <2>5, <4>1, <4>2, <4>3, <4>4, <4>5 DEF StartsOver
    <3>2. SlotInTime' /\ SkippedEnded' /\ Ahead' = Ahead
      <4>1. CASE /\ job \in DOMAIN ledger /\ ledger[job].state \in {"completed", "cancelled"}
                 /\ ledger' = ledger /\ skipped' = IF Open(goal) THEN skipped \cup {job} ELSE skipped
        <5>1. Open(goal) => goal.next # NoTime
          BY <2>1 DEF GoalCore, OpenHasTime
        <5>2. Open(goal) => job \in OverRows /\ ~ledger[job].early
          BY <2>3, <4>1, <5>1 DEF OverRows
        <5>. QED  BY <1>1, <1>3, <4>1, <5>2 DEF SlotInv, SlotInTime, SkippedEnded, OverRows, Ahead
      <4>2. CASE job \in DOMAIN ledger /\ ledger' = RowEnds(job, "completed") /\ skipped' = skipped
        <5>1. /\ DOMAIN ledger' = DOMAIN ledger
              /\ \A i \in DOMAIN ledger : /\ ledger'[i].early = ledger[i].early
                                          /\ i # job => ledger'[i] = ledger[i]
              /\ ledger'[job].state = "completed"
          BY <4>2, EndedRow DEF GoalCore
        <5>2. OverRows \subseteq OverRows' /\ Ahead' = Ahead
          BY <1>1, <5>1 DEF OverRows, Ahead
        <5>. QED  BY <1>1, <1>3, <4>2, <5>1, <5>2 DEF SlotInv, SlotInTime, SkippedEnded, OverRows
      <4>3. CASE /\ ~Open(goal) \/ goal.next = NoTime
                 /\ Begun(job).state = "running"
                 /\ ledger' = Written(job, Begun(job)) /\ skipped' = skipped
        <5>1. goal.next = NoTime
          BY <2>1, <4>3 DEF GoalCore, OpenHasTime
        <5>2. /\ SlotInTime' /\ SkippedEnded'
              /\ Ahead' = Ahead \cup (IF goal.next > now THEN {job} ELSE {})
          BY <2>4, <4>3
        <5>3. ~(goal.next > now)
          BY <1>1, <5>1
        <5>. QED  BY <5>2, <5>3
      <4>. QED  BY <2>5, <4>1, <4>2, <4>3 DEF StartsOver
    <3>3. ~(g.retry # NoTime /\ g.next > now) /\ (g.retry = NoTime \/ g.next <= now)
      BY <1>1, <3>1
    <3>4. RetryAhead' /\ Unpaused'
      BY <1>1, <1>3, <3>1, <3>2, <3>3 DEF SlotInv, RetryAhead, Unpaused
    <3>5. SpareAhead'
      <4>1. Spare' => Spare
        BY <1>1, <3>1 DEF Spare, Jobs, Claims
      <4>2. Spare' => Ahead = {}
        BY <1>1, <1>3, <4>1 DEF SlotInv, SpareAhead
      <4>. QED  BY <1>1, <3>1, <3>2, <3>3, <4>2 DEF SpareAhead
    <3>. QED  BY <3>2, <3>4, <3>5 DEF SlotInv
  <2>6. ASSUME StartsReview(job)
        PROVE  SlotInv'
    <3>1. /\ goal' = goal /\ ReviewAlive' /\ review'.id = job
          /\ SlotInTime' /\ SkippedEnded' /\ OverRows' = OverRows
          /\ Ahead' = Ahead \cup (IF goal.next > now THEN {job} ELSE {})
      BY <2>4, <2>6 DEF StartsReview, ReviewAlive
    <3>2. Spare' <=> Spare
      BY <1>1, <3>1 DEF Spare, Jobs, Claims
    <3>3. job \notin OverRows
      BY <2>3, <2>6 DEF StartsReview, OverRows
    <3>4. RetryAhead'
      BY <1>1, <1>3, <3>1, <3>3 DEF SlotInv, RetryAhead
    <3>5. SpareAhead'
      BY <1>1, <1>3, <2>1, <3>1, <3>2 DEF SlotInv, SpareAhead
    <3>6. Unpaused'
      <4>1. SUFFICES ASSUME pauses = 0
                     PROVE  Ahead' = {} /\ (goal.retry # NoTime => goal.next <= now)
                            /\ goal.next <= now /\ goal.claimed
        BY <1>1, <3>1 DEF Unpaused
      <4>2. goal.claimed
        BY <1>1, <1>3, <4>1 DEF GoalCore, GoalTypeOK, JobsClaimed, Jobs, Claims, Undisturbed
      <4>3. goal.next <= now
        BY <1>1, <1>3, <4>1, <4>2 DEF SlotInv, Unpaused, GoalCore, ClaimedIsDue, IsDue, DueAt
      <4>. QED  BY <1>1, <1>3, <3>1, <4>1, <4>2, <4>3 DEF SlotInv, Unpaused
    <3>. QED  BY <3>1, <3>4, <3>5, <3>6 DEF SlotInv
  <2>. QED  BY <2>5, <2>6, StartsCases DEF job
<1>. QED  BY <1>2, <1>3

\* At first no slot has begun.
LEMMA GoalInitSlots ==
  ASSUME GoalInit
  PROVE  SlotInv
BY DEF GoalInit, SlotInv, SlotInTime, SkippedEnded, RetryAhead, SpareAhead, Unpaused, Ahead, OverRows, Spare,
   Jobs, Claims, ReviewAlive

\* SlotInv is inductive above GoalCore.
LEMMA GoalNextSlots ==
  ASSUME GoalCore, SlotInv, [GoalNext]_goalVars
  PROVE  SlotInv'
BY QuietSlots, ClaimSlots, StartsSlots, EndSlots, PauseSlots, DisturbedSlots, RestartSlots DEF GoalNext, GoalWork

\* Goals, their claims, jobs, rows and slots are related as GoalCore and SlotInv say
\* in every reachable state (crontab.py, goals.py).
THEOREM GoalIsInvariant == GoalSpec => [](GoalCore /\ SlotInv)
<1>1. GoalInit => GoalCore /\ SlotInv
  BY GoalInitCore, GoalInitSlots
<1>2. GoalCore /\ SlotInv /\ [GoalNext]_goalVars => GoalCore' /\ SlotInv'
  BY GoalNextCore, GoalNextSlots
<1>. QED  BY <1>1, <1>2, PTL DEF GoalSpec

\* A recurring goal never leaves a slot behind that no review has completed or
\* cancelled, so long as the owner and the dashboard leave it alone and at most one
\* review is paused: the promise of the comment at crontab.py:38, and how far it holds.
THEOREM SlotsAreReviewed == GoalSpec => []SkippedHasRun
<1>1. GoalCore /\ SlotInv => SkippedHasRun
  BY DEF SlotInv, SkippedEnded, Undisturbed, SkippedHasRun
<1>. QED  BY <1>1, GoalIsInvariant, PTL

\* No review of a goal that was closed opens it again: only the owner or the dashboard
\* can, however late the draft of the review is committed.
THEOREM ClosedGoalsStayClosed == GoalSpec => []ClosedStaysClosed
<1>1. GoalCore /\ SlotInv => ClosedStaysClosed
  BY DEF GoalCore
<1>. QED  BY <1>1, GoalIsInvariant, PTL

=============================================================================
