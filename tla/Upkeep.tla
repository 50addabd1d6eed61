------------------------------- MODULE Upkeep -------------------------------
(***************************************************************************)
(* What is done behind the conversation: an owner turn's commit leaves a   *)
(* task of current-state maintenance and, maybe, a batch of memory         *)
(* requests; both wait in the database, are queued once in memory, claimed *)
(* and applied by private turns, and survive failures, /stop and restarts. *)
(* Sources: storage/memory/memory_operations.py, current_state_tasks.py,   *)
(* runtime/workflows/current_state.py and memory_operation/workflow.py.    *)
(***************************************************************************)
EXTENDS Integers, Sequences, FiniteSets

CONSTANTS
  MaxSources,    \* bound: owner turns
  MaxReviews,    \* bound: batches of memory requests
  FailureLimit,  \* MEMORY_OPERATION_MAX_ATTEMPTS: 5
  MaxErrors,     \* bound: errors and timeouts
  MaxBreaks      \* bound: /stop and restarts

ASSUME UpkeepBounds ==
  {MaxSources, MaxReviews, MaxErrors, MaxBreaks} \subseteq Nat /\ FailureLimit \in Nat \ {0}

Sources == 1 .. MaxSources
Reviews == 1 .. MaxReviews

VARIABLES
  source,   \* the owner turns, in the order of their commits: their state
  task,     \* current_state_tasks; late: retry_at is to come; turn: maintenance_turn_id
  changes,  \* current_state_changes, by operation_id: the turns whose change stands
  review,   \* memory_operation_batches, in the order of sequence
  chores,   \* the jobs current_state_maintenance and memory_operation in the queue
  at,       \* what the worker does: the job, its rows and the number of its turn
  unread,   \* pending_events()
  quiet,    \* the owner has been idle long enough for maintenance
  errors, breaks,
  settled   \* history: what was applied, in order: sets of sources, and batches

upkeepVars == <<source, task, changes, review, chores, at, unread, quiet, errors, breaks, settled>>
queueVars == <<source, task, changes, review>>

NoTurn == <<0, 0>>
NoTask == [state |-> "none", late |-> FALSE, attempts |-> 0, turn |-> NoTurn]
OwnerJob(s)  == <<"owner", s>>
StateJob(s)  == <<"current_state", s>>
MemoryJob(b) == <<"memory", b>>
Nothing == [job |-> <<"none", 0>>, rows |-> {}, turn |-> NoTurn]

IsFirst(x, S) == x \in S /\ \A y \in S : x <= y
Requested == {b \in Reviews : review[b].state # "none"}

-----------------------------------------------------------------------------
(***************************************************************************)
(* The queues.                                                             *)
(***************************************************************************)

\* current_state_batch_status: tasks that wait or run, of turns that completed.
Waiting == {s \in Sources : task[s].state \in {"pending", "running"} /\ source[s] = "completed"}
StateHead(s) == IsFirst(s, Waiting) /\ task[s].state = "pending"

\* pending_memory_operation: the first batch that waits or runs, if it is due.
MemoryHead(b) ==
  /\ IsFirst(b, {c \in Reviews : review[c].state \in {"pending", "running"}})
  /\ review[b].state = "pending" /\ ~review[b].late

Idle == at = Nothing
StateReady(s) == StateHead(s) /\ ~task[s].late /\ quiet /\ ~unread

\* _queue_memory_operations: at the end of the turn that asked, in its transaction.
Queues(asked) ==
  IF asked THEN \E b \in Reviews : /\ IsFirst(b, Reviews \ Requested)
                                   /\ review' = [review EXCEPT ![b].state = "pending"]
           ELSE UNCHANGED review

\* The scheduler: a job per head, unless it is queued or runs.
Schedule ==
  /\ LET wanted == {StateJob(s) : s \in {s \in Sources : StateReady(s) /\ Idle}}
                     \cup {MemoryJob(b) : b \in {b \in Reviews : MemoryHead(b)}}
         new    == (wanted \ chores) \ {at.job}
     IN  new # {} /\ chores' = chores \cup new
  /\ UNCHANGED <<queueVars, at, unread, quiet, errors, breaks, settled>>

-----------------------------------------------------------------------------
(***************************************************************************)
(* The owner's turns.                                                      *)
(***************************************************************************)

OwnerSays ==
  /\ ~unread /\ \E s \in Sources : source[s] = "none"
  /\ unread' = TRUE /\ quiet' = FALSE
  /\ UNCHANGED <<queueVars, chores, at, errors, breaks, settled>>

OwnerStarts ==
  /\ Idle /\ unread
  /\ \E s \in Sources :
       /\ IsFirst(s, {x \in Sources : source[x] \in {"none", "running"}})
       /\ source' = [source EXCEPT ![s] = "running"]
       /\ at' = [job |-> OwnerJob(s), rows |-> {s}, turn |-> NoTurn]
  /\ UNCHANGED <<task, changes, review, chores, unread, quiet, errors, breaks, settled>>

\* stage_current_state_task, when the turn has nothing left to do.
StageState ==
  /\ at.job[1] = "owner"
  /\ \E s \in at.rows : task[s].state = "none" /\ task' = [task EXCEPT ![s].state = "staged"]
  /\ UNCHANGED <<source, changes, review, chores, at, unread, quiet, errors, breaks, settled>>

\* The commit activates the task (a trigger on turns) and queues what was asked.
OwnerCommits ==
  /\ at.job[1] = "owner" /\ at' = Nothing /\ unread' = FALSE
  /\ \E s \in at.rows, asked \in BOOLEAN :
       /\ source' = [source EXCEPT ![s] = "completed"]
       /\ task' = [task EXCEPT ![s].state = IF @ = "staged" THEN "pending" ELSE @]
       /\ Queues(asked)
  /\ UNCHANGED <<changes, chores, quiet, errors, breaks, settled>>

\* /stop cancels the turn and deletes its task; what it asked is dropped.
OwnerStops ==
  /\ at.job[1] = "owner" /\ breaks < MaxBreaks /\ breaks' = breaks + 1
  /\ at' = Nothing /\ unread' = FALSE
  /\ \E s \in at.rows : /\ source' = [source EXCEPT ![s] = "cancelled"]
                        /\ task' = [task EXCEPT ![s] = NoTask]
  /\ UNCHANGED <<changes, review, chores, quiet, errors, settled>>

BecomesQuiet ==
  /\ ~quiet /\ ~unread /\ quiet' = TRUE
  /\ UNCHANGED <<queueVars, chores, at, unread, errors, breaks, settled>>

-----------------------------------------------------------------------------
(***************************************************************************)
(* Current-state maintenance.                                              *)
(***************************************************************************)

\* Slip: the claim does not look for it.
StandsNever(s) == FALSE

\* A change of the head's last turn may stand already: then its tasks are done.
Stands(s) == task[s].turn \in changes

Due == {s \in Waiting : task[s].state = "pending" /\ ~task[s].late}

\* claim_current_state_batch: the head, and as many of the tasks behind it as fit.
ClaimState(s) ==
  LET turn == <<s, task[s].attempts + 1>> IN
  \/ /\ ~StateHead(s) /\ at' = Nothing /\ UNCHANGED task
  \/ /\ StateHead(s) /\ Stands(s)
     /\ task' = [x \in Sources |-> IF task[x].turn = task[s].turn
                                   THEN [task[x] EXCEPT !.state = "completed"] ELSE task[x]]
     /\ at' = Nothing
  \/ /\ StateHead(s) /\ ~Stands(s)
     /\ \E last \in Due :
          LET rows == {x \in Due : x <= last}
          IN  /\ task' = [x \in Sources |->
                   IF x \in rows THEN [task[x] EXCEPT !.state = "running", !.attempts = @ + 1, !.turn = turn]
                                 ELSE task[x]]
              /\ at' = [job |-> StateJob(s), rows |-> rows, turn |-> turn]

\* The worker takes the job; the batch may have ceased to be ready.
TakeState(s) ==
  /\ Idle /\ ~unread /\ StateJob(s) \in chores /\ chores' = chores \ {StateJob(s)}
  /\ IF StateReady(s) THEN ClaimState(s) ELSE UNCHANGED <<task, at>>
  /\ UNCHANGED <<source, changes, review, unread, quiet, errors, breaks, settled>>

Maintains == at.job[1] = "current_state"

\* release_current_state_batch and recover_current_state_tasks.
Returned(rows, late) ==
  [x \in Sources |-> IF x \in rows /\ task[x].turn = at.turn /\ task[x].state = "running"
                     THEN [task[x] EXCEPT !.state = "pending", !.late = late] ELSE task[x]]

\* current_state_finish, its first transaction: the change.
AppliesState ==
  /\ Maintains /\ at.turn \notin changes
  /\ \A x \in at.rows : task[x].state = "running" /\ task[x].turn = at.turn
  /\ changes' = changes \cup {at.turn}
  /\ settled' = Append(settled, <<"source", at.rows>>)
  /\ UNCHANGED <<source, task, review, chores, at, unread, quiet, errors, breaks>>

\* Its second: the requests of the review, and the end of the tasks and of the turn.
FinishesState ==
  /\ Maintains /\ at.turn \in changes
  /\ \E asked \in BOOLEAN : Queues(asked)
  /\ task' = [x \in Sources |-> IF x \in at.rows THEN [task[x] EXCEPT !.state = "completed"] ELSE task[x]]
  /\ at' = Nothing
  /\ UNCHANGED <<source, changes, chores, unread, quiet, errors, breaks, settled>>

\* An error or the timeout: again in a minute.
StateFails ==
  /\ Maintains /\ at.turn \notin changes /\ errors < MaxErrors /\ errors' = errors + 1
  /\ task' = Returned(at.rows, TRUE) /\ at' = Nothing
  /\ UNCHANGED <<source, changes, review, chores, unread, quiet, breaks, settled>>

-----------------------------------------------------------------------------
(***************************************************************************)
(* Memory requests.                                                        *)
(***************************************************************************)

\* claim_memory_operation, unless the owner wrote since the job was chosen.
TakeMemory(b) ==
  /\ Idle /\ MemoryJob(b) \in chores /\ chores' = chores \ {MemoryJob(b)}
  /\ IF ~unread /\ MemoryHead(b)
     THEN /\ review' = [review EXCEPT ![b].state = "running", ![b].attempts = @ + 1]
          /\ at' = [job |-> MemoryJob(b), rows |-> {b}, turn |-> <<b, review[b].attempts + 1>>]
     ELSE UNCHANGED <<review, at>>
  /\ UNCHANGED <<source, task, changes, unread, quiet, errors, breaks, settled>>

Reviewing(b) == at.job = MemoryJob(b)

\* apply_memory_operation: the memories, the batch and the turn in one transaction.
AppliesMemory(b) ==
  /\ Reviewing(b) /\ review[b].state = "running"
  /\ review' = [review EXCEPT ![b].state = "completed"]
  /\ settled' = Append(settled, <<"batch", {b}>>) /\ at' = Nothing
  /\ UNCHANGED <<source, task, changes, chores, unread, quiet, errors, breaks>>

\* release_memory_operation after an error: the limit is on failures.
MemoryFails(b) ==
  /\ Reviewing(b) /\ errors < MaxErrors /\ errors' = errors + 1
  /\ LET failures == review[b].failures + 1
     IN  review' = [review EXCEPT ![b].failures = failures,
                                  ![b].state = IF failures >= FailureLimit THEN "failed" ELSE "pending",
                                  ![b].late = failures < FailureLimit]
  /\ at' = Nothing
  /\ UNCHANGED <<source, task, changes, chores, unread, quiet, breaks, settled>>

-----------------------------------------------------------------------------
(***************************************************************************)
(* /stop, restarts and time.                                               *)
(***************************************************************************)

\* The batch goes back as it was.
Interrupted(b) == [review EXCEPT ![b].state = "pending", ![b].late = FALSE]

\* /stop during a private turn: no failure.
StopUpkeep ==
  /\ breaks < MaxBreaks /\ breaks' = breaks + 1
  /\ \/ /\ Maintains /\ at.turn \notin changes
        /\ task' = Returned(at.rows, FALSE) /\ UNCHANGED review
     \/ /\ \E b \in Reviews : Reviewing(b) /\ review' = Interrupted(b)
        /\ UNCHANGED task
  /\ at' = Nothing
  /\ UNCHANGED <<source, changes, chores, unread, quiet, errors, settled>>

\* Slip: a batch that ran stays so.
ReviewsStay == review

\* recover_memory_operations.
ReviewsBack == [b \in Reviews |-> IF review[b].state = "running"
                                  THEN [review[b] EXCEPT !.state = "pending", !.late = FALSE] ELSE review[b]]

\* Slip: a task that ran is taken for done.
TasksDone ==
  [s \in Sources |->
    CASE task[s].state = "running" -> [task[s] EXCEPT !.state = "completed"]
      [] task[s].state = "staged"  -> NoTask
      [] OTHER -> task[s]]

\* recover_current_state_tasks: what ran waits again, what was only staged goes.
TasksBack ==
  [s \in Sources |->
    CASE task[s].state = "running" -> [task[s] EXCEPT !.state = "pending", !.late = FALSE]
      [] task[s].state = "staged"  -> NoTask
      [] OTHER -> task[s]]

RestartUpkeep ==
  /\ breaks < MaxBreaks /\ breaks' = breaks + 1
  /\ review' = ReviewsBack /\ task' = TasksBack
  /\ chores' = {} /\ at' = Nothing /\ quiet' = FALSE
  /\ UNCHANGED <<source, changes, unread, errors, settled>>

\* A retry time comes; the tasks of one turn were released with one retry_at.
RetryComes ==
  /\ \/ /\ \E s \in Sources : /\ task[s].late
                             /\ task' = [x \in Sources |-> [task[x] EXCEPT !.late = @ /\ task[x].turn # task[s].turn]]
        /\ UNCHANGED review
     \/ \E b \in Reviews : review[b].late /\ review' = [review EXCEPT ![b].late = FALSE] /\ UNCHANGED task
  /\ UNCHANGED <<source, changes, chores, at, unread, quiet, errors, breaks, settled>>

-----------------------------------------------------------------------------
UpkeepInit ==
  /\ source = [s \in Sources |-> "none"] /\ task = [s \in Sources |-> NoTask] /\ changes = {}
  /\ review = [b \in Reviews |-> [state |-> "none", late |-> FALSE, attempts |-> 0, failures |-> 0]]
  /\ chores = {} /\ at = Nothing /\ unread = FALSE /\ quiet = FALSE
  /\ errors = 0 /\ breaks = 0 /\ settled = <<>>

UpkeepWork ==
  \/ (\E s \in Sources : TakeState(s)) \/ AppliesState \/ FinishesState
  \/ \E b \in Reviews : TakeMemory(b) \/ AppliesMemory(b)

UpkeepNext ==
  \/ UpkeepWork \/ Schedule
  \/ OwnerSays \/ OwnerStarts \/ StageState \/ OwnerCommits \/ OwnerStops \/ BecomesQuiet
  \/ StateFails \/ (\E b \in Reviews : MemoryFails(b))
  \/ StopUpkeep \/ RestartUpkeep \/ RetryComes

UpkeepSpec == UpkeepInit /\ [][UpkeepNext]_upkeepVars

\* The scheduler and the worker go on, a change of the state is followed by the rest of
\* its tool call, time passes. That turns end is no part of it: only those of the current
\* state have a timeout, and owner and memory turns no limit by default.
UpkeepFairness ==
  /\ WF_upkeepVars(Schedule) /\ WF_upkeepVars(RetryComes) /\ WF_upkeepVars(BecomesQuiet)
  /\ WF_upkeepVars(OwnerStarts) /\ WF_upkeepVars(FinishesState)
  /\ \A s \in Sources : SF_upkeepVars(TakeState(s))
  /\ \A b \in Reviews : SF_upkeepVars(TakeMemory(b))

FairUpkeepSpec == UpkeepSpec /\ UpkeepFairness

-----------------------------------------------------------------------------
\* The shape of the state.
UpkeepTypeOK ==
  /\ source \in [Sources -> {"none", "running", "completed", "cancelled"}]
  /\ \A s \in Sources : task[s].state \in {"none", "staged", "pending", "running", "completed"}
  /\ \A b \in Reviews : /\ review[b].state \in {"none", "pending", "running", "completed", "failed"}
                        /\ review[b].failures <= FailureLimit
  /\ chores \subseteq ({StateJob(s) : s \in Sources} \cup {MemoryJob(b) : b \in Reviews})

\* What the owner said changes the current state once, and a batch of requests the
\* memories once, in the order they were committed: the changes of a turn that died between
\* its two transactions are found again, and a batch that waits for its retry holds up
\* those behind it (current_state_tasks.py claim, memory_operations.py pending).
SettledOnceInOrder ==
  \A i, j \in DOMAIN settled :
    i < j /\ settled[i][1] = settled[j][1] =>
      \A x \in settled[i][2], y \in settled[j][2] : x < y

Applied(kind) == UNION {settled[i][2] : i \in {j \in DOMAIN settled : settled[j][1] = kind}}

\* A task that counts as completed has changed the state, a batch that counts as completed
\* the memories: nothing is closed by a restart alone.
ClosedWasApplied ==
  /\ \A s \in Sources : task[s].state = "completed" => s \in Applied("source")
  /\ \A b \in Reviews : review[b].state = "completed" => b \in Applied("batch")

\* Premise: no turn of the owner, of the current state or of the memory works for ever.
UpkeepTurnsEnd == []<>(at = Nothing)

\* If turns end, every task and every batch settles, whatever failed before.
UpkeepSettles ==
  UpkeepTurnsEnd =>
    /\ \A s \in Sources : task[s].state = "pending" ~> task[s].state = "completed"
    /\ \A b \in Reviews : review[b].state = "pending" ~> review[b].state \in {"completed", "failed"}
=============================================================================
