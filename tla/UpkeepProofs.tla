---------------------------- MODULE UpkeepProofs ----------------------------
(***************************************************************************)
(* Proofs about Upkeep and Episodes, the two parts of MCUpkeep, for all    *)
(* bounds.  UpkeepInv says which rows the worker holds and how tasks stand *)
(* to turns that were applied, so that what is settled is settled once and *)
(* in order.  EpisodeInv says of an Episode that the summary covers the    *)
(* first turns of its history as they stand, through turns that are filed  *)
(* late, ranges that fail and restarts.                                    *)
(***************************************************************************)
EXTENDS MCUpkeep, SequenceTheorems, FiniteSetTheorems, TLAPS

\* The rows.
TaskStates   == {"none", "staged", "pending", "running", "completed"}
ReviewStates == {"none", "pending", "running", "completed", "failed"}
Turns   == (0 .. MaxSources) \X Nat
Tasks   == [state : TaskStates, late : BOOLEAN, attempts : Nat, turn : Turns]
Batches == [state : ReviewStates, late : BOOLEAN, attempts : Nat, failures : 0 .. FailureLimit]
Entries == ({"source"} \X SUBSET Sources) \cup ({"batch"} \X SUBSET Reviews)
Standing(x) == task[x].turn \in changes
BatchOpen(b) == review[b].state \in {"pending", "running"}

RowsOK ==
  /\ source \in [Sources -> {"none", "running", "completed", "cancelled"}]
  /\ task \in [Sources -> Tasks] /\ review \in [Reviews -> Batches]
  /\ settled \in Seq(Entries)
  /\ chores \subseteq ({StateJob(s) : s \in Sources} \cup {MemoryJob(b) : b \in Reviews})

\* What the worker holds.
OwnerAt(s) == at = [job |-> OwnerJob(s), rows |-> {s}, turn |-> NoTurn] /\ source[s] = "running"

StateAt(s) ==
  /\ at.job = StateJob(s) /\ at.rows \subseteq Waiting
  /\ at.turn[1] \in Sources /\ at.turn[2] \in 1 .. task[at.turn[1]].attempts
  /\ \A x \in at.rows : task[x].state = "running"
  /\ \A x \in Sources : x \in at.rows <=> task[x].turn = at.turn
  /\ \A x \in at.rows, y \in Waiting \ at.rows : x < y
  /\ \A x \in Sources : ~task[x].late

MemoryAt(b) == at.job = MemoryJob(b) /\ review[b].state = "running" /\ \A c \in Reviews : BatchOpen(c) => b <= c

WorkerHolds ==
  \/ at = Nothing
  \/ \E s \in Sources : OwnerAt(s) \/ StateAt(s)
  \/ \E b \in Reviews : MemoryAt(b)

\* Owner turns run one after another.
SourcesInOrder ==
  \A x, y \in Sources :
    source[x] # "none" /\ source[y] \in {"none", "running"} /\ x # y => x < y

\* A task runs only in the worker, is pending after a committed turn, and is completed
\* only by a turn whose changes stand.
TaskShape ==
  \A s \in Sources :
    /\ task[s].state \in {"none", "staged"} =>
         task[s].turn = NoTurn /\ task[s].attempts = 0 /\ ~task[s].late
    /\ task[s].state \in {"pending", "running", "completed"} => source[s] = "completed"
    /\ task[s].late => task[s].state = "pending"
    /\ task[s].state = "running" => Maintains /\ s \in at.rows
    /\ task[s].state = "completed" => Standing(s)

\* Turns are named by their first source and the attempt.
TurnsCounted ==
  /\ \A c \in changes : c[1] \in Sources /\ c[2] \in 1 .. task[c[1]].attempts
  /\ \A s \in Sources : task[s].turn[1] \in Sources => task[s].turn[2] <= task[task[s].turn[1]].attempts

\* Changes that stand came before those that wait, and tasks of one turn wait together.
StandingFirst ==
  \A x \in Sources, y \in Waiting : Standing(x) /\ ~Standing(y) => x < y

LateTogether ==
  \A x \in Sources, y \in Waiting : task[x].late /\ y <= x => task[y].late /\ task[y].turn = task[x].turn

\* What was applied is what stands.
SourcesApplied == \A s \in Sources : s \in Applied("source") <=> Standing(s)

\* Batches are closed in order, and applied when completed.
BatchesInOrder ==
  /\ \A b, c \in Reviews : review[b].state # "none" /\ review[c].state = "none" => b < c
  /\ \A b, c \in Reviews : review[b].state = "completed" /\ BatchOpen(c) => b < c
  /\ \A b \in Reviews : review[b].state # "failed" => review[b].failures < FailureLimit
  /\ \A b \in Reviews : b \in Applied("batch") <=> review[b].state = "completed"

UpkeepInv ==
  /\ RowsOK /\ WorkerHolds /\ SourcesInOrder /\ TaskShape /\ TurnsCounted /\ StandingFirst
  /\ LateTogether /\ SourcesApplied /\ BatchesInOrder /\ SettledOnceInOrder

\* One more entry.
LEMMA AppliedGrows ==
  ASSUME settled \in Seq(Entries), NEW e \in Entries, settled' = Append(settled, e), NEW k
  PROVE  Applied(k)' = IF e[1] = k THEN Applied(k) \cup e[2] ELSE Applied(k)
<1>. DEFINE n == Len(settled)
<1>1. /\ n \in Nat /\ DOMAIN settled = 1 .. n /\ DOMAIN settled' = 1 .. n + 1
      /\ \A i \in 1 .. n : settled'[i] = settled[i]
      /\ settled'[n + 1] = e
  OBVIOUS
<1>2. \A x : x \in Applied(k) <=> \E i \in 1 .. n : settled[i][1] = k /\ x \in settled[i][2]
  BY <1>1 DEF Applied
<1>3. \A x : x \in Applied(k)' <=> \E i \in 1 .. n + 1 : settled'[i][1] = k /\ x \in settled'[i][2]
  BY <1>1 DEF Applied
<1>. HIDE DEF n
<1>4. 1 .. n + 1 = (1 .. n) \cup {n + 1}
  BY <1>1
<1>5. \A x : x \in Applied(k)' <=> x \in Applied(k) \/ (e[1] = k /\ x \in e[2])
  BY <1>1, <1>2, <1>3, <1>4
<1>. QED  BY <1>5

\* An entry behind all others of its kind keeps the order.
LEMMA SettledGrows ==
  ASSUME settled \in Seq(Entries), SettledOnceInOrder, NEW e \in Entries, settled' = Append(settled, e),
         \A x \in Applied(e[1]), y \in e[2] : x < y
  PROVE  SettledOnceInOrder'
<1>. DEFINE n == Len(settled)
<1>1. /\ n \in Nat /\ DOMAIN settled = 1 .. n /\ DOMAIN settled' = 1 .. n + 1
      /\ \A i \in 1 .. n : settled'[i] = settled[i]
      /\ settled'[n + 1] = e
  OBVIOUS
<1>2. \A i \in 1 .. n : settled[i][1] = e[1] => settled[i][2] \subseteq Applied(e[1])
  BY <1>1 DEF Applied
<1>. HIDE DEF n
<1>3. SUFFICES ASSUME NEW i \in 1 .. n + 1, NEW j \in 1 .. n + 1, i < j, settled'[i][1] = settled'[j][1],
                      NEW x \in settled'[i][2], NEW y \in settled'[j][2]
               PROVE  x < y
  BY <1>1 DEF SettledOnceInOrder
<1>4. i \in 1 .. n /\ settled'[i] = settled[i]
  BY <1>1, <1>3
<1>5. CASE j \in 1 .. n
  BY <1>1, <1>3, <1>4, <1>5 DEF SettledOnceInOrder
<1>6. CASE j = n + 1
  BY <1>1, <1>2, <1>3, <1>4, <1>6
<1>. QED  BY <1>1, <1>5, <1>6

\* The fields of a task.
LEMMA TaskTypes ==
  ASSUME RowsOK, NEW s \in Sources
  PROVE  /\ task[s] \in Tasks /\ task[s].state \in TaskStates /\ task[s].late \in BOOLEAN
         /\ task[s].attempts \in Nat /\ task[s].turn \in Turns /\ s \in Nat
BY UpkeepBounds DEF RowsOK, Tasks, Sources

\* Where the worker holds no maintenance, no task runs; where it holds nothing, its rows
\* are nobody's.
LEMMA WorkerCases ==
  ASSUME UpkeepInv
  PROVE  /\ at = Nothing => ~Maintains /\ at.job[1] # "owner" /\ \A b \in Reviews : ~Reviewing(b)
         /\ Maintains => \E s \in Sources : StateAt(s)
         /\ at.job[1] = "owner" => \E s \in Sources : OwnerAt(s)
         /\ \A b \in Reviews : Reviewing(b) => MemoryAt(b) /\ ~Maintains
         /\ ~Maintains => \A s \in Sources : task[s].state # "running"
<1>1. Nothing.job[1] = "none"
  BY DEF Nothing
<1>2. \A s \in Sources : OwnerAt(s) => at.job[1] = "owner"
  BY DEF OwnerAt, OwnerJob
<1>3. \A s \in Sources : StateAt(s) => at.job[1] = "current_state"
  BY DEF StateAt, StateJob
<1>4. \A b \in Reviews : MemoryAt(b) => at.job[1] = "memory" /\ at.job = MemoryJob(b)
  BY DEF MemoryAt, MemoryJob
<1>5. \A b \in Reviews : Reviewing(b) => at.job = MemoryJob(b) /\ at.job[1] = "memory"
  BY DEF Reviewing, MemoryJob
<1>6. \A b, c \in Reviews : MemoryJob(b) = MemoryJob(c) => b = c
  BY DEF MemoryJob
<1>7. WorkerHolds
  BY DEF UpkeepInv
<1>8. \A b \in Reviews : Reviewing(b) => MemoryAt(b)
  BY <1>1, <1>2, <1>3, <1>4, <1>5, <1>6, <1>7 DEF WorkerHolds
<1>9. Maintains => \E s \in Sources : StateAt(s)
  BY <1>1, <1>2, <1>4, <1>7 DEF WorkerHolds, Maintains
<1>10. at.job[1] = "owner" => \E s \in Sources : OwnerAt(s)
  BY <1>1, <1>3, <1>4, <1>7 DEF WorkerHolds
<1>11. ~Maintains => \A s \in Sources : task[s].state # "running"
  BY DEF UpkeepInv, TaskShape
<1>. QED  BY <1>1, <1>5, <1>8, <1>9, <1>10, <1>11 DEF Maintains

SourceSide == SourcesInOrder /\ TaskShape /\ TurnsCounted /\ StandingFirst /\ LateTogether /\ SourcesApplied
BatchSide  == BatchesInOrder /\ SettledOnceInOrder

\* A step that leaves the tasks alone.
LEMMA TasksKept ==
  ASSUME UpkeepInv, UNCHANGED <<source, task, changes>>, Applied("source")' = Applied("source"),
         UNCHANGED at \/ ~Maintains
  PROVE  SourceSide' /\ Waiting' = Waiting
<1>1. Waiting' = Waiting
  BY DEF Waiting
<1>2. \A x \in Sources : task[x].state = "running" => (Maintains /\ x \in at.rows)'
  BY WorkerCases DEF UpkeepInv, TaskShape, Maintains
<1>. QED
  BY <1>1, <1>2 DEF UpkeepInv, SourceSide, SourcesInOrder, TaskShape, TurnsCounted, StandingFirst,
                    LateTogether, SourcesApplied, Standing

\* A step that leaves the batches alone.
LEMMA BatchesKept ==
  ASSUME UpkeepInv, UNCHANGED <<review, settled>>
  PROVE  BatchSide' /\ Applied("source")' = Applied("source")
BY DEF UpkeepInv, BatchSide, BatchesInOrder, SettledOnceInOrder, BatchOpen, Applied

\* What waits in the queue or in the owner's hands.
LEMMA QuietSteps ==
  ASSUME UpkeepInv, UNCHANGED <<source, task, changes, review, at, settled>>,
         chores' \subseteq ({StateJob(s) : s \in Sources} \cup {MemoryJob(b) : b \in Reviews})
  PROVE  UpkeepInv'
<1>1. RowsOK'
  BY DEF UpkeepInv, RowsOK
<1>2. SourceSide' /\ BatchSide' /\ Waiting' = Waiting
  BY TasksKept, BatchesKept
<1>3. WorkerHolds'
  BY <1>2 DEF UpkeepInv, WorkerHolds, OwnerAt, StateAt, MemoryAt, BatchOpen
<1>. QED  BY <1>1, <1>2, <1>3 DEF UpkeepInv, SourceSide, BatchSide

\* Chores are queued.
LEMMA QueueSteps ==
  ASSUME UpkeepInv, Schedule \/ OwnerSays \/ BecomesQuiet
  PROVE  UpkeepInv'
<1>1. chores' \subseteq ({StateJob(s) : s \in Sources} \cup {MemoryJob(b) : b \in Reviews})
  BY DEF Schedule, OwnerSays, BecomesQuiet, UpkeepInv, RowsOK
<1>. QED  BY <1>1, QuietSteps DEF Schedule, OwnerSays, BecomesQuiet, queueVars

\* _queue_memory_operations adds a batch behind all the others.
LEMMA QueuesStep ==
  ASSUME UpkeepInv, NEW asked \in BOOLEAN, Queues(asked), UNCHANGED settled
  PROVE  /\ review' \in [Reviews -> Batches] /\ BatchSide'
         /\ Applied("source")' = Applied("source")
<1>1. CASE UNCHANGED review
  BY <1>1, BatchesKept DEF UpkeepInv, RowsOK
<1>2. ASSUME NEW b \in Reviews, IsFirst(b, Reviews \ Requested),
             review' = [review EXCEPT ![b].state = "pending"]
      PROVE  review' \in [Reviews -> Batches] /\ BatchSide'
  <2>1. /\ review \in [Reviews -> Batches] /\ review[b].state = "none" /\ b \in Nat
        /\ \A c \in Reviews : c \in Nat /\ (review[c].state = "none" => b <= c)
    BY <1>2, UpkeepBounds DEF UpkeepInv, RowsOK, IsFirst, Requested, Reviews
  <2>2. /\ review' \in [Reviews -> Batches] /\ review'[b].state = "pending"
        /\ review'[b].failures = review[b].failures
        /\ \A c \in Reviews : c # b => review'[c] = review[c]
    BY <1>2, <2>1 DEF Batches, ReviewStates
  <2>3. Applied("batch")' = Applied("batch") /\ SettledOnceInOrder'
    BY DEF Applied, UpkeepInv, SettledOnceInOrder
  <2>4. BatchesInOrder'
    <3>1. \A x, y \in Reviews : review'[x].state # "none" /\ review'[y].state = "none" => x < y
      BY <2>1, <2>2 DEF UpkeepInv, BatchesInOrder
    <3>2. \A x, y \in Reviews : review'[x].state = "completed" /\ BatchOpen(y)' => x < y
      BY <2>1, <2>2 DEF UpkeepInv, BatchesInOrder, BatchOpen
    <3>3. \A x \in Reviews : review'[x].state # "failed" => review'[x].failures < FailureLimit
      BY <2>1, <2>2 DEF UpkeepInv, BatchesInOrder, BatchOpen
    <3>4. \A x \in Reviews : x \in Applied("batch")' <=> review'[x].state = "completed"
      BY <2>1, <2>2, <2>3 DEF UpkeepInv, BatchesInOrder
    <3>. QED  BY <3>1, <3>2, <3>3, <3>4 DEF BatchesInOrder
  <2>. QED  BY <2>2, <2>3, <2>4 DEF BatchSide
<1>3. Applied("source")' = Applied("source")
  BY DEF Applied
<1>. QED  BY <1>1, <1>2, <1>3 DEF Queues

-----------------------------------------------------------------------------
\* The owner turn starts.
LEMMA OwnerStartsStep ==
  ASSUME UpkeepInv, OwnerStarts
  PROVE  UpkeepInv'
<1>1. PICK s \in Sources :
        /\ IsFirst(s, {x \in Sources : source[x] \in {"none", "running"}})
        /\ source' = [source EXCEPT ![s] = "running"]
        /\ at' = [job |-> OwnerJob(s), rows |-> {s}, turn |-> NoTurn]
  BY DEF OwnerStarts
<1>2. at = Nothing /\ UNCHANGED <<task, changes, review, chores, settled>>
  BY DEF OwnerStarts, Idle
<1>3. /\ source[s] \in {"none", "running"} /\ source'[s] = "running"
      /\ \A x \in Sources : x # s => source'[x] = source[x]
      /\ \A x \in Sources : source[x] \in {"none", "running"} => s <= x
      /\ \A x \in Sources : x \in Nat
  BY <1>1, UpkeepBounds DEF IsFirst, UpkeepInv, RowsOK, Sources
<1>4. RowsOK'
  BY <1>1, <1>2 DEF UpkeepInv, RowsOK
<1>5. WorkerHolds'
  BY <1>1, <1>3 DEF WorkerHolds, OwnerAt
<1>6. SourcesInOrder'
  BY <1>3 DEF UpkeepInv, SourcesInOrder
<1>7. Waiting' = Waiting
  BY <1>2, <1>3 DEF Waiting
<1>8. TaskShape'
  <2>1. \A x \in Sources : task[x].state # "running"
    BY <1>2, WorkerCases
  <2>2. \A x \in Sources : task[x].state \in {"pending", "running", "completed"} => source'[x] = "completed"
    BY <1>3 DEF UpkeepInv, TaskShape
  <2>. QED  BY <1>2, <2>1, <2>2 DEF UpkeepInv, TaskShape, Standing
<1>9. BatchSide' /\ TurnsCounted' /\ StandingFirst' /\ LateTogether' /\ SourcesApplied'
  BY <1>2, <1>7, BatchesKept DEF UpkeepInv, TurnsCounted, StandingFirst, LateTogether, SourcesApplied, Standing
<1>. QED  BY <1>4, <1>5, <1>6, <1>8, <1>9 DEF SourceSide, BatchSide, UpkeepInv

\* It stages a change of state.
LEMMA StageStep ==
  ASSUME UpkeepInv, StageState
  PROVE  UpkeepInv'
<1>1. PICK s \in Sources : OwnerAt(s)
  BY WorkerCases DEF StageState
<1>2. /\ task[s].state = "none" /\ task' = [task EXCEPT ![s].state = "staged"]
      /\ UNCHANGED <<source, changes, review, chores, at, settled>>
  BY <1>1 DEF StageState, OwnerAt
<1>3. /\ task' \in [Sources -> Tasks] /\ task'[s].state = "staged" /\ task'[s].turn = task[s].turn
      /\ (task'[s].late <=> task[s].late) /\ task'[s].attempts = task[s].attempts
      /\ \A x \in Sources : x # s => task'[x] = task[x]
  BY <1>2, TaskTypes DEF UpkeepInv, RowsOK, Tasks, TaskStates
<1>4. RowsOK' /\ WorkerHolds'
  BY <1>1, <1>2, <1>3 DEF UpkeepInv, RowsOK, WorkerHolds, OwnerAt
<1>5. Waiting' = Waiting
  BY <1>2, <1>3 DEF Waiting
<1>6. TaskShape'
  BY <1>2, <1>3 DEF UpkeepInv, TaskShape, Standing, Maintains
<1>7. \A x \in Sources : task'[x].turn = task[x].turn /\ task'[x].attempts = task[x].attempts
  BY <1>3
<1>8. \A x \in Sources : task'[x].late <=> task[x].late
  BY <1>3
<1>9. SourcesInOrder' /\ TurnsCounted' /\ StandingFirst' /\ LateTogether' /\ SourcesApplied' /\ BatchSide'
  BY <1>2, <1>5, <1>7, <1>8, BatchesKept
     DEF UpkeepInv, SourcesInOrder, TurnsCounted, StandingFirst, LateTogether, SourcesApplied, Standing, Waiting
<1>. QED  BY <1>4, <1>6, <1>9 DEF SourceSide, BatchSide, UpkeepInv

\* It commits, and what it staged is pending.
LEMMA OwnerCommitsStep ==
  ASSUME UpkeepInv, OwnerCommits
  PROVE  UpkeepInv'
<1>1. PICK s \in Sources : OwnerAt(s)
  BY WorkerCases DEF OwnerCommits
<1>2. PICK asked \in BOOLEAN :
        /\ source' = [source EXCEPT ![s] = "completed"]
        /\ task' = [task EXCEPT ![s].state = IF @ = "staged" THEN "pending" ELSE @]
        /\ Queues(asked)
  BY <1>1 DEF OwnerCommits, OwnerAt
<1>3. at' = Nothing /\ UNCHANGED <<changes, chores, settled>>
  BY DEF OwnerCommits
<1>4. review' \in [Reviews -> Batches] /\ BatchSide' /\ Applied("source")' = Applied("source")
  BY <1>2, <1>3, QueuesStep
<1>5. /\ source[s] = "running" /\ source'[s] = "completed"
      /\ \A x \in Sources : x # s => source'[x] = source[x]
  BY <1>1, <1>2 DEF OwnerAt, UpkeepInv, RowsOK
<1>6. /\ task[s].state \in {"none", "staged"} /\ task[s].turn = NoTurn /\ ~task[s].late
      /\ task' \in [Sources -> Tasks] /\ task'[s].state \in {"none", "pending"}
      /\ task'[s].turn = task[s].turn
      /\ (task'[s].late <=> task[s].late) /\ task'[s].attempts = task[s].attempts
      /\ task[s].attempts = 0
      /\ \A x \in Sources : x # s => task'[x] = task[x]
  <2>1. task[s].state \in {"none", "staged"}
    BY <1>5, TaskTypes DEF UpkeepInv, TaskShape, TaskStates
  <2>. QED  BY <1>2, <2>1, TaskTypes DEF UpkeepInv, RowsOK, Tasks, TaskStates, TaskShape
<1>7. RowsOK'
  BY <1>2, <1>3, <1>4, <1>6 DEF UpkeepInv, RowsOK
<1>8. WorkerHolds'
  BY <1>3 DEF WorkerHolds
<1>9. SourcesInOrder'
  BY <1>5 DEF UpkeepInv, SourcesInOrder
<1>10. \A x \in Sources : /\ task'[x].turn = task[x].turn /\ task'[x].attempts = task[x].attempts
                          /\ task'[x].late <=> task[x].late
                          /\ Standing(x)' <=> Standing(x)
  BY <1>3, <1>6 DEF Standing
<1>11. /\ \A y \in Waiting' : y \in Sources /\ (y \in Waiting \/ y = s)
       /\ \A x \in Sources : x # s /\ source[x] = "completed" => x < s
  BY <1>5, <1>6 DEF Waiting, UpkeepInv, SourcesInOrder
<1>12. TaskShape'
  <2>1. \A x \in Sources : task[x].state # "running"
    BY <1>1, WorkerCases DEF OwnerAt, OwnerJob, Maintains
  <2>. QED  BY <1>5, <1>6, <1>10, <2>1 DEF UpkeepInv, TaskShape
<1>13. \A x \in Sources : task[x].turn # NoTurn \/ task[x].late => x # s /\ source[x] = "completed"
  BY <1>6, TaskTypes DEF UpkeepInv, TaskShape, TaskStates
<1>14. TurnsCounted'
  BY <1>3, <1>10 DEF UpkeepInv, TurnsCounted
<1>15. StandingFirst'
  <2>1. \A x \in Sources : Standing(x) => task[x].turn # NoTurn
    BY DEF UpkeepInv, TurnsCounted, Standing, NoTurn, Sources
  <2>. QED  BY <1>10, <1>11, <1>13, <2>1 DEF UpkeepInv, StandingFirst
<1>16. LateTogether'
  <2>1. \A x \in Sources : task[x].late => x < s
    BY <1>11, <1>13
  <2>2. \A x \in Sources : task[x].late => ~(s <= x)
    BY <2>1, TaskTypes DEF UpkeepInv
  <2>. QED  BY <1>10, <1>11, <2>2 DEF UpkeepInv, LateTogether, Waiting
<1>17. SourcesApplied'
  BY <1>4, <1>10 DEF UpkeepInv, SourcesApplied
<1>. QED  BY <1>4, <1>7, <1>8, <1>9, <1>12, <1>14, <1>15, <1>16, <1>17 DEF SourceSide, BatchSide, UpkeepInv

\* It is stopped, and what it staged is gone.
LEMMA OwnerStopsStep ==
  ASSUME UpkeepInv, OwnerStops
  PROVE  UpkeepInv'
<1>1. PICK s \in Sources : OwnerAt(s)
  BY WorkerCases DEF OwnerStops
<1>2. /\ source' = [source EXCEPT ![s] = "cancelled"] /\ task' = [task EXCEPT ![s] = NoTask]
      /\ at' = Nothing /\ UNCHANGED <<changes, review, chores, settled>>
  BY <1>1 DEF OwnerStops, OwnerAt
<1>3. /\ source[s] = "running" /\ source'[s] = "cancelled"
      /\ \A x \in Sources : x # s => source'[x] = source[x] /\ task'[x] = task[x]
      /\ task'[s] = NoTask
  BY <1>1, <1>2 DEF OwnerAt, UpkeepInv, RowsOK
<1>4. /\ task[s].state \in {"none", "staged"} /\ task[s].turn = NoTurn /\ ~task[s].late
      /\ task[s].attempts = 0
  BY <1>3, TaskTypes DEF UpkeepInv, TaskShape, TaskStates
<1>5. NoTask \in Tasks
  <2>1. NoTurn \in Turns
    BY UpkeepBounds DEF NoTurn, Turns
  <2>. QED  BY <2>1 DEF NoTask, Tasks, TaskStates
<1>6. RowsOK' /\ WorkerHolds'
  BY <1>2, <1>5 DEF UpkeepInv, RowsOK, WorkerHolds
<1>7. SourcesInOrder'
  BY <1>3 DEF UpkeepInv, SourcesInOrder
<1>8. \A x \in Sources : /\ task'[x].turn = task[x].turn /\ task'[x].attempts = task[x].attempts
                         /\ task'[x].late <=> task[x].late
                         /\ Standing(x)' <=> Standing(x)
  BY <1>2, <1>3, <1>4 DEF Standing, NoTask
<1>9. Waiting' = Waiting
  BY <1>3, <1>4 DEF Waiting, NoTask
<1>10. TaskShape'
  <2>1. \A x \in Sources : task[x].state # "running"
    BY <1>1, WorkerCases DEF OwnerAt, OwnerJob, Maintains
  <2>. QED  BY <1>3, <1>8, <2>1 DEF UpkeepInv, TaskShape, NoTask
<1>11. TurnsCounted' /\ StandingFirst' /\ LateTogether'
  BY <1>2, <1>8, <1>9 DEF UpkeepInv, TurnsCounted, StandingFirst, LateTogether, Waiting
<1>12. BatchSide' /\ SourcesApplied'
  BY <1>2, <1>8, BatchesKept DEF UpkeepInv, SourcesApplied
<1>. QED  BY <1>6, <1>7, <1>10, <1>11, <1>12 DEF SourceSide, BatchSide, UpkeepInv

-----------------------------------------------------------------------------
\* Every head of the queue that is not late has none late behind it.
LEMMA NoneLate ==
  ASSUME UpkeepInv, NEW s \in Sources, StateHead(s), ~task[s].late
  PROVE  \A x \in Sources : ~task[x].late
<1>1. SUFFICES ASSUME NEW x \in Sources, task[x].late  PROVE FALSE
  OBVIOUS
<1>2. x \in Waiting /\ s \in Waiting /\ s <= x
  BY <1>1 DEF UpkeepInv, TaskShape, Waiting, StateHead, IsFirst
<1>. QED  BY <1>1, <1>2 DEF UpkeepInv, LateTogether

\* What the claim writes.
Claims(s, rows, turn) ==
  /\ task' = [x \in Sources |->
                IF x \in rows THEN [task[x] EXCEPT !.state = "running", !.attempts = @ + 1, !.turn = turn]
                              ELSE task[x]]
  /\ at' = [job |-> StateJob(s), rows |-> rows, turn |-> turn]
  /\ UNCHANGED <<source, changes, review, settled>>
  /\ chores' \subseteq ({StateJob(x) : x \in Sources} \cup {MemoryJob(b) : b \in Reviews})

\* A claim changes the rows it takes.
LEMMA ClaimRows ==
  ASSUME RowsOK, NEW s \in Sources, NEW rows \in SUBSET Sources, NEW turn \in Turns, Claims(s, rows, turn)
  PROVE  /\ RowsOK'
         /\ \A x \in rows : /\ task'[x].state = "running" /\ task'[x].turn = turn
                            /\ task'[x].attempts = task[x].attempts + 1
                            /\ task'[x].late <=> task[x].late
         /\ \A x \in Sources \ rows : task'[x] = task[x]
<1>1. ASSUME NEW x \in rows
      PROVE  /\ task'[x] \in Tasks
             /\ task'[x].state = "running" /\ task'[x].turn = turn
             /\ task'[x].attempts = task[x].attempts + 1
             /\ task'[x].late <=> task[x].late
  <2>1. task[x] \in Tasks /\ task[x].attempts + 1 \in Nat
    BY TaskTypes
  <2>2. task'[x] = [task[x] EXCEPT !.state = "running", !.attempts = task[x].attempts + 1, !.turn = turn]
    BY <1>1 DEF Claims
  <2>3. [task[x] EXCEPT !.state = "running"] \in Tasks
    BY <2>1 DEF Tasks, TaskStates
  <2>. QED  BY <2>1, <2>2, <2>3 DEF Tasks, TaskStates
<1>2. \A x \in Sources \ rows : task'[x] = task[x]
  BY DEF Claims
<1>3. task' \in [Sources -> Tasks]
  <2>1. \A x \in Sources : task'[x] \in Tasks
    BY <1>1, <1>2, TaskTypes
  <2>2. task' = [x \in Sources |-> task'[x]]
    BY DEF Claims
  <2>. QED  BY <2>1, <2>2
<1>4. RowsOK'
  BY <1>3 DEF Claims, RowsOK
<1>. QED  BY <1>1, <1>2, <1>4

\* The rows claimed are the first that wait.
LEMMA ClaimStep ==
  ASSUME UpkeepInv, at = Nothing, NEW s \in Sources, StateHead(s), ~task[s].late, ~Standing(s),
         NEW rows \in SUBSET Waiting, s \in rows, \A x \in rows, y \in Waiting \ rows : x < y,
         NEW turn, turn = <<s, task[s].attempts + 1>>, Claims(s, rows, turn)
  PROVE  UpkeepInv'
<1>1. RowsOK /\ TurnsCounted /\ StandingFirst /\ TaskShape /\ SourcesInOrder /\ SourcesApplied
  BY DEF UpkeepInv
<1>2. \A x \in Sources : ~task[x].late /\ task[x].state # "running"
  BY NoneLate, WorkerCases
<1>3. rows \in SUBSET Sources /\ Waiting \subseteq Sources /\ \A x \in Waiting : s <= x /\ x \in Nat
  <2>1. Waiting \subseteq Sources
    BY DEF Waiting
  <2>. QED  BY <2>1, <1>1, TaskTypes DEF StateHead, IsFirst
<1>4. turn \in Turns /\ turn[1] = s /\ turn[2] = task[s].attempts + 1 /\ task[s].attempts \in Nat
  <2>1. task[s].attempts \in Nat /\ s \in 0 .. MaxSources
    BY <1>1, TaskTypes, UpkeepBounds DEF Sources
  <2>. QED  BY <2>1 DEF Turns
<1>5. /\ turn \notin changes /\ \A x \in Sources : task[x].turn # turn
  <2>1. task[s].attempts \in Nat
    BY <1>4
  <2>2. \A c \in changes : c[1] = s => c[2] <= task[s].attempts
    BY <1>1, <2>1 DEF TurnsCounted
  <2>3. \A x \in Sources : task[x].turn[1] = s => task[x].turn[2] <= task[s].attempts
    BY <1>1, <2>1 DEF TurnsCounted
  <2>4. ~(turn[2] <= task[s].attempts)
    BY <1>4
  <2>. QED  BY <1>4, <2>2, <2>3, <2>4
<1>6. /\ RowsOK'
      /\ \A x \in rows : /\ task'[x].state = "running" /\ task'[x].turn = turn
                         /\ task'[x].attempts = task[x].attempts + 1
                         /\ task'[x].late <=> task[x].late
      /\ \A x \in Sources \ rows : task'[x] = task[x]
  BY <1>1, <1>3, <1>4, ClaimRows
<1>7. /\ at' = [job |-> StateJob(s), rows |-> rows, turn |-> turn]
      /\ UNCHANGED <<source, changes, review, settled>>
  BY DEF Claims
<1>8. Waiting' = Waiting
  <2>1. \A x \in rows : task[x].state \in {"pending", "running"} /\ source[x] = "completed"
    BY DEF Waiting
  <2>. QED  BY <1>3, <1>6, <1>7, <2>1 DEF Waiting
<1>9. at'.job = StateJob(s) /\ at'.rows = rows /\ at'.turn = turn
  BY <1>7
<1>10. StateAt(s)'
  <2>1. at'.turn[1] \in Sources /\ at'.turn[2] \in 1 .. task'[at'.turn[1]].attempts
    <3>1. task'[s].attempts = task[s].attempts + 1
      BY <1>6
    <3>. QED  BY <1>4, <1>9, <3>1
  <2>2. \A x \in Sources : x \in at'.rows <=> task'[x].turn = at'.turn
    BY <1>5, <1>6, <1>9
  <2>3. \A x \in at'.rows : task'[x].state = "running"
    BY <1>6, <1>9
  <2>4. \A x \in Sources : ~task'[x].late
    BY <1>2, <1>6
  <2>5. \A x \in at'.rows, y \in Waiting' \ at'.rows : x < y
    BY <1>8, <1>9
  <2>6. at'.rows \subseteq Waiting'
    BY <1>8, <1>9
  <2>. QED  BY <1>9, <2>1, <2>2, <2>3, <2>4, <2>5, <2>6 DEF StateAt
<1>11. \A x \in rows : ~Standing(x) /\ ~Standing(x)'
  <2>1. \A x \in rows : ~(x < s) /\ x \in Sources
    BY <1>1, <1>3, TaskTypes
  <2>2. s \in Waiting
    BY DEF StateHead, IsFirst
  <2>3. \A x \in rows : ~Standing(x)
    BY <1>1, <2>1, <2>2 DEF StandingFirst
  <2>4. \A x \in rows : ~Standing(x)'
    BY <1>5, <1>6, <1>7 DEF Standing
  <2>. QED  BY <2>3, <2>4
<1>12. \A x \in Sources : Standing(x)' <=> Standing(x)
  <2>1. \A x \in Sources \ rows : Standing(x)' <=> Standing(x)
    BY <1>6, <1>7 DEF Standing
  <2>. QED  BY <1>11, <2>1
<1>13. TaskShape'
  <2>1. Maintains'
    BY <1>9 DEF Maintains, StateJob
  <2>2. \A x \in rows : source[x] = "completed"
    BY <1>3 DEF Waiting
  <2>3. \A x \in rows : ~task'[x].late
    BY <1>2, <1>3, <1>6
  <2>4. ASSUME NEW x \in Sources
        PROVE  /\ task'[x].state \in {"none", "staged"} =>
                    task'[x].turn = NoTurn /\ task'[x].attempts = 0 /\ ~task'[x].late
               /\ task'[x].state \in {"pending", "running", "completed"} => source'[x] = "completed"
               /\ task'[x].late => task'[x].state = "pending"
               /\ task'[x].state = "running" => Maintains' /\ x \in at'.rows
               /\ task'[x].state = "completed" => Standing(x)'
    <3>1. CASE x \in rows
      BY <1>6, <1>7, <1>9, <2>1, <2>2, <2>3, <3>1
    <3>2. CASE x \notin rows
      <4>1. task'[x] = task[x] /\ source'[x] = source[x]
        BY <1>6, <1>7, <3>2
      <4>2. task[x].state = "completed" => Standing(x)'
        BY <1>1, <1>12 DEF TaskShape
      <4>. QED  BY <1>1, <1>2, <4>1, <4>2 DEF TaskShape
    <3>. QED  BY <3>1, <3>2
  <2>. QED  BY <2>4 DEF TaskShape
<1>14. TurnsCounted'
  <2>1. \A x \in Sources : task'[x].attempts >= task[x].attempts /\ task[x].attempts \in Nat /\ task'[x].attempts \in Nat
    <3>1. \A x \in Sources : task[x].attempts \in Nat
      BY <1>1, TaskTypes
    <3>. QED  BY <1>6, <3>1
  <2>2. ASSUME NEW c \in changes
        PROVE  c[1] \in Sources /\ c[2] \in 1 .. task'[c[1]].attempts
    <3>1. c[1] \in Sources /\ c[2] \in 1 .. task[c[1]].attempts
      BY <1>1 DEF TurnsCounted
    <3>. QED  BY <2>1, <3>1
  <2>3. ASSUME NEW x \in Sources, task'[x].turn[1] \in Sources
        PROVE  task'[x].turn[2] <= task'[task'[x].turn[1]].attempts
    <3>1. CASE x \in rows
      <4>1. task'[x].turn = turn /\ task'[s].attempts = task[s].attempts + 1
        BY <1>6, <3>1
      <4>. QED  BY <1>4, <4>1
    <3>2. CASE x \notin rows
      <4>1. task'[x].turn = task[x].turn
        BY <1>6, <3>2
      <4>2. task[x].turn[2] \in Nat
        BY <1>1, TaskTypes DEF Turns
      <4>3. task[x].turn[2] <= task[task[x].turn[1]].attempts
        BY <1>1, <2>3, <4>1 DEF TurnsCounted
      <4>. QED  BY <2>1, <2>3, <4>1, <4>2, <4>3
    <3>. QED  BY <3>1, <3>2
  <2>. QED  BY <1>7, <2>2, <2>3 DEF TurnsCounted
<1>15. StandingFirst'
  BY <1>1, <1>3, <1>8, <1>12 DEF StandingFirst
<1>16. LateTogether'
  BY <1>2, <1>6 DEF LateTogether
<1>17. SourcesInOrder' /\ BatchSide' /\ Applied("source")' = Applied("source")
  BY <1>1, <1>7, BatchesKept DEF SourcesInOrder
<1>18. SourcesApplied'
  BY <1>1, <1>12, <1>17 DEF SourcesApplied
<1>19. WorkerHolds'
  BY <1>10 DEF WorkerHolds
<1>. QED
  BY <1>6, <1>13, <1>14, <1>15, <1>16, <1>17, <1>18, <1>19 DEF UpkeepInv, BatchSide

\* The tasks of a turn whose change stands are closed.
LEMMA ClosesStanding ==
  ASSUME UpkeepInv, NEW turn \in changes, \A x \in Sources : ~task[x].late,
         task' = [x \in Sources |-> IF task[x].turn = turn
                                    THEN [task[x] EXCEPT !.state = "completed"] ELSE task[x]],
         ~Maintains \/ \A x \in at.rows : task[x].turn = turn,
         at' = Nothing, UNCHANGED <<source, changes>>,
         Applied("source")' = Applied("source")
  PROVE  task' \in [Sources -> Tasks] /\ SourceSide'
<1>1. \A x \in Sources :
        /\ task'[x] \in Tasks /\ task'[x].turn = task[x].turn /\ task'[x].attempts = task[x].attempts
        /\ task'[x].late <=> task[x].late
        /\ task[x].turn = turn => task'[x].state = "completed"
        /\ task[x].turn # turn => task'[x] = task[x]
  BY TaskTypes DEF UpkeepInv, Tasks, TaskStates
<1>2. \A x \in Sources : Standing(x)' <=> Standing(x)
  BY <1>1 DEF Standing
<1>3. \A x \in Sources : task[x].turn = turn => Standing(x) /\ source[x] = "completed"
  <2>1. turn # NoTurn
    BY DEF UpkeepInv, TurnsCounted, NoTurn, Sources
  <2>. QED  BY <2>1, TaskTypes DEF Standing, UpkeepInv, TaskShape, TaskStates
<1>4. Waiting' \subseteq Waiting /\ Waiting \subseteq Sources
  BY <1>1 DEF Waiting
<1>5. TaskShape'
  <2>1. \A x \in Sources : task[x].turn # turn => task[x].state # "running"
    BY WorkerCases DEF UpkeepInv, TaskShape
  <2>2. \A x \in Sources : task'[x].state # "running"
    BY <1>1, <2>1
  <2>3. \A x \in Sources : task'[x].state \in {"none", "staged"} =>
           task'[x].turn = NoTurn /\ task'[x].attempts = 0 /\ ~task'[x].late
    BY <1>1 DEF UpkeepInv, TaskShape
  <2>4. \A x \in Sources : /\ task'[x].state \in {"pending", "running", "completed"} => source[x] = "completed"
                           /\ task'[x].state = "completed" => Standing(x)'
    BY <1>1, <1>2, <1>3 DEF UpkeepInv, TaskShape
  <2>. QED  BY <1>1, <2>2, <2>3, <2>4 DEF TaskShape
<1>6. SourcesInOrder' /\ TurnsCounted' /\ StandingFirst' /\ LateTogether' /\ SourcesApplied'
  BY <1>1, <1>2, <1>4 DEF UpkeepInv, SourcesInOrder, TurnsCounted, StandingFirst, LateTogether, SourcesApplied
<1>. QED  BY <1>1, <1>5, <1>6 DEF SourceSide

\* The worker takes a chore of state.
LEMMA TakeStateStep ==
  ASSUME UpkeepInv, NEW s \in Sources, TakeState(s)
  PROVE  UpkeepInv'
<1>1. /\ at = Nothing /\ UNCHANGED <<source, changes, review, settled>>
      /\ chores' \subseteq ({StateJob(x) : x \in Sources} \cup {MemoryJob(b) : b \in Reviews})
  BY DEF TakeState, Idle, UpkeepInv, RowsOK
<1>2. CASE UNCHANGED <<task, at>>
  BY <1>1, <1>2, QuietSteps
<1>3. CASE StateReady(s) /\ ~StateHead(s)
  BY <1>3 DEF StateReady
<1>4. CASE StateReady(s) /\ StateHead(s) /\ Stands(s) /\ ClaimState(s)
  <2>1. /\ task' = [x \in Sources |-> IF task[x].turn = task[s].turn
                                      THEN [task[x] EXCEPT !.state = "completed"] ELSE task[x]]
        /\ at' = Nothing /\ task[s].turn \in changes
    BY <1>4 DEF ClaimState, Stands
  <2>2. \A x \in Sources : ~task[x].late
    BY <1>4, NoneLate DEF StateReady
  <2>3. BatchSide' /\ Applied("source")' = Applied("source")
    BY <1>1, BatchesKept
  <2>4. task' \in [Sources -> Tasks] /\ SourceSide'
    BY <1>1, <2>1, <2>2, <2>3, ClosesStanding, WorkerCases
  <2>. QED  BY <1>1, <2>1, <2>3, <2>4 DEF UpkeepInv, SourceSide, BatchSide, RowsOK, WorkerHolds
<1>5. CASE StateReady(s) /\ StateHead(s) /\ ~Stands(s) /\ ClaimState(s)
  <2>1. ~task[s].late /\ ~Standing(s)
    BY <1>5 DEF StateReady, Stands, Standing
  <2>2. PICK last \in Due : Claims(s, {y \in Due : y <= last}, <<s, task[s].attempts + 1>>)
    BY <1>1, <1>5 DEF ClaimState, Claims
  <2>3. \A x \in Sources : ~task[x].late /\ task[x].state # "running"
    BY <1>1, <1>5, <2>1, NoneLate, WorkerCases
  <2>4. Due = Waiting /\ Waiting \subseteq Sources /\ \A x \in Waiting : x \in Nat
    <3>1. \A x \in Sources : x \in Nat
      BY TaskTypes DEF UpkeepInv
    <3>. QED  BY <2>3, <3>1 DEF Due, Waiting
  <2>5. s \in Waiting /\ \A x \in Waiting : s <= x
    BY <1>5 DEF StateHead, IsFirst
  <2>. DEFINE rows == {y \in Due : y <= last}
  <2>6. rows \in SUBSET Waiting /\ s \in rows /\ \A x \in rows, y \in Waiting \ rows : x < y
    BY <2>2, <2>4, <2>5
  <2>. HIDE DEF rows
  <2>7. Claims(s, rows, <<s, task[s].attempts + 1>>)
    BY <2>2 DEF rows
  <2>. QED  BY <1>1, <1>5, <2>1, <2>6, <2>7, ClaimStep
<1>. QED  BY <1>2, <1>3, <1>4, <1>5 DEF TakeState

\* What ran waits again, what was only staged goes.
GoesBack(x) ==
  /\ task'[x] \in Tasks /\ task'[x].turn = task[x].turn /\ task'[x].attempts = task[x].attempts
  /\ task[x].state = "running" => task'[x].state = "pending"
  /\ task[x].state = "staged"  => task'[x].state \in {"none", "staged"} /\ ~task'[x].late
  /\ task[x].state \notin {"running", "staged"} => task'[x] = task[x]

\* Tasks that go back to be pending.
LEMMA TasksGoBack ==
  ASSUME UpkeepInv, at' = Nothing, UNCHANGED <<source, changes>>,
         \A x \in Sources : GoesBack(x), Applied("source")' = Applied("source"), LateTogether'
  PROVE  SourceSide'
<1>1. SourcesInOrder /\ TaskShape /\ TurnsCounted /\ StandingFirst /\ SourcesApplied /\ RowsOK
  BY DEF UpkeepInv
<1>2. \A x \in Sources : Standing(x)' <=> Standing(x)
  BY DEF GoesBack, Standing
<1>3. Waiting' = Waiting
  <2>1. \A x \in Sources : task'[x].state \in {"pending", "running"} <=> task[x].state \in {"pending", "running"}
    BY DEF GoesBack
  <2>. QED  BY <2>1 DEF Waiting
<1>4. TaskShape'
  <2>1. ASSUME NEW x \in Sources
        PROVE  /\ task'[x].state \in {"none", "staged"} =>
                    task'[x].turn = NoTurn /\ task'[x].attempts = 0 /\ ~task'[x].late
               /\ task'[x].state \in {"pending", "running", "completed"} => source'[x] = "completed"
               /\ task'[x].late => task'[x].state = "pending"
               /\ task'[x].state # "running"
               /\ task'[x].state = "completed" => Standing(x)'
    <3>1. task[x].state \in TaskStates /\ GoesBack(x)
      BY <1>1, TaskTypes
    <3>2. CASE task[x].state = "running"
      BY <1>1, <3>1, <3>2 DEF GoesBack, TaskShape
    <3>3. CASE task[x].state = "staged"
      BY <1>1, <3>1, <3>3 DEF GoesBack, TaskShape
    <3>4. CASE task[x].state \in {"none", "pending", "completed"}
      <4>1. task'[x] = task[x]
        BY <3>1, <3>4 DEF GoesBack
      <4>. QED  BY <1>1, <1>2, <3>4, <4>1 DEF TaskShape
    <3>. QED  BY <3>1, <3>2, <3>3, <3>4 DEF TaskStates
  <2>. QED  BY <2>1 DEF TaskShape
<1>5. \A x \in Sources : task'[x].turn = task[x].turn /\ task'[x].attempts = task[x].attempts
  BY DEF GoesBack
<1>6. SourcesInOrder' /\ StandingFirst' /\ SourcesApplied'
  <2>1. \A y \in Waiting : y \in Sources
    BY DEF Waiting
  <2>2. StandingFirst'
    BY <1>1, <1>2, <1>3, <2>1 DEF StandingFirst
  <2>. QED  BY <1>1, <1>2, <2>2 DEF SourcesInOrder, SourcesApplied
<1>7. TurnsCounted'
  BY <1>1, <1>5 DEF TurnsCounted
<1>. QED  BY <1>4, <1>6, <1>7 DEF SourceSide

\* Where none of them is late.
LEMMA TasksSame ==
  ASSUME UpkeepInv, \A x \in Sources : GoesBack(x), UNCHANGED source,
         \A x \in Sources : task[x].state = "running" => ~task'[x].late
  PROVE  LateTogether'
<1>1. TaskShape /\ LateTogether /\ RowsOK
  BY DEF UpkeepInv
<1>2. \A x \in Sources : task'[x].late => task[x].late
  BY <1>1 DEF GoesBack, TaskShape
<1>3. \A x \in Sources : task[x].late => task'[x].late
  <2>1. \A x \in Sources : task[x].late => task[x].state \notin {"running", "staged"}
    BY <1>1 DEF TaskShape
  <2>. QED  BY <2>1 DEF GoesBack
<1>4. Waiting' = Waiting /\ \A y \in Waiting : y \in Sources
  <2>1. \A x \in Sources : task'[x].state \in {"pending", "running"} <=> task[x].state \in {"pending", "running"}
    BY DEF GoesBack
  <2>. QED  BY <2>1 DEF Waiting
<1>5. \A x \in Sources : task'[x].turn = task[x].turn
  BY DEF GoesBack
<1>. QED  BY <1>1, <1>2, <1>3, <1>4, <1>5 DEF LateTogether

\* The rows of a turn go back together.
LEMMA ReturnsRows ==
  ASSUME UpkeepInv, Maintains, NEW late \in BOOLEAN, task' = Returned(at.rows, late), UNCHANGED source
  PROVE  /\ \A x \in Sources : GoesBack(x) /\ (x \in at.rows => (task'[x].late <=> late))
         /\ task' \in [Sources -> Tasks]
         /\ LateTogether'
<1>1. RowsOK /\ TaskShape
  BY DEF UpkeepInv
<1>2. PICK s \in Sources : StateAt(s)
  BY WorkerCases
<1>3. \A x \in Sources : task[x].state = "running" <=> x \in at.rows
  BY <1>1, <1>2 DEF TaskShape, StateAt
<1>4. \A x \in Sources : x \in at.rows <=> x \in at.rows /\ task[x].turn = at.turn /\ task[x].state = "running"
  BY <1>2, <1>3 DEF StateAt
<1>5. \A x \in Sources :
         task'[x] = IF x \in at.rows THEN [task[x] EXCEPT !.state = "pending", !.late = late] ELSE task[x]
  BY <1>4 DEF Returned
<1>6. task' = [x \in Sources |-> task'[x]]
  BY DEF Returned
<1>7. ASSUME NEW x \in Sources
      PROVE  GoesBack(x) /\ (x \in at.rows => (task'[x].late <=> late)) /\ (x \notin at.rows => task'[x] = task[x])
  <2>1. task[x] \in Tasks
    BY <1>1, TaskTypes
  <2>2. CASE x \in at.rows
    <3>1. task'[x] = [[task[x] EXCEPT !.state = "pending"] EXCEPT !.late = late]
      BY <1>5, <2>2
    <3>2. [task[x] EXCEPT !.state = "pending"] \in Tasks
      BY <2>1 DEF Tasks, TaskStates
    <3>. QED  BY <1>3, <2>1, <2>2, <3>1, <3>2 DEF GoesBack, Tasks
  <2>3. CASE x \notin at.rows
    <3>1. task'[x] = task[x] /\ task[x].state # "running"
      BY <1>3, <1>5, <2>3
    <3>2. task[x].state = "staged" => ~task[x].late
      BY <1>1 DEF TaskShape
    <3>. QED  BY <2>1, <2>3, <3>1, <3>2 DEF GoesBack
  <2>. QED  BY <2>2, <2>3
<1>8. task' \in [Sources -> Tasks]
  <2>1. \A x \in Sources : task'[x] \in Tasks
    BY <1>7 DEF GoesBack
  <2>. QED  BY <1>6, <2>1
<1>9. LateTogether'
  <2>1. CASE late = FALSE
    BY <1>3, <1>7, <2>1, TasksSame
  <2>2. CASE late = TRUE
    <3>1. /\ \A x \in Sources : ~task[x].late
          /\ \A x \in at.rows, y \in Waiting \ at.rows : x < y
          /\ at.rows \subseteq Waiting
          /\ \A x \in at.rows : task[x].turn = at.turn
      BY <1>2 DEF StateAt, Waiting
    <3>2. \A x \in Sources : task'[x].late <=> x \in at.rows
      BY <1>7, <2>2, <3>1
    <3>3. Waiting' = Waiting /\ Waiting \subseteq Sources
      <4>1. \A x \in Sources : task'[x].state \in {"pending", "running"} <=> task[x].state \in {"pending", "running"}
        BY <1>7 DEF GoesBack
      <4>. QED  BY <4>1 DEF Waiting
    <3>4. \A x \in Sources : x \in Nat /\ task'[x].turn = task[x].turn
      BY <1>1, <1>7, TaskTypes DEF GoesBack
    <3>5. \A x \in at.rows, y \in Waiting : y <= x => y \in at.rows
      <4>1. \A x \in at.rows : x \in Nat
        BY <3>1, <3>3, <3>4
      <4>. QED  BY <3>1, <3>3, <3>4, <4>1
    <3>. QED  BY <3>1, <3>2, <3>3, <3>4, <3>5 DEF LateTogether
  <2>. QED  BY <2>1, <2>2
<1>. QED  BY <1>7, <1>8, <1>9

\* A maintenance turn that gives its tasks back.
LEMMA MaintenanceReturns ==
  ASSUME UpkeepInv, Maintains, NEW late \in BOOLEAN, task' = Returned(at.rows, late), at' = Nothing,
         UNCHANGED <<source, changes, review, chores, settled>>
  PROVE  UpkeepInv'
<1>1. /\ \A x \in Sources : GoesBack(x)
      /\ task' \in [Sources -> Tasks] /\ LateTogether'
  BY ReturnsRows
<1>2. BatchSide' /\ Applied("source")' = Applied("source")
  BY BatchesKept
<1>3. SourceSide'
  BY <1>1, <1>2, TasksGoBack
<1>4. RowsOK' /\ WorkerHolds'
  BY <1>1 DEF UpkeepInv, RowsOK, WorkerHolds
<1>. QED  BY <1>2, <1>3, <1>4 DEF SourceSide, BatchSide, UpkeepInv

\* A batch that goes back or changes nothing that is told apart.
LEMMA BatchGoesBack ==
  ASSUME UpkeepInv, review' \in [Reviews -> Batches], UNCHANGED settled,
         \A b \in Reviews : \/ review'[b].state = review[b].state /\ review'[b].failures = review[b].failures
                            \/ /\ BatchOpen(b) /\ review'[b].state \in {"pending", "running"}
                               /\ review'[b].failures = review[b].failures
                            \/ /\ BatchOpen(b) /\ review'[b].state = "pending"
                               /\ review'[b].failures < FailureLimit
                            \/ BatchOpen(b) /\ review'[b].state = "failed"
  PROVE  BatchSide' /\ Applied("source")' = Applied("source")
<1>1. BatchesInOrder /\ SettledOnceInOrder
  BY DEF UpkeepInv
<1>2. Applied("source")' = Applied("source") /\ Applied("batch")' = Applied("batch") /\ SettledOnceInOrder'
  BY <1>1 DEF Applied, SettledOnceInOrder
<1>3. \A b \in Reviews : /\ BatchOpen(b)' => BatchOpen(b)
                         /\ review'[b].state = "none" <=> review[b].state = "none"
                         /\ review'[b].state = "completed" <=> review[b].state = "completed"
                         /\ review'[b].state # "failed" => review'[b].failures < FailureLimit
  BY <1>1 DEF BatchOpen, BatchesInOrder
<1>4. BatchesInOrder'
  BY <1>1, <1>2, <1>3 DEF BatchesInOrder
<1>. QED  BY <1>2, <1>4 DEF BatchSide

\* What was applied is named by its rows.
LEMMA AppliedTypes ==
  ASSUME settled \in Seq(Entries)
  PROVE  Applied("source") \subseteq Sources /\ Applied("batch") \subseteq Reviews
<1>1. \A i \in DOMAIN settled : settled[i] \in Entries
  OBVIOUS
<1>2. \A e \in Entries : (e[1] = "source" => e[2] \subseteq Sources) /\ (e[1] = "batch" => e[2] \subseteq Reviews)
  BY DEF Entries
<1>. QED  BY <1>1, <1>2 DEF Applied

\* The changes of a turn are applied, once.
LEMMA AppliesStateStep ==
  ASSUME UpkeepInv, AppliesState
  PROVE  UpkeepInv'
<1>1. RowsOK /\ SourcesInOrder /\ TaskShape /\ TurnsCounted /\ StandingFirst /\ LateTogether /\ SourcesApplied
        /\ SettledOnceInOrder /\ BatchesInOrder
  BY DEF UpkeepInv
<1>2. Maintains /\ at.turn \notin changes /\ changes' = changes \cup {at.turn}
      /\ settled' = Append(settled, <<"source", at.rows>>)
      /\ UNCHANGED <<source, task, review, chores, at>>
  BY DEF AppliesState
<1>3. PICK s \in Sources : StateAt(s)
  BY <1>2, WorkerCases
<1>4. /\ at.rows \subseteq Waiting /\ Waiting \subseteq Sources /\ Waiting' = Waiting
      /\ \A x \in at.rows, y \in Waiting \ at.rows : x < y
      /\ \A x \in Sources : x \in at.rows <=> task[x].turn = at.turn
      /\ at.turn[1] \in Sources /\ at.turn[2] \in 1 .. task[at.turn[1]].attempts
  BY <1>2, <1>3 DEF StateAt, Waiting
<1>5. \A x \in Sources : Standing(x)' <=> Standing(x) \/ x \in at.rows
  BY <1>2, <1>4 DEF Standing
<1>6. \A x \in at.rows : ~Standing(x)
  BY <1>2, <1>4 DEF Standing
<1>7. <<"source", at.rows>> \in Entries /\ settled \in Seq(Entries)
  BY <1>1, <1>4 DEF Entries, RowsOK
<1>. DEFINE e == <<"source", at.rows>>
<1>8. e \in Entries /\ e[1] = "source" /\ e[2] = at.rows /\ settled' = Append(settled, e)
  BY <1>2, <1>7
<1>. HIDE DEF e
<1>9. Applied("source")' = Applied("source") \cup at.rows
  BY <1>7, <1>8, AppliedGrows
<1>10. Applied("batch")' = Applied("batch")
  BY <1>7, <1>8, AppliedGrows
<1>11. SettledOnceInOrder'
  <2>1. \A x \in Applied("source"), y \in at.rows : x < y
    <3>1. Applied("source") \subseteq Sources
      BY <1>7, AppliedTypes
    <3>2. \A x \in Applied("source") : x \in Sources /\ Standing(x)
      BY <1>1, <3>1 DEF SourcesApplied
    <3>. QED  BY <1>1, <1>4, <1>6, <3>2 DEF StandingFirst
  <2>. QED  BY <1>1, <1>7, <1>8, <2>1, SettledGrows
<1>12. RowsOK'
  <2>1. settled' \in Seq(Entries)
    BY <1>7, <1>8
  <2>. QED  BY <1>1, <1>2, <2>1 DEF RowsOK
<1>13. WorkerHolds'
  <2>1. StateAt(s)'
    BY <1>2, <1>3, <1>4 DEF StateAt
  <2>. QED  BY <2>1 DEF WorkerHolds
<1>14. TaskShape'
  BY <1>1, <1>2, <1>5 DEF TaskShape, Maintains
<1>15. TurnsCounted'
  BY <1>1, <1>2, <1>4 DEF TurnsCounted
<1>16. StandingFirst'
  BY <1>1, <1>4, <1>5 DEF StandingFirst
<1>17. SourcesInOrder' /\ LateTogether'
  BY <1>1, <1>2, <1>4 DEF SourcesInOrder, LateTogether
<1>18. SourcesApplied'
  BY <1>1, <1>5, <1>9 DEF SourcesApplied
<1>19. BatchesInOrder'
  BY <1>1, <1>2, <1>10 DEF BatchesInOrder, BatchOpen
<1>. QED  BY <1>11, <1>12, <1>13, <1>14, <1>15, <1>16, <1>17, <1>18, <1>19 DEF UpkeepInv

\* Its tasks are completed.
LEMMA FinishesStateStep ==
  ASSUME UpkeepInv, FinishesState
  PROVE  UpkeepInv'
<1>1. PICK s \in Sources : StateAt(s)
  BY WorkerCases DEF FinishesState
<1>2. /\ task' = [x \in Sources |-> IF x \in at.rows THEN [task[x] EXCEPT !.state = "completed"] ELSE task[x]]
      /\ at.turn \in changes /\ at' = Nothing /\ UNCHANGED <<source, changes, chores, settled>>
  BY DEF FinishesState
<1>3. PICK asked \in BOOLEAN : Queues(asked)
  BY DEF FinishesState
<1>4. review' \in [Reviews -> Batches] /\ BatchSide' /\ Applied("source")' = Applied("source")
  BY <1>2, <1>3, QueuesStep
<1>5. \A x \in Sources : x \in at.rows <=> task[x].turn = at.turn
  BY <1>1 DEF StateAt
<1>6. \A x \in Sources : ~task[x].late
  BY <1>1 DEF StateAt
<1>7. task' = [x \in Sources |-> IF task[x].turn = at.turn THEN [task[x] EXCEPT !.state = "completed"] ELSE task[x]]
  BY <1>2, <1>5
<1>8. \A x \in at.rows : task[x].turn = at.turn
  BY <1>1, <1>5 DEF StateAt, Waiting
<1>9. task' \in [Sources -> Tasks] /\ SourceSide'
  BY <1>2, <1>4, <1>6, <1>7, <1>8, ClosesStanding
<1>10. RowsOK' /\ WorkerHolds'
  BY <1>2, <1>4, <1>9 DEF UpkeepInv, RowsOK, WorkerHolds
<1>. QED  BY <1>4, <1>9, <1>10 DEF SourceSide, BatchSide, UpkeepInv

\* The worker takes a batch.
LEMMA TakeMemoryStep ==
  ASSUME UpkeepInv, NEW b \in Reviews, TakeMemory(b)
  PROVE  UpkeepInv'
<1>1. /\ at = Nothing /\ UNCHANGED <<source, task, changes, settled>>
      /\ chores' \subseteq ({StateJob(s) : s \in Sources} \cup {MemoryJob(c) : c \in Reviews})
  BY DEF TakeMemory, Idle, UpkeepInv, RowsOK
<1>2. CASE UNCHANGED <<review, at>>
  BY <1>1, <1>2, QuietSteps
<1>3. CASE /\ MemoryHead(b) /\ review' = [review EXCEPT ![b].state = "running", ![b].attempts = @ + 1]
           /\ at' = [job |-> MemoryJob(b), rows |-> {b}, turn |-> <<b, review[b].attempts + 1>>]
  <2>1. review \in [Reviews -> Batches]
    BY DEF UpkeepInv, RowsOK
  <2>2. /\ review[b].state = "pending"
        /\ \A c \in Reviews : BatchOpen(c) => b <= c
    BY <1>3 DEF MemoryHead, IsFirst, BatchOpen
  <2>3. /\ review' \in [Reviews -> Batches] /\ review'[b].state = "running"
        /\ review'[b].failures = review[b].failures
        /\ \A c \in Reviews : c # b => review'[c] = review[c]
    <3>1. [review EXCEPT ![b].state = "running"] \in [Reviews -> Batches]
      BY <2>1 DEF Batches, ReviewStates
    <3>2. review[b].attempts + 1 \in Nat
      BY <2>1 DEF Batches
    <3>3. review' = [[review EXCEPT ![b].state = "running"] EXCEPT ![b].attempts = review[b].attempts + 1]
      BY <1>3, <2>1
    <3>. QED  BY <2>1, <3>1, <3>2, <3>3 DEF Batches
  <2>4. BatchSide' /\ Applied("source")' = Applied("source")
    BY <1>1, <2>2, <2>3, BatchGoesBack DEF BatchOpen
  <2>5. ~Maintains
    BY <1>1, WorkerCases
  <2>6. SourceSide'
    BY <1>1, <2>4, <2>5, TasksKept
  <2>7. MemoryAt(b)'
    BY <1>3, <2>2, <2>3 DEF MemoryAt, BatchOpen
  <2>8. RowsOK' /\ WorkerHolds'
    BY <1>1, <2>3, <2>7 DEF UpkeepInv, RowsOK, WorkerHolds
  <2>. QED  BY <2>4, <2>6, <2>8 DEF SourceSide, BatchSide, UpkeepInv
<1>. QED  BY <1>2, <1>3 DEF TakeMemory

\* A batch is applied, once.
LEMMA AppliesMemoryStep ==
  ASSUME UpkeepInv, NEW b \in Reviews, AppliesMemory(b)
  PROVE  UpkeepInv'
<1>1. /\ review[b].state = "running" /\ Reviewing(b) /\ at' = Nothing
      /\ review' = [review EXCEPT ![b].state = "completed"]
      /\ settled' = Append(settled, <<"batch", {b}>>)
      /\ UNCHANGED <<source, task, changes, chores>>
  BY DEF AppliesMemory
<1>2. MemoryAt(b) /\ ~Maintains
  BY <1>1, WorkerCases
<1>3. RowsOK /\ BatchesInOrder /\ SettledOnceInOrder
  BY DEF UpkeepInv
<1>. DEFINE e == <<"batch", {b}>>
<1>4. e \in Entries /\ e[1] = "batch" /\ e[2] = {b} /\ settled' = Append(settled, e) /\ settled \in Seq(Entries)
  BY <1>1, <1>3 DEF Entries, RowsOK
<1>. HIDE DEF e
<1>5. Applied("source")' = Applied("source") /\ Applied("batch")' = Applied("batch") \cup {b}
  BY <1>4, AppliedGrows
<1>6. SettledOnceInOrder'
  <2>1. \A x \in Applied("batch") : x \in Reviews /\ review[x].state = "completed"
    BY <1>3, <1>4, AppliedTypes DEF BatchesInOrder
  <2>2. \A x \in Applied("batch"), y \in {b} : x < y
    BY <1>1, <1>3, <2>1 DEF BatchesInOrder, BatchOpen
  <2>. QED  BY <1>3, <1>4, <2>2, SettledGrows
<1>7. /\ review' \in [Reviews -> Batches] /\ review'[b].state = "completed"
      /\ review'[b].failures = review[b].failures
      /\ \A c \in Reviews : c # b => review'[c] = review[c]
      /\ b \in Nat
  BY <1>1, <1>3, UpkeepBounds DEF RowsOK, Batches, ReviewStates, Reviews
<1>8. BatchesInOrder'
  <2>1. \A x, y \in Reviews : review'[x].state # "none" /\ review'[y].state = "none" => x < y
    BY <1>1, <1>3, <1>7 DEF BatchesInOrder
  <2>2. \A x, y \in Reviews : review'[x].state = "completed" /\ BatchOpen(y)' => x < y
    <3>1. \A y \in Reviews : BatchOpen(y)' => y # b /\ BatchOpen(y) /\ b <= y
      BY <1>2, <1>7 DEF BatchOpen, MemoryAt
    <3>2. \A y \in Reviews : BatchOpen(y)' => b < y
      BY <1>7, <3>1, UpkeepBounds DEF Reviews
    <3>. QED  BY <1>3, <1>7, <3>1, <3>2 DEF BatchesInOrder
  <2>3. \A x \in Reviews : review'[x].state # "failed" => review'[x].failures < FailureLimit
    BY <1>1, <1>3, <1>7 DEF BatchesInOrder
  <2>4. \A x \in Reviews : x \in Applied("batch")' <=> review'[x].state = "completed"
    BY <1>3, <1>5, <1>7 DEF BatchesInOrder
  <2>. QED  BY <2>1, <2>2, <2>3, <2>4 DEF BatchesInOrder
<1>9. SourceSide'
  BY <1>1, <1>2, <1>5, TasksKept
<1>10. RowsOK' /\ WorkerHolds'
  <2>1. settled' \in Seq(Entries)
    BY <1>4
  <2>. QED  BY <1>1, <1>3, <1>7, <2>1 DEF RowsOK, WorkerHolds
<1>. QED  BY <1>6, <1>8, <1>9, <1>10 DEF SourceSide, UpkeepInv

\* A memory turn that ends with its batch open or given up.
LEMMA ReviewEnds ==
  ASSUME UpkeepInv, NEW b \in Reviews, Reviewing(b), at' = Nothing,
         UNCHANGED <<source, task, changes, chores, settled>>,
         review' \in [Reviews -> Batches],
         \A c \in Reviews : c # b => review'[c] = review[c],
         \/ review'[b].state = "pending" /\ review'[b].failures = review[b].failures
         \/ review'[b].state = "pending" /\ review'[b].failures < FailureLimit
         \/ review'[b].state = "failed"
  PROVE  UpkeepInv'
<1>1. MemoryAt(b) /\ ~Maintains
  BY WorkerCases
<1>2. BatchOpen(b)
  BY <1>1 DEF MemoryAt, BatchOpen
<1>3. BatchSide' /\ Applied("source")' = Applied("source")
  BY <1>2, BatchGoesBack
<1>4. SourceSide'
  BY <1>1, <1>3, TasksKept
<1>5. RowsOK' /\ WorkerHolds'
  BY DEF UpkeepInv, RowsOK, WorkerHolds
<1>. QED  BY <1>3, <1>4, <1>5 DEF SourceSide, BatchSide, UpkeepInv

\* A batch fails, and after too often for good.
LEMMA MemoryFailsStep ==
  ASSUME UpkeepInv, NEW b \in Reviews, MemoryFails(b)
  PROVE  UpkeepInv'
<1>. DEFINE fails == review[b].failures + 1
            state == IF fails >= FailureLimit THEN "failed" ELSE "pending"
<1>1. /\ Reviewing(b) /\ at' = Nothing /\ UNCHANGED <<source, task, changes, chores, settled>>
      /\ review' = [review EXCEPT ![b].failures = fails, ![b].state = state, ![b].late = fails < FailureLimit]
  BY DEF MemoryFails
<1>2. review \in [Reviews -> Batches] /\ BatchesInOrder
  BY DEF UpkeepInv, RowsOK
<1>3. review[b].state = "running"
  BY <1>1, WorkerCases DEF MemoryAt
<1>4. fails \in 0 .. FailureLimit /\ state \in {"pending", "failed"}
      /\ (state = "pending" => fails < FailureLimit) /\ (fails < FailureLimit) \in BOOLEAN
  BY <1>2, <1>3, UpkeepBounds DEF BatchesInOrder, Batches
<1>. HIDE DEF fails, state
<1>5. /\ review' \in [Reviews -> Batches] /\ review'[b].state = state /\ review'[b].failures = fails
      /\ \A c \in Reviews : c # b => review'[c] = review[c]
  <2>1. [review EXCEPT ![b].failures = fails] \in [Reviews -> Batches]
    BY <1>2, <1>4 DEF Batches
  <2>2. [[review EXCEPT ![b].failures = fails] EXCEPT ![b].state = state] \in [Reviews -> Batches]
    BY <1>4, <2>1 DEF Batches, ReviewStates
  <2>3. review' = [[[review EXCEPT ![b].failures = fails] EXCEPT ![b].state = state]
                     EXCEPT ![b].late = fails < FailureLimit]
    BY <1>1, <1>2
  <2>4. review' \in [Reviews -> Batches]
    BY <1>4, <2>2, <2>3 DEF Batches
  <2>. QED  BY <1>1, <1>2, <2>4 DEF Batches
<1>. QED  BY <1>1, <1>4, <1>5, ReviewEnds

\* The worker is stopped.
LEMMA StopUpkeepStep ==
  ASSUME UpkeepInv, StopUpkeep
  PROVE  UpkeepInv'
<1>1. at' = Nothing /\ UNCHANGED <<source, changes, chores, settled>>
  BY DEF StopUpkeep
<1>2. CASE Maintains /\ task' = Returned(at.rows, FALSE) /\ UNCHANGED review
  BY <1>1, <1>2, MaintenanceReturns
<1>3. ASSUME NEW b \in Reviews, Reviewing(b), review' = Interrupted(b), UNCHANGED task
      PROVE  UpkeepInv'
  <2>1. review \in [Reviews -> Batches]
    BY DEF UpkeepInv, RowsOK
  <2>2. /\ review' \in [Reviews -> Batches] /\ review'[b].state = "pending"
        /\ review'[b].failures = review[b].failures
        /\ \A c \in Reviews : c # b => review'[c] = review[c]
    <3>1. [review EXCEPT ![b].state = "pending"] \in [Reviews -> Batches]
      BY <2>1 DEF Batches, ReviewStates
    <3>2. review' = [[review EXCEPT ![b].state = "pending"] EXCEPT ![b].late = FALSE]
      BY <1>3, <2>1 DEF Interrupted
    <3>. QED  BY <2>1, <3>1, <3>2 DEF Batches
  <2>. QED  BY <1>1, <1>3, <2>2, ReviewEnds
<1>. QED  BY <1>2, <1>3 DEF StopUpkeep

\* A state turn fails.
LEMMA StateFailsStep ==
  ASSUME UpkeepInv, StateFails
  PROVE  UpkeepInv'
BY MaintenanceReturns DEF StateFails

\* The rows that a restart finds.
LEMMA RestartRows ==
  ASSUME UpkeepInv, task' = TasksBack, review' = ReviewsBack
  PROVE  /\ task' \in [Sources -> Tasks] /\ review' \in [Reviews -> Batches]
         /\ \A x \in Sources : GoesBack(x) /\ (task[x].state = "running" => ~task'[x].late)
         /\ \A b \in Reviews : \/ review'[b].state = review[b].state /\ review'[b].failures = review[b].failures
                               \/ /\ BatchOpen(b) /\ review'[b].state \in {"pending", "running"}
                                  /\ review'[b].failures = review[b].failures
<1>1. RowsOK /\ TaskShape
  BY DEF UpkeepInv
<1>2. ASSUME NEW x \in Sources
      PROVE  GoesBack(x) /\ (task[x].state = "running" => ~task'[x].late)
  <2>1. task[x] \in Tasks
    BY <1>1, TaskTypes
  <2>2. CASE task[x].state = "running"
    <3>1. task'[x] = [[task[x] EXCEPT !.state = "pending"] EXCEPT !.late = FALSE]
      BY <2>2 DEF TasksBack
    <3>2. [task[x] EXCEPT !.state = "pending"] \in Tasks
      BY <2>1 DEF Tasks, TaskStates
    <3>. QED  BY <2>1, <2>2, <3>1, <3>2 DEF GoesBack, Tasks
  <2>3. CASE task[x].state = "staged"
    <3>1. task'[x] = NoTask
      BY <2>3 DEF TasksBack
    <3>2. NoTask \in Tasks
      <4>1. NoTurn \in Turns
        BY UpkeepBounds DEF NoTurn, Turns
      <4>. QED  BY <4>1 DEF NoTask, Tasks, TaskStates
    <3>. QED  BY <1>1, <2>3, <3>1, <3>2 DEF GoesBack, TaskShape, NoTask
  <2>4. CASE task[x].state \notin {"running", "staged"}
    <3>1. task'[x] = task[x]
      BY <2>4 DEF TasksBack
    <3>. QED  BY <2>1, <2>4, <3>1 DEF GoesBack
  <2>. QED  BY <2>2, <2>3, <2>4
<1>3. task' \in [Sources -> Tasks]
  <2>1. task' = [x \in Sources |-> task'[x]]
    BY DEF TasksBack
  <2>2. \A x \in Sources : task'[x] \in Tasks
    BY <1>2 DEF GoesBack
  <2>. QED  BY <2>1, <2>2
<1>4. ASSUME NEW b \in Reviews
      PROVE  /\ review'[b] \in Batches
             /\ \/ review'[b].state = review[b].state /\ review'[b].failures = review[b].failures
                \/ /\ BatchOpen(b) /\ review'[b].state \in {"pending", "running"}
                   /\ review'[b].failures = review[b].failures
  <2>1. review[b] \in Batches
    BY <1>1 DEF RowsOK
  <2>2. CASE review[b].state = "running"
    <3>1. review'[b] = [[review[b] EXCEPT !.state = "pending"] EXCEPT !.late = FALSE]
      BY <2>2 DEF ReviewsBack
    <3>2. [review[b] EXCEPT !.state = "pending"] \in Batches
      BY <2>1 DEF Batches, ReviewStates
    <3>. QED  BY <2>1, <2>2, <3>1, <3>2 DEF BatchOpen, Batches
  <2>3. CASE review[b].state # "running"
    <3>1. review'[b] = review[b]
      BY <2>3 DEF ReviewsBack
    <3>. QED  BY <2>1, <3>1
  <2>. QED  BY <2>2, <2>3
<1>5. review' \in [Reviews -> Batches]
  <2>1. review' = [b \in Reviews |-> review'[b]]
    BY DEF ReviewsBack
  <2>2. \A b \in Reviews : review'[b] \in Batches
    BY <1>4
  <2>. QED  BY <2>1, <2>2
<1>. QED  BY <1>2, <1>3, <1>4, <1>5

\* A restart makes running rows pending.
LEMMA RestartUpkeepStep ==
  ASSUME UpkeepInv, RestartUpkeep
  PROVE  UpkeepInv'
<1>1. /\ task' = TasksBack /\ review' = ReviewsBack /\ chores' = {} /\ at' = Nothing
      /\ UNCHANGED <<source, changes, settled>>
  BY DEF RestartUpkeep
<1>2. /\ task' \in [Sources -> Tasks] /\ review' \in [Reviews -> Batches]
      /\ \A x \in Sources : GoesBack(x) /\ (task[x].state = "running" => ~task'[x].late)
      /\ \A b \in Reviews : \/ review'[b].state = review[b].state /\ review'[b].failures = review[b].failures
                            \/ /\ BatchOpen(b) /\ review'[b].state \in {"pending", "running"}
                               /\ review'[b].failures = review[b].failures
  BY <1>1, RestartRows
<1>3. BatchSide' /\ Applied("source")' = Applied("source")
  BY <1>1, <1>2, BatchGoesBack
<1>4. LateTogether'
  BY <1>1, <1>2, TasksSame
<1>5. SourceSide'
  BY <1>1, <1>2, <1>3, <1>4, TasksGoBack
<1>6. RowsOK' /\ WorkerHolds'
  BY <1>1, <1>2 DEF UpkeepInv, RowsOK, WorkerHolds
<1>. QED  BY <1>3, <1>5, <1>6 DEF SourceSide, BatchSide, UpkeepInv

\* The tasks of a turn fall due together.
LEMMA TasksFallDue ==
  ASSUME UpkeepInv, NEW s \in Sources,
         task' = [x \in Sources |-> [task[x] EXCEPT !.late = @ /\ task[x].turn # task[s].turn]],
         UNCHANGED <<source, changes, review, chores, at, settled>>
  PROVE  UpkeepInv'
<1>1. RowsOK /\ WorkerHolds /\ TaskShape /\ TurnsCounted /\ StandingFirst /\ LateTogether /\ SourcesInOrder
        /\ SourcesApplied
  BY DEF UpkeepInv
<1>2. ASSUME NEW x \in Sources
      PROVE  /\ task'[x] \in Tasks /\ task'[x].state = task[x].state /\ task'[x].turn = task[x].turn
             /\ task'[x].attempts = task[x].attempts
             /\ task'[x].late <=> task[x].late /\ task[x].turn # task[s].turn
  <2>. DEFINE l == task[x].late /\ task[x].turn # task[s].turn
  <2>1. task[x] \in Tasks /\ task[x].late \in BOOLEAN /\ l \in BOOLEAN
    BY <1>1, TaskTypes
  <2>2. task'[x] = [task[x] EXCEPT !.late = l]
    OBVIOUS
  <2>3. l <=> task[x].late /\ task[x].turn # task[s].turn
    OBVIOUS
  <2>. HIDE DEF l
  <2>. QED  BY <2>1, <2>2, <2>3 DEF Tasks
<1>3. RowsOK'
  <2>1. task' = [x \in Sources |-> task'[x]]
    OBVIOUS
  <2>2. task' \in [Sources -> Tasks]
    BY <1>2, <2>1
  <2>. QED  BY <1>1, <2>2 DEF RowsOK
<1>4. Waiting' = Waiting /\ Waiting \subseteq Sources
  BY <1>2 DEF Waiting
<1>5. WorkerHolds'
  <2>1. \A x \in Sources : OwnerAt(x) => OwnerAt(x)'
    BY DEF OwnerAt
  <2>2. \A x \in Sources : StateAt(x) => StateAt(x)'
    BY <1>2, <1>4 DEF StateAt
  <2>3. \A b \in Reviews : MemoryAt(b) => MemoryAt(b)'
    BY DEF MemoryAt, BatchOpen
  <2>. QED  BY <1>1, <2>1, <2>2, <2>3 DEF WorkerHolds
<1>6. \A x \in Sources : Standing(x)' <=> Standing(x)
  BY <1>2 DEF Standing
<1>7. TaskShape'
  BY <1>1, <1>2, <1>6 DEF TaskShape, Maintains
<1>8. TurnsCounted' /\ StandingFirst'
  BY <1>1, <1>2, <1>4, <1>6 DEF TurnsCounted, StandingFirst
<1>9. LateTogether'
  <2>1. SUFFICES ASSUME NEW x \in Sources, NEW y \in Waiting', task'[x].late, y <= x
                 PROVE  task'[y].late /\ task'[y].turn = task'[x].turn
    BY DEF LateTogether
  <2>2. task[x].late /\ task[x].turn # task[s].turn /\ y \in Waiting /\ y \in Sources
    BY <1>2, <1>4, <2>1
  <2>3. task[y].late /\ task[y].turn = task[x].turn
    BY <1>1, <2>1, <2>2 DEF LateTogether
  <2>. QED  BY <1>2, <2>2, <2>3
<1>10. SourcesInOrder' /\ SourcesApplied' /\ BatchSide'
  BY <1>1, <1>6, BatchesKept DEF SourcesInOrder, SourcesApplied
<1>. QED  BY <1>3, <1>5, <1>7, <1>8, <1>9, <1>10 DEF BatchSide, UpkeepInv

\* A retry falls due.
LEMMA RetryComesStep ==
  ASSUME UpkeepInv, RetryComes
  PROVE  UpkeepInv'
<1>1. UNCHANGED <<source, changes, chores, at, settled>>
  BY DEF RetryComes
<1>2. ASSUME NEW b \in Reviews, review' = [review EXCEPT ![b].late = FALSE], UNCHANGED task
      PROVE  UpkeepInv'
  <2>1. review \in [Reviews -> Batches]
    BY DEF UpkeepInv, RowsOK
  <2>2. /\ review' \in [Reviews -> Batches]
        /\ \A c \in Reviews : review'[c].state = review[c].state /\ review'[c].failures = review[c].failures
    BY <1>2, <2>1 DEF Batches
  <2>3. BatchSide' /\ SourceSide' /\ Waiting' = Waiting
    BY <1>1, <1>2, <2>2, BatchGoesBack, TasksKept
  <2>4. WorkerHolds'
    <3>. UNCHANGED <<source, task, at, Waiting>>
      BY <1>1, <1>2, <2>3
    <3>0. \A x \in Sources : OwnerAt(x) => OwnerAt(x)'
      BY DEF OwnerAt
    <3>1. \A x \in Sources : StateAt(x) => StateAt(x)'
      BY DEF StateAt
    <3>2. \A c \in Reviews : MemoryAt(c) => MemoryAt(c)'
      BY <1>1, <2>2 DEF MemoryAt, BatchOpen
    <3>. QED  BY <3>0, <3>1, <3>2 DEF UpkeepInv, WorkerHolds
  <2>5. RowsOK'
    BY <1>1, <1>2, <2>2 DEF UpkeepInv, RowsOK
  <2>. QED  BY <2>3, <2>4, <2>5 DEF SourceSide, BatchSide, UpkeepInv
<1>. QED  BY <1>1, <1>2, TasksFallDue DEF RetryComes

-----------------------------------------------------------------------------
\* At first nothing is staged.
LEMMA UpkeepInitInv == UpkeepInit => UpkeepInv
<1>. SUFFICES ASSUME UpkeepInit  PROVE UpkeepInv
  OBVIOUS
<1>1. /\ source = [s \in Sources |-> "none"] /\ task = [s \in Sources |-> NoTask] /\ changes = {}
      /\ review = [b \in Reviews |-> [state |-> "none", late |-> FALSE, attempts |-> 0, failures |-> 0]]
      /\ chores = {} /\ at = Nothing /\ settled = <<>>
  BY DEF UpkeepInit
<1>2. NoTask \in Tasks
  <2>1. NoTurn \in Turns
    BY UpkeepBounds DEF NoTurn, Turns
  <2>. QED  BY <2>1 DEF NoTask, Tasks, TaskStates
<1>3. RowsOK
  <2>1. [state |-> "none", late |-> FALSE, attempts |-> 0, failures |-> 0] \in Batches
    BY UpkeepBounds DEF Batches, ReviewStates
  <2>2. settled \in Seq(Entries)
    BY <1>1
  <2>. QED  BY <1>1, <1>2, <2>1, <2>2 DEF RowsOK
<1>4. \A x \in Sources : /\ task[x].state = "none" /\ ~task[x].late /\ task[x].turn = NoTurn
                         /\ task[x].attempts = 0 /\ source[x] = "none" /\ ~Standing(x)
  BY <1>1 DEF NoTask, Standing
<1>5. WorkerHolds /\ SourcesInOrder /\ TaskShape /\ StandingFirst /\ LateTogether
  BY <1>1, <1>4 DEF WorkerHolds, SourcesInOrder, TaskShape, StandingFirst, LateTogether
<1>6. TurnsCounted
  BY <1>1, <1>4 DEF TurnsCounted, NoTurn, Sources
<1>7. \A k : Applied(k) = {}
  BY <1>1 DEF Applied
<1>8. SourcesApplied /\ SettledOnceInOrder
  BY <1>1, <1>4, <1>7 DEF SourcesApplied, SettledOnceInOrder
<1>9. BatchesInOrder
  BY <1>1, <1>7, UpkeepBounds DEF BatchesInOrder, BatchOpen
<1>. QED  BY <1>3, <1>5, <1>6, <1>8, <1>9 DEF UpkeepInv

\* UpkeepInv is inductive.
LEMMA UpkeepNextInv == UpkeepInv /\ [UpkeepNext]_upkeepVars => UpkeepInv'
<1>. SUFFICES ASSUME UpkeepInv, [UpkeepNext]_upkeepVars  PROVE UpkeepInv'
  OBVIOUS
<1>1. CASE UNCHANGED upkeepVars
  <2>1. chores' \subseteq ({StateJob(x) : x \in Sources} \cup {MemoryJob(b) : b \in Reviews})
    BY <1>1 DEF UpkeepInv, RowsOK, upkeepVars
  <2>. QED  BY <1>1, <2>1, QuietSteps DEF upkeepVars
<1>2. CASE UpkeepWork
  BY <1>2, TakeStateStep, AppliesStateStep, FinishesStateStep, TakeMemoryStep, AppliesMemoryStep DEF UpkeepWork
<1>3. CASE Schedule \/ OwnerSays \/ BecomesQuiet
  BY <1>3, QueueSteps
<1>4. CASE OwnerStarts \/ StageState \/ OwnerCommits \/ OwnerStops
  BY <1>4, OwnerStartsStep, StageStep, OwnerCommitsStep, OwnerStopsStep
<1>5. CASE StateFails \/ \E b \in Reviews : MemoryFails(b)
  BY <1>5, StateFailsStep, MemoryFailsStep
<1>6. CASE StopUpkeep \/ RestartUpkeep \/ RetryComes
  BY <1>6, StopUpkeepStep, RestartUpkeepStep, RetryComesStep
<1>. QED  BY <1>1, <1>2, <1>3, <1>4, <1>5, <1>6 DEF UpkeepNext

\* The worker, its rows and what was applied agree in every reachable state of memory
\* upkeep (memory_upkeep.py, maintenance.py, upkeep in storage).
THEOREM UpkeepIsInvariant == UpkeepSpec => []UpkeepInv
BY UpkeepInitInv, UpkeepNextInv, PTL DEF UpkeepSpec

\* What the owner said changes the state once and a batch the memories once, in the
\* order they were committed, also across a crash between applying and completing.
THEOREM SettlesOnceInOrder == UpkeepSpec => []SettledOnceInOrder
<1>1. UpkeepInv => SettledOnceInOrder
  BY DEF UpkeepInv
<1>. QED  BY <1>1, UpkeepIsInvariant, PTL

\* A task or batch that is completed had its changes applied: no restart closes one.
THEOREM ClosedHasBeenApplied == UpkeepSpec => []ClosedWasApplied
<1>1. UpkeepInv => ClosedWasApplied
  BY DEF UpkeepInv, TaskShape, SourcesApplied, BatchesInOrder, ClosedWasApplied
<1>. QED  BY <1>1, UpkeepIsInvariant, PTL

\* UpkeepInv has the types.
LEMMA UpkeepTypes == UpkeepInv => UpkeepTypeOK
<1>. SUFFICES ASSUME RowsOK  PROVE UpkeepTypeOK
  BY DEF UpkeepInv
<1>1. \A s \in Sources : task[s].state \in TaskStates
  BY TaskTypes
<1>2. \A b \in Reviews : review[b].state \in ReviewStates /\ review[b].failures <= FailureLimit
  BY UpkeepBounds DEF RowsOK, Batches
<1>. QED  BY <1>1, <1>2 DEF RowsOK, UpkeepTypeOK, TaskStates, ReviewStates

-----------------------------------------------------------------------------
\* The rows of the Episode.
Fates   == {"none", "new", "deferred", "away", "here"}
RangeStates == {"none", "running", "restarted", "cancelled", "completed"}
Digests == [covers : Seq(Talks), told : BOOLEAN]
Chores  == [mode : {"none", "idle", "reflection"}, stage : {"none", "select", "classify", "choose", "anneal"},
            batch : SUBSET Talks, latest : 0 .. MaxTurns, through : 0 .. MaxTurns, named : BOOLEAN]

FilingTypes == /\ fate \in [Talks -> Fates] /\ renewed \subseteq Talks /\ order \in Seq(Talks)
               /\ status \in {"open", "closing", "closed"}
SummaryTypes == /\ digest \in Digests /\ held \in BOOLEAN /\ abandoned \in BOOLEAN
                /\ retry \in {"none", "late", "due"} /\ failures \in 0 .. GiveUpAfter
                /\ ranges \in [Talks -> RangeStates]

\* A range that is summarised is of turns that are there.
RangeIsThere == chore.stage = "anneal" => chore.through \in 1 .. Len(order)
RestsWholly == Resting => chore.stage = "none"
ClaimMayFail == (held => ~abandoned) /\ (~abandoned => failures < GiveUpAfter)

EpisodeInv ==
  /\ FilingTypes /\ SummaryTypes /\ chore \in Chores
  /\ SummaryMatchesHistory /\ RangeIsThere /\ RestsWholly /\ ClaimMayFail

\* Where a turn takes its place, those behind it move up.
LEMMA PlacedOrder ==
  ASSUME FilingTypes, NEW t \in Talks, NEW k \in 0 .. Len(order), Placed(t, k)
  PROVE  /\ order' \in Seq(Talks) /\ Len(order') = Len(order) + 1
         /\ \A i \in 1 .. Len(order) + 1 :
              order'[i] = IF i <= k THEN order[i] ELSE IF i = k + 1 THEN t ELSE order[i - 1]
<1>. DEFINE n == Len(order)  a == SubSeq(order, 1, k)  b == <<t>>  c == SubSeq(order, k + 1, n)
<1>1. order \in Seq(Talks) /\ n \in Nat /\ k \in Nat /\ k <= n /\ \A i \in 1 .. n : order[i] \in Talks
  BY DEF FilingTypes
<1>2. order' = a \o b \o c
  BY DEF Placed
<1>. HIDE DEF n
<1>3. /\ a \in Seq(Talks) /\ Len(a) = k /\ \A i \in 1 .. k : a[i] = order[i]
  <2>1. \A i \in 1 .. k : order[i] \in Talks
    BY <1>1
  <2>2. /\ SubSeq(order, 1, k) \in Seq(Talks)
        /\ Len(SubSeq(order, 1, k)) = IF 1 <= k THEN k - 1 + 1 ELSE 0
        /\ \A i \in 1 .. k - 1 + 1 : SubSeq(order, 1, k)[i] = order[1 + i - 1]
    BY <1>1, <2>1, SubSeqProperties
  <2>. QED  BY <1>1, <2>2
<1>4. c \in Seq(Talks) /\ Len(c) = n - k /\ \A i \in 1 .. n - k : c[i] = order[k + i]
  <2>1. \A i \in k + 1 .. n : order[i] \in Talks
    BY <1>1
  <2>2. /\ SubSeq(order, k + 1, n) \in Seq(Talks)
        /\ Len(SubSeq(order, k + 1, n)) = IF k + 1 <= n THEN n - (k + 1) + 1 ELSE 0
        /\ \A i \in 1 .. n - (k + 1) + 1 : SubSeq(order, k + 1, n)[i] = order[k + 1 + i - 1]
    BY <1>1, <2>1, SubSeqProperties
  <2>. QED  BY <1>1, <2>2
<1>5. b \in Seq(Talks) /\ Len(b) = 1 /\ b[1] = t
  OBVIOUS
<1>. HIDE DEF a, b, c
<1>6. a \o b \in Seq(Talks) /\ Len(a \o b) = k + 1
      /\ \A i \in 1 .. k + 1 : (a \o b)[i] = IF i <= k THEN order[i] ELSE t
  <2>1. /\ a \o b \in Seq(Talks) /\ Len(a \o b) = Len(a) + Len(b)
        /\ \A i \in 1 .. Len(a) + Len(b) : (a \o b)[i] = IF i <= Len(a) THEN a[i] ELSE b[i - Len(a)]
    BY <1>3, <1>5, ConcatProperties
  <2>2. ASSUME NEW i \in 1 .. k + 1  PROVE (a \o b)[i] = IF i <= k THEN order[i] ELSE t
    BY <1>1, <1>3, <1>5, <2>1
  <2>. QED  BY <1>3, <1>5, <2>1, <2>2
<1>7. /\ (a \o b) \o c \in Seq(Talks) /\ Len((a \o b) \o c) = Len(a \o b) + Len(c)
      /\ \A i \in 1 .. Len(a \o b) + Len(c) :
           ((a \o b) \o c)[i] = IF i <= Len(a \o b) THEN (a \o b)[i] ELSE c[i - Len(a \o b)]
  BY <1>4, <1>6, ConcatProperties
<1>8. order' \in Seq(Talks) /\ Len(order') = n + 1
  BY <1>1, <1>2, <1>4, <1>6, <1>7
<1>9. ASSUME NEW i \in 1 .. n + 1
      PROVE  order'[i] = IF i <= k THEN order[i] ELSE IF i = k + 1 THEN t ELSE order[i - 1]
  <2>1. order'[i] = IF i <= k + 1 THEN (a \o b)[i] ELSE c[i - (k + 1)]
    BY <1>1, <1>2, <1>4, <1>6, <1>7
  <2>2. CASE i <= k + 1
    BY <1>1, <1>6, <2>1, <2>2
  <2>3. CASE ~(i <= k + 1)
    <3>1. i - (k + 1) \in 1 .. n - k /\ k + (i - (k + 1)) = i - 1
      BY <1>1, <2>3
    <3>. QED  BY <1>1, <1>4, <2>1, <2>3, <3>1
  <2>. QED  BY <2>2, <2>3
<1>. QED  BY <1>8, <1>9 DEF n

\* The Episode has no more turns than there are.
LEMMA OrderFits ==
  ASSUME order \in Seq(Talks), \A i, j \in 1 .. Len(order) : i < j => order[i] < order[j]
  PROVE  Len(order) \in 0 .. MaxTurns
<1>. DEFINE n == Len(order)  f == [i \in 1 .. n |-> order[i]]
<1>1. n \in Nat /\ MaxTurns \in Nat /\ \A i \in 1 .. n : order[i] \in Talks
  BY EpisodeBounds
<1>2. f \in [1 .. n -> Talks] /\ \A i \in 1 .. n : f[i] = order[i]
  BY <1>1
<1>. HIDE DEF f, n
<1>3. IsFiniteSet(1 .. n) /\ Cardinality(1 .. n) = n
  <2>1. IsFiniteSet(1 .. n) /\ Cardinality(1 .. n) = IF 1 > n THEN 0 ELSE n - 1 + 1
    BY <1>1, FS_Interval
  <2>. QED  BY <1>1, <2>1
<1>4. IsFiniteSet(Talks) /\ Cardinality(Talks) = MaxTurns
  BY <1>1, FS_Interval DEF Talks
<1>5. \A x, y \in 1 .. n : x # y => f[x] # f[y]
  <2>1. \A x, y \in 1 .. n : x < y => order[x] < order[y]
    BY DEF n
  <2>2. \A x \in 1 .. n : f[x] = order[x] /\ order[x] \in Nat
    BY <1>1, <1>2 DEF Talks
  <2>3. \A x, y \in 1 .. n : x < y => f[x] # f[y]
    BY <2>1, <2>2
  <2>4. \A x, y \in 1 .. n : x # y => x < y \/ y < x
    BY <1>1
  <2>. QED  BY <2>3, <2>4
<1>6. ~(Cardinality(Talks) < Cardinality(1 .. n))
  <2>1. SUFFICES ASSUME Cardinality(Talks) < Cardinality(1 .. n)  PROVE FALSE
    OBVIOUS
  <2>2. IsFiniteSet(1 .. n) /\ IsFiniteSet(Talks) /\ f \in [1 .. n -> Talks]
    BY <1>2, <1>3, <1>4
  <2>3. \E x, y \in 1 .. n : x # y /\ f[x] = f[y]
    BY <2>1, <2>2, FS_PigeonHole
  <2>. QED  BY <1>5, <2>3
<1>. QED  BY <1>1, <1>3, <1>4, <1>6 DEF n

\* A place for a turn keeps the order.
LEMMA PlacedInOrder ==
  ASSUME FilingTypes, NEW t \in Talks, NEW k \in 0 .. Len(order), Placed(t, k),
         \A i, j \in 1 .. Len(order) : i < j => order[i] < order[j]
  PROVE  \A i, j \in 1 .. Len(order') : i < j => order'[i] < order'[j]
<1>. DEFINE n == Len(order)
<1>1. order \in Seq(Talks) /\ n \in Nat /\ k \in 0 .. n
  BY DEF FilingTypes
<1>2. \A i \in 1 .. n : order[i] \in Nat /\ t \in Nat /\ (i <= k => order[i] < t) /\ (~(i <= k) => t < order[i])
  <2>1. \A i \in 1 .. n : order[i] \in Talks
    BY <1>1
  <2>. QED  BY <2>1, EpisodeBounds DEF Placed, Talks
<1>3. /\ Len(order') = n + 1
      /\ \A i \in 1 .. n + 1 :
           order'[i] = IF i <= k THEN order[i] ELSE IF i = k + 1 THEN t ELSE order[i - 1]
  BY PlacedOrder
<1>4. \A i, j \in 1 .. n : i < j => order[i] < order[j]
  OBVIOUS
<1>. HIDE DEF n
<1>5. SUFFICES ASSUME NEW i \in 1 .. n + 1, NEW j \in 1 .. n + 1, i < j
               PROVE  order'[i] < order'[j]
  BY <1>3
<1>6. CASE j <= k
  BY <1>1, <1>3, <1>4, <1>5, <1>6
<1>7. CASE j = k + 1
  <2>1. i \in 1 .. n /\ i <= k /\ order'[i] = order[i]
    BY <1>1, <1>3, <1>5, <1>7
  <2>2. order'[j] = t
    BY <1>1, <1>3, <1>7
  <2>. QED  BY <1>2, <2>1, <2>2
<1>8. CASE ~(j <= k + 1)
  <2>1. j - 1 \in 1 .. n /\ ~(j - 1 <= k) /\ order'[j] = order[j - 1]
    BY <1>1, <1>3, <1>8
  <2>2. CASE i <= k
    <3>1. i \in 1 .. n /\ i < j - 1 /\ order'[i] = order[i]
      BY <1>1, <1>3, <1>8, <2>2
    <3>. QED  BY <1>4, <2>1, <3>1
  <2>3. CASE i = k + 1
    <3>1. order'[i] = t
      BY <1>1, <1>3, <2>3
    <3>. QED  BY <1>2, <2>1, <3>1
  <2>4. CASE ~(i <= k + 1)
    <3>1. i - 1 \in 1 .. n /\ i - 1 < j - 1 /\ order'[i] = order[i - 1]
      BY <1>1, <1>3, <1>5, <2>4
    <3>. QED  BY <1>4, <2>1, <3>1
  <2>. QED  BY <1>1, <2>2, <2>3, <2>4
<1>. QED  BY <1>1, <1>6, <1>7, <1>8

\* A turn at the end leaves the turns before it.
LEMMA LastKeepsPrefix ==
  ASSUME FilingTypes, NEW t \in Talks, Placed(t, Len(order)), NEW m \in 0 .. Len(order)
  PROVE  SubSeq(order', 1, m) = SubSeq(order, 1, m)
<1>. DEFINE n == Len(order)
<1>1. order \in Seq(Talks) /\ n \in Nat /\ m \in 0 .. n /\ \A i \in 1 .. n : order[i] \in Talks
  BY DEF FilingTypes
<1>2. \A i \in 1 .. n : order'[i] = order[i]
  <2>1. n \in 0 .. Len(order)
    BY <1>1
  <2>2. \A i \in 1 .. n + 1 : order'[i] = IF i <= n THEN order[i] ELSE IF i = n + 1 THEN t ELSE order[i - 1]
    BY <2>1, PlacedOrder
  <2>. QED  BY <1>1, <2>2
<1>. HIDE DEF n
<1>3. /\ SubSeq(order, 1, m) \in Seq(Talks)
      /\ Len(SubSeq(order, 1, m)) = IF 1 <= m THEN m - 1 + 1 ELSE 0
      /\ \A i \in 1 .. m - 1 + 1 : SubSeq(order, 1, m)[i] = order[1 + i - 1]
  <2>1. \A i \in 1 .. m : order[i] \in Talks
    BY <1>1
  <2>. QED  BY <1>1, <2>1, SubSeqProperties
<1>4. /\ SubSeq(order', 1, m) \in Seq(Talks)
      /\ Len(SubSeq(order', 1, m)) = IF 1 <= m THEN m - 1 + 1 ELSE 0
      /\ \A i \in 1 .. m - 1 + 1 : SubSeq(order', 1, m)[i] = order'[1 + i - 1]
  <2>1. \A i \in 1 .. m : order'[i] \in Talks
    BY <1>1, <1>2
  <2>. QED  BY <1>1, <2>1, SubSeqProperties
<1>5. /\ Len(SubSeq(order, 1, m)) = Len(SubSeq(order', 1, m))
      /\ \A i \in 1 .. Len(SubSeq(order, 1, m)) : SubSeq(order, 1, m)[i] = SubSeq(order', 1, m)[i]
  BY <1>1, <1>2, <1>3, <1>4
<1>. QED  BY <1>3, <1>4, <1>5, SeqEqual

-----------------------------------------------------------------------------
\* The fields of a chore.
LEMMA ChoreTypes ==
  ASSUME chore \in Chores
  PROVE  /\ chore.mode \in {"none", "idle", "reflection"}
         /\ chore.stage \in {"none", "select", "classify", "choose", "anneal"}
         /\ chore.batch \in SUBSET Talks /\ chore.latest \in 0 .. MaxTurns
         /\ chore.through \in 0 .. MaxTurns /\ chore.named \in BOOLEAN
BY DEF Chores

\* No chore.
LEMMA Rests == NoChore \in Chores /\ NoChore.stage = "none" /\ NoChore.mode = "none"
<1>1. 0 \in 0 .. MaxTurns
  BY EpisodeBounds
<1>. QED  BY <1>1 DEF NoChore, Chores

\* No summary.
LEMMA NothingTold == NoDigest \in Digests /\ NoDigest.covers = <<>> /\ Len(NoDigest.covers) = 0
BY DEF NoDigest, Digests

\* A summary of nothing.
LEMMA NothingCovered ==
  ASSUME order \in Seq(Talks)
  PROVE  SubSeq(order, 1, 0) = <<>>
BY SubSeqEmpty

\* The claim of a range is what a step may touch when the turns, their order and the
\* summary stay.
SummaryStays == UNCHANGED <<fate, renewed, order, digest>>

\* Steps that leave the history and the summary.
LEMMA OrderStays ==
  ASSUME EpisodeInv, UNCHANGED <<order, digest>>, held' => chore'.stage = "anneal"
  PROVE  SummaryMatchesHistory'
BY DEF EpisodeInv, SummaryMatchesHistory, Mark

\* A step of the world, or of the maintenance with its claim.
LEMMA ClaimSteps ==
  ASSUME EpisodeInv, UNCHANGED <<order, digest>>,
         fate' \in [Talks -> Fates], renewed' \subseteq Talks, status' \in {"open", "closing", "closed"},
         chore' \in Chores, chore'.mode = "none" => chore'.stage = "none", ranges' \in [Talks -> RangeStates], retry' \in {"none", "late", "due"},
         held' \in BOOLEAN, held' => chore'.stage = "anneal" /\ ~abandoned',
         \/ UNCHANGED <<failures, abandoned>>
         \/ /\ failures' \in 0 .. GiveUpAfter /\ abandoned' \in BOOLEAN
            /\ ~abandoned' => failures' < GiveUpAfter,
         chore'.stage = "anneal" => chore'.through \in 1 .. Len(order)
  PROVE  EpisodeInv'
<1>1. FilingTypes /\ SummaryTypes /\ ClaimMayFail
  BY DEF EpisodeInv
<1>2. FilingTypes'
  BY <1>1 DEF FilingTypes
<1>3. SummaryTypes'
  BY <1>1 DEF SummaryTypes
<1>4. SummaryMatchesHistory'
  BY OrderStays
<1>5. RangeIsThere' /\ RestsWholly' /\ ClaimMayFail'
  BY <1>1 DEF RangeIsThere, RestsWholly, Resting, ClaimMayFail
<1>. QED  BY <1>2, <1>3, <1>4, <1>5 DEF EpisodeInv

\* A fate is changed.
LEMMA FateTypes ==
  ASSUME fate \in [Talks -> Fates], NEW t \in Talks, NEW v \in Fates
  PROVE  [fate EXCEPT ![t] = v] \in [Talks -> Fates]
OBVIOUS

\* A range is changed.
LEMMA RangeTypes ==
  ASSUME ranges \in [Talks -> RangeStates], NEW t, NEW v \in RangeStates
  PROVE  [ranges EXCEPT ![t] = v] \in [Talks -> RangeStates]
OBVIOUS

\* The message of the owner lets go of the claim of the maintenance it cancels.
LEMMA CancelsClaim ==
  ASSUME EpisodeInv, Cancels
  PROVE  /\ chore' \in Chores /\ ranges' \in [Talks -> RangeStates] /\ held' \in BOOLEAN
         /\ held' => chore'.stage = "anneal" /\ ~abandoned
         /\ chore'.stage = "anneal" => chore'.through \in 1 .. Len(order)
         /\ chore'.mode = "none" => chore'.stage = "none"
<1>1. /\ chore \in Chores /\ ranges \in [Talks -> RangeStates] /\ held \in BOOLEAN
      /\ held => chore.stage = "anneal" /\ ~abandoned
      /\ chore.stage = "anneal" => chore.through \in 1 .. Len(order)
      /\ chore.mode = "none" => chore.stage = "none"
  BY DEF RestsWholly, Resting, EpisodeInv, SummaryTypes, SummaryMatchesHistory, RangeIsThere, ClaimMayFail
<1>2. CASE chore.mode = "idle"
  <2>1. chore' = NoChore /\ held' = IF chore.stage = "anneal" THEN FALSE ELSE held
    BY <1>2 DEF Cancels
  <2>2. ranges' \in [Talks -> RangeStates]
    BY <1>1, <1>2, RangeTypes DEF Cancels, RangeStates
  <2>3. held' = FALSE
    BY <1>1, <2>1
  <2>. QED  BY <2>1, <2>2, <2>3, Rests
<1>3. CASE chore.mode # "idle"
  <2>1. UNCHANGED <<chore, held, ranges>>
    BY <1>3 DEF Cancels
  <2>. QED  BY <1>1, <2>1
<1>. QED  BY <1>2, <1>3

\* Turns are added and timers fall due.
LEMMA WorldEpisodeSteps ==
  ASSUME EpisodeInv, Converse \/ GrowsIdle \/ ClosesIdle \/ ExpiresDeferral \/ RetryFallsDue
  PROVE  EpisodeInv'
<1>1. /\ fate \in [Talks -> Fates] /\ renewed \subseteq Talks /\ status \in {"open", "closing", "closed"}
      /\ chore \in Chores /\ ranges \in [Talks -> RangeStates] /\ retry \in {"none", "late", "due"}
      /\ held \in BOOLEAN /\ (held => chore.stage = "anneal" /\ ~abandoned)
      /\ chore.stage = "anneal" => chore.through \in 1 .. Len(order)
      /\ chore.mode = "none" => chore.stage = "none"
  BY DEF RestsWholly, Resting, EpisodeInv, FilingTypes, SummaryTypes, SummaryMatchesHistory, RangeIsThere, ClaimMayFail
<1>2. CASE Converse
  <2>1. PICK t \in Talks : fate' = [fate EXCEPT ![t] = "new"]
    BY <1>2 DEF Converse
  <2>2. fate' \in [Talks -> Fates]
    BY <1>1, <2>1 DEF Fates
  <2>3. /\ renewed' \subseteq Talks /\ status' \in {"open", "closing", "closed"}
        /\ UNCHANGED <<order, digest, retry, failures, abandoned>> /\ Cancels
    BY <1>1, <1>2 DEF Converse
  <2>4. /\ chore' \in Chores /\ ranges' \in [Talks -> RangeStates] /\ held' \in BOOLEAN
        /\ held' => chore'.stage = "anneal" /\ ~abandoned
        /\ chore'.stage = "anneal" => chore'.through \in 1 .. Len(order)
        /\ chore'.mode = "none" => chore'.stage = "none"
    BY <2>3, CancelsClaim
  <2>. QED  BY <1>1, <2>2, <2>3, <2>4, ClaimSteps
<1>3. CASE GrowsIdle
  <2>1. UNCHANGED <<fate, renewed, order, status, digest, held, retry, failures, abandoned, ranges, chore>>
    BY <1>3 DEF GrowsIdle, filingVars, summaryVars
  <2>. QED  BY <1>1, <2>1, ClaimSteps
<1>4. CASE ClosesIdle
  <2>1. /\ UNCHANGED <<fate, renewed, order, digest, held, retry, failures, abandoned, ranges, chore>>
        /\ status' = "closed"
    BY <1>4 DEF ClosesIdle, summaryVars
  <2>. QED  BY <1>1, <2>1, ClaimSteps
<1>5. CASE ExpiresDeferral
  <2>1. PICK t \in Talks : fate' = [fate EXCEPT ![t] = "away"]
    BY <1>5 DEF ExpiresDeferral
  <2>2. fate' \in [Talks -> Fates]
    BY <1>1, <2>1 DEF Fates
  <2>3. UNCHANGED <<renewed, order, status, digest, held, retry, failures, abandoned, ranges, chore>>
    BY <1>5 DEF ExpiresDeferral, summaryVars
  <2>. QED  BY <1>1, <2>2, <2>3, ClaimSteps
<1>6. CASE RetryFallsDue
  <2>1. /\ UNCHANGED <<fate, renewed, order, status, digest, held, failures, abandoned, ranges, chore>>
        /\ retry' = "due"
    BY <1>6 DEF RetryFallsDue, filingVars
  <2>. QED  BY <1>1, <2>1, ClaimSteps
<1>. QED  BY <1>2, <1>3, <1>4, <1>5, <1>6

-----------------------------------------------------------------------------
\* The types, one by one.
LEMMA EpisodeFacts ==
  ASSUME EpisodeInv
  PROVE  /\ fate \in [Talks -> Fates] /\ renewed \subseteq Talks /\ status \in {"open", "closing", "closed"}
         /\ order \in Seq(Talks) /\ digest \in Digests
         /\ chore \in Chores /\ ranges \in [Talks -> RangeStates] /\ retry \in {"none", "late", "due"}
         /\ held \in BOOLEAN /\ abandoned \in BOOLEAN /\ failures \in 0 .. GiveUpAfter
         /\ held => chore.stage = "anneal" /\ ~abandoned
         /\ chore.stage = "anneal" => chore.through \in 1 .. Len(order)
         /\ chore.mode = "none" => chore.stage = "none"
         /\ ~abandoned => failures < GiveUpAfter
         /\ Mark \in Nat /\ Mark <= Len(order) /\ Len(order) \in 0 .. MaxTurns
<1>1. Len(order) \in 0 .. MaxTurns
  BY OrderFits DEF EpisodeInv, FilingTypes, SummaryMatchesHistory
<1>2. Mark \in Nat /\ Mark <= Len(order)
  <2>1. digest.covers \in Seq(Talks)
    BY DEF EpisodeInv, SummaryTypes, Digests
  <2>. QED  BY <2>1 DEF EpisodeInv, SummaryMatchesHistory, Mark
<1>. QED  BY <1>1, <1>2 DEF EpisodeInv, FilingTypes, SummaryTypes, SummaryMatchesHistory, RangeIsThere,
                                  RestsWholly, Resting, ClaimMayFail

\* A turn that is filed elsewhere, or left for later.
LEMMA FiledElsewhere ==
  ASSUME EpisodeInv, chore.stage = "classify", NEW t \in Talks, NEW v \in Fates,
         chore' = [chore EXCEPT !.batch = @ \ {t}], renewed' = renewed \ {t},
         fate' = [fate EXCEPT ![t] = v], UNCHANGED <<order, status, summaryVars>>
  PROVE  EpisodeInv'
<1>1. /\ renewed' \subseteq Talks /\ fate' \in [Talks -> Fates]
      /\ UNCHANGED <<order, status, digest, held, retry, failures, abandoned, ranges>>
  BY EpisodeFacts DEF summaryVars
<1>2. chore' \in Chores /\ chore'.stage = "classify" /\ chore'.mode # "none"
  BY EpisodeFacts DEF Chores
<1>. QED  BY <1>1, <1>2, EpisodeFacts, ClaimSteps

\* A turn that is filed here: the summary goes, unless the turn is the last.
LEMMA FiledHere ==
  ASSUME EpisodeInv, chore.stage = "classify", NEW t \in Talks, Filed(t),
         chore' = [chore EXCEPT !.batch = @ \ {t}], renewed' = renewed \ {t},
         fate' = [fate EXCEPT ![t] = "here"], status' \in {"open", "closing"}
  PROVE  EpisodeInv'
<1>1. PICK k \in 0 .. Len(order) :
        /\ Placed(t, k)
        /\ IF k = Len(order)
           THEN UNCHANGED summaryVars
           ELSE /\ digest' = NoDigest /\ held' = FALSE /\ retry' = "none" /\ failures' = 0
                /\ UNCHANGED <<abandoned, ranges>>
  BY DEF Filed
<1>2. FilingTypes /\ \A i, j \in 1 .. Len(order) : i < j => order[i] < order[j]
  BY DEF EpisodeInv, SummaryMatchesHistory
<1>3. order' \in Seq(Talks) /\ Len(order') = Len(order) + 1
  BY <1>1, <1>2, PlacedOrder
<1>4. \A i, j \in 1 .. Len(order') : i < j => order'[i] < order'[j]
  BY <1>1, <1>2, PlacedInOrder
<1>5. chore' \in Chores /\ chore'.stage = "classify" /\ chore'.mode # "none"
  BY EpisodeFacts DEF Chores
<1>6. FilingTypes'
  <2>1. fate' \in [Talks -> Fates]
    BY EpisodeFacts DEF Fates
  <2>. QED  BY <1>3, <2>1, EpisodeFacts DEF FilingTypes
<1>7. RangeIsThere' /\ RestsWholly'
  BY <1>5 DEF RangeIsThere, RestsWholly, Resting
<1>8. ~held
  BY EpisodeFacts
<1>9. CASE k = Len(order)
  <2>1. UNCHANGED <<digest, held, retry, failures, abandoned, ranges>>
    BY <1>1, <1>9 DEF summaryVars
  <2>2. SummaryTypes' /\ ClaimMayFail'
    BY <2>1 DEF EpisodeInv, SummaryTypes, ClaimMayFail
  <2>3. Mark \in 0 .. Len(order) /\ digest.covers = SubSeq(order, 1, Mark)
    BY EpisodeFacts DEF EpisodeInv, SummaryMatchesHistory
  <2>4. SubSeq(order', 1, Mark) = SubSeq(order, 1, Mark)
    BY <1>1, <1>2, <1>9, <2>3, LastKeepsPrefix
  <2>5. Mark' = Mark
    BY <2>1 DEF Mark
  <2>6. Mark' <= Len(order') /\ digest'.covers = SubSeq(order', 1, Mark')
    BY <1>3, <2>1, <2>3, <2>4, <2>5
  <2>7. SummaryMatchesHistory'
    BY <1>4, <1>8, <2>1, <2>6 DEF SummaryMatchesHistory
  <2>. QED  BY <1>5, <1>6, <1>7, <2>2, <2>7 DEF EpisodeInv
<1>10. CASE k # Len(order)
  <2>1. digest' = NoDigest /\ held' = FALSE /\ retry' = "none" /\ failures' = 0 /\ UNCHANGED <<abandoned, ranges>>
    BY <1>1, <1>10
  <2>2. SummaryTypes'
    <3>1. failures' \in 0 .. GiveUpAfter
      BY <2>1, EpisodeScope
    <3>2. held' \in BOOLEAN /\ retry' \in {"none", "late", "due"} /\ digest' \in Digests
      BY <2>1, NothingTold
    <3>. QED  BY <2>1, <3>1, <3>2, EpisodeFacts DEF SummaryTypes
  <2>3. ClaimMayFail'
    BY <2>1, EpisodeScope DEF ClaimMayFail
  <2>4. SubSeq(order', 1, 0) = <<>>
    BY <1>3, SubSeqEmpty
  <2>5. Mark' = 0 /\ digest'.covers = <<>>
    BY <2>1, NothingTold DEF Mark
  <2>6. Mark' <= Len(order')
    BY <1>3, <2>5, EpisodeFacts
  <2>7. SummaryMatchesHistory'
    BY <1>4, <2>1, <2>4, <2>5, <2>6 DEF SummaryMatchesHistory
  <2>. QED  BY <1>5, <1>6, <1>7, <2>2, <2>3, <2>7 DEF EpisodeInv
<1>. QED  BY <1>9, <1>10

\* A batch is classified, turn by turn.
LEMMA ClassifyStep ==
  ASSUME EpisodeInv, Classify
  PROVE  EpisodeInv'
<1>1. PICK t \in chore.batch :
        /\ chore' = [chore EXCEPT !.batch = @ \ {t}] /\ renewed' = renewed \ {t}
        /\ \/ fate' = [fate EXCEPT ![t] = "here"] /\ Filed(t) /\ status' \in {"open", "closing"}
           \/ fate' = [fate EXCEPT ![t] = "away"] /\ UNCHANGED <<order, status, summaryVars>>
           \/ fate' = [fate EXCEPT ![t] = "deferred"] /\ UNCHANGED <<order, status, summaryVars>>
  BY DEF Classify
<1>2. chore.stage = "classify" /\ t \in Talks
  <2>1. chore.batch \in SUBSET Talks
    BY EpisodeFacts, ChoreTypes
  <2>. QED  BY <2>1 DEF Classify
<1>3. "away" \in Fates /\ "deferred" \in Fates
  BY DEF Fates
<1>. QED  BY <1>1, <1>2, <1>3, FiledHere, FiledElsewhere

-----------------------------------------------------------------------------
\* A range ends in the history.
LEMMA EndsFit ==
  ASSUME EpisodeInv, NEW k \in Ends
  PROVE  k \in 1 .. Len(order) /\ k \in 0 .. MaxTurns
<1>1. Mark \in Nat /\ Mark <= Len(order) /\ Len(order) \in 0 .. MaxTurns /\ MaxTurns \in Nat
  BY EpisodeFacts, EpisodeBounds
<1>2. Spared \in Nat
  BY EpisodeScope DEF Spared
<1>3. CASE ~Complete
  <2>1. k \in (Mark + 1) .. (Len(order) - Spared)
    BY <1>3 DEF Ends
  <2>. QED  BY <1>1, <1>2, <2>1
<1>4. CASE Complete
  <2>1. Mark > 0 /\ k = Mark
    BY <1>4 DEF Ends
  <2>. QED  BY <1>1, <2>1
<1>. QED  BY <1>3, <1>4

\* A failed range counts, and is given up after too often.
LEMMA ReleasedTypes ==
  ASSUME EpisodeInv, ~abandoned, Released
  PROVE  /\ held' = FALSE /\ failures' \in 0 .. GiveUpAfter /\ abandoned' \in BOOLEAN
         /\ ~abandoned' => failures' < GiveUpAfter
         /\ retry' \in {"none", "late", "due"}
<1>1. failures \in 0 .. GiveUpAfter /\ failures < GiveUpAfter /\ GiveUpAfter \in Nat
  BY EpisodeFacts, EpisodeScope
<1>2. held' = FALSE /\ failures' = failures + 1 /\ retry' \in {"none", "late", "due"}
  BY DEF Released
<1>3. abandoned' = (failures + 1 >= GiveUpAfter)
  BY DEF Released
<1>4. abandoned' \in BOOLEAN
  BY <1>3
<1>5. failures' \in 0 .. GiveUpAfter
  BY <1>1, <1>2
<1>6. ASSUME ~abandoned'  PROVE failures' < GiveUpAfter
  <2>1. ~(failures + 1 >= GiveUpAfter)
    BY <1>3, <1>6
  <2>. QED  BY <1>1, <1>2, <2>1
<1>. QED  BY <1>2, <1>4, <1>5, <1>6

\* A range is chosen and claimed, or none.
LEMMA ChooseRangeStep ==
  ASSUME EpisodeInv, ChooseRange
  PROVE  EpisodeInv'
<1>1. UNCHANGED <<fate, renewed, order, status, digest>> /\ ~held
  BY EpisodeFacts DEF ChooseRange, filingVars
<1>2. ASSUME Claimable, NEW k \in Ends, Released, chore' = NoChore, UNCHANGED ranges
      PROVE  EpisodeInv'
  <2>1. ~abandoned
    BY <1>2 DEF Claimable
  <2>2. /\ held' = FALSE /\ failures' \in 0 .. GiveUpAfter /\ abandoned' \in BOOLEAN
        /\ ~abandoned' => failures' < GiveUpAfter
        /\ retry' \in {"none", "late", "due"}
    BY <1>2, <2>1, ReleasedTypes
  <2>. QED  BY <1>1, <1>2, <2>2, EpisodeFacts, Rests, ClaimSteps
<1>3. ASSUME Claimable, NEW k \in Ends, held' = TRUE, NEW turn, Begins(k, turn),
             UNCHANGED <<retry, failures, abandoned>>
      PROVE  EpisodeInv'
  <2>1. k \in 1 .. Len(order) /\ k \in 0 .. MaxTurns /\ ~abandoned
    BY <1>3, EndsFit DEF Claimable
  <2>2. ranges' \in [Talks -> RangeStates]
    BY <1>3, EpisodeFacts DEF Begins, RangeStates
  <2>3. chore' \in Chores /\ chore'.stage = "anneal" /\ chore'.through = k /\ chore'.mode # "none"
    <3>. DEFINE named == turn = "running"
    <3>1. named \in BOOLEAN /\ chore' = [chore EXCEPT !.stage = "anneal", !.through = k, !.named = named]
      BY <1>3 DEF Begins
    <3>. HIDE DEF named
    <3>2. [chore EXCEPT !.stage = "anneal"] \in Chores
      BY EpisodeFacts DEF Chores
    <3>3. [[chore EXCEPT !.stage = "anneal"] EXCEPT !.through = k] \in Chores
      BY <2>1, <3>2 DEF Chores
    <3>4. chore' = [[[chore EXCEPT !.stage = "anneal"] EXCEPT !.through = k] EXCEPT !.named = named]
      BY <3>1
    <3>5. chore' \in Chores
      BY <3>1, <3>3, <3>4 DEF Chores
    <3>6. chore'.stage = "anneal" /\ chore'.through = k /\ chore'.mode # "none"
      BY <3>1, EpisodeFacts DEF Chores, ChooseRange
    <3>. QED  BY <3>5, <3>6
  <2>4. held' \in BOOLEAN /\ (held' => chore'.stage = "anneal" /\ ~abandoned')
    BY <1>3, <2>1, <2>3
  <2>. QED  BY <1>1, <1>3, <2>1, <2>2, <2>3, <2>4, EpisodeFacts, ClaimSteps
<1>4. ASSUME retry' \in {retry, "none"}, chore' = NoChore, UNCHANGED <<held, failures, abandoned, ranges>>
      PROVE  EpisodeInv'
  BY <1>1, <1>4, EpisodeFacts, Rests, ClaimSteps
<1>. QED  BY <1>2, <1>3, <1>4 DEF ChooseRange

\* A range is summarised while its claim stands.
LEMMA SummariseStep ==
  ASSUME EpisodeInv, Summarise
  PROVE  EpisodeInv'
<1>1. PICK told \in BOOLEAN : digest' = [covers |-> SubSeq(order, 1, chore.through), told |-> told]
  BY DEF Summarise
<1>2. /\ held' = FALSE /\ retry' = "none" /\ failures' = 0 /\ abandoned' = FALSE
      /\ UNCHANGED <<fate, renewed, order, status>>
      /\ ranges' = IF chore.named THEN [ranges EXCEPT ![chore.through] = "completed"] ELSE ranges
      /\ chore' \in {NoChore, [NoChore EXCEPT !.mode = chore.mode, !.stage = "choose"]}
      /\ chore.stage = "anneal"
  BY DEF Summarise, filingVars
<1>. DEFINE m == chore.through
<1>3. m \in 1 .. Len(order) /\ order \in Seq(Talks) /\ Len(order) \in Nat
  BY <1>2, EpisodeFacts
<1>. HIDE DEF m
<1>4. SubSeq(order, 1, m) \in Seq(Talks) /\ Len(SubSeq(order, 1, m)) = m
  <2>1. \A i \in 1 .. m : order[i] \in Talks
    BY <1>3
  <2>2. /\ SubSeq(order, 1, m) \in Seq(Talks)
        /\ Len(SubSeq(order, 1, m)) = IF 1 <= m THEN m - 1 + 1 ELSE 0
    BY <1>3, <2>1, SubSeqProperties
  <2>. QED  BY <1>3, <2>2
<1>5. digest' = [covers |-> SubSeq(order, 1, m), told |-> told]
  BY <1>1 DEF m
<1>6. digest' \in Digests /\ digest'.covers = SubSeq(order, 1, m) /\ Mark' = m
  BY <1>4, <1>5 DEF Digests, Mark
<1>7. ranges' \in [Talks -> RangeStates]
  BY <1>2, EpisodeFacts DEF RangeStates
<1>8. chore' \in Chores /\ chore'.stage # "anneal" /\ (chore'.mode = "none" => chore'.stage = "none")
  <2>1. CASE chore' = NoChore
    BY <2>1, Rests
  <2>2. CASE chore' = [NoChore EXCEPT !.mode = chore.mode, !.stage = "choose"]
    <3>1. chore.mode \in {"none", "idle", "reflection"} /\ 0 \in 0 .. MaxTurns
      BY EpisodeFacts, ChoreTypes, EpisodeBounds
    <3>2. chore' = [mode |-> chore.mode, stage |-> "choose", batch |-> {}, latest |-> 0, through |-> 0, named |-> FALSE]
      BY <2>2 DEF NoChore
    <3>3. chore.mode # "none"
      BY <1>2, EpisodeFacts
    <3>. QED  BY <3>1, <3>2, <3>3 DEF Chores
  <2>. QED  BY <1>2, <2>1, <2>2
<1>9. SummaryMatchesHistory'
  <2>1. \A i, j \in 1 .. Len(order) : i < j => order[i] < order[j]
    BY DEF EpisodeInv, SummaryMatchesHistory
  <2>. QED  BY <1>2, <1>3, <1>6, <2>1 DEF SummaryMatchesHistory
<1>10. FilingTypes' /\ SummaryTypes'
  <2>1. failures' \in 0 .. GiveUpAfter
    BY <1>2, EpisodeScope
  <2>2. held' \in BOOLEAN /\ abandoned' \in BOOLEAN /\ retry' \in {"none", "late", "due"}
    BY <1>2
  <2>3. FilingTypes'
    BY <1>2, EpisodeFacts DEF FilingTypes
  <2>. QED  BY <1>6, <1>7, <2>1, <2>2, <2>3 DEF SummaryTypes
<1>11. RangeIsThere' /\ RestsWholly' /\ ClaimMayFail'
  BY <1>2, <1>8, EpisodeScope DEF RangeIsThere, RestsWholly, Resting, ClaimMayFail
<1>. QED  BY <1>8, <1>9, <1>10, <1>11 DEF EpisodeInv

\* An agent fails.
LEMMA MishapStep ==
  ASSUME EpisodeInv, Mishap
  PROVE  EpisodeInv'
<1>1. UNCHANGED <<fate, renewed, order, status, digest>> /\ chore' = NoChore
  BY DEF Mishap, filingVars
<1>2. ranges' \in [Talks -> RangeStates]
  BY EpisodeFacts DEF Mishap, RangeStates
<1>3. CASE held /\ Released
  <2>1. ~abandoned
    BY <1>3, EpisodeFacts
  <2>2. /\ held' = FALSE /\ failures' \in 0 .. GiveUpAfter /\ abandoned' \in BOOLEAN
        /\ ~abandoned' => failures' < GiveUpAfter
        /\ retry' \in {"none", "late", "due"}
    BY <1>3, <2>1, ReleasedTypes
  <2>. QED  BY <1>1, <1>2, <2>2, EpisodeFacts, Rests, ClaimSteps
<1>4. CASE ~held /\ UNCHANGED <<held, failures, abandoned, retry>>
  BY <1>1, <1>2, <1>4, EpisodeFacts, Rests, ClaimSteps
<1>5. held => chore.stage = "anneal"
  BY EpisodeFacts
<1>. QED  BY <1>3, <1>4, <1>5 DEF Mishap

\* A chore that starts.
LEMMA WokenChore ==
  ASSUME NEW mode \in {"idle", "reflection"}, NEW c, c = [NoChore EXCEPT !.mode = mode, !.stage = "select"]
  PROVE  c \in Chores /\ c.mode = mode /\ c.stage = "select"
<1>1. [NoChore EXCEPT !.mode = mode] \in Chores
  BY Rests DEF Chores
<1>2. c = [[NoChore EXCEPT !.mode = mode] EXCEPT !.stage = "select"]
  OBVIOUS
<1>3. c.mode = mode /\ c.stage = "select"
  BY Rests DEF Chores
<1>4. c \in Chores
  BY <1>1, <1>2 DEF Chores
<1>. QED  BY <1>3, <1>4

\* A chore starts.
LEMMA StartSteps ==
  ASSUME EpisodeInv, StartMaintenance \/ PrepareReflection
  PROVE  EpisodeInv'
<1>1. CASE StartMaintenance
  <2>1. /\ UNCHANGED <<fate, renewed, order, status, digest, held, retry, failures, abandoned, ranges>>
        /\ chore' = [NoChore EXCEPT !.mode = "idle", !.stage = "select"]
    BY <1>1 DEF StartMaintenance, filingVars, summaryVars
  <2>2. chore' \in Chores /\ chore'.stage = "select" /\ chore'.mode # "none"
    BY <2>1, WokenChore
  <2>3. ~held
    BY <1>1, EpisodeFacts, Rests DEF StartMaintenance, Resting
  <2>. QED  BY <2>1, <2>2, <2>3, EpisodeFacts, ClaimSteps
<1>2. CASE PrepareReflection
  <2>1. /\ UNCHANGED <<fate, renewed, order, status, digest, retry, failures, abandoned>>
        /\ chore' = [NoChore EXCEPT !.mode = "reflection", !.stage = "select"]
        /\ held' = IF chore.stage = "anneal" THEN FALSE ELSE held
    BY <1>2 DEF PrepareReflection, filingVars
  <2>2. chore' \in Chores /\ chore'.stage = "select" /\ chore'.mode # "none"
    BY <2>1, WokenChore
  <2>3. held' = FALSE
    BY <2>1, EpisodeFacts
  <2>4. ranges' \in [Talks -> RangeStates]
    BY <1>2, EpisodeFacts DEF PrepareReflection, RangeStates
  <2>. QED  BY <2>1, <2>2, <2>3, <2>4, EpisodeFacts, ClaimSteps
<1>. QED  BY <1>1, <1>2

\* The stages before a claim.
LEMMA StageSteps ==
  ASSUME EpisodeInv, chore.stage # "anneal", chore' \in Chores, chore'.stage # "anneal",
         chore'.mode = "none" => chore'.stage = "none", retry' \in {"none", "late", "due"},
         UNCHANGED <<fate, renewed, order, status, digest, held, failures, abandoned, ranges>>
  PROVE  EpisodeInv'
<1>1. ~held
  BY EpisodeFacts
<1>. QED  BY <1>1, EpisodeFacts, ClaimSteps

\* A batch is selected.
LEMMA SelectStep ==
  ASSUME EpisodeInv, SelectBatch
  PROVE  EpisodeInv'
<1>1. /\ UNCHANGED <<fate, renewed, order, status, digest, held, retry, failures, abandoned, ranges>>
      /\ chore.stage = "select"
  BY DEF SelectBatch, filingVars, summaryVars
<1>2. PICK S \in SUBSET Unfiled :
        \/ chore' = [chore EXCEPT !.stage = "choose"]
        \/ \E last \in S : chore' = [chore EXCEPT !.stage = "classify", !.batch = NewestOf(S), !.latest = last]
  BY DEF SelectBatch
<1>3. S \subseteq Talks /\ NewestOf(S) \in SUBSET Talks
  BY <1>2 DEF Unfiled, NewestOf
<1>4. CASE chore' = [chore EXCEPT !.stage = "choose"]
  <2>1. chore' \in Chores /\ chore'.stage = "choose" /\ chore'.mode # "none"
    BY <1>1, <1>4, EpisodeFacts DEF Chores
  <2>. QED  BY <1>1, <2>1, EpisodeFacts, StageSteps
<1>5. ASSUME NEW last \in S, chore' = [chore EXCEPT !.stage = "classify", !.batch = NewestOf(S), !.latest = last]
      PROVE  EpisodeInv'
  <2>1. last \in 0 .. MaxTurns
    BY <1>3, EpisodeBounds DEF Talks
  <2>2. chore' \in Chores /\ chore'.stage = "classify" /\ chore'.mode # "none"
    <3>. DEFINE B == NewestOf(S)
    <3>1. B \in SUBSET Talks /\ chore' = [chore EXCEPT !.stage = "classify", !.batch = B, !.latest = last]
      BY <1>3, <1>5
    <3>. HIDE DEF B
    <3>2. [chore EXCEPT !.stage = "classify"] \in Chores
      BY EpisodeFacts DEF Chores
    <3>3. [[chore EXCEPT !.stage = "classify"] EXCEPT !.batch = B] \in Chores
      BY <3>1, <3>2 DEF Chores
    <3>4. chore' = [[[chore EXCEPT !.stage = "classify"] EXCEPT !.batch = B] EXCEPT !.latest = last]
      BY <3>1
    <3>5. chore' \in Chores
      BY <2>1, <3>3, <3>4 DEF Chores
    <3>6. chore'.stage = "classify" /\ chore'.mode # "none"
      BY <1>1, <3>1, EpisodeFacts DEF Chores
    <3>. QED  BY <3>5, <3>6
  <2>. QED  BY <1>1, <2>2, EpisodeFacts, StageSteps
<1>. QED  BY <1>2, <1>4, <1>5

\* A batch is done.
LEMMA BatchDoneStep ==
  ASSUME EpisodeInv, BatchDone
  PROVE  EpisodeInv'
<1>1. /\ UNCHANGED <<fate, renewed, order, status, digest, held, retry, failures, abandoned, ranges>>
      /\ chore.stage = "classify"
  BY DEF BatchDone, filingVars, summaryVars
<1>2. \/ chore' = NoChore
      \/ \E stage \in {"select", "choose"} : chore' = [chore EXCEPT !.stage = stage]
  BY DEF BatchDone
<1>3. chore' \in Chores /\ chore'.stage # "anneal" /\ (chore'.mode = "none" => chore'.stage = "none")
  BY <1>1, <1>2, EpisodeFacts, Rests DEF Chores
<1>. QED  BY <1>1, <1>3, EpisodeFacts, StageSteps

\* Turns are left raw.
LEMMA LeavesRawStep ==
  ASSUME EpisodeInv, LeavesRaw
  PROVE  EpisodeInv'
<1>1. /\ UNCHANGED <<fate, renewed, order, status, digest, held, failures, abandoned, ranges>>
      /\ chore.stage = "choose" /\ chore' = NoChore /\ retry' \in {retry, "none"}
  BY DEF LeavesRaw, filingVars
<1>. QED  BY <1>1, EpisodeFacts, Rests, StageSteps

\* A restart.
LEMMA RestartEpisodesStep ==
  ASSUME EpisodeInv, RestartEpisodes
  PROVE  EpisodeInv'
<1>1. /\ UNCHANGED <<fate, renewed, order, status, digest, retry, failures, abandoned>>
      /\ held' = FALSE /\ chore' = NoChore
  BY DEF RestartEpisodes, filingVars
<1>2. ranges' \in [Talks -> RangeStates]
  BY EpisodeFacts DEF RestartEpisodes, RangeStates
<1>. QED  BY <1>1, <1>2, EpisodeFacts, Rests, ClaimSteps

-----------------------------------------------------------------------------
\* At first there is no history.
LEMMA EpisodeInitInv == EpisodeInit => EpisodeInv
<1>. SUFFICES ASSUME EpisodeInit  PROVE EpisodeInv
  OBVIOUS
<1>1. /\ fate = [t \in Talks |-> "none"] /\ renewed = {} /\ order = <<>> /\ status = "open"
      /\ digest = NoDigest /\ held = FALSE /\ retry = "none" /\ failures = 0 /\ abandoned = FALSE
      /\ ranges = [k \in Talks |-> "none"] /\ chore = NoChore
  BY DEF EpisodeInit
<1>2. FilingTypes
  <2>1. order \in Seq(Talks)
    BY <1>1
  <2>. QED  BY <1>1, <2>1 DEF FilingTypes, Fates
<1>3. SummaryTypes
  <2>1. failures \in 0 .. GiveUpAfter
    BY <1>1, EpisodeScope
  <2>2. ranges \in [Talks -> RangeStates]
    BY <1>1 DEF RangeStates
  <2>. QED  BY <1>1, <2>1, <2>2, NothingTold DEF SummaryTypes
<1>4. SummaryMatchesHistory
  <2>1. Len(order) = 0 /\ SubSeq(order, 1, 0) = <<>>
    <3>1. order \in Seq(Talks)
      BY <1>1
    <3>. QED  BY <1>1, <3>1, SubSeqEmpty
  <2>2. Mark = 0 /\ digest.covers = <<>>
    BY <1>1, NothingTold DEF Mark
  <2>. QED  BY <1>1, <2>1, <2>2 DEF SummaryMatchesHistory
<1>5. RangeIsThere /\ RestsWholly /\ ClaimMayFail /\ chore \in Chores
  BY <1>1, Rests, EpisodeScope DEF RangeIsThere, RestsWholly, ClaimMayFail
<1>. QED  BY <1>2, <1>3, <1>4, <1>5 DEF EpisodeInv

\* EpisodeInv is inductive.
LEMMA EpisodeNextInv == EpisodeInv /\ [EpisodeNext]_episodeVars => EpisodeInv'
<1>. SUFFICES ASSUME EpisodeInv, [EpisodeNext]_episodeVars  PROVE EpisodeInv'
  OBVIOUS
<1>1. CASE UNCHANGED episodeVars
  <2>1. UNCHANGED <<fate, renewed, order, status, digest, held, retry, failures, abandoned, ranges, chore>>
    BY <1>1 DEF episodeVars
  <2>. QED  BY <2>1, EpisodeFacts, ClaimSteps
<1>2. CASE Maintain
  BY <1>2, StartSteps, SelectStep, ClassifyStep, BatchDoneStep, ChooseRangeStep, LeavesRawStep, SummariseStep
     DEF Maintain
<1>3. CASE PrepareReflection
  BY <1>3, StartSteps
<1>4. CASE Converse \/ GrowsIdle \/ ClosesIdle \/ ExpiresDeferral \/ RetryFallsDue
  BY <1>4, WorldEpisodeSteps
<1>5. CASE Mishap \/ RestartEpisodes
  BY <1>5, MishapStep, RestartEpisodesStep
<1>. QED  BY <1>1, <1>2, <1>3, <1>4, <1>5 DEF EpisodeNext

\* History, summary and claim of an Episode agree in every reachable state (episodes in
\* storage and in the reflection workflow).
THEOREM EpisodeIsInvariant == EpisodeSpec => []EpisodeInv
BY EpisodeInitInv, EpisodeNextInv, PTL DEF EpisodeSpec

\* The summary of an Episode covers the first turns of its history as they are ordered
\* now: a turn filed late among them never leaves a summary that skips it.
THEOREM SummaryMatches == EpisodeSpec => []SummaryMatchesHistory
<1>1. EpisodeInv => SummaryMatchesHistory
  BY DEF EpisodeInv
<1>. QED  BY <1>1, EpisodeIsInvariant, PTL

\* EpisodeInv has the types.
LEMMA EpisodeTypes == EpisodeInv => EpisodeTypeOK
<1>. SUFFICES ASSUME EpisodeInv  PROVE EpisodeTypeOK
  OBVIOUS
<1>1. chore.batch \subseteq Talks /\ chore.through \in 0 .. MaxTurns
  BY EpisodeFacts, ChoreTypes
<1>. QED  BY <1>1, EpisodeFacts DEF EpisodeTypeOK, Fates, RangeStates

-----------------------------------------------------------------------------
\* What holds of the whole.
UpkeepWholeInv == UpkeepInv /\ EpisodeInv

\* A step of the whole is a step of one part, and a stutter of the other.
LEMMA PartsStep ==
  ASSUME [MCNext]_<<upkeepVars, episodeVars, part>>
  PROVE  [UpkeepNext]_upkeepVars /\ [EpisodeNext]_episodeVars
BY DEF MCNext

\* The two parts keep their invariants together.
THEOREM MaintenanceIsInvariant == MCSpec => []UpkeepWholeInv
<1>1. MCInit => UpkeepWholeInv
  BY UpkeepInitInv, EpisodeInitInv DEF MCInit, UpkeepWholeInv
<1>2. UpkeepWholeInv /\ [MCNext]_<<upkeepVars, episodeVars, part>> => UpkeepWholeInv'
  BY PartsStep, UpkeepNextInv, EpisodeNextInv DEF UpkeepWholeInv
<1>. QED  BY <1>1, <1>2, PTL DEF MCSpec

\* The rows of upkeep and of Episodes keep their types.
THEOREM MaintenanceTypes == MCSpec => []MaintenanceTypeOK
<1>1. UpkeepWholeInv => MaintenanceTypeOK
  BY UpkeepTypes, EpisodeTypes DEF UpkeepWholeInv, MaintenanceTypeOK
<1>. QED  BY <1>1, MaintenanceIsInvariant, PTL
=============================================================================
