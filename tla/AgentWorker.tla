---------------------------- MODULE AgentWorker ----------------------------
(***************************************************************************)
(* The one worker coroutine: it serves the owner first, lets every other   *)
(* job compete with aging, parks a background turn at a checkpoint while   *)
(* it serves the owner in a nested run of itself, and delivers /stop.      *)
(* Sources: runtime/dispatch/worker.py, runtime/interruptions.py,          *)
(* runtime/jobs.py and the pause points of runtime/agent/loop.py.          *)
(***************************************************************************)
EXTENDS Integers, Sequences, FiniteSets, Functions

CONSTANTS
  WorkerKinds,   \* the kinds of jobs that may arrive
  MaxCopies,     \* bound: jobs of a kind
  MaxInbox,      \* bound: owner messages that wait at a time
  MaxWrites      \* bound: owner messages and /stop ever

KindTable == [plan_step |-> 0, current_state_maintenance |-> -1, goal |-> 0, webhook |-> 1,
              memory_operation |-> 1, reflection |-> 1, weekly_reflection |-> 2, heartbeat |-> 3]

ASSUME WorkerScope == WorkerKinds \subseteq DOMAIN KindTable
ASSUME WorkerBounds == MaxCopies \in Nat /\ MaxInbox \in Nat /\ MaxWrites \in Nat

WorkerJobs == WorkerKinds \X (1 .. MaxCopies)
Kind(j) == j[1]
NoJob == <<"none", 0>>

\* TURN_INGRESS: what a message does to a turn of the kind.
Yields(j)   == Kind(j) \in {"webhook", "goal", "heartbeat"}
PausedBy(j) == Kind(j) = "plan_step"

VARIABLES
  inbox,       \* owner messages waiting: incoming and _deferred_incoming
  autonomous,  \* the queue autonomous
  hooks,       \* the queue webhook_requests
  waited,      \* wait_rounds of the queued jobs
  phase,       \* where the worker is
  inner,       \* where its nested run is
  job,         \* the job that is worked on
  task,        \* its task
  active,      \* _active_turn: the job's task, an owner turn's, or None
  ownerTask,   \* the owner turn's task
  requested,   \* pause.requested
  resume,      \* pause.resume
  stopReq,     \* _stop_requested
  writes,      \* owner messages so far
  stopped      \* history: /stop was received while the present job's task was alive

jobQueues == <<autonomous, hooks, waited>>
jobVars    == <<job, task, requested, resume, stopped>>
workerVars == <<inbox, autonomous, hooks, waited, phase, inner, job, task, active, ownerTask,
                requested, resume, stopReq, writes, stopped>>

InQueue(j)  == j \in Range(autonomous) \cup Range(hooks)
TaskDone    == task \in {"ok", "cancelled"}
TaskAlive   == task \in {"run", "parked", "cancelling"}
ActiveAlive == (active = "job" /\ ~TaskDone) \/ (active = "owner" /\ ownerTask # "none")

-----------------------------------------------------------------------------
(***************************************************************************)
(* What arrives: jobs, messages, /stop.                                    *)
(***************************************************************************)

\* Schedulers keep one claim per job: a job is queued once.
Enqueue(j) ==
  /\ ~InQueue(j) /\ job # j
  /\ waited' = [waited EXCEPT ![j] = 0]
  /\ IF Kind(j) = "webhook" THEN hooks' = Append(hooks, j) /\ UNCHANGED autonomous
                      ELSE autonomous' = Append(autonomous, j) /\ UNCHANGED hooks
  /\ UNCHANGED <<inbox, phase, inner, jobVars, active, ownerTask, stopReq, writes>>

Arrives == writes < MaxWrites /\ inbox < MaxInbox /\ writes' = writes + 1 /\ inbox' = inbox + 1

\* Slip: a turn that is parked already is not asked again.
MessageArrivesUnasked ==
  /\ Arrives
  /\ LET hits == active = "job" /\ ~TaskDone
     IN  \/ /\ requested' = (requested \/ (hits /\ Yields(job) /\ task # "parked"))
            /\ UNCHANGED <<task, stopReq>>
         \/ /\ hits /\ PausedBy(job) /\ task' = "cancelling" /\ stopReq' = TRUE
            /\ UNCHANGED requested
  /\ UNCHANGED <<jobQueues, phase, inner, job, active, ownerTask, resume, stopped>>

\* owner_arrived with a message: a job that yields is asked to pause, a plan step is
\* cancelled if the message is on its channel; an owner turn takes the message in,
\* other jobs let it wait.
OwnerMessageArrives ==
  /\ Arrives
  /\ LET hits == active = "job" /\ ~TaskDone
     IN  \/ /\ requested' = (requested \/ (hits /\ Yields(job)))
            /\ UNCHANGED <<task, stopReq>>
         \/ /\ hits /\ PausedBy(job) /\ task' = "cancelling" /\ stopReq' = TRUE
            /\ UNCHANGED requested
  /\ UNCHANGED <<jobQueues, phase, inner, job, active, ownerTask, resume, stopped>>

\* A parked task only waits: its cancellation meets no code that awaits.
AfterCancel == IF task = "run" THEN "cancelling" ELSE IF task = "parked" THEN "cancelled" ELSE task

\* owner_arrived(stop=True): with no live active turn it returns at once; otherwise
\* it cancels the active turn and the parked one behind it.
StopArrives ==
  /\ Arrives
  /\ stopped' = (stopped \/ TaskAlive)
  /\ IF ActiveAlive
     THEN /\ stopReq' = TRUE
          /\ task' = AfterCancel
          /\ ownerTask' = IF active = "owner" THEN "cancelling" ELSE ownerTask
     ELSE UNCHANGED <<stopReq, task, ownerTask>>
  /\ UNCHANGED <<jobQueues, phase, inner, job, active, requested, resume>>

-----------------------------------------------------------------------------
(***************************************************************************)
(* _next_work.                                                             *)
(***************************************************************************)
Effective(j, w) == KindTable[Kind(j)] - w

\* The least by effective priority, then by longer wait, then by place.
Beats(s, i, k) ==
  LET wi == waited[s[i]]  wk == waited[s[k]]
      ei == Effective(s[i], wi)  ek == Effective(s[k], wk)
  IN  ei < ek \/ (ei = ek /\ (wi > wk \/ (wi = wk /\ i <= k)))

\* _prioritize_autonomous: place decides between equals.
BeatsByPlace(s, i, k) ==
  LET ei == Effective(s[i], waited[s[i]])  ek == Effective(s[k], waited[s[k]])
  IN  ei < ek \/ (ei = ek /\ i <= k)

Without(s, i) == [k \in 1 .. Len(s) - 1 |-> IF k < i THEN s[k] ELSE s[k + 1]]

\* Slip: a job that waits keeps its place in line for good.
AgeNever(s) == UNCHANGED waited

Age(s) == waited' = [j \in WorkerJobs |-> IF j \in Range(s) THEN waited[j] + 1 ELSE waited[j]]

\* start_active_turn.
StartJob(j) ==
  /\ job' = j /\ task' = "run" /\ active' = "job"
  /\ requested' = FALSE /\ resume' = FALSE /\ stopReq' = FALSE /\ stopped' = FALSE
  /\ phase' = IF Yields(j) THEN "watch" ELSE "plain"
  /\ UNCHANGED <<inbox, inner, ownerTask, writes>>

\* A webhook whose requester gave up, or maintenance with nothing to do, is dropped.
DropJob(j) ==
  /\ Kind(j) \in {"webhook", "current_state_maintenance"}
  /\ phase' = "choose"
  /\ UNCHANGED <<inbox, inner, jobVars, active, ownerTask, stopReq, writes>>

TakeOwner ==
  /\ phase = "choose" /\ inbox > 0
  /\ inbox' = inbox - 1 /\ phase' = "gather"
  /\ UNCHANGED <<jobQueues, inner, jobVars, active, ownerTask, stopReq, writes>>

\* Slip: the owner's messages compete with the jobs.
ChooseJobAnytime(i) ==
  /\ phase = "choose"
  /\ LET all == autonomous \o hooks
     IN  /\ i \in 1 .. Len(all) /\ \A k \in 1 .. Len(all) : Beats(all, i, k)
         /\ autonomous' = Without(all, i) /\ hooks' = <<>> /\ Age(Without(all, i))
         /\ StartJob(all[i]) \/ DropJob(all[i])

\* Webhooks join the other jobs' queue and all but the chosen one age.
ChooseJob(i) ==
  /\ phase = "choose" /\ inbox = 0
  /\ LET all == autonomous \o hooks
     IN  /\ i \in 1 .. Len(all) /\ \A k \in 1 .. Len(all) : Beats(all, i, k)
         /\ autonomous' = Without(all, i) /\ hooks' = <<>> /\ Age(Without(all, i))
         /\ StartJob(all[i]) \/ DropJob(all[i])

FallAsleep ==
  /\ phase = "choose" /\ inbox = 0 /\ autonomous = <<>> /\ hooks = <<>>
  /\ phase' = "asleep"
  /\ UNCHANGED <<inbox, jobQueues, inner, jobVars, active, ownerTask, stopReq, writes>>

\* What the other two waiters took meanwhile is put back at the end.
Rotated(s) == {s} \cup {Append(Tail(s), Head(s)) : x \in {1} \cap DOMAIN s}

WokenByMessage ==
  /\ phase = "asleep" /\ inbox > 0
  /\ inbox' = inbox - 1 /\ phase' = "gather"
  /\ autonomous' \in Rotated(autonomous) /\ hooks' \in Rotated(hooks)
  /\ UNCHANGED <<waited, inner, jobVars, active, ownerTask, stopReq, writes>>

WokenByJob(i) ==
  /\ phase = "asleep" /\ inbox = 0 /\ i \in 1 .. Len(autonomous)
  /\ \A k \in 1 .. Len(autonomous) : BeatsByPlace(autonomous, i, k)
  /\ autonomous' = Without(autonomous, i) /\ hooks' \in Rotated(hooks)
  /\ Age(Without(autonomous, i))
  /\ StartJob(autonomous[i]) \/ DropJob(autonomous[i])

WokenByHook ==
  /\ phase = "asleep" /\ inbox = 0 /\ autonomous = <<>> /\ hooks # <<>>
  /\ hooks' = Tail(hooks) /\ UNCHANGED <<autonomous, waited>>
  /\ StartJob(Head(hooks)) \/ DropJob(Head(hooks))

-----------------------------------------------------------------------------
(***************************************************************************)
(* Owner turns, of the worker or of its nested run.                        *)
(***************************************************************************)
Gathering == phase = "gather" \/ inner = "gather"

\* The run goes on, with active a and stop flag q, after an owner turn or a batch
\* without current messages: to its next choice, to the next messages, or, nested,
\* back to await_background_turn, with the flag that it reads there.
OnwardTo(a, q, noticed, woken) ==
  IF phase # "nested"
  THEN /\ phase' = "choose" /\ active' = a /\ stopReq' = q
       /\ UNCHANGED <<inbox, inner, resume>>
  ELSE IF inbox > 0
  THEN /\ inner' = "gather" /\ inbox' = inbox - 1 /\ active' = a /\ stopReq' = q
       /\ UNCHANGED <<phase, resume>>
  ELSE /\ phase' = "watch" /\ inner' = "none" /\ active' = "job" /\ resume' = woken
       /\ stopReq' = noticed /\ UNCHANGED inbox

\* Slip: the parked task is not told to go on.
OnwardUnresumed(a, q) == OnwardTo(a, q, q \/ task = "cancelled", FALSE)

Onward(a, q) == OnwardTo(a, q, q \/ task = "cancelled", TRUE)

GatherMore ==
  /\ Gathering /\ inbox > 0 /\ inbox' = inbox - 1
  /\ UNCHANGED <<jobQueues, phase, inner, jobVars, active, ownerTask, stopReq, writes>>

\* Every message of the batch was recalled.
DiscardBatch ==
  /\ Gathering /\ Onward(active, stopReq)
  /\ UNCHANGED <<jobQueues, job, task, requested, stopped, ownerTask, writes>>

\* Messages of another channel stay behind.
SealBatch ==
  /\ Gathering
  /\ IF phase = "gather" THEN phase' = "owner" /\ UNCHANGED inner
                         ELSE inner' = "owner" /\ UNCHANGED phase
  /\ active' = "owner" /\ ownerTask' = "run" /\ stopReq' = FALSE
  /\ UNCHANGED <<inbox, jobQueues, jobVars, writes>>

OwnerAbsorbs ==
  /\ ownerTask = "run" /\ inbox > 0 /\ inbox' = inbox - 1
  /\ UNCHANGED <<jobQueues, phase, inner, jobVars, active, ownerTask, stopReq, writes>>

\* finish_active_turn; a cancellation nobody asked for ends the worker.
OwnerEnds ==
  /\ ownerTask # "none" /\ ownerTask' = "none"
  /\ IF ownerTask = "cancelling" /\ ~stopReq
     THEN phase' = "dead" /\ UNCHANGED <<inbox, inner, active, stopReq, resume>>
     ELSE Onward("none", FALSE)
  /\ UNCHANGED <<jobQueues, job, task, requested, stopped, writes>>

-----------------------------------------------------------------------------
(***************************************************************************)
(* The job's task and await_background_turn.                               *)
(***************************************************************************)
KeepWorker == UNCHANGED <<inbox, jobQueues, inner, job, active, ownerTask, writes, stopped>>

TaskEnds ==
  /\ task \in {"run", "cancelling"}
  /\ task' = IF task = "run" THEN "ok" ELSE "cancelled"
  /\ UNCHANGED <<phase, requested, resume, stopReq>> /\ KeepWorker

\* background_checkpoint: its results are recorded and it waits.
Park ==
  /\ task = "run" /\ requested /\ phase = "watch"
  /\ task' = "parked"
  /\ UNCHANGED <<phase, requested, resume, stopReq>> /\ KeepWorker

\* The worker sees it parked and runs itself for the owner, if a message is left.
EnterNested ==
  /\ phase = "watch" /\ task = "parked" /\ requested /\ ~resume
  /\ requested' = FALSE
  /\ IF inbox > 0
     THEN phase' = "nested" /\ inner' = "gather" /\ inbox' = inbox - 1 /\ UNCHANGED resume
     ELSE resume' = TRUE /\ UNCHANGED <<phase, inner, inbox>>
  /\ UNCHANGED <<jobQueues, job, task, active, ownerTask, stopReq, writes, stopped>>

Resumes ==
  /\ task = "parked" /\ resume
  /\ task' = "run" /\ resume' = FALSE
  /\ UNCHANGED <<phase, requested, stopReq>> /\ KeepWorker

\* A cancelled task whose cancellation nobody asked for ends the worker, and so does
\* a heartbeat's: _release_autonomous_claim calls a method that no class defines.
JobEnds ==
  /\ phase \in {"plain", "watch"} /\ TaskDone
  /\ IF task = "cancelled" /\ (~stopReq \/ Kind(job) = "heartbeat") THEN phase' = "dead" /\ UNCHANGED <<job, task, active, stopReq>>
     ELSE IF task = "ok" /\ Kind(job) = "webhook"
     THEN phase' = "settle" /\ UNCHANGED <<job, task, active, stopReq>>
     ELSE phase' = "choose" /\ job' = NoJob /\ task' = "none" /\ active' = "none" /\ stopReq' = FALSE
  /\ stopped' = FALSE /\ requested' = FALSE /\ resume' = FALSE
  /\ UNCHANGED <<inbox, jobQueues, inner, ownerTask, writes>>

\* The webhook service has recorded the reply: _webhook_turn_settled.
HookSettled ==
  /\ phase = "settle"
  /\ phase' = "choose" /\ job' = NoJob /\ task' = "none" /\ active' = "none" /\ stopReq' = FALSE
  /\ UNCHANGED <<inbox, jobQueues, inner, requested, resume, stopped, ownerTask, writes>>

-----------------------------------------------------------------------------
WorkerInit ==
  /\ inbox = 0 /\ autonomous = <<>> /\ hooks = <<>> /\ waited = [j \in WorkerJobs |-> 0]
  /\ phase = "choose" /\ inner = "none" /\ job = NoJob /\ task = "none" /\ active = "none"
  /\ ownerTask = "none" /\ requested = FALSE /\ resume = FALSE /\ stopReq = FALSE
  /\ writes = 0 /\ stopped = FALSE

Place == 1 .. Len(autonomous) + Len(hooks)
WorkerStep ==
  \/ TakeOwner \/ (\E i \in Place : ChooseJob(i)) \/ FallAsleep
  \/ WokenByMessage \/ (\E i \in Place : WokenByJob(i)) \/ WokenByHook
  \/ SealBatch \/ DiscardBatch \/ EnterNested \/ JobEnds \/ HookSettled

WorkerNext ==
  \/ (\E j \in WorkerJobs : Enqueue(j)) \/ OwnerMessageArrives \/ StopArrives
  \/ WorkerStep \/ GatherMore \/ OwnerAbsorbs \/ OwnerEnds \/ TaskEnds \/ Park \/ Resumes

WorkerSpec == WorkerInit /\ [][WorkerNext]_workerVars

\* The coroutines of the worker and of a resumed task run; that turns end is no part of it.
WorkerFairness ==
  WF_workerVars(WorkerStep) /\ WF_workerVars(GatherMore) /\ WF_workerVars(Resumes)

FairWorkerSpec == WorkerSpec /\ WorkerFairness

-----------------------------------------------------------------------------
(***************************************************************************)
(* Properties.                                                             *)
(***************************************************************************)
\* Types of the queues, the worker and the task.
WorkerTypeOK ==
  /\ inbox \in 0 .. MaxInbox /\ writes \in 0 .. MaxWrites
  /\ autonomous \in Seq(WorkerJobs)
  /\ hooks \in Seq({j \in WorkerJobs : Kind(j) = "webhook"})
  /\ waited \in [WorkerJobs -> Nat]
  /\ phase \in {"choose", "asleep", "gather", "owner", "plain", "watch", "nested", "settle", "dead"}
  /\ inner \in {"none", "gather", "owner"} /\ job \in WorkerJobs \cup {NoJob}
  /\ task \in {"none", "run", "parked", "cancelling", "ok", "cancelled"}
  /\ active \in {"none", "job", "owner"} /\ ownerTask \in {"none", "run", "cancelling"}
  /\ {requested, resume, stopReq, stopped} \subseteq BOOLEAN

\* A message that arrives while a background turn runs, pauses or goes on again is
\* never overlooked: as long as it waits, that turn is asked to pause.
WaitingIsAsked == phase = "watch" /\ task \in {"run", "parked"} /\ inbox > 0 => requested

\* Premise: no owner turn works for ever, and no job's turn without a pause or an end.
TurnsEnd == []<>(ownerTask = "none") /\ []<>(task \notin {"run", "cancelling"})

\* If turns end, a parked turn is resumed or cancelled...
ParkedGoesOn == TurnsEnd => (task = "parked") ~> (task # "parked")

\* ... the owner's messages are served, between jobs and within them...
OwnerServed == TurnsEnd => (inbox > 0) ~> (inbox = 0)

\* ... and no job starves, although others of higher priority may always arrive.
EveryJobRuns == TurnsEnd => \A j \in WorkerJobs : InQueue(j) ~> ~InQueue(j)

\* README: "/stop still stops execution": a turn that was alive at a /stop does not
\* go on working after it.
StopStops == stopped => task # "run"
=============================================================================
