# Momoi: a verification development

Momoi is a personal agent: one Python process, one asyncio event loop, one SQLite database. It
answers its owner on several channels (QQ, WeChat, a phone call, the dashboard), works on its own
(goals, heartbeats, reflections, plans, webhooks), and keeps everything it says and does in a local
store from which it recovers after a crash. This directory models its behaviour in TLA+, checks the
models with TLC, and proves the core of them with TLAPS.

File paths below are relative to `src/src/momoi/` unless they start with `src/`.

## 1. The system

### Components, their state, and their hard behaviour

| component | state | operations | what is hard | correct means |
|---|---|---|---|---|
| outbox store (`storage/delivery/`) | table `outbox`: state, attempts, possible_duplicate, next_attempt_at; table `messages` (the dialogue record) | insert by a turn's progress, a commit, a notification, a webhook; five updates by the worker; cancel; archive | rows are changed by four kinds of coroutine between any two awaits of the worker | bounded copies, order per channel, a record that agrees |
| outbox worker (`runtime/dispatch/delivery.py`) | its snapshot, the last delivery, disconnected timers, abandoned channels (all in memory) | snapshot, gap, synthesis, send, five kinds of answer | state read before an await and used after it; outages; uncertain sends | a withdrawn bubble is not sent; every bubble settles |
| store recovery (`storage/core/lifecycle.py`, `storage/delivery/emotions.py`) | the tables after a crash | supersede heartbeat contacts, revive images, recover rows on the wire, release claims, recover webhooks | order of the steps; several restarts; steps that were half done | nothing delivered is resent without a mark; nothing invalidated is sent |
| inbox and commands (`storage/conversation/inbox.py`, `runtime/dispatch/commands.py`) | table `events` (processed), queues `incoming` and `deferred` | accept, /stop, recall, poke | commands are handled at once, messages later, both change the same rows | no message lost, none answered twice |
| agent worker (`runtime/dispatch/worker.py`, `runtime/interruptions.py`, `runtime/jobs.py`) | the batch being gathered, the active turn, pause, job queues with aging | choose work, gather, seal, run, cancel, park and resume | a batch gathered over time, cancellations, a worker nested in itself | /stop is obeyed, no job starves |
| owner turns (`runtime/workflows/owner/`, `storage/conversation/turns.py`, `turn_commits.py`) | table `turns` (state, external_effect_started), `reconciliations`, `tool_audit` | begin, absorb updates, dispatch tools, commit, fail, cancel | a crash after an external effect; the turn's identity depends on its batch | effects are not silently repeated |
| scheduler (`runtime/dispatch/scheduler.py`) | claims on notifications, plans, goals, reflections, heartbeat | claim one due item at a time, enqueue | claims in the table, jobs in memory, cancellation between the two | claimed work is done or released |
| task plans (`storage/agenda/plans.py`, `runtime/workflows/plan.py`) | status, version, approval, step index | create, revise, submit, approve, claim, finish, pause, resume, cancel | revised and interrupted while a step runs | no step without approval of this version, none run twice |
| webhooks (`storage/ops/webhooks.py`, `webhooks/service.py`) | runs and steps | create (idempotent), claim, execute, wait for delivery, record video, stop | three kinds of step with different recovery; a turn that speaks before its step is committed | a run reaches a final state once its turns end, an exec is not repeated |
| heartbeat, goals, reflection, episodes, memory operations, current state | claims, schedules, retry deadlines | claim, run, commit, release | cancellation by the owner at any time | each item done once, none lost |
| notifications (`storage/agenda/notifications.py`) | state, dedupe key, windows | claim, queue, supersede | quiet hours and limits against stale claims | urgent ones are not held back, others not sent in quiet hours |
| channels and voice calls (`channel/`) | connections, call sessions | receive, send | a call ends while its speech is streamed | replies of a finished call are dropped |
| daemon and supervisor (`runtime/daemon.py`, `runtime/supervisor.py`) | process lifetime | start, stop, restart | shutdown at any await | state recoverable |
| retrieval, prompts, transcript, models, MCP, dashboard, desktop | caches, files, connections | build text, call services, administer | data processing and I/O | outside these models |

### How they interact

*Calls.* Every store call is synchronous on the one connection, so a store call is atomic for the
other coroutines, and a `with self._db` block is atomic for a crash. *Shared state.* The outbox
worker and the turns meet only in the tables `outbox` and `messages`. *Queues.* `incoming`,
`deferred`, `autonomous`, `webhook_requests` carry work to the agent worker. *Events.*
`outbox_changed`, `agenda_changed`, `_owner_activity_changed` wake sleeping coroutines. *Callbacks.*
A channel calls `_receive` for whatever the owner does. A coroutine is interrupted only at an
`await`; that is what the models' actions are cut by.

## 2. Modules and their order

The most important behaviour came first; each module was checked before the next was written.

| module | models | composed in |
|---|---|---|
| `Outbox`, `Courier`, `OutboxRefinement` | the outbox and its worker; the abstract promise; the mapping | run OutboxSafety, OutboxPromise |
| `OutboxProofs`, `OutboxCourierProofs` | proofs of the invariants, of withdrawal and of the refinement | |
| `OwnerIntake`, `OwnerIntakeProofs` | from the owner's message to the turn that answers it | run IntakeSafety |
| `TaskPlan`, `PlanScopes`, `TaskPlanProofs` | plans and their steps; instances for TLC; proofs | runs Plans, Background |
| `AgentWorker` | the worker's choice, aging, parking, nesting, /stop | `MCBackground` |
| `WebhookRun` | runs and steps of webhook workflows | `MCBackground` |
| `BackgroundProofs` | proofs about both | |
| `GoalReview`, `Reflections`, `Heartbeat` | what the agent does unasked | `MCAutonomy` |
| `GoalProofs`, `AutonomyProofs` | proofs about goals; about reflections, heartbeats and the three together | |
| `Upkeep`, `Episodes` | current state and memory requests; filing and summaries | `MCUpkeep` |
| `UpkeepProofs` | proofs about both | |

A suite (`MCBackground`, `MCAutonomy`, `MCUpkeep`) runs several components in one model: the variable
`part` is chosen at the start of a behaviour and only that component moves, under its own fairness.
The components of a suite meet in the code only through the worker that runs them one at a time, and
that worker is modelled where its scheduling matters (`AgentWorker`, `OwnerIntake`); every other
module takes "its job is taken", "it is parked" and "it is stopped" as steps that may come at any
await of its workflow.

Composition through shared tables: `Outbox` takes the turns and their commits as its environment, and
`OwnerIntake`, `Heartbeat` and `WebhookRun` are the components that supply those steps.

## 3. How modules correspond to the code

### Outbox

`Row` is `outbox.id`. `state`, `attempts`, `dup`, `bubble` are its columns, `cooling` abstracts
`next_attempt_at` to "in the future", `record` is `messages.delivery_state` (or no row at all), and
`committed`, `ended`, `asking` are what the code asks of the tables `turns` and `notifications`.
`pc` says where the worker is suspended: `idle` (waiting for work), `gap`, `synth`, `send`; other
coroutines act only then (`Yielded`), and `row` stands for the synchronous code between two awaits.
`batch` and `seen` are the snapshot `due_outbox` returned and the attempts it read.
`patience` is `disconnected_since` with the give-up time abstracted to "not yet" and "spent".

| actions | code |
|---|---|
| `QueueProgress`, `CommitTurn`, `CommitTurnWith`, `QueueNotification`, `QueueVideo` | the five ways a row is inserted, with the message row written in the same transaction when the code does so |
| `EndHeartbeat`, `AskReconciliation` | how a heartbeat's turn ends without its ordinary commit |
| `OwnerMessage`, `StopCommand`, `Recall`, `CancelQueue` | `_receive` and the callers of `cancel_pending_outbox`; the first two also supersede heartbeat contacts, in the code's order |
| `Snapshot`, `NotConfigured`, `BeginGap`, `DropWithdrawn`, `ContextExpired`, `BeginSynthesis`, `SynthesisFails`, `BeginSend` | `_outbox_worker` up to the channel's call |
| `RefusedRetry`, `RefusedGiveUp`, `SendAmbiguous`, `SendFailed`, `SendSucceeds` | the five outcomes of the call |
| `RetryDue`, `GiveUpTime` | the clock |
| `Restart` | a crash or shutdown anywhere, then `Store.__init__` of a process with possibly other channels |

`copies` and `slack` are history: how often a bubble may have reached the owner, and how often
`attempts` was lowered by something other than a clean refusal. `SendFailed` counts no copy: the
channel said that it rejected the message.

`Courier` is the promise without a
worker: bubbles of a channel reach the owner in order, one at a time; a delivered one is final, only
a dropped one is ever taken up again. `OutboxRefinement` maps rows to the courier's phases.

### OwnerIntake

An event is numbered by its arrival. `note` holds its channel and kind, `processed` is the column of
`events`, `turn`, `effect` and `open` are `turns.state`, `external_effect_started` and the rows of
`reconciliations`. `incoming` and `deferred` are the two queues, `batch` the local list of
`_agent_worker`. Queues are sets: each is appended to and emptied in the order of arrival, or read by
what is its least event (`First`). A turn's id is the hash of the event ids it was sealed with, so
`work`, the set of them, is the id; `taken` is the list object that `sealed`, `batch` and
`current_events` all name while the turn runs.

`pc` is where the worker is: `next` (before `_next_work`), `wait` (in its `asyncio.wait`), `busy` (a
background turn), `gather` (waiting for the quiet time), `take` (about to take an item, no await in
between), `begin` (the turn's task is created and has not run), `turn` (suspended inside the turn's
rounds), `settle` (between the transaction that opens a reconciliation and the commit).

| actions | code |
|---|---|
| `Accept`, `Stop`, `StopAgain`, `Recall` | `_receive`, with `owner_arrived` and the store call it makes, in the code's order |
| `NextOwner`, `Idle`, `WokenByOwner`, `Background`, `BackgroundEnds` | `_next_work`: what is pending at its entry, or what wakes it |
| `Take`, `Seal` | one iteration of the gathering loop, and its `TimeoutError` branch |
| `BeginTurn`, `BeginUncertain`, `PreparationFails` | `_complete_batch_turn` up to the first drain |
| `Absorb`, `ParkIncoming` | `OwnerUpdates.drain`, and the continuation window that leaves what it finds queued |
| `DispatchTool`, `OpenCircuit` | `begin_tool_call` of a tool that is not read-only; repeated errors |
| `Commit`, `FailUncertain`, `Settle`, `CancelDelivered` | the ways a turn ends |
| `Restart` | a crash or shutdown anywhere, then `run()` of the next process; a polling channel may deliver again what came since its saved cursor |

The branch of `_complete_batch_turn` for a turn that is already completed or cancelled
(`workflow.py:101-103`) has no action: `SealedAfresh` states that it is never reached, and is proved.

Left out: the phone's lane (`_complete_phone_batch`); pokes (a poke by the owner travels like a
recall notice without an original); typing status (it wakes the gathering worker or prolongs the
quiet time, which `Take` and `Seal` allow at any moment); the budget guard, which only delays; the
nested worker of a parked background turn, which is the same loop on the same queues; the owner's
`/resolve` and `/resume`, which take a turn off the list of reconciliations.

### TaskPlan

`plan[p]` is a row of `task_plans`: status, version, `approved_version`, current step, number of
steps, `resume_count`, whether the current step names an interrupted turn and whether that turn acted
(`held`), and whether it is paused at a limit (`limited`). `begun` are the step turns with a row in
`turns`; a turn's id is the hash of plan, step, version and resumptions, so that quadruple is the id.
`run` is the worker's step, with the cancellation that waits for it. The order of messages and
questions, which the code compares by `received_at`, is kept in the flags `since` and `heard`.

| actions | code |
|---|---|
| `CreatePlan`, `UpdatePlan`, `SubmitPlan`, `StartPlan`, `CancelPlan`, `ResumePlan` | the plan tools' transactions, with the checks of `tool_batch.py` on who calls them |
| `OwnerWrites`, `OwnerStops`, `OwnerTurn`, `Absorb`, `OwnerTurnEnds` | what the owner does and the turns that answer |
| `ClaimPlan`, `TakeJob`, `BeginStep` | the scheduler's claim, the worker, `begin_turn` |
| `StepActs`, `FinishStep`, `StepReturns`, `StepAbandoned`, `LimitReached`, `HandedOver`, `StepTimesOut`, `StepFails` | the rounds and ends of `_complete_plan_step_turn` |
| `Cancelled` | what the handler of a cancelled step does, or that it never runs |
| `PlanRestart` | a crash, then `_initialize_database` |

### AgentWorker

`phase` is where `_agent_worker` is suspended and `inner` where the nested run is that serves the
owner while a background turn is parked. `autonomous` and `hooks` are the two job queues, `waited`
the jobs' `wait_rounds`. `active`, `requested`, `resume` and `stopReq` are `_active_turn`,
`pause.requested`, `pause.resume` and `_stop_requested`.

| actions | code |
|---|---|
| `Enqueue`, `OwnerMessageArrives`, `StopArrives` | producers of jobs; `owner_arrived` and `/stop` |
| `TakeOwner`, `ChooseJob`, `FallAsleep`, `WokenByMessage`, `WokenByJob`, `WokenByHook` | `_next_work`, including a queue whose head was taken by the wakeup and put back at its end |
| `GatherMore`, `DiscardBatch`, `SealBatch`, `OwnerAbsorbs`, `OwnerEnds` | the gathering loop and the owner's turn, in the outer or the nested run |
| `TaskEnds`, `Park`, `EnterNested`, `Resumes`, `JobEnds`, `HookSettled` | `run_interruptible`, its checkpoint and what follows a job |

### WebhookRun

`runs` and `steps` are the two tables; `act` is the service's worker with the run it has, `clip` the
task of each run's recording, `voice` the webhook turn the agent works on, by the run and step its id
names. `Write` is `finish_webhook_step` and its relatives with `_refresh_webhook_video_run`. A row's
`out` stands for all bubbles in the outbox under the step's turn: the joint state that
`webhook_delivery_state` makes of them, or none yet.

A turn speaks while it works: the `reply` tool queues bubbles, with the clip attached or not, in
transactions of its own (`queue_progress`), at any moment and any number of times (`Speaks`). The step
learns of them only when the turn's answer is committed, which collects everything under the turn's
id (`Spoke`, `Replied`), what an attempt before a crash queued included. In between the turn may fail,
be stopped or die with the process. So a turn that is started again can repeat a reply, and no property
says otherwise; what is promised once is the start of an exec and the clip that the run itself sends.

| actions | code |
|---|---|
| `Post`, `ClaimRun`, `Proceed` | the request, the claim, the choice of the next step |
| `AgentTakes`, `Speaks`, `StrayEnds` | the agent takes a requested turn, queues bubbles during it, ends one that nobody waits for any more |
| `TurnAnswers`, `TurnFails`, `MessageDelivered`, `ExecEnds`, `BubblesSettle` | message and exec steps and the outbox's answers |
| `ClipBegins` .. `ClipClosed` | recording, sending or reviewing a clip (`ReviewAnswers`, `ReviewFails`), and its end, with the two transactions of a failed one |
| `Halt`, `RunStopped`, `ClipStopped` | /stop, which cancels the agent's turn too or misses it (`missed`) when it is parked between two owner turns, and the cancellations it starts |
| `Boot` | a crash, then the recovery of each kind of step |

### GoalReview

One goal, a clock, its rows in `turns` by slot. `queued` counts jobs of the goal in the worker's
queue, because the claim can be released and made again while a job waits.

| actions | code |
|---|---|
| `ClaimGoal`, `ReviewStarts`, `Stage`, `ActsOutside`, `ReviewEnds` | claim, `_complete_crontab_turn`, the draft of `update_goal`, the commit |
| `ReviewFails`, `ReviewGivenUp`, `ReviewStopped` | delays, reconciliations, /stop |
| `PauseReview`, `ResumeReview`, `OwnerDecides` | the owner is served while the review is parked |
| `Edit`, `CancelGoal` | the dashboard |
| `RestartGoals` | a crash and the release of claims |

### Reflections

`daily` and `weekly` are the tables, with `input_json` of a week reduced to the slot each of its days
was completed for. A date has three instants: its daily slot, the weekly slot, the rest of the day.
`ClaimDaily`, `ClaimWeekly`, `Reflect` (`/reflect`), `BeginReview`, `CommitReview`, `GiveUpReview`,
`Outage`, `ClockMoves`.

### Heartbeat

`slot` counts the values of `next_heartbeat_at`, because the turn's id is its hash; `told` and `held`
are what the turn was told of the conversation and the revision its contact check compares with.

| actions | code |
|---|---|
| `ComesDue`, `ClaimHeartbeat`, `CommandHeartbeat` | the schedule, the scheduler, `/heartbeat` |
| `TakeHeartbeat`, `PutOff`, `OverAlready`, `ToReconcile`, `BeginBeat` | `_complete_heartbeat_turn` up to the first round |
| `Speak`, `ActOutside`, `ParkBeat`, `WakeBeat`, `ResumeBeat` | rounds, with the contact check of `agent/delivery.py`, and parking |
| `CommitBeat`, `FailBeat`, `FailOutside`, `CloseBeat` | ends of the turn, in their transactions |
| `OwnerWrites`, `OwnerTurn`, `ReplyDelivered`, `BubbleDelivered`, `QuietTurns` | the conversation around it |
| `StopBeat`, `HbCrash`, `HbRestart` | /stop (with the error it ends in), crashes |

### Upkeep

`task` are the rows of `current_state_tasks` by the turn that asked for them, `review` the batches of
memory requests, `changes` the operations that `current_state_changes` remembers. `at` is the
worker's job. `AppliesState` and `FinishesState` are the two transactions of a maintenance turn;
`settled` is the history of what was applied.

### Episodes

One Episode: `fate` says of every turn whether it is filed, `order` is `episode_turns` by ordinal,
`digest` what the summary covers, `held`, `retry`, `failures`, `abandoned` its claim. `Classify` is
`apply_episode_consolidation`, `ChooseRange` and `Summarise` the annealing turn, `Mishap` its errors.

## 4. Runs

TLC, two workers, without symmetry (the sets have one or two elements).

| run | instance | checks | states |
|---|---|---|---|
| OutboxSafety | 2 text bubbles, 1 restart, a chat and a phone channel of which the phone may be missing after it, an owner's and a heartbeat's turn | order, record agrees, record honest | 1.25 million |
| OutboxPromise | 2 voice or video bubbles of a webhook, the same channels, 1 restart, fair | withdrawal, the refinement of `Courier`, every bubble settles | 194 thousand |
| IntakeSafety | 3 events on 2 channels (one reports recalls, one polls), 1 restart, fair | held once, no overtaking, effects accounted, no rerun under the same id, every message settles if turns end | 571 thousand |
| Plans | one plan of 2 steps, 2 versions, 1 resumption, 1 restart on 2 channels; or two plans | approval of the version, fresh turns, a running plan is held, no silent replay | 892 thousand |
| Background | the worker with 3 kinds of jobs; 1 webhook run of 3 steps or 2 of 2, 1 /stop, 2 restarts; 2 plans | verdicts, clips, replies queued during a turn, service of the owner, starvation | 67 thousand |
| Autonomy | 1 goal with a daily, an interval or no schedule; 2 weeks of 2 days; 2 heartbeat slots | claims, slots, frozen weeks, informed speech | 119 thousand |
| Upkeep | 2 turns with tasks, 2 batches; 2 turns of an Episode | order of what is applied, summaries, settling | 55 thousand |
| HeartbeatStop, SlotSkipped, PlanStuck, WeekLost, IntakeStop | the smallest instance that shows it | *violated*: see findings | |

**Bounds.** `MaxRows` bounds an AUTOINCREMENT column, `MaxRestarts` and its relatives the crashes.
Two rows show every relation between an earlier and a later bubble; a third, which can hide behind a
settled one, is left to `ChannelOrder`'s proof. One restart is enough for every pair "before, after";
what further restarts could push is bounded by invariants that are proved for any number of them. In
the intake, three events are the least that can be, at once, in a turn, set aside and in the queue,
with one of them a `/stop` or a recall. A plan needs two steps (the first has other rules), two
versions (a revision), one resumption; two plans wait for each other. Two webhook runs show the
worker changing between them, three steps a failed exec with something before and behind it. Two
weeks of two days show a week that waits for its days and one that is skipped. Two turns of an
Episode can be filed in either order. Kinds and components are spread over runs and parts because
their paths do not depend on each other.

**Deadlock** is checked where the system cannot stop by itself (outbox, intake, plans). The suites say
`CHECK_DEADLOCK FALSE`: their clocks and the numbers of requests, messages and failures are bounded, and
at the bounds a behaviour ends.

**Fairness.** Fairness is asked only of what the program schedules itself: its coroutines, its timers,
the claims of the scheduler, a start after a crash, and calls with a timeout. Nothing is assumed of the
owner or a channel, or that a failure or a restart happens or not.

*Turns.* That a turn of the model ends is not among these. The limit of rounds is 0, which is none, for
owner turns, heartbeats, reviews, memory requests and webhooks (`max_rounds`, `runtime/agent/loop.py:184`),
`turn_max_seconds` and `turn_max_total_tokens` are off by default (`config/models.py:105-106`), a
successful call resets the counters of failures (`loop.py:578-581`), and `complete_turn` is awaited
without a timeout (`webhooks/service.py:281`, `389`). Each liveness property that needs turns to end
states so as its premise, and the fairness of its specification leaves their ends out:

| premise | says | properties |
|---|---|---|
| `OwnerIntake!TurnsEnd` | the worker is again and again without a turn at work | `EveryMessageSettles` |
| `AgentWorker!TurnsEnd` | no owner turn works for ever, no job's turn without a pause or an end | `ParkedGoesOn`, `OwnerServed`, `EveryJobRuns` |
| `WebhookTurnsEnd` | the agent is again and again without a webhook turn | `RunSettles` |
| `ReviewsEnd` | no goal review, with the owner turns it is parked for, lasts for ever | `DueIsReviewed` |
| `BeatsEnd` | no heartbeat works for ever without a pause, no owner turn for ever | `DueMovesOn`, `HeartbeatReturns` |
| `ReflectionsEnd` | no daily or weekly review works for ever | `ManualIsRedone`, `WeekIsReviewed` |
| `UpkeepTurnsEnd` | no turn of the owner, the current state or the memory works for ever | `UpkeepSettles` |
| (in `ReadyIsTaken`) | the owner's messages are again and again all answered | `ReadyIsTaken` |

What the properties then say is that the scheduling around the turns loses nothing: the end of a turn,
whichever it is, does free what waits for it. A premise is not vacuous: in each model every turn can
end at any time, and the mutants are found among the behaviours in which all of them do.
Where the code limits a turn, its end is fair: a plan's step (50 rounds, `runtime/workflows/plan.py:101`) and
the maintenance of Episodes (`episode_annealing.max_seconds`).

- Outbox: weak fairness of the worker as a whole (one coroutine in a TaskGroup; each of its awaits
  carries a timeout or belongs to a channel call that does) and of each timer. A channel may refuse or
  answer uncertainly for ever. A bubble whose channel is not configured is excluded, because the code
  puts it back to pending for ever, on purpose.
- Intake: what the worker does between turns (`Gather`), the beginning of a turn, and its settling or
  the delivery of its cancellation, which comes at the next await.
- Background: the worker, the resumption of a parked turn, a webhook's worker, each clip's task and the
  agent's taking of a turn that is asked for. An exec and a recording have timeouts; the outbox settles what
  it is given (that is `EveryBubbleSettles`). `TakeJob` of a plan is strongly fair: the worker is away
  again and again with owner turns, and between two of them it takes the job.
- Autonomy: the scheduler's claims, the start of a review, the calendar, the heartbeat's own steps
  outside of its turn.
- Upkeep: `TakeState` and `TakeMemory` are strongly fair for the same reason as `TakeJob`: the
  owner's turns and retry delays disable them in between.

### Findings

1. **/stop during a heartbeat ends the runtime** (HeartbeatStop): `_release_autonomous_claim` calls a
   method no class defines; after the restart the slot's turn is cancelled and the heartbeat of
   that slot is claimed over and over without moving on.
2. **A slot is skipped for a review that ran ahead of it** (SlotSkipped): a paused review commits its
   draft, which clears the claim, so the goal is claimed again and a second job is left over that runs
   ahead of the next slot. When this happens twice, the row that `_complete_goal_turn` keeps for the slot
   itself is completed ahead of time too, and the slot is passed over.
3. **A plan is left running with nobody at work on it** (PlanStuck): an owner message that cancels a step
   before its first instruction. No other plan can be claimed until a /stop, a cancellation or a
   restart.
4. **A week is never reviewed** (WeekLost): a daily review that failed and was not retried on its day
   stays pending, and the week waits for it until the next week comes.
5. **/stop in the quiet time is read as a message** (IntakeStop): it does not wake the gathering
   worker, no turn is active, and the batch's first drain hands it to the model.

Noticed on the way, each shown by a configuration beside the runs or by a definition of its module:

- `OutboxForgotten.cfg`: a line of the dialogue is deleted although the owner may have seen the bubble;
  superseding looks at the row's state and not at `possible_duplicate`.
- `EpisodeConflict.cfg`: a completed range is claimed again. The summary's turn is named by Episode and
  ordinal only; when a turn filed late voids the summary, the same name comes back, three times, and
  the Episode is abandoned.
- `IntakeRepeats.cfg`: an uncertain turn is run again under another id, when the next process gathers
  another batch from the same messages (`src/README.md:41` says uncertain external effects "are not silently
  repeated after restart"). With the same batch the guard works: `SameTurnNotRerun` is proved.
- `PlanRedo.cfg`: a draft revised twice before its first step drops the interrupted turn
  (`storage/agenda/plans.py:88`), so a step that may have acted is begun again in spite of the check at
  `plans.py:273`. `NoSilentReplay` holds with exactly that exception.
- `WorkerStop.cfg`: a /stop that comes while the active-turn field is restored around a parked turn does
  not reach the turn (`runtime/interruptions.py:78`; `src/README.md:147-148` says it "still stops
  execution").
- `ClipStop.cfg`: when that turn is the review of a clip, its step is cancelled but the turn goes on, and it
  may still put the clip into the outbox, although /stop cancels clips that are not there yet.
  `StoppedClipNeverSent` holds with exactly that exception (`missed`).
- A message step or a review that a crash cut off after it spoke is begun again
  (`storage/core/lifecycle.py:111`) and may say the same again: its bubbles count as no external effect, and the
  keys that would recognise them name the calls of the new attempt.
- A bubble on the wire is not cancelled by a new message; when the channel then refuses it, it is pending
  again and is sent. A heartbeat's contact that was on the wire survives the restart that withdraws
  contacts.
- A goal that a review closed is open again when the dashboard saves the form it had loaded before. A
  blocked goal that is made active again has no review time.
- A plan whose creating turn was cancelled or needs reconciliation can be approved, and is never claimed.
- A clip whose recording failed is told to the agent and then settled by two transactions; after a crash
  in between the run counts it as delivered.

## 5. Proofs

TLAPS proves what follows for every value of the constants that satisfies the modules' assumptions.

`OutboxProofs` proves, for every number of rows and restarts and all sets of channels, turns and
kinds that satisfy the five assumptions of `Outbox`: `TypeOK`, `BoundedCopies`, `ChannelOrder`,
`RecordAgrees`, `HonestRecord` as invariants of `Spec`, and `DeliveredIsFinal` as a property of its
steps.

None of them is inductive alone; `IInv` adds what the worker relies on:

- `RowsInOrder`: ids are given in order, a row not yet inserted is blank.
- `WorkerHolds`: the row on the wire is the oldest of the snapshot, every row of the snapshot is
  unsettled or withdrawn, and `attempts` is still what the snapshot read (plus one on the wire).
- `WorkerHoldsHeads`: the rows of a snapshot are of different channels, each the first of its
  channel. This is what makes a stale snapshot harmless: rows before it can only leave the way,
  because everything that reopens a row before it would have had to hold it.
- `CopiesCounted`, `ClipSentOnce`: attempts against copies, with the row on the wire counted.
- `DuplicatesMarked`: what may have been seen is marked; needed for the record.
- `RecordAgrees` itself, with the exception `Lags`.

`Lags` was found by the proof, not by the runs: a heartbeat's image bubble that is revived by a
restart without its channel, superseded while another row is being sent, archived as failed by the
commit of a failed heartbeat, and then put back to pending because its channel is missing, is
recorded as failed and still open. It corrects itself at the row's next transition.

The proof has one lemma per action (or per family of actions with the same frame), each showing the
parts of `IInv` that the action can disturb, then `StepKeeps` and the temporal theorem by PTL.

`OutboxProofs` also proves `WithdrawalHolds`: no step of a process takes a withdrawn row up again, unless
its channel is missing (`WithdrawnNeverSent`).

`OutboxCourierProofs` proves `CourierImplemented`: with rows mapped to phases (`PhaseOf`), the initial
states map to initial states of `Courier`, and every step of the outbox, the worker's retries, the
cancellations and the recovery included, is one of its steps or shows nothing. The argument has one
lemma per family of steps (`SpeakMaps`, `SilenceMaps`, `QuietMaps`, `RowMaps`, `ReachMaps`,
`WorkRowMaps`, `RecoverMaps`) over `IInv` and one strengthening, `UncertainReached`: a row in state
`ambiguous` has a copy that may have arrived, without which a reopened row could look like one that was
never sent.

`OwnerIntakeProofs` proves, for every number of events and restarts and all sets of channels that
satisfy the two assumptions of `OwnerIntake`: `IntakeInv`, and from it `HeldOnce`, `NoOvertaking`,
`EffectsAccounted`, `SameTurnNotRerun` and `SealedAfresh`. `IntakeInv` adds to them:

- `Phases`: which of `batch`, `work` and `taken` are in use where the worker is; a cancellation is
  pending only for a turn that is active. `HeldOnce` needs it where a batch or a turn is replaced.
- `OneChannel`: a batch and a turn are of one channel, so "of the turn's channel" in `Drain` means
  the same for every message it holds; `NoOvertaking` needs it.
- `RecallsProcessed`: what is taken back is processed although it may still be queued.
- `SettledGone`: the events of a completed or cancelled turn are processed and held nowhere. This is
  why an id can never be sealed twice once its turn is settled, although ids are derived from events
  and every restart gathers anew: `SealedAfresh` follows because the events of `work` are held.

One lemma per action, one step in it per part that the action can disturb, then `NextInv`.

`TaskPlanProofs` proves `PlanInv` inductive, for any number of plans, steps, versions, resumptions,
restarts and channels, and from it `PlanTypes`, `AgreedVersionHolds`, `RunningIsHeldHolds`,
`StepTurnsAreFresh`, `FinishedStaysFinished` and `NoReplay`. `PlanInv` adds to the properties:

- `RunShape`: what the worker's record says of the plan it is on in every stage. `AgreedVersion` needs it
  where a step of a plan revises that very plan, and `RunningIsHeld` where the step ends.
- `BegunShape`: a turn that was begun lies behind the plan, in its step, its version or its resumptions.
  This is what makes ids fresh, although they are derived from four numbers of which three go back to
  zero: `StepTurnFresh` follows.
- `HeldShape`, `HaltedShape`: a turn that the owner interrupted after it acted is held against the step it
  interrupted, until a revision drops it; `NoSilentReplay` needs both.

`BackgroundProofs` proves `WorkerInv` for every set of jobs and any number of messages, and with it
`WaitingAsks`. The one thing it needs beyond types is `WorkerRecord`: a turn that is watched belongs to
a job that yields, and the owner's turn runs either at the top or nested in that job.

For webhook runs it proves `RunInv /\ VoiceOK` (`RunInductive`), for every set of workflows with at most
one clip each and any number of runs, stops and restarts, and with no assumption on when or how often a
turn speaks; `SuccessEarned`, `FailedExecHoldsBack` and `StoppedClipUnsent` follow, and `BackgroundTypes`
for the specification that TLC runs. The two add to the properties:

- `RowOK`: what the state of a row says of its bubbles and of what was carried out. A row that waits for
  its turn may have bubbles already, in any state; one that has succeeded has them all delivered
  (`Earned`). It is also why a recovered exec is never queued again.
- `VoiceOK`: the turn the agent works on, at any moment. Its step is the worker's and the first one
  due, or the clip's; or it was missed by /stop, and then its step has failed. So a bubble that it
  queues now cannot come behind a failed exec, into a step that has succeeded, or, unless it was
  missed, into a clip that was stopped. Every other action is shown to leave the step under the voice
  as it is or to fail it (`Steady`, `Writes`).
- `InOrder`: behind a row that is open, or is an exec that failed, no row of the worker was touched.
  Every transaction replaces a row by one that holds back no more (`Replaces`, `Follows`), with one
  exception, the step that is begun (`BegunRows`), and that is the first one due.
- `RunFits`: the record of a run fits its rows. For a run with a clip, whose record is derived
  (`Verdict`), it says that the cut went through; for the others it is what each transaction writes.
- `StageFits`, `Recalled`: where the clip's task is, against its row; a cancelled clip is settled, or its
  recorder is about to notice, and nothing of it is in the outbox unless its turn was missed. This is what makes the four writers of one row (the task, the agent's
  commit, /stop, recovery) agree.
- `ActFits`, `UnderWorker`: the worker is at the first step due, and what it runs is where it says.

`GoalProofs` proves two invariants of `GoalReview`, for every length of a slot and all bounds. `GoalCore`
(types, the review, the claim) is inductive by itself, and `ClosedGoalsStayClosed` is a part of it.
`SlotInv` is inductive above it, but only while neither the owner nor the dashboard edits the goal and at
most one review is paused (`Undisturbed`): under a second pause the code does pass a slot over, which is
what `SlotSkipped` shows. So `SlotsAreReviewed` says `SkippedHasRun` with exactly that condition. Its
core is `SpareAhead`: while a job is left over, no row ahead of its time is finished.

`AutonomyProofs` proves `HbCore` of the heartbeat (`HeartbeatSpeaksInformed`: `BubbleIsKept` binds the bubble
to the turn that spoke it and to what that turn was told) and `ReflInv` of the reflections
(`FrozenWeeksStand`: `WeekHasEnded` and `LastDayDone` bind a claimed week to its days). `AutonomyIsInvariant`
puts the three together for `MCSpec`; `AutonomyTypes` and `ClaimsAreHeld` are read off it.

`UpkeepProofs` proves `UpkeepInv` (`SettlesOnceInOrder`, `ClosedHasBeenApplied`) and `EpisodeInv`
(`SummaryMatches`), and both together for `MCSpec`. `UpkeepInv` needs `WorkerHolds`, which rows the worker has
where, and `TurnsCounted`, `LateTogether`: turn ids are counted per source and what is retried is retried
together. `EpisodeInv` needs `RangeIsThere` and `ClaimMayFail`: the range at work is part of the history
as it is now, and an Episode that was given up is not claimed.

**Only model-checked:** liveness (`EveryBubbleSettles`, `EveryMessageSettles` and the ten of the suites), which
is out of the prover's reach. Every invariant and every action property that a run checks is proved.

The proofs rest on the named assumptions of the modules (which TLC evaluates in every run: how many
rows, which kinds, that a workflow has one clip at most) and on the library's theorems about sequences,
finite sets and the order of the numbers. They are about the modules: that the modules are the code is
what the map of `PROJECT.json` is for.

## 6. Not modelled

The text and media of a bubble; pokes; typing indicators; receipts and what `reply` reads back from
the outbox (they change no row); the contents of the notice that a bubble was abandoned; budget
suspension, which only delays steps; the text of plans, goals, reviews, summaries and memories. What a
model or a tool answers is arbitrary input.

- *Channels and voice calls*: the outbox model lets a channel give every answer its interface has and lets
  a call end at any time.
- *Retrieval, context, transcript and prompts*: they build text from tables and change no state a property
  is about.
- *Schema migrations*: conversions that run once, before any coroutine.
- *Models, tools, media and MCP; configuration, integrations and dashboard*: clients of services and
  administration, with the exception of the dashboard's edits of a goal.
- *Desktop, web, packaging*: installers and native helpers.

For each component, `PROJECT.json` says what of it is modelled and what is not.
