----------------------------- MODULE OwnerIntake -----------------------------
(***************************************************************************)
(* From the owner's message to the turn that answers it: the table         *)
(* "events", the worker coroutine that gathers messages into a batch and   *)
(* seals it as a turn, the updates a running turn takes in, /stop, recalls *)
(* and the next process.  Sources: runtime/dispatch/{worker,commands}.py,  *)
(* runtime/workflows/owner/{workflow,updates}.py, runtime/interruptions.py,*)
(* storage/conversation/{inbox,turns,turn_commits}.py.                     *)
(*                                                                         *)
(* Events are numbered in the order they arrive and every queue of the     *)
(* code is kept in that order, so queues are sets.  A turn's id is the     *)
(* hash of the event ids it was sealed with: here, the set of them.        *)
(***************************************************************************)
EXTENDS Integers

CONSTANTS
  MaxEvents,       \* bound: events that ever arrive
  MaxRestarts,     \* bound: process restarts
  Channels,        \* text channels (the phone has a lane of its own)
  RecallChannels,  \* the channels that report recalled messages
  PollChannels     \* the channels whose cursor is saved after the messages are handed over

Event == 1 .. MaxEvents
Kinds == {"text", "stop", "recall"}

ASSUME IntakeBounds == MaxEvents \in Nat /\ MaxRestarts \in Nat
ASSUME IntakeChannels == RecallChannels \subseteq Channels /\ PollChannels \subseteq Channels

VARIABLES
  \* Durable: tables events, turns and reconciliations.
  last,       \* the number of events recorded
  note,       \* event -> channel and kind: a message, a /stop, or a recall notice
  processed,  \* events.processed
  recalled,   \* messages the owner took back
  turn,       \* turn -> turns.state, "none" without a row
  effect,     \* turns whose external_effect_started is set
  open,       \* turns with a row in reconciliations
  \* Volatile: the queues and the worker.
  incoming,   \* daemon.incoming
  deferred,   \* daemon._deferred_incoming
  batch,      \* the batch being gathered
  work,       \* the sealed turn, {} without one
  taken,      \* the list the turn works on: the sealed messages and later updates
  cancelling, \* active.cancel() was called and is not yet delivered
  pc,         \* where the worker is
  \* The channel's side, the clock of processes, and history.
  redeliver,  \* /stop messages a polling channel will hand over once more
  restarts,   \* restarts so far
  before      \* turns that had an external effect when this process started

tableVars == <<last, note, processed, recalled, turn, effect, open>>
queueVars == <<incoming, deferred, batch>>
turnVars  == <<work, taken, cancelling>>
vars == <<tableVars, queueVars, turnVars, pc, redeliver, restarts, before>>

Arrived   == 1 .. last
IsStop(e) == note[e].kind = "stop"
Notices   == {e \in Arrived : note[e].kind = "recall"}
Messages  == Arrived \ Notices
ChannelOf(e) == note[e].channel

Waiting == deferred \cup incoming

\* "take" and "settle" run without an await; elsewhere other handlers may run.
Yielded    == pc \notin {"take", "settle"}
TurnActive == pc \in {"begin", "turn"}
InTurn     == pc = "turn" /\ ~cancelling

-----------------------------------------------------------------------------
(***************************************************************************)
(* What the channels deliver: _receive.                                    *)
(***************************************************************************)
Record(c, k, done) ==
  /\ Yielded /\ last < MaxEvents
  /\ last' = last + 1
  /\ note' = [note EXCEPT ![last + 1] = [channel |-> c, kind |-> k]]
  /\ processed' = processed \cup done
  /\ incoming' = incoming \cup {last + 1}
  /\ UNCHANGED <<turn, effect, open, deferred, batch, work, taken, pc, redeliver, restarts, before>>

\* An ordinary message: add_event, then the queue; an owner turn goes on.
Accept(c) == Record(c, "text", {}) /\ UNCHANGED <<recalled, cancelling>>

\* /stop cancels whatever turn is active, on any channel, before it is recorded.
Stop(c) ==
  /\ Record(c, "stop", {})
  /\ cancelling' = (cancelling \/ TurnActive)
  /\ UNCHANGED recalled

\* A duplicate is not recorded, but owner_arrived has already cancelled the turn.
StopAgain(e) ==
  /\ Yielded /\ e \in redeliver
  /\ redeliver' = redeliver \ {e}
  /\ cancelling' = (cancelling \/ TurnActive)
  /\ UNCHANGED <<tableVars, queueVars, work, taken, pc, restarts, before>>

\* record_message_recall: the notice is born processed and settles the original.
Recall(e) ==
  /\ e \in Messages \ recalled /\ ChannelOf(e) \in RecallChannels
  /\ Record(ChannelOf(e), "recall", {e, last + 1})
  /\ recalled' = recalled \cup {e}
  /\ UNCHANGED cancelling

-----------------------------------------------------------------------------
(***************************************************************************)
(* The worker between turns: _next_work and the gathering of a batch.      *)
(***************************************************************************)
First(e, S) == e \in S /\ \A f \in S : e <= f

\* What _next_work picks: the first new /stop, else the oldest message.
Chosen(e) ==
  LET stops == {f \in incoming : IsStop(f)}
  IN  IF stops # {} THEN First(e, stops) ELSE First(e, Waiting)

\* The picked message starts a batch unless it was recalled (_message_current).
StartBatch(e) ==
  /\ batch' = {e} \ recalled
  /\ pc' = IF e \in recalled THEN "next" ELSE IF incoming' = {} THEN "gather" ELSE "take"
  /\ UNCHANGED <<tableVars, turnVars, redeliver, restarts, before>>

\* Something is pending when _next_work is entered: it empties the queue first.
NextOwner(e) ==
  /\ pc = "next" /\ Chosen(e)
  /\ incoming' = {} /\ deferred' = Waiting \ {e}
  /\ StartBatch(e)

\* Nothing is pending: it waits for the three queues.
Idle ==
  /\ pc = "next" /\ Waiting = {}
  /\ pc' = "wait"
  /\ UNCHANGED <<tableVars, queueVars, turnVars, redeliver, restarts, before>>

\* It is woken by the queue itself and takes one item only.
WokenByOwner(e) ==
  /\ pc = "wait" /\ First(e, incoming)
  /\ incoming' = incoming \ {e} /\ UNCHANGED deferred
  /\ StartBatch(e)

\* A goal, webhook, plan step or maintenance turn occupies the worker.
Background ==
  /\ \/ pc = "next" /\ Waiting = {}
     \/ pc = "wait" /\ incoming = {}
  /\ pc' = "busy"
  /\ UNCHANGED <<tableVars, queueVars, turnVars, redeliver, restarts, before>>

BackgroundEnds ==
  /\ pc = "busy"
  /\ pc' = "next"
  /\ UNCHANGED <<tableVars, queueVars, turnVars, redeliver, restarts, before>>

\* Woken during the quiet time, or with more in the queue: the next item.
Take(e) ==
  /\ pc \in {"gather", "take"} /\ First(e, incoming)
  /\ incoming' = incoming \ {e}
  /\ pc' = IF incoming' = {} THEN "gather" ELSE "take"
  /\ \/ /\ IsStop(e)
        /\ processed' = processed \cup batch
        /\ batch' = {e} /\ UNCHANGED deferred
     \/ /\ ~IsStop(e) /\ \E f \in batch : ChannelOf(f) # ChannelOf(e)
        /\ deferred' = deferred \cup {e}
        /\ UNCHANGED <<processed, batch>>
     \/ /\ ~IsStop(e) /\ \A f \in batch : ChannelOf(f) = ChannelOf(e)
        /\ batch' = batch \cup {e}
        /\ UNCHANGED <<processed, deferred>>
  /\ UNCHANGED <<last, note, recalled, turn, effect, open, turnVars, redeliver, restarts, before>>

\* The quiet time ends, whatever has just been put into the queue.
Seal ==
  /\ pc = "gather"
  /\ batch' = {}
  /\ work' = batch \ recalled /\ taken' = batch \ recalled
  /\ pc' = IF batch \subseteq recalled THEN "next" ELSE "begin"
  /\ UNCHANGED <<tableVars, incoming, deferred, cancelling, redeliver, restarts, before>>

-----------------------------------------------------------------------------
(***************************************************************************)
(* An owner turn: _complete_batch_turn and the loop it runs.               *)
(***************************************************************************)
OfTurn(e) == \E f \in taken : ChannelOf(f) = ChannelOf(e)

\* Slip: what an earlier turn set aside is not looked at.
DrainIncoming ==
  /\ taken' = taken \cup {e \in incoming \ recalled : OfTurn(e)}
  /\ deferred' = deferred \cup {e \in incoming \ recalled : ~OfTurn(e)}
  /\ incoming' = {}

\* OwnerUpdates.drain: what is still current and of this channel joins the turn.
Drain ==
  /\ taken' = taken \cup {e \in Waiting \ recalled : OfTurn(e)}
  /\ deferred' = {e \in Waiting \ recalled : ~OfTurn(e)}
  /\ incoming' = {}

\* Slip: external_effect_started is not looked at.
BeginTurnAnyway ==
  /\ pc = "begin" /\ ~cancelling
  /\ turn[work] \in {"none", "running"}
  /\ turn' = [turn EXCEPT ![work] = "running"]
  /\ Drain
  /\ pc' = "turn"
  /\ UNCHANGED <<last, note, processed, recalled, effect, open, batch, work, cancelling,
                 redeliver, restarts, before>>

\* begin_turn, then everything up to the first drain runs without an await.
BeginTurn ==
  /\ pc = "begin" /\ ~cancelling
  /\ turn[work] = "none" \/ (turn[work] = "running" /\ work \notin effect)
  /\ turn' = [turn EXCEPT ![work] = "running"]
  /\ Drain
  /\ pc' = "turn"
  /\ UNCHANGED <<last, note, processed, recalled, effect, open, batch, work, cancelling,
                 redeliver, restarts, before>>

\* begin_turn finds that this very turn was interrupted after an external effect.
BeginUncertain ==
  /\ pc = "begin" /\ ~cancelling
  /\ turn[work] = "needs_reconciliation" \/ (turn[work] = "running" /\ work \in effect)
  /\ turn' = [turn EXCEPT ![work] = "needs_reconciliation"]
  /\ open' = open \cup {work}
  /\ pc' = "settle"
  /\ UNCHANGED <<last, note, processed, recalled, effect, queueVars, turnVars,
                 redeliver, restarts, before>>

\* Slips: the sealed batch, or a cancellation already delivered, outlives its turn.
FinishWithWork ==
  /\ taken' = {} /\ cancelling' = FALSE
  /\ pc' = "next"
  /\ UNCHANGED <<last, note, recalled, effect, queueVars, work, redeliver, restarts, before>>
FinishCancelling ==
  /\ work' = {} /\ taken' = {}
  /\ pc' = "next"
  /\ UNCHANGED <<last, note, recalled, effect, queueVars, cancelling, redeliver, restarts, before>>

\* The worker is done with the turn.
Finish ==
  /\ work' = {} /\ taken' = {} /\ cancelling' = FALSE
  /\ pc' = "next"
  /\ UNCHANGED <<last, note, recalled, effect, queueVars, redeliver, restarts, before>>

\* Slip: only the sealed messages are processed, not the updates taken in later.
CommitSealed ==
  /\ turn' = [turn EXCEPT ![work] = "completed"]
  /\ processed' = processed \cup (work \ Notices)
  /\ Finish

\* commit_turn: what the turn worked on is processed, notices excepted.
CommitTurn ==
  /\ turn' = [turn EXCEPT ![work] = "completed"]
  /\ processed' = processed \cup (taken \ Notices)
  /\ Finish

\* The preparation of the first round fails: the failure is committed undrained.
PreparationFails ==
  /\ pc = "begin" /\ ~cancelling
  /\ turn[work] = "none" \/ (turn[work] = "running" /\ work \notin effect)
  /\ CommitTurn
  /\ UNCHANGED open

\* begin_tool_call for a tool that is not read-only.
DispatchTool ==
  /\ InTurn
  /\ effect' = effect \cup {work}
  /\ UNCHANGED <<last, note, processed, recalled, turn, open, queueVars, turnVars, pc,
                 redeliver, restarts, before>>

\* Before and after a model request, between tools, in a wait: updates join the turn.
Absorb ==
  /\ InTurn
  /\ Drain
  /\ UNCHANGED <<tableVars, batch, work, cancelling, pc, redeliver, restarts, before>>

\* The continuation window sets aside what arrives, and stops waiting when a command or
\* another channel's message is among it.
ParkIncoming ==
  /\ InTurn /\ incoming # {}
  /\ \E e \in Waiting : IsStop(e) \/ ~OfTurn(e)
  /\ deferred' = Waiting /\ incoming' = {}
  /\ UNCHANGED <<tableVars, batch, turnVars, pc, redeliver, restarts, before>>

\* Repeated tool or protocol errors after an external effect.
OpenCircuit ==
  /\ InTurn /\ work \in effect
  /\ open' = open \cup {work}
  /\ UNCHANGED <<last, note, processed, recalled, turn, effect, queueVars, turnVars, pc,
                 redeliver, restarts, before>>

\* The turn ends, or fails in a way that leaves nothing uncertain.
Commit == InTurn /\ CommitTurn /\ UNCHANGED open

\* It fails after an external effect: the reconciliation first, the commit after it.
FailUncertain ==
  /\ InTurn /\ work \in effect
  /\ open' = open \cup {work}
  /\ pc' = "settle"
  /\ UNCHANGED <<last, note, processed, recalled, turn, effect, queueVars, turnVars,
                 redeliver, restarts, before>>

Settle == pc = "settle" /\ CommitTurn /\ UNCHANGED open

\* Slips: the external effect is not reconciled; the messages are not processed.
CancelUnreconciled ==
  /\ TurnActive /\ cancelling
  /\ turn' = [turn EXCEPT ![work] = IF @ = "none" THEN @ ELSE "cancelled"]
  /\ processed' = processed \cup taken
  /\ UNCHANGED open
  /\ Finish
CancelTurnOnly ==
  /\ TurnActive /\ cancelling
  /\ turn' = [turn EXCEPT ![work] = IF @ = "none" THEN @ ELSE "cancelled"]
  /\ open' = IF work \in effect THEN open \cup {work} ELSE open
  /\ UNCHANGED processed
  /\ Finish

\* CancelledError reaches the worker: cancel_turn with the list the turn worked on.
CancelDelivered ==
  /\ TurnActive /\ cancelling
  /\ turn' = [turn EXCEPT ![work] = IF @ = "none" THEN @ ELSE "cancelled"]
  /\ open' = IF work \in effect THEN open \cup {work} ELSE open
  /\ processed' = processed \cup taken
  /\ Finish

-----------------------------------------------------------------------------
\* Slip: the unprocessed events are not queued.
RestartEmpty(k) ==
  /\ restarts < MaxRestarts
  /\ restarts' = restarts + 1
  /\ incoming' = {} /\ deferred' = {} /\ batch' = {}
  /\ work' = {} /\ taken' = {} /\ cancelling' = FALSE
  /\ pc' = "next"
  /\ redeliver' = {e \in Arrived : e >= k /\ IsStop(e) /\ ChannelOf(e) \in PollChannels}
  /\ before' = effect
  /\ UNCHANGED tableVars

\* The process ends anywhere; the next one queues the unprocessed events, and a polling
\* channel hands over again what came since the cursor it saved last.
Restart(k) ==
  /\ restarts < MaxRestarts
  /\ restarts' = restarts + 1
  /\ incoming' = Arrived \ processed
  /\ deferred' = {} /\ batch' = {}
  /\ work' = {} /\ taken' = {} /\ cancelling' = FALSE
  /\ pc' = "next"
  /\ redeliver' = {e \in Arrived : e >= k /\ IsStop(e) /\ ChannelOf(e) \in PollChannels}
  /\ before' = effect
  /\ UNCHANGED tableVars

Init ==
  /\ last = 0 /\ note = [e \in Event |-> [channel |-> "none", kind |-> "none"]]
  /\ processed = {} /\ recalled = {}
  /\ turn = [t \in SUBSET Event |-> "none"] /\ effect = {} /\ open = {}
  /\ incoming = {} /\ deferred = {} /\ batch = {}
  /\ work = {} /\ taken = {} /\ cancelling = FALSE
  /\ pc = "next"
  /\ redeliver = {} /\ restarts = 0 /\ before = {}

Receive ==
  \/ \E c \in Channels : Accept(c) \/ Stop(c)
  \/ \E e \in Event : Recall(e) \/ StopAgain(e)

Gather == (\E e \in Event : NextOwner(e) \/ WokenByOwner(e) \/ Take(e)) \/ Idle \/ Seal

RunTurn ==
  \/ BeginTurn \/ BeginUncertain \/ PreparationFails
  \/ DispatchTool \/ Absorb \/ ParkIncoming \/ OpenCircuit

EndTurn == Commit \/ FailUncertain \/ Settle \/ CancelDelivered

Next ==
  \/ Receive \/ Gather \/ RunTurn \/ EndTurn
  \/ Background \/ BackgroundEnds
  \/ \E k \in Event : Restart(k)

Spec == Init /\ [][Next]_vars

-----------------------------------------------------------------------------
(***************************************************************************)
(* Properties.                                                             *)
(***************************************************************************)

\* Every column and every queue holds what the code can store in it.
TypeOK ==
  /\ last \in 0 .. MaxEvents
  /\ note \in [Event -> [channel : Channels \cup {"none"}, kind : Kinds \cup {"none"}]]
  /\ processed \subseteq Arrived /\ recalled \subseteq Arrived
  /\ turn \in [SUBSET Event -> {"none", "running", "needs_reconciliation", "completed", "cancelled"}]
  /\ effect \subseteq SUBSET Event /\ open \subseteq SUBSET Event /\ before \subseteq effect
  /\ incoming \subseteq Arrived /\ deferred \subseteq Arrived /\ batch \subseteq Arrived
  /\ work \subseteq taken /\ taken \subseteq Arrived
  /\ cancelling \in BOOLEAN
  /\ pc \in {"next", "wait", "busy", "gather", "take", "begin", "turn", "settle"}
  /\ redeliver \subseteq Arrived
  /\ restarts \in 0 .. MaxRestarts

Queued == incoming \cup deferred \cup batch
Held   == Queued \cup taken

\* The table and the memory of the process agree: a message the owner has not taken back
\* is in one queue, batch or turn until it is processed, and in none afterwards.  Nothing
\* is lost, answered twice or answered again, across cancellations, deferrals and
\* restarts, although every move between queues is made in memory only.
HeldOnce ==
  /\ \A e \in Messages \ recalled : e \in processed <=> e \notin Held
  /\ incoming \cap (deferred \cup batch \cup taken) = {}
  /\ deferred \cap (batch \cup taken) = {}
  /\ batch \cap taken = {}

\* A turn never works past an older message of its channel: what other turns had set
\* aside is taken in before the first model request.
NoOvertaking ==
  pc = "turn" =>
    \A e \in Waiting \ recalled, f \in taken : ChannelOf(e) = ChannelOf(f) => f < e

\* A turn with an external effect that was cancelled, or found interrupted by a later
\* process, is on the list the owner is asked to reconcile.
EffectsAccounted ==
  \A t \in effect : turn[t] \in {"cancelled", "needs_reconciliation"} => t \in open

\* A turn that had an external effect in an earlier process never runs a model round
\* again: its messages sealed together once more are only reported as uncertain.
SameTurnNotRerun == pc = "turn" => work \notin before

\* A batch is never sealed into a turn that has already been settled, although ids are
\* derived from the events: begin_turn finds the turn unknown or interrupted.
SealedAfresh == pc = "begin" => turn[work] \notin {"completed", "cancelled"}

(***************************************************************************)
(* Why these hold: the invariant that every step preserves.                *)
(***************************************************************************)

\* A batch exists only while it is gathered, a turn only while it runs.
Phases ==
  /\ batch # {} <=> pc \in {"gather", "take"}
  /\ work # {} <=> pc \in {"begin", "turn", "settle"}
  /\ taken # {} <=> pc \in {"begin", "turn", "settle"}
  /\ cancelling => TurnActive
  /\ pc \in {"turn", "settle"} => turn[work] # "none"
  /\ pc = "turn" => turn[work] = "running"

\* A batch, and so a turn, is of one channel.
OneChannel ==
  /\ \A e, f \in batch : ChannelOf(e) = ChannelOf(f)
  /\ \A e, f \in taken : ChannelOf(e) = ChannelOf(f)

\* Recall notices, and the messages they take back, are settled from the start.
RecallsProcessed == Notices \cup recalled \subseteq processed

\* The events of a settled turn are gone for good.
SettledGone ==
  \A t \in SUBSET Event :
    /\ turn[t] # "none" => t \subseteq Arrived
    /\ turn[t] \in {"completed", "cancelled"} => t \subseteq processed /\ t \cap Held = {}
    /\ t \in effect => turn[t] # "none"

IntakeInv ==
  /\ TypeOK
  /\ Phases
  /\ OneChannel
  /\ RecallsProcessed
  /\ HeldOnce
  /\ SettledGone
  /\ NoOvertaking
  /\ EffectsAccounted
  /\ SameTurnNotRerun

(***************************************************************************)
(* Liveness: the worker coroutine runs, and what it does at the start, at  *)
(* a cancellation and at the settling of a turn is done.  How long a turn  *)
(* works is up to the model: owner and background turns have no limit of   *)
(* rounds, and those of time and tokens (turn_max_seconds and              *)
(* turn_max_total_tokens) are off unless they are configured.              *)
(***************************************************************************)
Fairness ==
  /\ WF_vars(Gather)
  /\ WF_vars(BeginTurn \/ BeginUncertain) /\ WF_vars(Settle \/ CancelDelivered)

FairSpec == Spec /\ Fairness

\* Premise: no turn works for ever.
TurnsEnd == []<>(pc \notin {"turn", "busy"})

\* If turns end, every accepted message is settled in the end, answered, stopped or
\* taken back: none is left behind in a queue by a deferral, a recall, a cancellation or
\* a restart.
EveryMessageSettles == TurnsEnd => \A e \in Event : (e \in Messages) ~> (e \in processed)

(***************************************************************************)
(* What the documentation says, and the code does not keep.                *)
(***************************************************************************)

\* "Uncertain external effects are not silently repeated after restart."  A turn
\* interrupted after an external effect, and never reported, is not started again under
\* another id.
UncertainNotRepeated ==
  pc = "turn" => \A t \in before : turn[t] = "running" => t \cap work = {}

\* "Use /stop to stop execution."  No turn runs on ordinary messages with a later /stop
\* in hand: it would be one more line of input.
StopIsObeyed ==
  pc = "turn" =>
    \A s \in taken \ work, f \in work : IsStop(s) /\ ~IsStop(f) => s < f
=============================================================================
