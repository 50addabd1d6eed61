------------------------------- MODULE Outbox -------------------------------
(***************************************************************************)
(* The durable outbox: every bubble Momoi wants to say is a row of the     *)
(* table "outbox", one coroutine (OutboxWorker) sends the rows, and the    *)
(* dialogue record (table "messages") remembers what became of each one.   *)
(* Sources: storage/delivery/{outbox,delivery,emotions}.py,                *)
(* runtime/dispatch/{delivery,commands}.py, storage/core/lifecycle.py,     *)
(* storage/conversation/{inbox,turn_commits}.py.                           *)
(*                                                                         *)
(* All coroutines share one event loop and every store call is             *)
(* synchronous, so other handlers run only while the worker is suspended   *)
(* at an await: pc is then "idle", "gap", "synth" or "send".               *)
(***************************************************************************)
EXTENDS Integers, FiniteSets

CONSTANTS
  MaxRows,          \* bound: rows ever inserted (the column is AUTOINCREMENT)
  MaxRestarts,      \* bound: process restarts
  Channels,         \* every channel a row can name
  CallChannels,     \* the channels that are a phone call (no gap, expiring context)
  ConfigChoices,    \* sets of channels a configuration may enable
  OwnerTurns,       \* turns answering the owner
  HeartbeatTurns,   \* autonomous turns that only contact an absent owner
  OtherTurns,       \* goal, plan and webhook turns
  Kinds,            \* kinds of bubble in this instance
  Nil               \* no channel, no kind, no turn

AllKinds == {"text", "image", "voice", "video"}
Turns == OwnerTurns \cup HeartbeatTurns \cup OtherTurns
Row == 1 .. MaxRows

ASSUME BoundAssumption == MaxRows \in Nat /\ MaxRestarts \in Nat
ASSUME KindAssumption == Kinds \subseteq AllKinds
ASSUME ChannelAssumption ==
  /\ CallChannels \subseteq Channels
  /\ ConfigChoices # {} /\ ConfigChoices \subseteq SUBSET Channels
ASSUME NilAssumption == Nil \notin AllKinds \cup Channels \cup Turns
ASSUME TurnAssumption ==
  /\ OwnerTurns \cap HeartbeatTurns = {}
  /\ OtherTurns \cap (OwnerTurns \cup HeartbeatTurns) = {}

VARIABLES
  \* Durable: the tables.
  last,        \* highest row id given out
  bubble,      \* row -> the columns that never change: channel, kind, turn
  state,       \* row -> its state; "absent" before the insert
  attempts,    \* row -> attempts
  dup,         \* row -> possible_duplicate
  mediaError,  \* failed image rows whose last_error says the file was unreadable
  record,      \* row -> messages.delivery_state; "none" without a message row
  committed,   \* turns whose dialogue has been written
  ended,       \* heartbeat turns whose bubbles are no longer an ephemeral contact
  asking,      \* heartbeat turns with a reconciliation notice still to be queued
  \* Volatile: the event loop's side.
  cooling,     \* rows whose next_attempt_at is in the future
  configured,  \* the channels this process was started with
  pc,          \* where the worker is suspended, or "row" while it runs
  batch,       \* the rows of its snapshot it has not finished, taken in id order
  seen,        \* row of the batch -> attempts as read by the snapshot
  previous,    \* channel and turn of the last delivery
  patience,    \* row -> disconnected_since: none, waiting, or past the give-up time
  abandoned,   \* abandoned_channels
  notices,     \* rows for which a "delivery failed" notice was recorded
  restarts,    \* restarts so far
  \* History, read by properties only.
  copies,      \* row -> dispatches that may have reached the owner
  slack        \* row -> how often attempts was lowered other than by a clean refusal

tableVars   == <<last, bubble, state, attempts, dup, mediaError, record, committed, ended, asking>>
workerVars  == <<pc, batch, seen, previous, patience, abandoned>>
historyVars == <<copies, slack>>
vars == <<tableVars, cooling, configured, workerVars, notices, restarts, historyVars>>

Settled == {"sent", "failed", "superseded"}
Waiting == {"pending", "ambiguous"}
Open    == Waiting \cup {"sending"}

ChannelOf(r) == bubble[r].channel
IsVideo(r)   == bubble[r].kind = "video"
IsContact(r) == bubble[r].turn \in HeartbeatTurns \ ended
IsCall(r)    == ChannelOf(r) \in CallChannels

(***************************************************************************)
(* What a row's state means for the dialogue record.                       *)
(***************************************************************************)
\* Slip: possible_duplicate is not looked at.
MessageStateOfRowOnly(s, d) ==
  CASE s = "sent"                      -> "delivered"
    [] s = "ambiguous"                 -> "uncertain"
    [] s \in {"failed", "superseded"}  -> "failed"
    [] OTHER                           -> "queued"

MessageState(s, d) ==
  IF d /\ s # "sent" THEN "uncertain"
  ELSE CASE s = "sent"                      -> "delivered"
         [] s = "ambiguous"                 -> "uncertain"
         [] s \in {"failed", "superseded"}  -> "failed"
         [] OTHER                           -> "queued"

\* _sync_outbox_message for one row: an UPDATE, so a missing message stays missing.
Sync(rec, s, d) == IF rec = "none" THEN "none" ELSE MessageState(s, d)

\* Slip: a clip is treated as any other bubble.
NoUncertainVideo(r, st) == FALSE

\* An uncertain video is terminal: neither sent again nor in the way of later rows.
UncertainVideo(r, st) == IsVideo(r) /\ st[r] = "ambiguous"

\* A row a later row of its channel waits for.
InTheWay(r, st) == st[r] \in Open /\ ~UncertainVideo(r, st)

Dispatchable(r) == state[r] \in Waiting /\ ~UncertainVideo(r, state)

\* Slips: a row waiting for its retry, or any but the one just before, is overtaken.
DuePastCooling(r) ==
  /\ Dispatchable(r)
  /\ r \notin cooling
  /\ \A e \in Row : e < r /\ ChannelOf(e) = ChannelOf(r) /\ e \notin cooling => ~InTheWay(e, state)

DueAfterPrevious(r) ==
  /\ Dispatchable(r)
  /\ r \notin cooling
  /\ \A e \in Row : e = r - 1 /\ ChannelOf(e) = ChannelOf(r) => ~InTheWay(e, state)

Due(r) ==
  /\ Dispatchable(r)
  /\ r \notin cooling
  /\ \A e \in Row : e < r /\ ChannelOf(e) = ChannelOf(r) => ~InTheWay(e, state)

-----------------------------------------------------------------------------
(***************************************************************************)
(* Inserting rows.                                                         *)
(***************************************************************************)

\* The worker is suspended: another coroutine may run.
Yielded == pc # "row"

Insert(c, k, t, rec) ==
  /\ last < MaxRows
  /\ last' = last + 1
  /\ bubble' = [bubble EXCEPT ![last + 1] = [channel |-> c, kind |-> k, turn |-> t]]
  /\ state' = [state EXCEPT ![last + 1] = "pending"]
  /\ record' = [rec EXCEPT ![last + 1] = IF k = "video" \/ t \in committed' THEN "queued" ELSE "none"]
  /\ UNCHANGED <<attempts, dup, mediaError>>

\* A running turn speaks: the row has no message until the turn commits.
\* (Replaying the same tool call hits the dedupe key and inserts nothing.)
QueueProgress(t, c, k) ==
  /\ Yielded
  /\ t \notin committed \cup ended /\ c \in configured /\ k # "video"
  /\ UNCHANGED <<committed, ended, asking>>
  /\ Insert(c, k, t, record)
  /\ UNCHANGED <<cooling, configured, workerVars, notices, restarts, historyVars>>

\* The message rows a commit writes for the progress rows rs.
Archived(rs) ==
  [r \in Row |-> IF r \in rs /\ record[r] = "none"
                 THEN MessageState(state[r], dup[r]) ELSE record[r]]

TurnRows(t) == {r \in Row : bubble[r].turn = t}

\* A heartbeat's commit forgets what was withdrawn; the other commits do not look.
ProgressRows(t) ==
  {r \in TurnRows(t) : t \in HeartbeatTurns => state[r] # "superseded"}

\* commit_turn and its siblings for a turn that only spoke through progress rows.
\* A heartbeat left with none writes no notification: nothing of it is a contact.
CommitTurn(t) ==
  /\ Yielded
  /\ t \notin committed \cup ended
  /\ committed' = committed \cup {t}
  /\ ended' = IF t \in HeartbeatTurns /\ ProgressRows(t) = {} THEN ended \cup {t} ELSE ended
  /\ record' = Archived(ProgressRows(t))
  /\ UNCHANGED <<last, bubble, state, attempts, dup, mediaError, asking>>
  /\ UNCHANGED <<cooling, configured, workerVars, notices, restarts, historyVars>>

\* The same commit with a final bubble: archived and queued in one transaction.
CommitTurnWith(t, c, k) ==
  /\ Yielded
  /\ t \notin committed \cup ended /\ c \in configured /\ k # "video"
  /\ committed' = committed \cup {t}
  /\ UNCHANGED <<ended, asking>>
  /\ Insert(c, k, t, Archived(ProgressRows(t)))
  /\ UNCHANGED <<cooling, configured, workerVars, notices, restarts, historyVars>>

\* A heartbeat is stopped by the owner, or found with an external effect by the next
\* process: its turn is no longer running and nothing was committed.
EndHeartbeat(t) ==
  /\ Yielded
  /\ t \in HeartbeatTurns \ (committed \cup ended)
  /\ ended' = ended \cup {t}
  /\ UNCHANGED <<last, bubble, state, attempts, dup, mediaError, record, committed, asking>>
  /\ UNCHANGED <<cooling, configured, workerVars, notices, restarts, historyVars>>

\* A heartbeat fails after an external effect: commit_autonomous_turn writes its
\* dialogue and a notification that is not a contact's, asking the owner.
AskReconciliation(t) ==
  /\ Yielded
  /\ t \in HeartbeatTurns \ (committed \cup ended)
  /\ committed' = committed \cup {t}
  /\ ended' = ended \cup {t}
  /\ asking' = asking \cup {t}
  /\ record' = Archived(TurnRows(t))
  /\ UNCHANGED <<last, bubble, state, attempts, dup, mediaError>>
  /\ UNCHANGED <<cooling, configured, workerVars, notices, restarts, historyVars>>

\* The scheduler queues a goal's or a failed heartbeat's notification after the turn,
\* to the channel stored then (a goal's may hold several messages).
QueueNotification(t, c, k) ==
  /\ Yielded
  /\ t \in (OtherTurns \cap committed) \cup asking /\ k # "video"
  /\ asking' = asking \ {t}
  /\ UNCHANGED <<committed, ended>>
  /\ Insert(c, k, t, record)
  /\ UNCHANGED <<cooling, configured, workerVars, notices, restarts, historyVars>>

\* A webhook's recorded clip.
QueueVideo(t, c) ==
  /\ Yielded
  /\ t \in OtherTurns /\ c \in configured /\ "video" \in Kinds
  /\ UNCHANGED <<committed, ended, asking>>
  /\ Insert(c, "video", t, record)
  /\ UNCHANGED <<cooling, configured, workerVars, notices, restarts, historyVars>>

-----------------------------------------------------------------------------
(***************************************************************************)
(* Withdrawing rows: the owner speaks, stops, or takes a message back.     *)
(***************************************************************************)

\* Slips: rows are cancelled whatever became of them; the record is left alone.
CancelStateOfAny(st, rs) ==
  [r \in Row |-> IF r \in rs /\ st[r] \in Waiting \cup {"sent"} THEN "superseded" ELSE st[r]]
CancelRecordUnchanged(st, rec, rs) == rec

\* cancel_pending_outbox on the rows rs: a row on the wire is left alone.
CancelState(st, rs) ==
  [r \in Row |-> IF r \in rs /\ st[r] \in Waiting THEN "superseded" ELSE st[r]]
CancelRecord(st, rec, rs) ==
  [r \in Row |-> IF r \in rs /\ st[r] \in Waiting
                 THEN Sync(rec[r], "superseded", dup[r]) ELSE rec[r]]

\* _supersede_heartbeat_contacts: a queued contact leaves no message behind,
\* one that may have been seen stays as uncertain.
HeartbeatContacts(st) == {r \in Row : IsContact(r) /\ st[r] \in Waiting}
SupersedeState(st) ==
  [r \in Row |-> IF r \in HeartbeatContacts(st) THEN "superseded" ELSE st[r]]
SupersedeRecord(st, rec) ==
  [r \in Row |-> IF r \notin HeartbeatContacts(st) THEN rec[r]
                 ELSE IF st[r] = "ambiguous" THEN Sync(rec[r], "ambiguous", dup[r])
                 ELSE "none"]

Withdraw(st2, rec2) ==
  /\ state' = st2
  /\ record' = rec2
  /\ UNCHANGED <<last, bubble, attempts, dup, mediaError, committed, ended, asking>>
  /\ UNCHANGED <<cooling, configured, workerVars, notices, restarts, historyVars>>

\* An accepted message: add_event drops heartbeat contacts, then the channel's
\* queue is cancelled.
OwnerMessage(c) ==
  /\ Yielded /\ c \in configured
  /\ LET st  == SupersedeState(state)
         rec == SupersedeRecord(state, record)
         on  == {r \in Row : ChannelOf(r) = c}
     IN  Withdraw(CancelState(st, on), CancelRecord(st, rec, on))

\* /stop: the same two, in the other order.
StopCommand(c) ==
  /\ Yielded /\ c \in configured
  /\ LET on  == {r \in Row : ChannelOf(r) = c}
         st  == CancelState(state, on)
         rec == CancelRecord(state, record, on)
     IN  Withdraw(SupersedeState(st), SupersedeRecord(st, rec))

\* The owner recalls a message: only rows of the turn that answered it.
Recall(t, c) ==
  /\ Yielded /\ c \in configured /\ t \in OwnerTurns
  /\ LET on == {r \in Row : bubble[r].turn = t /\ ChannelOf(r) = c}
     IN  Withdraw(CancelState(state, on), CancelRecord(state, record, on))

\* Cancellation by the runtime itself: a call that ends, a background turn that
\* yields, a reply overtaken by an owner update.
CancelQueue(c) ==
  /\ Yielded /\ c \in configured
  /\ LET on == {r \in Row : ChannelOf(r) = c}
     IN  Withdraw(CancelState(state, on), CancelRecord(state, record, on))

-----------------------------------------------------------------------------
(***************************************************************************)
(* The passing of time.                                                    *)
(***************************************************************************)

\* next_attempt_at is reached.
RetryDue(r) ==
  /\ r \in cooling
  /\ cooling' = cooling \ {r}
  /\ UNCHANGED <<tableVars, configured, workerVars, notices, restarts, historyVars>>

\* delivery_disconnect_give_up_seconds have passed since the first refusal.
GiveUpTime(r) ==
  /\ patience[r] = "waiting"
  /\ patience' = [patience EXCEPT ![r] = "spent"]
  /\ UNCHANGED <<tableVars, cooling, configured, pc, batch, seen, previous, abandoned,
                 notices, restarts, historyVars>>

-----------------------------------------------------------------------------
(***************************************************************************)
(* The worker: _outbox_worker.                                             *)
(***************************************************************************)

\* mark_sending, mark_not_dispatched, mark_ambiguous, mark_failed, mark_sent:
\* the five updates of a row.
\* Slip: the dispatch is not counted.
MarkSendingUncounted(r) ==
  /\ state' = [state EXCEPT ![r] = "sending"]
  /\ UNCHANGED <<attempts, dup, record, cooling>>

MarkSending(r) ==
  /\ state' = [state EXCEPT ![r] = "sending"]
  /\ attempts' = [attempts EXCEPT ![r] = @ + 1]
  /\ UNCHANGED <<dup, record, cooling>>

\* Slip: attempts is lowered below zero.
MarkNotDispatchedBelowZero(r) ==
  /\ state' = [state EXCEPT ![r] = "pending"]
  /\ attempts' = [attempts EXCEPT ![r] = @ - 1]
  /\ cooling' = cooling \cup {r}
  /\ UNCHANGED <<dup, record>>

MarkNotDispatched(r) ==
  /\ state' = [state EXCEPT ![r] = "pending"]
  /\ attempts' = [attempts EXCEPT ![r] = IF @ > 0 THEN @ - 1 ELSE 0]
  /\ cooling' = cooling \cup {r}
  /\ UNCHANGED <<dup, record>>

\* Slip: one retry too many.
MarkAmbiguousTwice(r, attempt) ==
  LET s == IF attempt <= 2 \/ IsVideo(r) THEN "ambiguous" ELSE "failed"
  IN  /\ state' = [state EXCEPT ![r] = s]
      /\ dup' = [dup EXCEPT ![r] = TRUE]
      /\ record' = [record EXCEPT ![r] = Sync(@, s, TRUE)]
      /\ cooling' = cooling \cup {r}
      /\ UNCHANGED attempts

MarkAmbiguous(r, attempt) ==
  LET s == IF attempt < 2 \/ IsVideo(r) THEN "ambiguous" ELSE "failed"
  IN  /\ state' = [state EXCEPT ![r] = s]
      /\ dup' = [dup EXCEPT ![r] = TRUE]
      /\ record' = [record EXCEPT ![r] = Sync(@, s, TRUE)]
      /\ cooling' = cooling \cup {r}
      /\ UNCHANGED attempts

\* Slip: the record is not told.
MarkFailedUnrecorded(r) ==
  /\ state' = [state EXCEPT ![r] = "failed"]
  /\ UNCHANGED <<attempts, dup, record, cooling>>

MarkFailed(r) ==
  /\ state' = [state EXCEPT ![r] = "failed"]
  /\ record' = [record EXCEPT ![r] = Sync(@, "failed", dup[r])]
  /\ UNCHANGED <<attempts, dup, cooling>>

MarkSent(r) ==
  /\ state' = [state EXCEPT ![r] = "sent"]
  /\ record' = [record EXCEPT ![r] = Sync(@, "sent", dup[r])]
  /\ UNCHANGED <<attempts, dup, cooling>>

\* The row the worker is at: the oldest of its snapshot.
AtHead(r) == r \in batch /\ \A e \in batch : r <= e

NextRow(r) ==
  /\ batch' = batch \ {r}
  /\ pc' = IF batch = {r} THEN "idle" ELSE "row"
  /\ seen' = [seen EXCEPT ![r] = 0]

\* A worker step that touches no column but those of the five updates.
RowStep ==
  UNCHANGED <<last, bubble, committed, ended, asking, configured, restarts>>

\* due_outbox: at most one row per channel, the oldest that is not settled.
Snapshot ==
  /\ pc = "idle"
  /\ batch' = {r \in Row : Due(r)}
  /\ batch' # {}
  /\ seen' = [r \in Row |-> IF Due(r) THEN attempts[r] ELSE 0]
  /\ pc' = "row"
  /\ UNCHANGED <<tableVars, cooling, configured, previous, patience, abandoned,
                 notices, restarts, historyVars>>

\* The row's channel is not in this configuration: unconditionally back to pending.
NotConfigured(r) ==
  /\ pc = "row" /\ AtHead(r)
  /\ ChannelOf(r) \notin configured
  /\ MarkNotDispatched(r)
  /\ slack' = [slack EXCEPT ![r] = @ + attempts[r] - attempts'[r]]
  /\ NextRow(r)
  /\ RowStep
  /\ UNCHANGED <<mediaError, previous, patience, abandoned, notices, copies>>

\* A second bubble of the same delivery waits a natural gap (not on a call).
NeedsGap(r) == previous = <<ChannelOf(r), bubble[r].turn>> /\ ~IsCall(r)

BeginGap(r) ==
  /\ pc = "row" /\ AtHead(r)
  /\ ChannelOf(r) \in configured
  /\ NeedsGap(r)
  /\ pc' = "gap"
  /\ UNCHANGED <<tableVars, cooling, configured, batch, seen, previous, patience, abandoned,
                 notices, restarts, historyVars>>

\* Where the worker decides whether to send: at once, or when the gap is over.
AtDispatch(r) ==
  /\ AtHead(r)
  /\ \/ pc = "row" /\ ChannelOf(r) \in configured /\ ~NeedsGap(r)
     \/ pc = "gap"

\* Withdrawn while the worker waited.
DropWithdrawn(r) ==
  /\ AtDispatch(r) \/ (pc = "synth" /\ AtHead(r))
  /\ ~Dispatchable(r)
  /\ NextRow(r)
  /\ RowStep
  /\ UNCHANGED <<state, attempts, dup, record, mediaError, cooling, previous, patience,
                 abandoned, notices, copies, slack>>

\* The call this reply belongs to has ended.
ContextExpired(r) ==
  /\ AtDispatch(r)
  /\ Dispatchable(r) /\ IsCall(r)
  /\ MarkFailed(r)
  /\ NextRow(r)
  /\ RowStep
  /\ UNCHANGED <<mediaError, previous, patience, abandoned, notices, copies, slack>>

\* No cached audio: the provider is awaited.
BeginSynthesis(r) ==
  /\ AtDispatch(r)
  /\ Dispatchable(r) /\ bubble[r].kind = "voice"
  /\ pc' = "synth"
  /\ UNCHANGED <<tableVars, cooling, configured, batch, seen, previous, patience, abandoned,
                 notices, restarts, historyVars>>

\* Slip: the row is not looked at again after the provider answered.
ReadyUnchecked(r) == (AtDispatch(r) /\ Dispatchable(r)) \/ (pc = "synth" /\ AtHead(r))

ReadyToSend(r) ==
  /\ AtDispatch(r) \/ (pc = "synth" /\ AtHead(r))
  /\ Dispatchable(r)

\* TTSError: mark_sending, then mark_failed.
SynthesisFails(r) ==
  /\ ReadyToSend(r) /\ bubble[r].kind = "voice"
  /\ state' = [state EXCEPT ![r] = "failed"]
  /\ attempts' = [attempts EXCEPT ![r] = @ + 1]
  /\ record' = [record EXCEPT ![r] = Sync(@, "failed", dup[r])]
  /\ NextRow(r)
  /\ RowStep
  /\ UNCHANGED <<dup, cooling, mediaError, previous, patience, abandoned, notices,
                 copies, slack>>

\* mark_sending succeeds and the channel is called.
BeginSend(r) ==
  /\ ReadyToSend(r)
  /\ MarkSending(r)
  /\ pc' = "send"
  /\ RowStep
  /\ UNCHANGED <<mediaError, batch, seen, previous, patience, abandoned, notices,
                 copies, slack>>

Sending(r) == pc = "send" /\ AtHead(r)

Reaches(r) == copies' = [copies EXCEPT ![r] = @ + 1]

\* Slip: it is never time to give up.
RefusedForever(r) ==
  /\ Sending(r)
  /\ ChannelOf(r) \notin abandoned
  /\ patience' = [patience EXCEPT ![r] = "waiting"]
  /\ MarkNotDispatched(r)
  /\ NextRow(r)
  /\ RowStep
  /\ UNCHANGED <<mediaError, previous, abandoned, notices, copies, slack>>

\* NotConnected, and it is not yet time to give up.
RefusedRetry(r) ==
  /\ Sending(r)
  /\ patience[r] # "spent" /\ ChannelOf(r) \notin abandoned
  /\ patience' = [patience EXCEPT ![r] = "waiting"]
  /\ MarkNotDispatched(r)
  /\ NextRow(r)
  /\ RowStep
  /\ UNCHANGED <<mediaError, previous, abandoned, notices, copies, slack>>

\* NotConnected for too long (a slow first attempt counts), or on a channel
\* that was given up: the first row of the outage leaves a notice.
RefusedGiveUp(r) ==
  /\ Sending(r)
  /\ patience' = [patience EXCEPT ![r] = "none"]
  /\ MarkFailed(r)
  /\ notices' = IF ChannelOf(r) \in abandoned THEN notices ELSE notices \cup {r}
  /\ abandoned' = abandoned \cup {ChannelOf(r)}
  /\ NextRow(r)
  /\ RowStep
  /\ UNCHANGED <<mediaError, previous, copies, slack>>

\* AmbiguousSend: the channel cannot tell whether the message went out.
SendAmbiguous(r) ==
  /\ Sending(r)
  /\ MarkAmbiguous(r, seen[r] + 1)
  /\ Reaches(r)
  /\ NextRow(r)
  /\ RowStep
  /\ UNCHANGED <<mediaError, previous, patience, abandoned, notices, slack>>

\* SendRejected, or SendInterrupted by the caller hanging up: not retried.
SendFailed(r) ==
  /\ Sending(r)
  /\ MarkFailed(r)
  /\ \/ UNCHANGED mediaError
     \/ bubble[r].kind = "image" /\ mediaError' = mediaError \cup {r}
  /\ NextRow(r)
  /\ RowStep
  /\ UNCHANGED <<previous, patience, abandoned, notices, copies, slack>>

SendSucceeds(r) ==
  /\ Sending(r)
  /\ MarkSent(r)
  /\ Reaches(r)
  /\ patience' = [patience EXCEPT ![r] = "none"]
  /\ abandoned' = abandoned \ {ChannelOf(r)}
  /\ previous' = <<ChannelOf(r), bubble[r].turn>>
  /\ NextRow(r)
  /\ RowStep
  /\ UNCHANGED <<mediaError, notices, slack>>

-----------------------------------------------------------------------------
(***************************************************************************)
(* A crash or a shutdown at any point, and Store.__init__ of the next      *)
(* process: heartbeat contacts are superseded, image rows whose file can   *)
(* be read again are revived, rows left on the wire become ambiguous.      *)
(***************************************************************************)
RecoveredState(r, n) == IF n < 2 \/ IsVideo(r) THEN "ambiguous" ELSE "failed"

Restart(cfg, revived) ==
  /\ restarts < MaxRestarts
  /\ restarts' = restarts + 1
  /\ revived \subseteq {r \in mediaError : state[r] = "failed"}
  /\ LET onWire == {r \in Row : state[r] = "sending"}
         st1    == SupersedeState(state)
         rec1   == SupersedeRecord(state, record)
     IN  /\ state' = [r \in Row |-> IF r \in onWire THEN RecoveredState(r, attempts[r])
                                    ELSE IF r \in revived THEN "pending" ELSE st1[r]]
         /\ dup' = [r \in Row |-> dup[r] \/ r \in onWire]
         /\ record' = [r \in Row |->
              IF r \in onWire THEN Sync(rec1[r], RecoveredState(r, attempts[r]), TRUE)
              ELSE IF r \in revived THEN Sync(rec1[r], "pending", dup[r])
              ELSE rec1[r]]
         /\ copies' = [r \in Row |-> IF r \in onWire THEN copies[r] + 1 ELSE copies[r]]
         /\ cooling' = cooling \ (onWire \cup revived)
  /\ attempts' = [r \in Row |-> IF r \in revived THEN 0 ELSE attempts[r]]
  /\ slack' = [r \in Row |-> IF r \in revived THEN slack[r] + attempts[r] ELSE slack[r]]
  /\ mediaError' = mediaError \ revived
  /\ configured' = cfg
  /\ pc' = "idle" /\ batch' = {} /\ seen' = [r \in Row |-> 0]
  /\ previous' = <<Nil, Nil>>
  /\ patience' = [r \in Row |-> "none"]
  /\ abandoned' = {}
  /\ UNCHANGED <<last, bubble, committed, ended, asking, notices>>

-----------------------------------------------------------------------------
Init ==
  /\ last = 0
  /\ bubble = [r \in Row |-> [channel |-> Nil, kind |-> Nil, turn |-> Nil]]
  /\ state = [r \in Row |-> "absent"]
  /\ attempts = [r \in Row |-> 0]
  /\ dup = [r \in Row |-> FALSE]
  /\ mediaError = {}
  /\ record = [r \in Row |-> "none"]
  /\ committed = {} /\ ended = {} /\ asking = {}
  /\ cooling = {}
  /\ configured \in ConfigChoices
  /\ pc = "idle" /\ batch = {} /\ seen = [r \in Row |-> 0]
  /\ previous = <<Nil, Nil>>
  /\ patience = [r \in Row |-> "none"]
  /\ abandoned = {} /\ notices = {}
  /\ restarts = 0
  /\ copies = [r \in Row |-> 0] /\ slack = [r \in Row |-> 0]

Speak ==
  \/ \E t \in Turns, c \in Channels, k \in Kinds :
       QueueProgress(t, c, k) \/ CommitTurnWith(t, c, k) \/ QueueNotification(t, c, k)
  \/ \E t \in Turns : CommitTurn(t) \/ EndHeartbeat(t) \/ AskReconciliation(t)
  \/ \E t \in Turns, c \in Channels : QueueVideo(t, c)

Silence ==
  \E c \in Channels :
    \/ OwnerMessage(c) \/ StopCommand(c) \/ CancelQueue(c)
    \/ \E t \in Turns : Recall(t, c)

Clock == \E r \in Row : RetryDue(r) \/ GiveUpTime(r)

\* The steps the worker takes on a row, and the answers of the channel.
WorkRow(r) ==
  \/ NotConfigured(r) \/ BeginGap(r) \/ DropWithdrawn(r) \/ ContextExpired(r)
  \/ BeginSynthesis(r) \/ SynthesisFails(r) \/ BeginSend(r)
  \/ RefusedRetry(r) \/ RefusedGiveUp(r) \/ SendAmbiguous(r) \/ SendFailed(r)
  \/ SendSucceeds(r)

Work == Snapshot \/ \E r \in Row : WorkRow(r)

Recover == \E cfg \in ConfigChoices : \E revived \in SUBSET Row : Restart(cfg, revived)

Next == Speak \/ Silence \/ Clock \/ Work \/ Recover

Spec == Init /\ [][Next]_vars

-----------------------------------------------------------------------------
(***************************************************************************)
(* Properties.                                                             *)
(***************************************************************************)

\* Every column and every worker variable holds a value the code can store.
TypeOK ==
  /\ last \in 0 .. MaxRows
  /\ bubble \in [Row -> [channel : Channels \cup {Nil}, kind : AllKinds \cup {Nil},
                         turn : Turns \cup {Nil}]]
  /\ state \in [Row -> {"absent"} \cup Open \cup Settled]
  /\ attempts \in [Row -> Nat]
  /\ dup \in [Row -> BOOLEAN]
  /\ mediaError \subseteq Row
  /\ record \in [Row -> {"none", "queued", "uncertain", "delivered", "failed"}]
  /\ committed \subseteq Turns
  /\ ended \subseteq HeartbeatTurns
  /\ asking \subseteq HeartbeatTurns
  /\ cooling \subseteq Row
  /\ configured \subseteq Channels
  /\ pc \in {"idle", "row", "gap", "synth", "send"}
  /\ batch \subseteq Row
  /\ seen \in [Row -> Nat]
  /\ patience \in [Row -> {"none", "waiting", "spent"}]
  /\ abandoned \subseteq Channels \cup {Nil}
  /\ notices \subseteq Row
  /\ restarts \in 0 .. MaxRestarts
  /\ copies \in [Row -> Nat]
  /\ slack \in [Row -> Nat]

\* However sends, outages, crashes and configuration changes interleave, a bubble
\* may reach the owner at most twice, plus once for every time attempts was lowered
\* by something other than a clean refusal (a restart without its channel, a revived
\* image); a webhook's clip at most once, always.
BoundedCopies ==
  \A r \in Row : /\ copies[r] <= 2 + slack[r]
                 /\ IsVideo(r) => copies[r] <= 1

\* A bubble is on the wire only when every earlier bubble of its channel is out of
\* the way, although the snapshot it was picked from is older than the send: new
\* rows, retries, cancellations and recoveries in between never overtake it.
ChannelOrder ==
  \A r \in Row : state[r] = "sending" =>
    \A e \in Row : e < r /\ ChannelOf(e) = ChannelOf(r) => ~InTheWay(e, state)

\* The one row whose message lags: a heartbeat bubble recorded as failed when it was
\* withdrawn, then put back to pending because its channel is missing.
Lags(r, rec, s, d) ==
  bubble[r].turn \in HeartbeatTurns /\ rec = "failed" /\ s \in Open /\ ~d

Agrees(r, rec, s, d) == rec = MessageState(s, d) \/ Lags(r, rec, s, d)

\* The dialogue record, written by another component at another time and updated
\* only by some of the row's transitions, says what the row says.
RecordAgrees ==
  \A r \in Row : record[r] # "none" => Agrees(r, record[r], state[r], dup[r])

\* A bubble the owner may have seen is never recorded as failed or still queued,
\* and none is recorded as delivered without a send that succeeded.
HonestRecord ==
  \A r \in Row : record[r] # "none" =>
    /\ copies[r] > 0 => record[r] \in {"delivered", "uncertain"}
    /\ record[r] = "delivered" => copies[r] > 0

\* Confirmed delivery is final: no later retry, crash recovery or cancellation
\* reopens the row or lets it reach the owner again.
DeliveredIsFinal ==
  [][\A r \in Row : state[r] = "sent" => state'[r] = "sent" /\ copies'[r] = copies[r]]_vars

\* A withdrawn row stays so, or goes back to pending because its channel is missing.
StaysWithdrawn ==
  \A r \in Row : state[r] = "superseded" /\ restarts' = restarts =>
    \/ state'[r] = "superseded"
    \/ state'[r] = "pending" /\ ChannelOf(r) \notin configured'

\* A withdrawn bubble is not taken up again in the lifetime of the process, although
\* the worker awaits a gap and a provider after its snapshot; the one that goes back to
\* pending is of a channel that is not configured, so that it cannot be sent either.
WithdrawnNeverSent == [][StaysWithdrawn]_vars

\* A bubble the owner may have seen keeps a line in the dialogue once its turn is
\* committed.
SeenIsRemembered ==
  \A r \in Row : copies[r] > 0 /\ bubble[r].turn \in committed => record[r] # "none"

(***************************************************************************)
(* Why these hold: the invariant that every step preserves.                *)
(***************************************************************************)

\* Ids are given out in order, and a row not yet inserted is blank.
RowsInOrder ==
  \A r \in Row :
    /\ state[r] # "absent" <=> r <= last
    /\ r > last => /\ attempts[r] = 0 /\ copies[r] = 0 /\ slack[r] = 0
                   /\ ~dup[r] /\ record[r] = "none" /\ r \notin mediaError
                   /\ bubble[r].turn = Nil

OnWire(r) == IF state[r] = "sending" THEN 1 ELSE 0

\* The worker holds the rows of its snapshot and the one it sends is the oldest.
WorkerHolds ==
  /\ pc = "idle" => batch = {}
  /\ pc = "send" => \E r \in batch : AtHead(r)
  /\ \A r \in Row : state[r] = "sending" <=> pc = "send" /\ AtHead(r)
  /\ \A r \in batch : state[r] \in Waiting \cup {"sending", "superseded"}
  /\ \A r \in batch : attempts[r] = seen[r] + OnWire(r)

\* The rows it holds are of different channels, each the first of its channel.
WorkerHoldsHeads ==
  \A r \in batch : \A e \in Row :
    ChannelOf(e) = ChannelOf(r) /\ e # r =>
      /\ e \notin batch
      /\ e < r => ~InTheWay(e, state)

\* attempts counts the dispatches whose outcome is not a clean refusal.
CopiesCounted ==
  \A r \in Row :
    /\ copies[r] + OnWire(r) <= attempts[r] + slack[r]
    /\ attempts[r] <= 2
    /\ state[r] \in Waiting \cup {"superseded"} => attempts[r] <= 1

\* A clip that may have gone out is neither pending nor held by the worker.
ClipSentOnce ==
  \A r \in Row : IsVideo(r) =>
    /\ copies[r] <= 1
    /\ state[r] \in {"pending", "sending"} \/ r \in batch =>
         copies[r] = 0 /\ attempts[r] = OnWire(r)
    /\ r \notin mediaError
    /\ bubble[r].turn \notin HeartbeatTurns

\* possible_duplicate is set as far as the record needs it: whatever may have been seen
\* is marked or sent, and so is a withdrawn row that a missing channel may revive,
\* unless it is a heartbeat's.
DuplicatesMarked ==
  \A r \in Row :
    /\ copies[r] > 0 => dup[r] \/ state[r] = "sent"
    /\ state[r] = "sent" => copies[r] > 0
    /\ state[r] = "ambiguous" => dup[r]
    /\ ChannelOf(r) \notin configured /\ r \in batch /\ state[r] = "superseded" =>
         bubble[r].turn \in HeartbeatTurns

IInv ==
  /\ TypeOK
  /\ RowsInOrder
  /\ WorkerHolds
  /\ WorkerHoldsHeads
  /\ CopiesCounted
  /\ ClipSentOnce
  /\ DuplicatesMarked
  /\ RecordAgrees

(***************************************************************************)
(* Liveness.  The worker coroutine keeps running, every await of it ends   *)
(* (gap timer, provider, and send calls all carry timeouts) and the clock  *)
(* advances; nothing is assumed of what the channel answers.               *)
(***************************************************************************)
Fairness ==
  /\ WF_vars(Work)
  /\ \A r \in Row : WF_vars(RetryDue(r)) /\ WF_vars(GiveUpTime(r))

FairSpec == Spec /\ Fairness

\* A bubble for a configured channel is settled in the end, whatever the channel
\* answers: it is sent, given up, or withdrawn (an uncertain clip stays as it is).
EveryBubbleSettles ==
  \A r \in Row :
    (state[r] \in Open /\ ChannelOf(r) \in configured)
      ~> (state[r] \in Settled \/ UncertainVideo(r, state) \/ ChannelOf(r) \notin configured)
=============================================================================
