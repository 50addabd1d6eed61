----------------------------- MODULE Heartbeat -----------------------------
(***************************************************************************)
(* The heartbeat: the agent's own turn on a schedule, or on /heartbeat,    *)
(* that may write to the owner unless the owner has just written. It is    *)
(* claimed, waits in the worker's queue, decides on what it was told of    *)
(* the conversation, is parked while the owner is served, is resumed,      *)
(* fails, is stopped or is cut off by a crash; its bubbles are queued only *)
(* after another look at the conversation, and withdrawn when the owner    *)
(* writes. Sources: storage/agenda/heartbeat_schedule.py and               *)
(* heartbeat_commits.py, runtime/workflows/heartbeat.py, the contact check *)
(* of runtime/agent/delivery.py, the events of storage/conversation.       *)
(***************************************************************************)
EXTENDS Integers, FiniteSets

CONSTANTS
  MaxSlots,     \* bound: values of next_heartbeat_at
  MaxCommands,  \* bound: /heartbeat
  MaxEvents,    \* bound: the owner's messages
  MaxQuiet,     \* bound: quiet hours begin or end
  MaxStops,     \* bound: /stop while the heartbeat's turn is alive
  MaxCrashes    \* bound: the process ends

ASSUME HeartbeatBounds ==
  {MaxSlots, MaxCommands, MaxEvents, MaxQuiet, MaxStops, MaxCrashes} \subseteq Nat

VARIABLES
  up,         \* the runtime runs
  slot, due,  \* next_heartbeat_at, by its changes, and whether it has come
  claim,      \* heartbeat_claim_kind
  commands,   \* /heartbeat so far: the claimed_at of a manual claim
  hbQueued,   \* its job is in the worker's queue
  beat,       \* its turn
  hbRows,     \* turns: the ledger's rows of the heartbeats
  events,     \* the owner's messages in events: owner_event_revision
  open,       \* those of them with processed=0
  answering,  \* an owner turn's reply is in the outbox
  quiet,      \* quiet hours
  bubble,     \* the heartbeat's bubble in the outbox
  quiets, stops, crashes

hbVars   == <<up, slot, due, claim, commands, hbQueued, beat, hbRows, events, open, answering,
              quiet, bubble, quiets, stops, crashes>>
hbClaims == <<slot, due, claim, commands, hbQueued>>
hbWorld  == <<events, open, answering, quiet, quiets>>
hbFaults == <<up, stops, crashes>>

\* _turn_id: after next_heartbeat_at or claimed_at.
HbIds    == ({"slot"} \X (0 .. MaxSlots)) \cup ({"manual"} \X (1 .. MaxCommands))
HbId     == IF claim = "manual" THEN <<"manual", commands>> ELSE <<"slot", slot>>
NoBeat   == [stage |-> "none", id |-> <<"slot", 0>>, told |-> 0, held |-> 0, asked |-> FALSE, effect |-> FALSE]
NoBubble == [state |-> "none", told |-> 0, key |-> "none", id |-> NoBeat.id]
Alive    == beat.stage \in {"start", "run", "parked", "waking"}
Busy     == open > 0 \/ answering       \* heartbeat_conversation_snapshot
InTranscript == events - open

-----------------------------------------------------------------------------
(***************************************************************************)
(* The schedule and its claims.                                            *)
(***************************************************************************)
ComesDue ==
  /\ ~due /\ slot < MaxSlots /\ due' = TRUE
  /\ UNCHANGED <<slot, claim, commands, hbQueued, beat, hbRows, hbWorld, bubble, hbFaults>>

\* claim_due_heartbeat: in quiet hours it is put off to their end.
ClaimHeartbeat ==
  /\ up /\ claim = "none" /\ due
  /\ IF quiet
     THEN slot' = slot + 1 /\ due' = FALSE /\ UNCHANGED <<claim, hbQueued>>
     ELSE claim' = "ordinary" /\ hbQueued' = TRUE /\ UNCHANGED <<slot, due>>
  /\ UNCHANGED <<commands, beat, hbRows, hbWorld, bubble, hbFaults>>

\* /heartbeat: claim_manual_heartbeat.
CommandHeartbeat ==
  /\ up /\ claim = "none" /\ commands < MaxCommands
  /\ claim' = "manual" /\ commands' = commands + 1 /\ hbQueued' = TRUE
  /\ UNCHANGED <<slot, due, beat, hbRows, hbWorld, bubble, hbFaults>>

\* Slip: the schedule stands still.
ReleaseInPlace == claim' = "none" /\ UNCHANGED <<slot, due>>

\* release_heartbeat_claim: another try after a while; commit_heartbeat sets the next one.
ReleaseClaim == claim' = "none" /\ slot' = slot + 1 /\ due' = FALSE

\* clear_heartbeat_claim.
ClearClaim == claim' = "none" /\ UNCHANGED <<slot, due>>

-----------------------------------------------------------------------------
(***************************************************************************)
(* The turn.                                                               *)
(***************************************************************************)
\* The worker takes the job when no message of the owner waits.
TakeHeartbeat ==
  /\ up /\ hbQueued /\ ~Alive /\ open = 0
  /\ hbQueued' = FALSE /\ beat' = [NoBeat EXCEPT !.stage = "start"]
  /\ UNCHANGED <<slot, due, claim, commands, hbRows, hbWorld, bubble, hbFaults>>

\* The owner's business comes first.
PutOff ==
  /\ Busy /\ slot < MaxSlots /\ ReleaseClaim
  /\ beat' = NoBeat /\ UNCHANGED hbRows

\* The row says that this heartbeat is over.
OverAlready ==
  /\ ~Busy /\ hbRows[HbId].state \in {"completed", "cancelled"}
  /\ ClearClaim /\ beat' = NoBeat /\ UNCHANGED hbRows

\* A crash came after it had acted outside.
ToReconcile ==
  /\ ~Busy /\ slot < MaxSlots
  /\ hbRows[HbId].state = "needs_reconciliation" \/ (hbRows[HbId].state = "running" /\ hbRows[HbId].effect)
  /\ hbRows' = [hbRows EXCEPT ![HbId].state = "needs_reconciliation"]
  /\ ReleaseClaim /\ beat' = NoBeat

\* Slip: the agent goes on with the conversation it was told of before the pause.
InformedOnce(b) ==
  [b EXCEPT !.stage = "run", !.told = IF b.stage = "start" THEN InTranscript ELSE @, !.held = events]

\* The prompt: what the transcript tells it, and the revision that goes with it.
InformedBy(b) == [b EXCEPT !.stage = "run", !.told = InTranscript, !.held = events]

FirstOrAgain ==
  /\ ~Busy
  /\ hbRows[HbId].state = "none" \/ (hbRows[HbId].state = "running" /\ ~hbRows[HbId].effect)
  /\ hbRows' = [hbRows EXCEPT ![HbId].state = "running"]
  /\ beat' = InformedBy([beat EXCEPT !.id = HbId])
  /\ UNCHANGED <<claim, slot, due>>

BeginBeat ==
  /\ up /\ beat.stage = "start"
  /\ PutOff \/ OverAlready \/ ToReconcile \/ FirstOrAgain
  /\ UNCHANGED <<commands, hbQueued, hbWorld, bubble, hbFaults>>

\* heartbeat_contact_error.
ContactAllowed == beat.held = events /\ ~Busy /\ ~quiet

\* The reply tool queues a bubble.
Speak ==
  /\ up /\ beat.stage = "run" /\ bubble.state # "pending" /\ ContactAllowed
  /\ bubble' = [state |-> "pending", told |-> beat.told, key |-> "none", id |-> beat.id]
  /\ UNCHANGED <<hbClaims, beat, hbRows, hbWorld, hbFaults>>

\* A tool acts outside.
ActOutside ==
  /\ up /\ beat.stage = "run" /\ ~beat.effect
  /\ beat' = [beat EXCEPT !.effect = TRUE]
  /\ hbRows' = [hbRows EXCEPT ![beat.id].effect = TRUE]
  /\ UNCHANGED <<hbClaims, hbWorld, bubble, hbFaults>>

\* background_checkpoint, before the next round.
ParkBeat ==
  /\ up /\ beat.stage = "run" /\ beat.asked
  /\ beat' = [beat EXCEPT !.stage = "parked", !.asked = FALSE]
  /\ UNCHANGED <<hbClaims, hbRows, hbWorld, bubble, hbFaults>>

\* The nested worker has no message left: the task is woken, and later runs.
WakeBeat ==
  /\ up /\ beat.stage = "parked" /\ open = 0
  /\ beat' = [beat EXCEPT !.stage = "waking"]
  /\ UNCHANGED <<hbClaims, hbRows, hbWorld, bubble, hbFaults>>

ResumeBeat ==
  /\ up /\ beat.stage = "waking"
  /\ beat' = InformedBy(beat)
  /\ UNCHANGED <<hbClaims, hbRows, hbWorld, bubble, hbFaults>>

\* commit_heartbeat: its last messages go out if the owner has not written; the
\* bubbles are a notification's from now on.
CommitBeat ==
  /\ up /\ beat.stage = "run" /\ ~beat.asked /\ slot < MaxSlots
  /\ \/ bubble' = IF bubble.id = beat.id THEN [bubble EXCEPT !.key = "chat"] ELSE bubble
     \/ /\ ContactAllowed /\ bubble.state # "pending"
        /\ bubble' = [state |-> "pending", told |-> beat.told, key |-> "chat", id |-> beat.id]
  /\ hbRows' = [hbRows EXCEPT ![beat.id].state = "completed"]
  /\ ReleaseClaim /\ beat' = NoBeat
  /\ UNCHANGED <<commands, hbQueued, hbWorld, hbFaults>>

\* The turn fails: its row stays 'running', its schedule goes on.
FailBeat ==
  /\ up /\ beat.stage = "run" /\ ~beat.effect /\ slot < MaxSlots
  /\ ReleaseClaim /\ beat' = NoBeat
  /\ UNCHANGED <<commands, hbQueued, hbRows, hbWorld, bubble, hbFaults>>

\* It fails after it had acted outside: the turn is committed with an urgent notice,
\* and then the claim is released.
FailOutside ==
  /\ up /\ beat.stage = "run" /\ beat.effect
  /\ hbRows' = [hbRows EXCEPT ![beat.id].state = "completed"]
  /\ bubble' = IF bubble.id = beat.id THEN [bubble EXCEPT !.key = "reconciliation"] ELSE bubble
  /\ beat' = [beat EXCEPT !.stage = "closing"]
  /\ UNCHANGED <<hbClaims, hbWorld, hbFaults>>

CloseBeat ==
  /\ up /\ beat.stage = "closing" /\ slot < MaxSlots
  /\ ReleaseClaim /\ beat' = NoBeat
  /\ UNCHANGED <<commands, hbQueued, hbRows, hbWorld, bubble, hbFaults>>

-----------------------------------------------------------------------------
(***************************************************************************)
(* The owner, the outbox, /stop and crashes.                               *)
(***************************************************************************)
\* _supersede_heartbeat_contacts: of a turn that runs, or of a heartbeat's message.
Superseded(b) ==
  IF b.state = "pending" /\ (b.key = "chat" \/ hbRows[b.id].state = "running") THEN NoBubble ELSE b

\* add_event and owner_arrived; cancel_pending_outbox when it is on the bubble's channel.
OwnerWrites ==
  /\ up /\ events < MaxEvents
  /\ events' = events + 1 /\ open' = open + 1
  /\ bubble' \in {Superseded(bubble)} \cup (IF bubble.state = "pending" THEN {NoBubble} ELSE {})
  /\ beat' = IF beat.stage \in {"start", "run", "waking"} THEN [beat EXCEPT !.asked = TRUE] ELSE beat
  /\ UNCHANGED <<hbClaims, hbRows, answering, quiet, quiets, hbFaults>>

\* An owner turn takes every message in and replies.
OwnerTurn ==
  /\ up /\ beat.stage \in {"none", "parked"} /\ open > 0
  /\ open' = 0 /\ answering' \in BOOLEAN
  /\ UNCHANGED <<hbClaims, beat, hbRows, events, quiet, quiets, bubble, hbFaults>>

ReplyDelivered ==
  /\ up /\ answering /\ answering' = FALSE
  /\ UNCHANGED <<hbClaims, beat, hbRows, events, open, quiet, quiets, bubble, hbFaults>>

BubbleDelivered ==
  /\ up /\ bubble.state = "pending" /\ bubble' = NoBubble
  /\ UNCHANGED <<hbClaims, beat, hbRows, hbWorld, hbFaults>>

QuietTurns ==
  /\ quiets < MaxQuiet /\ quiets' = quiets + 1 /\ quiet' = ~quiet
  /\ UNCHANGED <<hbClaims, beat, hbRows, events, open, answering, bubble, hbFaults>>

\* /stop cancels the turn and its row; the worker then calls _heartbeat_retry_delay to
\* release the claim, which no class defines: the AttributeError ends the runtime.
StopBeat ==
  /\ up /\ Alive /\ stops < MaxStops
  /\ stops' = stops + 1
  /\ hbRows' = IF beat.stage = "start" THEN hbRows ELSE [hbRows EXCEPT ![beat.id].state = "cancelled"]
  /\ bubble' = Superseded(bubble)
  /\ beat' = NoBeat /\ up' = FALSE
  /\ UNCHANGED <<hbClaims, hbWorld, crashes>>

HbCrash ==
  /\ up /\ crashes < MaxCrashes /\ crashes' = crashes + 1 /\ up' = FALSE
  /\ beat' = NoBeat
  /\ UNCHANGED <<hbClaims, hbRows, hbWorld, bubble, stops>>

\* _initialize_database.
HbRestart ==
  /\ ~up /\ up' = TRUE
  /\ claim' = "none" /\ hbQueued' = FALSE /\ bubble' = Superseded(bubble)
  /\ UNCHANGED <<slot, due, commands, beat, hbRows, hbWorld, stops, crashes>>

HbInit ==
  /\ up = TRUE /\ slot = 0 /\ due = FALSE /\ claim = "none" /\ commands = 0 /\ hbQueued = FALSE
  /\ beat = NoBeat /\ hbRows = [i \in HbIds |-> [state |-> "none", effect |-> FALSE]]
  /\ events = 0 /\ open = 0 /\ answering = FALSE /\ quiet \in BOOLEAN /\ bubble = NoBubble
  /\ quiets = 0 /\ stops = 0 /\ crashes = 0

HbWork ==
  \/ ClaimHeartbeat \/ TakeHeartbeat \/ BeginBeat \/ ParkBeat \/ WakeBeat \/ ResumeBeat
  \/ CloseBeat
HbEnds == CommitBeat \/ FailBeat \/ FailOutside

HbNext ==
  \/ HbWork \/ HbEnds
  \/ ComesDue \/ CommandHeartbeat \/ Speak \/ ActOutside
  \/ OwnerWrites \/ OwnerTurn \/ ReplyDelivered \/ BubbleDelivered \/ QuietTurns
  \/ StopBeat \/ HbCrash \/ HbRestart

HbSpec == HbInit /\ [][HbNext]_hbVars

\* The scheduler, the worker and the outbox go on, and the runtime is started again; that
\* a turn ends is no part of it: its rounds, time and tokens are not limited by default.
HbFairness == WF_hbVars(HbWork) /\ WF_hbVars(ReplyDelivered) /\ WF_hbVars(HbRestart)

FairHbSpec == HbSpec /\ HbFairness

-----------------------------------------------------------------------------
\* The shape of the state.
HbTypeOK ==
  /\ {up, due, hbQueued, answering, quiet} \subseteq BOOLEAN
  /\ slot \in 0 .. MaxSlots /\ claim \in {"none", "ordinary", "manual"}
  /\ commands \in 0 .. MaxCommands /\ events \in 0 .. MaxEvents /\ open \in 0 .. events
  /\ beat \in [stage : {"none", "start", "run", "parked", "waking", "closing"}, id : HbIds,
               told : 0 .. events, held : 0 .. events, asked : BOOLEAN, effect : BOOLEAN]
  /\ hbRows \in [HbIds -> [state : {"none", "running", "completed", "cancelled", "needs_reconciliation"},
                         effect : BOOLEAN]]
  /\ bubble \in [state : {"none", "pending"}, told : 0 .. events,
                 key : {"none", "chat", "reconciliation"}, id : HbIds]

\* A heartbeat never speaks past the owner: what waits to be sent was decided with
\* every message of the owner in sight, however the turn was parked, resumed or cut
\* off. (Not so a bubble of a turn that failed after it acted outside: its rows carry
\* the key of the notice, which a message on another channel does not withdraw.)
SpeaksInformed ==
  bubble.state = "pending" /\ bubble.key # "reconciliation" => bubble.told = events

\* The claim is up exactly while a job or a turn will release it: otherwise no
\* heartbeat is ever claimed again, or two run.
ClaimIsAlive == up => (claim # "none" <=> hbQueued \/ beat.stage # "none")

\* Premise: no heartbeat works for ever without a pause, and no owner turn for ever.
BeatsEnd == []<>(beat.stage # "run") /\ []<>(open = 0)

\* If turns end, the next heartbeat comes: unless its row is over already, a heartbeat
\* that is due is done, tried or put off.
DueMovesOn ==
  BeatsEnd => \A n \in 0 .. MaxSlots - 1 :
    (due /\ slot = n) ~>
      (slot > n \/ hbRows[<<"slot", n>>].state \in {"completed", "cancelled"})

\* "Release a scheduler-claimed job stopped by the owner": the heartbeat comes back
\* after a /stop.
HeartbeatReturns == BeatsEnd => \A n \in 0 .. MaxSlots - 1 : (due /\ slot = n) ~> (slot > n)
=============================================================================
