------------------------ MODULE OutboxCourierProofs ------------------------
(***************************************************************************)
(* The outbox implements the courier, for every number of rows and         *)
(* restarts and every set of channels and turns: each step of Outbox maps  *)
(* to a step of Courier or to a stutter.                                   *)
(***************************************************************************)
EXTENDS OutboxProofs, OutboxRefinement

\* A row that is uncertain has been dispatched, which IInv says of clips held by the
\* worker only indirectly.
UncertainReached == \A r \in Row : state[r] = "ambiguous" => copies[r] > 0

\* The strengthening holds throughout: a row that is ambiguous has a copy that may have arrived.
LEMMA UncertainInductive == Spec => []UncertainReached
<1>1. Init => UncertainReached
  BY DEF Init, UncertainReached
<1>2. IInv /\ UncertainReached /\ [Next]_vars => UncertainReached'
  <2> SUFFICES ASSUME IInv, UncertainReached, [Next]_vars PROVE UncertainReached'
    OBVIOUS
  <2>0. TypeOK /\ RowsInOrder
    BY DEF IInv
  <2> USE DEF UncertainReached
  <2>1. CASE UNCHANGED vars
    BY <2>1 DEF vars, tableVars, historyVars
  <2>2. CASE Speak
    <3>1. ASSUME NEW t, NEW c, NEW k, NEW rec, Insert(c, k, t, rec), copies' = copies
          PROVE  UncertainReached'
      BY <2>0, <3>1 DEF Insert, TypeOK
    <3> QED
      BY <2>2, <3>1 DEF Speak, QueueProgress, CommitTurn, CommitTurnWith, EndHeartbeat,
         AskReconciliation, QueueNotification, QueueVideo, historyVars
  <2>3. CASE Silence
    <3>1. \A st, rs : \A r \in Row : CancelState(st, rs)[r] = "ambiguous" => st[r] = "ambiguous"
      BY DEF CancelState
    <3>2. \A st : \A r \in Row : SupersedeState(st)[r] = "ambiguous" => st[r] = "ambiguous"
      BY DEF SupersedeState
    <3>3. ASSUME NEW st, NEW rec, Withdraw(st, rec),
                 \A r \in Row : st[r] = "ambiguous" => state[r] = "ambiguous"
          PROVE  UncertainReached'
      BY <3>3 DEF Withdraw, historyVars
    <3>4. ASSUME NEW c \in Channels, OwnerMessage(c) PROVE UncertainReached'
      BY <3>1, <3>2, <3>3, <3>4 DEF OwnerMessage
    <3>5. ASSUME NEW c \in Channels, StopCommand(c) PROVE UncertainReached'
      BY <3>1, <3>2, <3>3, <3>5 DEF StopCommand
    <3>6. ASSUME NEW c \in Channels, CancelQueue(c) PROVE UncertainReached'
      BY <3>1, <3>3, <3>6 DEF CancelQueue
    <3>7. ASSUME NEW c \in Channels, NEW t \in Turns, Recall(t, c) PROVE UncertainReached'
      BY <3>1, <3>3, <3>7 DEF Recall
    <3> QED
      BY <2>3, <3>4, <3>5, <3>6, <3>7 DEF Silence
  <2>4. CASE Clock \/ Snapshot
    BY <2>4 DEF Clock, RetryDue, GiveUpTime, Snapshot, tableVars, historyVars
  <2>5. ASSUME NEW r \in Row, WorkRow(r) PROVE UncertainReached'
    <3>1. CASE SendAmbiguous(r)
      BY <2>0, <3>1 DEF SendAmbiguous, MarkAmbiguous, Reaches, TypeOK
    <3>2. CASE SendSucceeds(r)
      BY <2>0, <3>2 DEF SendSucceeds, MarkSent, Reaches, TypeOK
    <3> QED
      BY <2>0, <2>5, <3>1, <3>2 DEF WorkRow, NotConfigured, BeginGap, DropWithdrawn,
         ContextExpired, BeginSynthesis, SynthesisFails, BeginSend, RefusedRetry, RefusedGiveUp,
         SendFailed, MarkSending, MarkNotDispatched, MarkFailed, tableVars, historyVars, TypeOK
  <2>6. CASE Recover
    <3>1. PICK cfg \in ConfigChoices, revived \in SUBSET Row : Restart(cfg, revived)
      BY <2>6 DEF Recover
    <3>2. \A r \in Row : SupersedeState(state)[r] = "ambiguous" => state[r] = "ambiguous"
      BY DEF SupersedeState
    <3> QED
      BY <2>0, <3>1, <3>2 DEF Restart, TypeOK
  <2> QED
    BY <2>1, <2>2, <2>3, <2>4, <2>5, <2>6 DEF Next, Work
<1> QED
  BY <1>1, <1>2, Inductive, PTL DEF Spec

-----------------------------------------------------------------------------
(***************************************************************************)
(* Rows as the courier sees them.                                          *)
(***************************************************************************)

\* Each state shows one phase.
LEMMA PhaseValues ==
  ASSUME NEW s \in States, NEW clip
  PROVE  /\ Phase(s, clip) = "absent" <=> s = "absent"
         /\ Phase(s, clip) = "parked" <=> s = "ambiguous" /\ clip
         /\ Phase(s, clip) = "open" <=> s \in Open /\ ~(s = "ambiguous" /\ clip)
         /\ Phase(s, clip) = "delivered" <=> s = "sent"
         /\ Phase(s, clip) = "dropped" <=> s \in {"failed", "superseded"}
         /\ Phase(s, clip) \in {"absent", "parked", "open", "delivered", "dropped"}
  BY DEF Phase, States, Open, Waiting, Settled

\* A step after which every row shows what it showed before.
LEMMA SamePhases ==
  ASSUME bubble' = bubble, copies' = copies,
         \A r \in Row : Phase(state'[r], IsVideo(r)) = PhaseOf(r)
  PROVE  UNCHANGED C!courierVars
  BY DEF C!courierVars, PhaseOf, ChannelOf, IsVideo, C!Bubbles

\* A step that drops the rows of one set and takes up those of another.
LEMMA Revises ==
  ASSUME bubble' = bubble, copies' = copies,
         NEW dropped \in SUBSET Row, NEW reopened \in SUBSET Row,
         \A r \in dropped : PhaseOf(r) \in {"open", "parked"},
         \A r \in reopened : PhaseOf(r) = "dropped",
         \A r \in Row : Phase(state'[r], IsVideo(r)) =
            IF r \in dropped THEN "dropped" ELSE IF r \in reopened THEN "open" ELSE PhaseOf(r)
  PROVE  C!CourierNext
<1>1. C!Revise(dropped, reopened)
  BY DEF C!Revise, C!Bubbles, PhaseOf, ChannelOf, IsVideo, Row
<1> QED
  BY <1>1 DEF C!CourierNext, C!Bubbles, Row

\* The row on the wire is the first of its channel the courier has not settled.
LEMMA OnWireForemost ==
  ASSUME IInv, NEW r \in Row, state[r] = "sending"
  PROVE  C!Foremost(r)
<1>1. r \in batch
  BY DEF IInv, WorkerHolds, AtHead
<1>2. PhaseOf(r) = "open"
  BY DEF PhaseOf, Phase, Open, Waiting
<1>3. ASSUME NEW e \in Row, e < r, ChannelOf(e) = ChannelOf(r) PROVE PhaseOf(e) # "open"
  <2>1. e # r
    BY <1>3 DEF Row
  <2>2. ~InTheWay(e, state)
    BY <1>1, <1>3, <2>1 DEF IInv, WorkerHoldsHeads
  <2>3. state[e] \in States
    BY DEF IInv, TypeOK, States
  <2> QED
    BY <2>2, <2>3, PhaseValues DEF PhaseOf, InTheWay, UncertainVideo
<1> QED
  BY <1>2, <1>3 DEF C!Foremost, C!Bubbles, Row

-----------------------------------------------------------------------------
(***************************************************************************)
(* The steps.                                                              *)
(***************************************************************************)

\* A step of the outbox is one of the courier, or shows nothing.
Mapped == C!CourierNext \/ UNCHANGED C!courierVars

\* Bubbles that are queued appear to the courier as given to it, or show nothing.
LEMMA InsertMaps ==
  ASSUME IInv, NEW t \in Turns, NEW c \in Channels, NEW k \in AllKinds, NEW rec,
         Insert(c, k, t, rec), copies' = copies
  PROVE  Mapped
<1>1. TypeOK /\ RowsInOrder
  BY DEF IInv
<1>0. PICK n \in Row : n = last + 1
  BY <1>1, BoundAssumption DEF Insert, TypeOK, Row
<1>2. n > last /\ state[n] = "absent"
  BY <1>0, <1>1, BoundAssumption DEF Insert, TypeOK, RowsInOrder, Row
<1>3. bubble'[n].channel = c /\ state'[n] = "pending"
        /\ \A r \in Row : r # n => bubble'[r] = bubble[r] /\ state'[r] = state[r]
  BY <1>0, <1>1 DEF Insert, TypeOK
<1>4. PhaseOf(n) = "absent" /\ PhaseOf(n)' = "open"
  BY <1>2, <1>3 DEF PhaseOf, Phase, Open, Waiting
<1>5. \A e \in Row : e < n <=> PhaseOf(e) # "absent"
  <2> SUFFICES ASSUME NEW e \in Row PROVE e < n <=> PhaseOf(e) # "absent"
    OBVIOUS
  <2>1. e < n <=> state[e] # "absent"
    BY <1>0, <1>1 DEF RowsInOrder, TypeOK, Row
  <2>2. state[e] \in States
    BY <1>1 DEF TypeOK, States
  <2> QED
    BY <2>1, <2>2, PhaseValues DEF PhaseOf
<1>6. \A r \in Row : r # n => PhaseOf(r)' = PhaseOf(r) /\ ChannelOf(r)' = ChannelOf(r)
  BY <1>3 DEF PhaseOf, IsVideo, ChannelOf
<1>7. ChannelOf(n)' = c
  BY <1>3 DEF ChannelOf
<1>8. C!Offer(n, c)
  <2>1. [r \in Row |-> ChannelOf(r)]' = [[r \in Row |-> ChannelOf(r)] EXCEPT ![n] = c]
    BY <1>2, <1>6, <1>7
  <2>2. [r \in Row |-> PhaseOf(r)]' = [[r \in Row |-> PhaseOf(r)] EXCEPT ![n] = "open"]
    BY <1>2, <1>4, <1>6
  <2> QED
    BY <1>2, <1>4, <1>5, <2>1, <2>2 DEF C!Offer, C!Bubbles, Row
<1> QED
  BY <1>2, <1>8 DEF Mapped, C!CourierNext, C!Bubbles, Row

\* Every step of a turn that queues bubbles or writes the record is a step of the courier's.
LEMMA SpeakMaps == IInv /\ Speak => Mapped
<1> SUFFICES ASSUME IInv, Speak PROVE Mapped
  OBVIOUS
<1>1. ASSUME state' = state, bubble' = bubble, copies' = copies PROVE Mapped
  BY <1>1, SamePhases DEF Mapped, PhaseOf
<1>2. ASSUME NEW t \in Turns, CommitTurn(t) \/ EndHeartbeat(t) \/ AskReconciliation(t)
      PROVE  Mapped
  BY <1>1, <1>2 DEF CommitTurn, EndHeartbeat, AskReconciliation, historyVars
<1>3. ASSUME NEW t \in Turns, NEW c \in Channels, NEW k \in Kinds,
             QueueProgress(t, c, k) \/ CommitTurnWith(t, c, k) \/ QueueNotification(t, c, k)
      PROVE  Mapped
  BY <1>3, InsertMaps, KindAssumption
     DEF QueueProgress, CommitTurnWith, QueueNotification, historyVars
<1>4. ASSUME NEW t \in Turns, NEW c \in Channels, QueueVideo(t, c) PROVE Mapped
  BY <1>4, InsertMaps DEF QueueVideo, AllKinds, historyVars
<1> QED
  BY <1>2, <1>3, <1>4 DEF Speak

\* Withdrawing drops what was waiting and nothing else.
LEMMA SilenceMaps == IInv /\ Silence => Mapped
<1> SUFFICES ASSUME IInv, Silence PROVE Mapped
  OBVIOUS
<1> DEFINE Drops(st) == \A r \in Row :
             st[r] = state[r] \/ (state[r] \in Waiting /\ st[r] = "superseded")
<1>0. TypeOK
  BY DEF IInv
<1>1. ASSUME NEW st, NEW rec, Withdraw(st, rec), Drops(st) PROVE Mapped
  <2> DEFINE dropped == {r \in Row : st[r] # state[r]}
  <2>1. \A r \in dropped : PhaseOf(r) \in {"open", "parked"}
    BY <1>0, <1>1 DEF PhaseOf, Phase, Open, Waiting
  <2>2. \A r \in Row : Phase(state'[r], IsVideo(r)) = IF r \in dropped THEN "dropped" ELSE PhaseOf(r)
    <3> SUFFICES ASSUME NEW r \in Row
                 PROVE  Phase(state'[r], IsVideo(r)) = IF r \in dropped THEN "dropped" ELSE PhaseOf(r)
      OBVIOUS
    <3>1. CASE st[r] = state[r]
      BY <1>1, <3>1 DEF Withdraw, PhaseOf
    <3>2. CASE st[r] # state[r]
      <4>1. state'[r] = "superseded" /\ r \in dropped
        BY <1>1, <3>2 DEF Withdraw
      <4>2. Phase("superseded", IsVideo(r)) = "dropped"
        BY DEF Phase, Open, Waiting
      <4> QED
        BY <4>1, <4>2
    <3> QED
      BY <3>1, <3>2
  <2>3. bubble' = bubble /\ copies' = copies
    BY <1>1 DEF Withdraw, historyVars
  <2> HIDE DEF dropped
  <2>4. dropped \in SUBSET Row
    BY DEF dropped
  <2>5. C!CourierNext
    <3>1. \A r \in {} : PhaseOf(r) = "dropped"
      OBVIOUS
    <3>2. {} \in SUBSET Row
      OBVIOUS
    <3>3. \A r \in Row : Phase(state'[r], IsVideo(r)) =
            IF r \in dropped THEN "dropped" ELSE IF r \in {} THEN "open" ELSE PhaseOf(r)
      BY <2>2
    <3> QED
      BY <2>1, <2>3, <2>4, <3>1, <3>2, <3>3, Revises
  <2> QED
    BY <2>5 DEF Mapped
<1>2. \A rs : Drops(CancelState(state, rs))
  BY DEF CancelState
<1>3. Drops(SupersedeState(state))
  BY DEF SupersedeState, HeartbeatContacts
<1>4. \A rs : Drops(CancelState(SupersedeState(state), rs))
  BY DEF CancelState, SupersedeState, HeartbeatContacts, Waiting
<1>5. \A rs : Drops(SupersedeState(CancelState(state, rs)))
  BY DEF CancelState, SupersedeState, HeartbeatContacts, Waiting
<1> HIDE DEF Drops
<1>6. ASSUME NEW c \in Channels, OwnerMessage(c) PROVE Mapped
  BY <1>1, <1>4, <1>6 DEF OwnerMessage
<1>7. ASSUME NEW c \in Channels, StopCommand(c) PROVE Mapped
  BY <1>1, <1>5, <1>7 DEF StopCommand
<1>8. ASSUME NEW c \in Channels, CancelQueue(c) PROVE Mapped
  BY <1>1, <1>2, <1>8 DEF CancelQueue
<1>9. ASSUME NEW c \in Channels, NEW t \in Turns, Recall(t, c) PROVE Mapped
  BY <1>1, <1>2, <1>9 DEF Recall
<1> QED
  BY <1>6, <1>7, <1>8, <1>9 DEF Silence

\* Timers and snapshots show the courier nothing.
LEMMA QuietMaps == IInv /\ (Clock \/ Snapshot) => Mapped
<1> SUFFICES ASSUME IInv, Clock \/ Snapshot PROVE Mapped
  OBVIOUS
<1>1. state' = state /\ bubble' = bubble /\ copies' = copies
  BY DEF Clock, RetryDue, GiveUpTime, Snapshot, tableVars, historyVars
<1> QED
  BY <1>1, SamePhases DEF Mapped, PhaseOf

\* What the worker does to its row: nothing, dropping it, or taking it up again.
LEMMA RowMaps ==
  ASSUME IInv, NEW r \in Row, NEW s \in States,
         state' = [state EXCEPT ![r] = s], bubble' = bubble, copies' = copies,
         \/ Phase(s, IsVideo(r)) = PhaseOf(r)
         \/ PhaseOf(r) = "open" /\ Phase(s, IsVideo(r)) = "dropped"
         \/ PhaseOf(r) = "dropped" /\ Phase(s, IsVideo(r)) = "open"
  PROVE  Mapped
<1>1. \A q \in Row : state'[q] = IF q = r THEN s ELSE state[q]
  BY DEF IInv, TypeOK
<1>2. CASE Phase(s, IsVideo(r)) = PhaseOf(r)
  <2>1. \A q \in Row : Phase(state'[q], IsVideo(q)) = PhaseOf(q)
    BY <1>1, <1>2 DEF PhaseOf
  <2> QED
    BY <2>1, SamePhases DEF Mapped
<1>3. CASE PhaseOf(r) = "open" /\ Phase(s, IsVideo(r)) = "dropped"
  <2>1. \A q \in Row : Phase(state'[q], IsVideo(q)) =
          IF q \in {r} THEN "dropped" ELSE IF q \in {} THEN "open" ELSE PhaseOf(q)
    BY <1>1, <1>3 DEF PhaseOf
  <2>2. /\ {r} \in SUBSET Row /\ {} \in SUBSET Row
        /\ \A q \in {r} : PhaseOf(q) \in {"open", "parked"}
        /\ \A q \in {} : PhaseOf(q) = "dropped"
    BY <1>3
  <2> QED
    BY <2>1, <2>2, Revises DEF Mapped
<1>4. CASE PhaseOf(r) = "dropped" /\ Phase(s, IsVideo(r)) = "open"
  <2>1. \A q \in Row : Phase(state'[q], IsVideo(q)) =
          IF q \in {} THEN "dropped" ELSE IF q \in {r} THEN "open" ELSE PhaseOf(q)
    BY <1>1, <1>4 DEF PhaseOf
  <2>2. /\ {r} \in SUBSET Row /\ {} \in SUBSET Row
        /\ \A q \in {} : PhaseOf(q) \in {"open", "parked"}
        /\ \A q \in {r} : PhaseOf(q) = "dropped"
    BY <1>4
  <2> QED
    BY <2>1, <2>2, Revises DEF Mapped
<1> QED
  BY <1>2, <1>3, <1>4

\* A send that may have arrived: the bubble reaches the owner in its turn.
LEMMA ReachMaps ==
  ASSUME IInv, NEW r \in Row, NEW s \in States, state[r] = "sending",
         state' = [state EXCEPT ![r] = s], bubble' = bubble, Reaches(r),
         Phase(s, IsVideo(r)) \in {"delivered", "open", "parked", "dropped"}
  PROVE  Mapped
<1>1. \A q \in Row : state'[q] = IF q = r THEN s ELSE state[q]
  BY DEF IInv, TypeOK
<1>2. [q \in Row |-> PhaseOf(q)]' = [[q \in Row |-> PhaseOf(q)] EXCEPT ![r] = Phase(s, IsVideo(r))]
  <2>1. \A q \in Row : PhaseOf(q)' = Phase(state'[q], IsVideo(q))
    BY DEF PhaseOf, IsVideo
  <2>2. \A q \in Row : PhaseOf(q)' = IF q = r THEN Phase(s, IsVideo(r)) ELSE PhaseOf(q)
    BY <1>1, <2>1 DEF PhaseOf
  <2> QED
    BY <2>2
<1>3. [q \in Row |-> ChannelOf(q)]' = [q \in Row |-> ChannelOf(q)]
  BY DEF ChannelOf
<1>4. C!Reach(r)
  BY <1>2, <1>3, OnWireForemost DEF C!Reach, Reaches
<1> QED
  BY <1>4 DEF Mapped, C!CourierNext, C!Bubbles, Row

\* Every step of the worker on a row is a step of the courier, or shows nothing.
LEMMA WorkRowMaps ==
  ASSUME IInv, UncertainReached, NEW r \in Row, WorkRow(r)
  PROVE  Mapped
<1>0. TypeOK /\ state[r] \in States
  BY DEF IInv, TypeOK, States
<1>1. {"pending", "sending", "ambiguous", "sent", "failed"} \subseteq States
  BY DEF States, Open, Waiting, Settled
<1>2. \A clip : /\ Phase("pending", clip) = "open" /\ Phase("sending", clip) = "open"
                /\ Phase("failed", clip) = "dropped" /\ Phase("superseded", clip) = "dropped"
                /\ Phase("sent", clip) = "delivered"
                /\ Phase("ambiguous", clip) \in {"open", "parked"}
  BY DEF Phase, Open, Waiting
<1>3. Dispatchable(r) => PhaseOf(r) = "open"
  BY DEF Dispatchable, Waiting, UncertainVideo, PhaseOf, Phase, Open
<1>4. Sending(r) => state[r] = "sending" /\ PhaseOf(r) = "open"
  BY <1>2 DEF IInv, WorkerHolds, Sending, PhaseOf
<1>5. CASE NotConfigured(r)
  <2>1. r \in batch /\ state[r] \in Waiting \cup {"superseded"}
    BY <1>0, <1>5 DEF NotConfigured, IInv, WorkerHolds, AtHead
  <2>2. ~UncertainVideo(r, state)
    <3>1. IsVideo(r) => copies[r] = 0
      BY <2>1 DEF IInv, ClipSentOnce
    <3> QED
      BY <3>1 DEF UncertainReached, UncertainVideo
  <2>3. PhaseOf(r) \in {"open", "dropped"}
    BY <1>2, <2>1, <2>2, <1>3 DEF Dispatchable, PhaseOf
  <2> QED
    BY <1>1, <1>2, <1>5, <2>3, RowMaps DEF NotConfigured, MarkNotDispatched, RowStep
<1>6. CASE BeginGap(r) \/ DropWithdrawn(r) \/ BeginSynthesis(r)
  <2>1. state' = state /\ bubble' = bubble /\ copies' = copies
    BY <1>6 DEF BeginGap, DropWithdrawn, BeginSynthesis, tableVars, historyVars, RowStep
  <2> QED
    BY <2>1, SamePhases DEF Mapped, PhaseOf
<1>7. CASE ContextExpired(r) \/ SynthesisFails(r)
  BY <1>1, <1>2, <1>3, <1>7, RowMaps
     DEF ContextExpired, SynthesisFails, ReadyToSend, MarkFailed, RowStep
<1>8. CASE BeginSend(r)
  BY <1>1, <1>2, <1>3, <1>8, RowMaps DEF BeginSend, ReadyToSend, MarkSending, RowStep
<1>9. CASE RefusedRetry(r)
  BY <1>1, <1>2, <1>4, <1>9, RowMaps DEF RefusedRetry, MarkNotDispatched, RowStep
<1>10. CASE RefusedGiveUp(r) \/ SendFailed(r)
  BY <1>1, <1>2, <1>4, <1>10, RowMaps DEF RefusedGiveUp, SendFailed, MarkFailed, RowStep
<1>11. CASE SendAmbiguous(r)
  <2>1. PICK s \in {"ambiguous", "failed"} : state' = [state EXCEPT ![r] = s]
    BY <1>11 DEF SendAmbiguous, MarkAmbiguous
  <2>2. Phase(s, IsVideo(r)) \in {"delivered", "open", "parked", "dropped"} /\ s \in States
    BY <1>1, <1>2, <2>1
  <2>3. state[r] = "sending" /\ bubble' = bubble /\ Reaches(r)
    BY <1>4, <1>11 DEF SendAmbiguous, RowStep
  <2> QED
    BY <2>1, <2>2, <2>3, ReachMaps
<1>12. CASE SendSucceeds(r)
  BY <1>1, <1>2, <1>4, <1>12, ReachMaps DEF SendSucceeds, MarkSent, RowStep
<1> QED
  BY <1>5, <1>6, <1>7, <1>8, <1>9, <1>10, <1>11, <1>12 DEF WorkRow

\* A restart: what was on the wire may have arrived, contacts are dropped, images taken
\* up again.
LEMMA RecoverMaps ==
  ASSUME IInv, Recover
  PROVE  Mapped
<1>1. PICK cfg \in ConfigChoices, revived \in SUBSET Row : Restart(cfg, revived)
  BY DEF Recover
<1>0. TypeOK /\ \A r \in Row : state[r] \in States
  BY DEF IInv, TypeOK, States
<1> DEFINE underway == {r \in Row : state[r] = "sending"}
           contacts == HeartbeatContacts(state)
           dropped  == contacts \cup {r \in underway : RecoveredState(r, attempts[r]) = "failed"}
           parked   == {r \in underway : RecoveredState(r, attempts[r]) = "ambiguous" /\ IsVideo(r)}
           Next2(r) == IF r \in dropped THEN "dropped"
                       ELSE IF r \in revived THEN "open"
                       ELSE IF r \in parked THEN "parked" ELSE PhaseOf(r)
<1>2. \A clip : /\ Phase("pending", clip) = "open" /\ Phase("sending", clip) = "open"
                /\ Phase("failed", clip) = "dropped" /\ Phase("superseded", clip) = "dropped"
                /\ Phase("ambiguous", clip) = IF clip THEN "parked" ELSE "open"
  BY DEF Phase, Open, Waiting
<1>3. \A r \in revived : state[r] = "failed"
  BY <1>1 DEF Restart
<1>4. \A r \in contacts : state[r] \in Waiting
  BY DEF HeartbeatContacts
<1>5. ASSUME NEW r \in Row PROVE PhaseOf(r)' = Next2(r)
  <2>0. PhaseOf(r)' = Phase(state'[r], IsVideo(r))
    BY <1>1 DEF PhaseOf, IsVideo, Restart
  <2>1. CASE r \in underway
    <3>1. state'[r] = RecoveredState(r, attempts[r]) /\ r \notin contacts /\ r \notin revived
      BY <1>1, <1>3, <1>4, <2>1 DEF Restart, Waiting
    <3>2. RecoveredState(r, attempts[r]) \in {"ambiguous", "failed"} /\ PhaseOf(r) = "open"
      BY <1>2, <2>1 DEF RecoveredState, PhaseOf
    <3> QED
      BY <1>2, <2>0, <2>1, <3>1, <3>2
  <2>2. CASE r \in revived
    <3>1. state'[r] = "pending" /\ r \notin dropped
      BY <1>1, <1>3, <1>4, <2>2 DEF Restart, Waiting
    <3> QED
      BY <1>2, <2>0, <2>2, <3>1
  <2>3. CASE r \notin underway /\ r \notin revived
    <3>1. state'[r] = IF r \in contacts THEN "superseded" ELSE state[r]
      BY <1>1, <2>3 DEF Restart, SupersedeState
    <3> QED
      BY <1>2, <2>0, <2>3, <3>1 DEF PhaseOf
  <2> QED
    BY <2>1, <2>2, <2>3
<1>6. \A r \in dropped : PhaseOf(r) \in {"open", "parked"}
  <2> SUFFICES ASSUME NEW r \in dropped PROVE PhaseOf(r) \in {"open", "parked"}
    OBVIOUS
  <2>1. r \in Row /\ state[r] \in {"pending", "ambiguous", "sending"}
    BY <1>4 DEF HeartbeatContacts, Waiting
  <2> QED
    BY <1>2, <2>1 DEF PhaseOf
<1>7. \A r \in revived : PhaseOf(r) = "dropped"
  BY <1>2, <1>3 DEF PhaseOf
<1>8. \A r \in underway : C!Foremost(r)
  BY OnWireForemost
<1>9. copies' = [r \in Row |-> IF r \in underway THEN copies[r] + 1 ELSE copies[r]]
        /\ [r \in Row |-> ChannelOf(r)]' = [r \in Row |-> ChannelOf(r)]
  BY <1>1 DEF Restart, ChannelOf
<1> HIDE DEF underway, contacts, parked, Next2
<1>10. /\ dropped \in SUBSET Row /\ underway \in SUBSET Row /\ revived \in SUBSET Row
       /\ parked \in SUBSET underway
  BY DEF dropped, underway, contacts, parked, HeartbeatContacts
<1> HIDE DEF dropped
<1>11. [r \in Row |-> PhaseOf(r)]' = [r \in Row |-> Next2(r)]
  BY <1>5
<1>12. C!Crash(dropped, revived, underway)
  BY <1>6, <1>7, <1>8, <1>9, <1>10, <1>11 DEF C!Crash, C!Bubbles, Row, Next2
<1> QED
  BY <1>10, <1>12 DEF Mapped, C!CourierNext, C!Bubbles, Row

\* The outbox with its worker, retries and recovery implements the courier.
THEOREM CourierImplemented == Spec => ImplementsCourier
<1>1. Init => C!CourierInit
  <2> SUFFICES ASSUME Init PROVE C!CourierInit
    OBVIOUS
  <2>1. \A r \in Row : ChannelOf(r) = Nil
    BY DEF Init, ChannelOf
  <2>2. \A clip : Phase("absent", clip) = "absent"
    BY DEF Phase, Open, Waiting
  <2>3. \A r \in Row : PhaseOf(r) = "absent"
    BY <2>2 DEF Init, PhaseOf
  <2> QED
    BY <2>1, <2>3 DEF Init, C!CourierInit, C!Bubbles, Row
<1>2. IInv /\ UncertainReached /\ [Next]_vars => [C!CourierNext]_(C!courierVars)
  <2> SUFFICES ASSUME IInv, UncertainReached, [Next]_vars PROVE Mapped
    BY DEF Mapped
  <2>1. CASE UNCHANGED vars
    <3>1. state' = state /\ bubble' = bubble /\ copies' = copies
      BY <2>1 DEF vars, tableVars, historyVars
    <3> QED
      BY <3>1, SamePhases DEF Mapped, PhaseOf
  <2>2. CASE Next
    BY <2>2, SpeakMaps, SilenceMaps, QuietMaps, WorkRowMaps, RecoverMaps DEF Next, Work
  <2> QED
    BY <2>1, <2>2
<1> QED
  BY <1>1, <1>2, Inductive, UncertainInductive, PTL DEF Spec, ImplementsCourier, C!CourierSpec
=============================================================================
