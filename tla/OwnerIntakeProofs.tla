------------------------- MODULE OwnerIntakeProofs -------------------------
(***************************************************************************)
(* The intake loses no message, answers none twice and runs no uncertain   *)
(* turn twice, for every number of messages, restarts and channels.        *)
(* IntakeInv is inductive: one lemma for each step, one step of the proof  *)
(* for each conjunct the step can disturb.                                 *)
(***************************************************************************)
EXTENDS OwnerIntake, TLAPS

USE DEF Event, Kinds, IsStop, ChannelOf, Waiting, Queued, Held,
        Yielded, TurnActive, InTurn, tableVars, queueVars, turnVars

\* What recording an event does to the numbers and to the notes already there.
LEMMA RecordFacts ==
  ASSUME TypeOK, NEW c \in Channels, NEW k \in Kinds, NEW done, Record(c, k, done)
  PROVE  /\ last + 1 \notin Arrived /\ last + 1 \in Event
         /\ Arrived' = Arrived \cup {last + 1}
         /\ \A f \in Arrived : note'[f] = note[f]
         /\ note'[last + 1] = [channel |-> c, kind |-> k]
  BY IntakeBounds DEF TypeOK, Record, Arrived

\* A message that was taken back.
LEMMA RecallFacts ==
  ASSUME TypeOK, NEW e \in Event, Recall(e)
  PROVE  /\ last + 1 \notin Arrived /\ last + 1 \in Event
         /\ Arrived' = Arrived \cup {last + 1}
         /\ Notices' = Notices \cup {last + 1}
         /\ e \in Arrived
<1>1. ChannelOf(e) \in Channels /\ "recall" \in Kinds /\ e \in Arrived
  BY IntakeChannels DEF Recall, Messages
<1>2. /\ last + 1 \notin Arrived /\ last + 1 \in Event
      /\ Arrived' = Arrived \cup {last + 1}
      /\ \A f \in Arrived : note'[f] = note[f]
      /\ note'[last + 1] = [channel |-> ChannelOf(e), kind |-> "recall"]
  BY <1>1, RecordFacts DEF Recall
<1>. QED  BY <1>1, <1>2 DEF Arrived, Notices

\* The three things that become of the item the gathering worker takes.
LEMMA TakeFacts ==
  ASSUME NEW e \in Event, Take(e)
  PROVE  /\ e \in incoming /\ incoming' = incoming \ {e} /\ pc' \in {"gather", "take"}
         /\ \/ processed' = processed \cup batch /\ batch' = {e} /\ deferred' = deferred
            \/ processed' = processed /\ batch' = batch /\ deferred' = deferred \cup {e}
            \/ processed' = processed /\ batch' = batch \cup {e} /\ deferred' = deferred
         /\ UNCHANGED <<last, note, recalled, turn, effect, open, work, taken, cancelling,
                        redeliver, restarts, before>>
         /\ Arrived' = Arrived /\ Notices' = Notices /\ Messages' = Messages
         /\ Held' \subseteq Held
         /\ deferred' \subseteq deferred \cup {e} /\ batch' \subseteq batch \cup {e}
<1>1. e \in incoming /\ incoming' = incoming \ {e} /\ pc' \in {"gather", "take"}
  BY DEF Take, First
<1>2. Arrived' = Arrived /\ Notices' = Notices /\ Messages' = Messages
  BY DEF Take, Arrived, Notices, Messages
<1>. QED  BY <1>1, <1>2 DEF Take

\* A message is queued where nothing else is, newer than all a running turn holds.
LEMMA AcceptStep ==
  ASSUME IntakeInv, NEW c \in Channels, Accept(c)
  PROVE  IntakeInv'
<1>1. Phases' /\ OneChannel' /\ RecallsProcessed' /\ EffectsAccounted' /\ SameTurnNotRerun'
  BY IntakeBounds DEF IntakeInv, TypeOK, Phases, OneChannel, RecallsProcessed,
     EffectsAccounted, SameTurnNotRerun, Accept, Record, Arrived, Notices
<1>2. TypeOK'
  BY IntakeBounds DEF IntakeInv, TypeOK, Accept, Record, Arrived
<1>3. HeldOnce'
  BY DEF IntakeInv, TypeOK, HeldOnce, Accept, Record, Arrived, Notices, Messages
<1>4. SettledGone'
  <2>1. last + 1 \notin Arrived /\ Arrived' = Arrived \cup {last + 1}
    BY RecordFacts DEF IntakeInv, Accept
  <2>. QED  BY <2>1 DEF IntakeInv, TypeOK, SettledGone, Accept, Record
<1>5. NoOvertaking'
  BY DEF IntakeInv, TypeOK, NoOvertaking, Accept, Record, Arrived
<1>. QED  BY <1>1, <1>2, <1>3, <1>4, <1>5 DEF IntakeInv

\* /stop is queued like a message; the turn it cancels goes on holding its messages.
LEMMA StopStep ==
  ASSUME IntakeInv, NEW c \in Channels, Stop(c)
  PROVE  IntakeInv'
<1>1. OneChannel' /\ RecallsProcessed' /\ EffectsAccounted' /\ SameTurnNotRerun'
  BY IntakeBounds DEF IntakeInv, TypeOK, OneChannel, RecallsProcessed, EffectsAccounted,
     SameTurnNotRerun, Stop, Record, Arrived, Notices
<1>2. TypeOK'
  BY IntakeBounds DEF IntakeInv, TypeOK, Stop, Record, Arrived
<1>3. Phases'
  BY DEF IntakeInv, Phases, Stop, Record
<1>4. HeldOnce'
  BY DEF IntakeInv, TypeOK, HeldOnce, Stop, Record, Arrived, Notices, Messages
<1>5. SettledGone'
  <2>1. last + 1 \notin Arrived /\ Arrived' = Arrived \cup {last + 1}
    BY RecordFacts DEF IntakeInv, Stop
  <2>. QED  BY <2>1 DEF IntakeInv, TypeOK, SettledGone, Stop, Record
<1>6. NoOvertaking'
  BY DEF IntakeInv, TypeOK, NoOvertaking, Stop, Record, Arrived
<1>. QED  BY <1>1, <1>2, <1>3, <1>4, <1>5, <1>6 DEF IntakeInv

\* A duplicate /stop touches no queue.
LEMMA StopAgainStep ==
  ASSUME IntakeInv, NEW e \in Event, StopAgain(e)
  PROVE  IntakeInv'
<1>1. /\ TypeOK' /\ Phases' /\ OneChannel' /\ RecallsProcessed' /\ HeldOnce'
      /\ SettledGone' /\ NoOvertaking' /\ EffectsAccounted' /\ SameTurnNotRerun'
  BY DEF IntakeInv, TypeOK, Phases, OneChannel, RecallsProcessed, HeldOnce, SettledGone,
     NoOvertaking, EffectsAccounted, SameTurnNotRerun, StopAgain, Arrived, Notices, Messages
<1>. QED  BY <1>1 DEF IntakeInv

\* A recall settles the original wherever it is held, and the notice is settled too.
LEMMA RecallStep ==
  ASSUME IntakeInv, NEW e \in Event, Recall(e)
  PROVE  IntakeInv'
<1>1. Phases' /\ OneChannel' /\ EffectsAccounted' /\ SameTurnNotRerun'
  BY DEF IntakeInv, TypeOK, Phases, OneChannel, EffectsAccounted, SameTurnNotRerun, Recall,
     Record, Arrived
<1>2. TypeOK'
  BY IntakeBounds DEF IntakeInv, TypeOK, Recall, Record, Arrived, Messages
<1>3. RecallsProcessed'
  BY RecallFacts DEF IntakeInv, RecallsProcessed, Recall, Record
<1>4. HeldOnce'
  BY IntakeBounds DEF IntakeInv, TypeOK, HeldOnce, Recall, Record, Arrived, Notices, Messages
<1>5. SettledGone'
  <2>1. last + 1 \notin Arrived /\ Arrived' = Arrived \cup {last + 1}
    BY RecallFacts DEF IntakeInv
  <2>. QED  BY <2>1 DEF IntakeInv, TypeOK, SettledGone, Recall, Record
<1>6. NoOvertaking'
  BY DEF IntakeInv, TypeOK, NoOvertaking, Recall, Record, Arrived
<1>. QED  BY <1>1, <1>2, <1>3, <1>4, <1>5, <1>6 DEF IntakeInv

\* The incoming queue is emptied into the deferred one, but for the message picked.
LEMMA NextOwnerStep ==
  ASSUME IntakeInv, NEW e \in Event, NextOwner(e)
  PROVE  IntakeInv'
<1>1. /\ OneChannel' /\ RecallsProcessed' /\ NoOvertaking' /\ EffectsAccounted'
      /\ SameTurnNotRerun'
  BY DEF IntakeInv, OneChannel, RecallsProcessed, NoOvertaking, EffectsAccounted,
     SameTurnNotRerun, NextOwner, StartBatch, Arrived, Notices
<1>2. TypeOK'
  BY DEF IntakeInv, TypeOK, NextOwner, Chosen, First, StartBatch, Arrived
<1>3. Phases'
  BY DEF IntakeInv, Phases, NextOwner, StartBatch
<1>4. HeldOnce'
  BY DEF IntakeInv, Phases, HeldOnce, NextOwner, Chosen, First, StartBatch, Arrived, Notices,
     Messages
<1>5. SettledGone'
  BY DEF IntakeInv, SettledGone, NextOwner, Chosen, First, StartBatch, Arrived
<1>. QED  BY <1>1, <1>2, <1>3, <1>4, <1>5 DEF IntakeInv

\* Waiting changes nothing.
LEMMA IdleStep ==
  ASSUME IntakeInv, Idle
  PROVE  IntakeInv'
<1>1. /\ TypeOK' /\ Phases' /\ OneChannel' /\ RecallsProcessed' /\ HeldOnce'
      /\ SettledGone' /\ NoOvertaking' /\ EffectsAccounted' /\ SameTurnNotRerun'
  BY DEF IntakeInv, TypeOK, Phases, OneChannel, RecallsProcessed, HeldOnce, SettledGone,
     NoOvertaking, EffectsAccounted, SameTurnNotRerun, Idle, Arrived, Notices, Messages
<1>. QED  BY <1>1 DEF IntakeInv

\* One message moves from the queue to the batch.
LEMMA WokenByOwnerStep ==
  ASSUME IntakeInv, NEW e \in Event, WokenByOwner(e)
  PROVE  IntakeInv'
<1>1. /\ OneChannel' /\ RecallsProcessed' /\ NoOvertaking' /\ EffectsAccounted'
      /\ SameTurnNotRerun'
  BY DEF IntakeInv, OneChannel, RecallsProcessed, NoOvertaking, EffectsAccounted,
     SameTurnNotRerun, WokenByOwner, StartBatch, Arrived, Notices
<1>2. TypeOK'
  BY DEF IntakeInv, TypeOK, WokenByOwner, First, StartBatch, Arrived
<1>3. Phases'
  BY DEF IntakeInv, Phases, WokenByOwner, StartBatch
<1>4. HeldOnce'
  BY DEF IntakeInv, Phases, HeldOnce, WokenByOwner, First, StartBatch, Arrived, Notices,
     Messages
<1>5. SettledGone'
  BY DEF IntakeInv, SettledGone, WokenByOwner, First, StartBatch, Arrived
<1>. QED  BY <1>1, <1>2, <1>3, <1>4, <1>5 DEF IntakeInv

\* Background work touches no message of the owner.
LEMMA BackgroundStep ==
  ASSUME IntakeInv, Background
  PROVE  IntakeInv'
<1>1. /\ TypeOK' /\ Phases' /\ OneChannel' /\ RecallsProcessed' /\ HeldOnce'
      /\ SettledGone' /\ NoOvertaking' /\ EffectsAccounted' /\ SameTurnNotRerun'
  BY DEF IntakeInv, TypeOK, Phases, OneChannel, RecallsProcessed, HeldOnce, SettledGone,
     NoOvertaking, EffectsAccounted, SameTurnNotRerun, Background, Arrived, Notices, Messages
<1>. QED  BY <1>1 DEF IntakeInv

\* Nor does its end.
LEMMA BackgroundEndsStep ==
  ASSUME IntakeInv, BackgroundEnds
  PROVE  IntakeInv'
<1>1. /\ TypeOK' /\ Phases' /\ OneChannel' /\ RecallsProcessed' /\ HeldOnce'
      /\ SettledGone' /\ NoOvertaking' /\ EffectsAccounted' /\ SameTurnNotRerun'
  BY DEF IntakeInv, TypeOK, Phases, OneChannel, RecallsProcessed, HeldOnce, SettledGone,
     NoOvertaking, EffectsAccounted, SameTurnNotRerun, BackgroundEnds, Arrived, Notices,
     Messages
<1>. QED  BY <1>1 DEF IntakeInv

\* The item taken goes to the batch or is set aside, or silences the batch.
LEMMA TakeStep ==
  ASSUME IntakeInv, NEW e \in Event, Take(e)
  PROVE  IntakeInv'
<1>1. NoOvertaking' /\ EffectsAccounted' /\ SameTurnNotRerun'
  BY DEF IntakeInv, NoOvertaking, EffectsAccounted, SameTurnNotRerun, Take
<1>2. TypeOK'
  BY TakeFacts DEF IntakeInv, TypeOK
<1>3. Phases'
  BY DEF IntakeInv, Phases, Take
<1>4. OneChannel'
  BY DEF IntakeInv, OneChannel, Take
<1>5. RecallsProcessed'
  BY DEF IntakeInv, RecallsProcessed, Take, Arrived, Notices
<1>6. HeldOnce'
  BY TakeFacts DEF IntakeInv, HeldOnce
<1>7. SettledGone'
  <2>1. /\ turn' = turn /\ effect' = effect /\ Arrived' = Arrived
        /\ processed \subseteq processed' /\ Held' \subseteq Held
    BY TakeFacts
  <2> HIDE DEF Held, Event
  <2>. QED  BY <2>1 DEF IntakeInv, SettledGone
<1>. QED  BY <1>1, <1>2, <1>3, <1>4, <1>5, <1>6, <1>7 DEF IntakeInv

\* The batch becomes the turn, without what was recalled in the meantime.
LEMMA SealStep ==
  ASSUME IntakeInv, Seal
  PROVE  IntakeInv'
<1>1. RecallsProcessed' /\ NoOvertaking' /\ EffectsAccounted' /\ SameTurnNotRerun'
  BY DEF IntakeInv, RecallsProcessed, NoOvertaking, EffectsAccounted, SameTurnNotRerun, Seal,
     Arrived, Notices
<1>2. TypeOK'
  BY DEF IntakeInv, TypeOK, Seal, Arrived
<1>3. Phases'
  BY DEF IntakeInv, Phases, Seal
<1>4. OneChannel'
  BY DEF IntakeInv, OneChannel, Seal
<1>5. HeldOnce'
  BY DEF IntakeInv, Phases, HeldOnce, Seal, Arrived, Notices, Messages
<1>6. SettledGone'
  BY DEF IntakeInv, SettledGone, Seal, Arrived
<1>. QED  BY <1>1, <1>2, <1>3, <1>4, <1>5, <1>6 DEF IntakeInv

\* The turn begins, and takes in what waits on its channel.
LEMMA BeginTurnStep ==
  ASSUME IntakeInv, BeginTurn
  PROVE  IntakeInv'
<1>1. RecallsProcessed'
  BY DEF IntakeInv, RecallsProcessed, BeginTurn, Drain, Arrived, Notices
<1>2. TypeOK'
  BY DEF IntakeInv, TypeOK, BeginTurn, Drain, Arrived
<1>3. Phases'
  BY IntakeBounds DEF IntakeInv, TypeOK, Phases, BeginTurn, Drain, Arrived
<1>4. OneChannel'
  BY DEF IntakeInv, OneChannel, BeginTurn, Drain, OfTurn
<1>5. HeldOnce'
  BY DEF IntakeInv, HeldOnce, BeginTurn, Drain, Arrived, Notices, Messages
<1>6. SettledGone'
  <2>1. Held' \subseteq Held
    BY DEF IntakeInv, TypeOK, BeginTurn, Drain, OfTurn
  <2>2. work \in SUBSET Event /\ work \subseteq Arrived
    BY IntakeBounds DEF IntakeInv, TypeOK, Arrived
  <2>3. /\ turn' = [turn EXCEPT ![work] = "running"]
        /\ Arrived' = Arrived /\ processed' = processed /\ effect' = effect
    BY DEF BeginTurn, Arrived
  <2> HIDE DEF Held, Event
  <2>. QED  BY <2>1, <2>2, <2>3 DEF IntakeInv, TypeOK, SettledGone
<1>7. NoOvertaking'
  BY DEF IntakeInv, NoOvertaking, BeginTurn, Drain, OfTurn
<1>8. EffectsAccounted'
  BY DEF IntakeInv, EffectsAccounted, BeginTurn, Drain
<1>9. SameTurnNotRerun'
  BY DEF IntakeInv, TypeOK, SettledGone, SameTurnNotRerun, BeginTurn, Drain
<1>. QED  BY <1>1, <1>2, <1>3, <1>4, <1>5, <1>6, <1>7, <1>8, <1>9 DEF IntakeInv

\* A turn interrupted after an effect is put on the list.
LEMMA BeginUncertainStep ==
  ASSUME IntakeInv, BeginUncertain
  PROVE  IntakeInv'
<1>1. OneChannel' /\ RecallsProcessed' /\ HeldOnce' /\ NoOvertaking' /\ SameTurnNotRerun'
  BY DEF IntakeInv, OneChannel, RecallsProcessed, HeldOnce, NoOvertaking, SameTurnNotRerun,
     BeginUncertain, Arrived, Notices, Messages
<1>2. TypeOK'
  BY IntakeBounds DEF IntakeInv, TypeOK, BeginUncertain, Arrived
<1>3. Phases'
  BY DEF IntakeInv, Phases, BeginUncertain
<1>4. SettledGone'
  BY DEF IntakeInv, SettledGone, BeginUncertain, Arrived
<1>5. EffectsAccounted'
  BY DEF IntakeInv, EffectsAccounted, BeginUncertain
<1>. QED  BY <1>1, <1>2, <1>3, <1>4, <1>5 DEF IntakeInv

\* A turn that fails before its first round is committed as it was sealed.
LEMMA PreparationFailsStep ==
  ASSUME IntakeInv, PreparationFails
  PROVE  IntakeInv'
<1>1. OneChannel' /\ NoOvertaking' /\ SameTurnNotRerun'
  BY DEF IntakeInv, OneChannel, NoOvertaking, SameTurnNotRerun, PreparationFails, CommitTurn,
     Finish
<1>2. TypeOK'
  BY DEF IntakeInv, TypeOK, PreparationFails, CommitTurn, Finish, Arrived
<1>3. Phases'
  BY DEF IntakeInv, Phases, PreparationFails, CommitTurn, Finish
<1>4. RecallsProcessed'
  BY DEF IntakeInv, RecallsProcessed, PreparationFails, CommitTurn, Finish, Arrived, Notices
<1>5. HeldOnce'
  BY DEF IntakeInv, HeldOnce, PreparationFails, CommitTurn, Finish, Arrived, Notices, Messages
<1>6. SettledGone'
  BY DEF IntakeInv, TypeOK, RecallsProcessed, HeldOnce, SettledGone, PreparationFails,
     CommitTurn, Finish, Arrived
<1>7. EffectsAccounted'
  BY DEF IntakeInv, EffectsAccounted, PreparationFails, CommitTurn, Finish
<1>. QED  BY <1>1, <1>2, <1>3, <1>4, <1>5, <1>6, <1>7 DEF IntakeInv

\* An effect starts in a running turn, so its row exists.
LEMMA DispatchToolStep ==
  ASSUME IntakeInv, DispatchTool
  PROVE  IntakeInv'
<1>1. /\ TypeOK' /\ Phases' /\ OneChannel' /\ RecallsProcessed' /\ HeldOnce'
      /\ NoOvertaking' /\ SameTurnNotRerun'
  BY IntakeBounds DEF IntakeInv, TypeOK, Phases, OneChannel, RecallsProcessed, HeldOnce,
     NoOvertaking, SameTurnNotRerun, DispatchTool, Arrived, Notices, Messages
<1>2. SettledGone'
  BY DEF IntakeInv, Phases, SettledGone, DispatchTool, Arrived
<1>3. EffectsAccounted'
  BY DEF IntakeInv, Phases, EffectsAccounted, DispatchTool
<1>. QED  BY <1>1, <1>2, <1>3 DEF IntakeInv

\* Updates move from the queues to the turn.
LEMMA AbsorbStep ==
  ASSUME IntakeInv, Absorb
  PROVE  IntakeInv'
<1>1. RecallsProcessed' /\ EffectsAccounted' /\ SameTurnNotRerun'
  BY DEF IntakeInv, RecallsProcessed, EffectsAccounted, SameTurnNotRerun, Absorb, Drain,
     Arrived, Notices
<1>2. TypeOK'
  BY DEF IntakeInv, TypeOK, Absorb, Drain, Arrived
<1>3. Phases'
  BY DEF IntakeInv, Phases, Absorb, Drain
<1>4. OneChannel'
  BY DEF IntakeInv, OneChannel, Absorb, Drain, OfTurn
<1>5. HeldOnce'
  BY DEF IntakeInv, HeldOnce, Absorb, Drain, Arrived, Notices, Messages
<1>6. SettledGone'
  BY DEF IntakeInv, SettledGone, Absorb, Drain, Arrived
<1>7. NoOvertaking'
  BY DEF IntakeInv, NoOvertaking, Absorb, Drain, OfTurn
<1>. QED  BY <1>1, <1>2, <1>3, <1>4, <1>5, <1>6, <1>7 DEF IntakeInv

\* What waits goes on waiting.
LEMMA ParkIncomingStep ==
  ASSUME IntakeInv, ParkIncoming
  PROVE  IntakeInv'
<1>1. /\ TypeOK' /\ Phases' /\ OneChannel' /\ RecallsProcessed' /\ HeldOnce'
      /\ SettledGone' /\ NoOvertaking' /\ EffectsAccounted' /\ SameTurnNotRerun'
  BY DEF IntakeInv, TypeOK, Phases, OneChannel, RecallsProcessed, HeldOnce, SettledGone,
     NoOvertaking, EffectsAccounted, SameTurnNotRerun, ParkIncoming, Arrived, Notices,
     Messages
<1>. QED  BY <1>1 DEF IntakeInv

\* The reconciliation list only grows.
LEMMA OpenCircuitStep ==
  ASSUME IntakeInv, OpenCircuit
  PROVE  IntakeInv'
<1>1. /\ Phases' /\ OneChannel' /\ RecallsProcessed' /\ HeldOnce' /\ SettledGone'
      /\ NoOvertaking' /\ SameTurnNotRerun'
  BY DEF IntakeInv, Phases, OneChannel, RecallsProcessed, HeldOnce, SettledGone, NoOvertaking,
     SameTurnNotRerun, OpenCircuit, Arrived, Notices, Messages
<1>2. TypeOK'
  BY DEF IntakeInv, TypeOK, OpenCircuit, Arrived
<1>3. EffectsAccounted'
  BY DEF IntakeInv, EffectsAccounted, OpenCircuit
<1>. QED  BY <1>1, <1>2, <1>3 DEF IntakeInv

\* Committing processes what the turn holds, and lets go of it.
LEMMA CommitStep ==
  ASSUME IntakeInv, Commit
  PROVE  IntakeInv'
<1>1. OneChannel' /\ NoOvertaking' /\ SameTurnNotRerun'
  BY DEF IntakeInv, OneChannel, NoOvertaking, SameTurnNotRerun, Commit, CommitTurn, Finish
<1>2. TypeOK'
  BY DEF IntakeInv, TypeOK, Commit, CommitTurn, Finish, Arrived
<1>3. Phases'
  BY DEF IntakeInv, Phases, Commit, CommitTurn, Finish
<1>4. RecallsProcessed'
  BY DEF IntakeInv, RecallsProcessed, Commit, CommitTurn, Finish, Arrived, Notices
<1>5. HeldOnce'
  BY DEF IntakeInv, HeldOnce, Commit, CommitTurn, Finish, Arrived, Notices, Messages
<1>6. SettledGone'
  BY DEF IntakeInv, TypeOK, RecallsProcessed, HeldOnce, SettledGone, Commit, CommitTurn,
     Finish, Arrived
<1>7. EffectsAccounted'
  BY DEF IntakeInv, EffectsAccounted, Commit, CommitTurn, Finish
<1>. QED  BY <1>1, <1>2, <1>3, <1>4, <1>5, <1>6, <1>7 DEF IntakeInv

\* The reconciliation is opened before the commit.
LEMMA FailUncertainStep ==
  ASSUME IntakeInv, FailUncertain
  PROVE  IntakeInv'
<1>1. /\ OneChannel' /\ RecallsProcessed' /\ HeldOnce' /\ SettledGone' /\ NoOvertaking'
      /\ SameTurnNotRerun'
  BY DEF IntakeInv, OneChannel, RecallsProcessed, HeldOnce, SettledGone, NoOvertaking,
     SameTurnNotRerun, FailUncertain, Arrived, Notices, Messages
<1>2. TypeOK'
  BY DEF IntakeInv, TypeOK, FailUncertain, Arrived
<1>3. Phases'
  BY DEF IntakeInv, Phases, FailUncertain
<1>4. EffectsAccounted'
  BY DEF IntakeInv, EffectsAccounted, FailUncertain
<1>. QED  BY <1>1, <1>2, <1>3, <1>4 DEF IntakeInv

\* The report of an uncertain turn is committed.
LEMMA SettleStep ==
  ASSUME IntakeInv, Settle
  PROVE  IntakeInv'
<1>1. OneChannel' /\ NoOvertaking' /\ SameTurnNotRerun'
  BY DEF IntakeInv, OneChannel, NoOvertaking, SameTurnNotRerun, Settle, CommitTurn, Finish
<1>2. TypeOK'
  BY DEF IntakeInv, TypeOK, Settle, CommitTurn, Finish, Arrived
<1>3. Phases'
  BY DEF IntakeInv, Phases, Settle, CommitTurn, Finish
<1>4. RecallsProcessed'
  BY DEF IntakeInv, RecallsProcessed, Settle, CommitTurn, Finish, Arrived, Notices
<1>5. HeldOnce'
  BY DEF IntakeInv, HeldOnce, Settle, CommitTurn, Finish, Arrived, Notices, Messages
<1>6. SettledGone'
  BY DEF IntakeInv, TypeOK, RecallsProcessed, HeldOnce, SettledGone, Settle, CommitTurn,
     Finish, Arrived
<1>7. EffectsAccounted'
  BY DEF IntakeInv, EffectsAccounted, Settle, CommitTurn, Finish
<1>. QED  BY <1>1, <1>2, <1>3, <1>4, <1>5, <1>6, <1>7 DEF IntakeInv

\* Cancelling processes what the turn holds, and reconciles its effect.
LEMMA CancelDeliveredStep ==
  ASSUME IntakeInv, CancelDelivered
  PROVE  IntakeInv'
<1>1. OneChannel' /\ NoOvertaking' /\ SameTurnNotRerun'
  BY DEF IntakeInv, OneChannel, NoOvertaking, SameTurnNotRerun, CancelDelivered, Finish
<1>2. TypeOK'
  BY DEF IntakeInv, TypeOK, CancelDelivered, Finish, Arrived
<1>3. Phases'
  BY DEF IntakeInv, Phases, CancelDelivered, Finish
<1>4. RecallsProcessed'
  BY DEF IntakeInv, RecallsProcessed, CancelDelivered, Finish, Arrived, Notices
<1>5. HeldOnce'
  BY DEF IntakeInv, HeldOnce, CancelDelivered, Finish, Arrived, Notices, Messages
<1>6. SettledGone'
  BY DEF IntakeInv, TypeOK, HeldOnce, SettledGone, CancelDelivered, Finish, Arrived
<1>7. EffectsAccounted'
  BY DEF IntakeInv, EffectsAccounted, CancelDelivered, Finish
<1>. QED  BY <1>1, <1>2, <1>3, <1>4, <1>5, <1>6, <1>7 DEF IntakeInv

\* The next process queues exactly the unprocessed events.
LEMMA RestartStep ==
  ASSUME IntakeInv, NEW k \in Event, Restart(k)
  PROVE  IntakeInv'
<1>1. Phases' /\ OneChannel' /\ RecallsProcessed' /\ NoOvertaking' /\ EffectsAccounted'
  BY DEF IntakeInv, Phases, OneChannel, RecallsProcessed, NoOvertaking, EffectsAccounted,
     Restart, Arrived, Notices
<1>2. TypeOK'
  <2>1. restarts' \in 0 .. MaxRestarts
    BY IntakeBounds DEF IntakeInv, TypeOK, Restart
  <2>2. redeliver' \subseteq Arrived /\ incoming' \subseteq Arrived
    BY DEF Restart, Arrived
  <2>. QED  BY <2>1, <2>2 DEF IntakeInv, TypeOK, Restart, Arrived
<1>3. HeldOnce'
  BY DEF IntakeInv, HeldOnce, Restart, Arrived, Messages
<1>4. SettledGone'
  BY DEF IntakeInv, SettledGone, Restart, Arrived
<1>5. SameTurnNotRerun'
  BY DEF IntakeInv, SameTurnNotRerun, Restart
<1>. QED  BY <1>1, <1>2, <1>3, <1>4, <1>5 DEF IntakeInv

\* The initial state satisfies the invariant: nothing has arrived.
LEMMA InitInv == Init => IntakeInv
<1>. SUFFICES ASSUME Init PROVE IntakeInv
  OBVIOUS
<1>1. TypeOK
  <2>1. /\ last \in 0 .. MaxEvents /\ restarts \in 0 .. MaxRestarts
        /\ note \in [Event -> [channel : Channels \cup {"none"}, kind : Kinds \cup {"none"}]]
    BY IntakeBounds DEF Init
  <2> HIDE DEF Event
  <2>2. turn \in [SUBSET Event ->
                   {"none", "running", "needs_reconciliation", "completed", "cancelled"}]
    BY DEF Init
  <2>3. /\ processed = {} /\ recalled = {} /\ effect = {} /\ open = {} /\ before = {}
        /\ incoming = {} /\ deferred = {} /\ batch = {} /\ work = {} /\ taken = {}
        /\ redeliver = {} /\ cancelling = FALSE /\ pc = "next"
    BY DEF Init
  <2>. QED  BY <2>1, <2>2, <2>3 DEF TypeOK
<1>2. Phases /\ OneChannel /\ RecallsProcessed /\ HeldOnce /\ SettledGone
  BY DEF Init, Phases, OneChannel, RecallsProcessed, HeldOnce, SettledGone,
         Arrived, Notices, Messages
<1>3. NoOvertaking /\ EffectsAccounted /\ SameTurnNotRerun
  BY DEF Init, NoOvertaking, EffectsAccounted, SameTurnNotRerun
<1>. QED  BY <1>1, <1>2, <1>3 DEF IntakeInv

\* Every step of the model preserves it.
LEMMA NextInv == IntakeInv /\ [Next]_vars => IntakeInv'
<1>. SUFFICES ASSUME IntakeInv, [Next]_vars PROVE IntakeInv'
  OBVIOUS
<1>1. CASE UNCHANGED vars
  BY <1>1 DEF vars, IntakeInv, TypeOK, Phases, OneChannel, RecallsProcessed, HeldOnce,
     SettledGone, NoOvertaking, EffectsAccounted, SameTurnNotRerun, Arrived, Notices, Messages
<1>2. CASE Receive
  BY <1>2, AcceptStep, StopStep, RecallStep, StopAgainStep DEF Receive
<1>3. CASE Gather
  BY <1>3, NextOwnerStep, WokenByOwnerStep, TakeStep, IdleStep, SealStep DEF Gather
<1>4. CASE RunTurn
  BY <1>4, BeginTurnStep, BeginUncertainStep, PreparationFailsStep, DispatchToolStep,
     AbsorbStep, ParkIncomingStep, OpenCircuitStep DEF RunTurn
<1>5. CASE EndTurn
  BY <1>5, CommitStep, FailUncertainStep, SettleStep, CancelDeliveredStep DEF EndTurn
<1>6. CASE Background \/ BackgroundEnds \/ \E k \in Event : Restart(k)
  BY <1>6, BackgroundStep, BackgroundEndsStep, RestartStep
<1>. QED  BY <1>1, <1>2, <1>3, <1>4, <1>5, <1>6 DEF Next

\* The invariant holds in every state the program reaches.
THEOREM IntakeInductive == Spec => []IntakeInv
<1>. QED  BY InitInv, NextInv, PTL DEF Spec

\* No accepted message is lost, held twice, or held again once it is processed, however
\* batches are sealed, cancelled, deferred, extended and interrupted by restarts.
THEOREM MessagesHeldOnce == Spec => []HeldOnce
<1>1. IntakeInv => HeldOnce
  BY DEF IntakeInv
<1>. QED  BY <1>1, IntakeInductive, PTL

\* A running turn has taken in every older message of its channel.
THEOREM TurnsDoNotOvertake == Spec => []NoOvertaking
<1>1. IntakeInv => NoOvertaking
  BY DEF IntakeInv
<1>. QED  BY <1>1, IntakeInductive, PTL

\* A cancelled or interrupted turn that had an external effect is on the owner's list.
THEOREM EffectsAreAccounted == Spec => []EffectsAccounted
<1>1. IntakeInv => EffectsAccounted
  BY DEF IntakeInv
<1>. QED  BY <1>1, IntakeInductive, PTL

\* A turn interrupted after an external effect is reported and never run again.
THEOREM UncertainTurnsStop == Spec => []SameTurnNotRerun
<1>1. IntakeInv => SameTurnNotRerun
  BY DEF IntakeInv
<1>. QED  BY <1>1, IntakeInductive, PTL

\* begin_turn never finds the turn it is given already settled: the events of a settled
\* turn are gone, so no batch can be sealed into its id.
THEOREM BatchesAreFresh == Spec => []SealedAfresh
<1>1. IntakeInv => SealedAfresh
  <2>. SUFFICES ASSUME IntakeInv, pc = "begin" PROVE turn[work] \notin {"completed", "cancelled"}
    BY DEF SealedAfresh
  <2>1. work \in SUBSET Event
    BY IntakeBounds DEF IntakeInv, TypeOK, Arrived
  <2>2. PICK e \in work : e \in taken
    BY DEF IntakeInv, TypeOK, Phases
  <2>3. e \in Held
    BY <2>2
  <2> HIDE DEF Event, Held
  <2>. QED  BY <2>1, <2>2, <2>3 DEF IntakeInv, SettledGone
<1>. QED  BY <1>1, IntakeInductive, PTL
=============================================================================
